----------------------------- MODULE BootRecords -----------------------------
(***************************************************************************)
(* The boot records busybox fdisk writes for the answers of do_partition,  *)
(* sector by sector: where the record of each logical partition lies, in   *)
(* which order the records are written, and what a reader of the table     *)
(* finds when writing was cut short on a device that still holds records   *)
(* of an earlier table.                                                    *)
(*                                                                         *)
(* Module Fdisk has the dialogue in whole cylinders; here its answers are  *)
(* taken as given (PlanRealised) and the tracks between partitions, which  *)
(* it leaves out, are added.  Sectors count from 0.                        *)
(***************************************************************************)
EXTENDS PartitionPlan, Sequences, FiniteSets

CONSTANTS
    Heads,        \* g_heads
    Track,        \* g_sectors, and sector_offset in DOS compatible mode
    Cyls,         \* g_cylinders
    Layouts,      \* sizes in cylinders that the spaces may come to
    MaximumParts, \* MAXIMUM_PARTS
    MaxSessions   \* bound: runs of fdisk

Unit == Heads * Track

(* With fewer heads, or a track of one sector, the record of p6 leaves no  *)
(* room for p7 in a wowconfig of one cylinder.  An eMMC reports 4 heads of *)
(* 16 sectors.  Cylinder 1, which begins with a free track, stays outside. *)
ASSUME GeometryAssumption ==
    /\ Heads \in Nat /\ Heads > 2 /\ Track \in Nat /\ Track > 1 /\ Cyls \in Nat
    /\ \A z \in Layouts : z \in [Spaces -> Nat] /\ z["boot"] > 2 /\ Fits(z, Cyls)
    /\ MaximumParts \in Nat /\ MaximumParts > 7 /\ MaxSessions \in Nat

VARIABLES
    mbr,      \* on the device: [primary, extended] of the MBR, or NoMbr
    records,  \* on the device: boot records by sector
    layout,   \* sizes the running fdisk was asked for
    ptes,     \* its logical partitions: [at, first, last] with at the record's sector
    next,     \* how many sectors it has written
    pc,       \* "idle", "add", "write"
    outcome,  \* how the last run ended
    used,     \* layouts of all runs so far
    whole,    \* layouts some run has written completely
    sessions

vars == <<mbr, records, layout, ptes, next, pc, outcome, used, whole, sessions>>

NoMbr == [primary |-> << >>, extended |-> << >>]
NoRecords == [s \in {} |-> << >>]

-----------------------------------------------------------------------------
(* The plan in sectors; cylinders count from 1.                            *)
FirstOf(c) == (c.first - 1) * Unit
LastOf(c)  == c.last * Unit - 1
Plan(z)    == CylinderPlan(z, Cyls)
Area(c)    == [first |-> FirstOf(c), last |-> LastOf(c)]
Mbr(z) == [primary |-> <<Area(Plan(z).p1), Area(Plan(z).p2), Area(Plan(z).p4)>>,
           extended |-> Area(Plan(z).p3)]
Extended == Area(Plan(layout).p3)

(* What is asked for logical partition n: cylinders, or AUTO (0) twice.    *)
Answer(n) == CASE n = 5 -> Plan(layout).p5
               [] n = 6 -> Plan(layout).p6
               [] n = 7 -> [first |-> 0, last |-> 0]

MaxOf(a, b) == IF a > b THEN a ELSE b
MinOf(S) == CHOOSE x \in S : \A y \in S : x <= y

(* The search loop of add_partition: on from a record by a track, on from  *)
(* a partition to a track after its end.                                   *)
Bump(s) ==
    LET on == {p \in DOMAIN ptes : ptes[p].at = s}
        in == {p \in DOMAIN ptes : s \in ptes[p].first .. ptes[p].last + Track}
    IN  IF on # {} THEN s + Track
        ELSE IF in # {} THEN 1 + ptes[CHOOSE p \in in : TRUE].last + Track ELSE s
Settle[s \in Nat] == IF s > Extended.last \/ Bump(s) = s THEN s ELSE Settle[Bump(s)]

(* The lowest start offered and the one taken; fdisk would ask again for a *)
(* start that is not free.                                                 *)
Offered  == Settle[Extended.first + Track]
Taken(n) == MaxOf(Offered, IF Answer(n).first = 0 THEN 0 ELSE FirstOf(Answer(n)))

RecordUncorrected(n, start) == IF n = 5 THEN Extended.first ELSE start - Track

(* Sector of the record of partition n: the first of the extended          *)
(* partition for n = 5, a track ahead of the others, moved on by one when  *)
(* that is the first of the extended partition.                            *)
RecordOf(n, start) ==
    IF n = 5 THEN Extended.first
    ELSE IF start - Track = Extended.first THEN start - Track + 1 ELSE start - Track

(* The last sector in reach: in front of the next record or partition.     *)
Room(start) ==
    MinOf({Extended.last}
            \cup {ptes[p].first - 1 : p \in {p \in DOMAIN ptes : ptes[p].first > start}}
            \cup {ptes[p].at - 1 : p \in {p \in DOMAIN ptes : ptes[p].at > start}})

(* The answer is taken as it is; otherwise fdisk asks again or finds no    *)
(* free sectors, and loses step with its input.                            *)
InStep(start) == start <= Extended.last /\ Bump(start) = start /\ start <= Room(start)

(* add_logical, add_partition                                              *)
AddLogical ==
    /\ pc = "add" /\ Len(ptes) < 3
    /\ LET n     == 5 + Len(ptes)
           start == Taken(n)
           wish  == IF Answer(n).last = 0 THEN Extended.last ELSE LastOf(Answer(n))
       IN  /\ InStep(start)
           /\ ptes' = Append(ptes, [at |-> RecordOf(n, start), first |-> start, last |-> MinOf({wish, Room(start)})])
    /\ pc' = IF Len(ptes) = 2 THEN "write" ELSE "add"
    /\ UNCHANGED <<mbr, records, layout, next, outcome, used, whole, sessions>>

-----------------------------------------------------------------------------
NextFromOwn(k) ==
    LET e == ptes[k]
    IN  [part |-> [off |-> e.first - e.at, len |-> e.last - e.first + 1],
         link |-> IF k = Len(ptes) THEN << >>
                  ELSE [off |-> ptes[k + 1].at - e.at, len |-> ptes[k + 1].last - ptes[k + 1].at + 1]]

(* set_partition: the data partition counts from the record's own sector,  *)
(* the link to the next record from the start of the extended partition.   *)
Record(k) ==
    LET e == ptes[k]
    IN  [part |-> [off |-> e.first - e.at, len |-> e.last - e.first + 1],
         link |-> IF k = Len(ptes) THEN << >>
                  ELSE [off |-> ptes[k + 1].at - Extended.first, len |-> ptes[k + 1].last - ptes[k + 1].at + 1]]

(* The device once the writes in w have reached it: 0 is the MBR, k the    *)
(* record of the k-th logical partition.                                   *)
Apply(w) ==
    /\ mbr' = IF 0 \in w THEN Mbr(layout) ELSE mbr
    /\ records' = LET at == {ptes[k].at : k \in w \ {0}}
                  IN  [s \in DOMAIN records \cup at |->
                         IF s \in at THEN Record(CHOOSE k \in w \ {0} : ptes[k].at = s /\ \A j \in w \ {0} : ptes[j].at = s => j <= k)
                         ELSE records[s]]

Ends(how) == pc' = "idle" /\ outcome' = how /\ UNCHANGED <<layout, ptes, used, sessions>>

(* write_table: the MBR, then the records in order, into the page cache.   *)
WriteSector ==
    /\ pc = "write" /\ next <= Len(ptes) /\ next' = next + 1
    /\ UNCHANGED <<mbr, records, layout, ptes, pc, outcome, used, whole, sessions>>

(* reread_partition_table: sync, re-read, exit.                            *)
Reread ==
    /\ pc = "write" /\ next = Len(ptes) + 1 /\ Apply(0 .. next - 1)
    /\ Ends("complete") /\ whole' = whole \cup {layout} /\ UNCHANGED next

(* xwrite fails: fdisk ends, what it has written reaches the device later. *)
WriteFails == pc = "write" /\ next <= Len(ptes) /\ Apply(0 .. next - 1) /\ Ends("torn") /\ UNCHANGED <<next, whole>>

(* Power goes while fdisk writes: any of the writes may be lost.           *)
PowerLoss ==
    /\ pc \in {"add", "write"}
    /\ \E w \in SUBSET (0 .. next - 1) : Apply(w)
    /\ Ends("torn") /\ UNCHANGED <<next, whole>>

StartUncleared ==
    /\ pc = "idle" /\ sessions < MaxSessions /\ sessions' = sessions + 1
    /\ layout' \in Layouts /\ used' = used \cup {layout'}
    /\ ptes' = << >> /\ next' = 0 /\ pc' = "add" /\ outcome' = "none"
    /\ UNCHANGED <<mbr, records, whole>>

(* do_partition clears the MBR and starts fdisk, which finds no partition  *)
(* and looks at no record.                                                 *)
Start ==
    /\ pc = "idle" /\ sessions < MaxSessions /\ sessions' = sessions + 1
    /\ layout' \in Layouts /\ used' = used \cup {layout'}
    /\ mbr' = NoMbr /\ ptes' = << >> /\ next' = 0 /\ pc' = "add" /\ outcome' = "none"
    /\ UNCHANGED <<records, whole>>

-----------------------------------------------------------------------------
(* read_extended: from the extended partition on, each sector leads to the *)
(* next, as long as the chain keeps to sectors that hold a record.         *)
Places == 1 .. MaximumParts - 4
Place[k \in Places] ==
    IF k = 1 THEN mbr.extended.first
    ELSE LET s == Place[k - 1]
         IN  IF s \in DOMAIN records /\ records[s].link # << >> THEN mbr.extended.first + records[s].link.off ELSE -1
EndsAfter(m) == (\A k \in 1..m : Place[k] # -1) /\ (m + 1 \in Places => Place[m + 1] = -1)
ChainLength == CHOOSE m \in {0} \cup Places : EndsAfter(m)
Chain == IF mbr = NoMbr THEN << >> ELSE [k \in 1..ChainLength |-> Place[k]]

(* The chain came to a sector that holds no record.  fdisk parses this one *)
(* like the others: what lies there makes any entry and any link, so that  *)
(* anything may follow what Logicals lists.  get_boot misses the flag      *)
(* 0x55AA afterwards and only warns.                                       *)
Astray == \E k \in DOMAIN Chain : Chain[k] \notin DOMAIN records

(* The partitions read from records.                                       *)
Logicals == [k \in {k \in DOMAIN Chain : Chain[k] \in DOMAIN records} |->
                LET s == Chain[k]
                    p == records[s].part
                IN  [first |-> s + p.off, last |-> s + p.off + p.len - 1]]

(* External: files and file systems written to the partitions overwrite    *)
(* records that lie in one of them.  An entry that was no record may be    *)
(* anywhere.                                                               *)
Use ==
    /\ pc = "idle" /\ mbr # NoMbr
    /\ LET areas  == {mbr.primary[k] : k \in DOMAIN mbr.primary} \cup {Logicals[k] : k \in DOMAIN Logicals}
           inside == {s \in DOMAIN records : Astray \/ \E a \in areas : s \in a.first .. a.last}
       IN  \E gone \in SUBSET inside \ {{}} : records' = [s \in DOMAIN records \ gone |-> records[s]]
    /\ UNCHANGED <<mbr, layout, ptes, next, pc, outcome, used, whole, sessions>>

Init ==
    /\ mbr = NoMbr /\ records = NoRecords
    /\ layout \in Layouts /\ ptes = << >> /\ next = 0 /\ pc = "idle" /\ outcome = "none"
    /\ used = {} /\ whole = {} /\ sessions = 0

Next == Start \/ AddLogical \/ WriteSector \/ Reread \/ WriteFails \/ PowerLoss \/ Use

Spec == Init /\ [][Next]_vars

-----------------------------------------------------------------------------
(* Partitions and records stay in their domains; records lie on the device.*)
TypeOK ==
    /\ layout \in Layouts /\ used \subseteq Layouts /\ whole \subseteq used /\ sessions \in 0..MaxSessions
    /\ pc \in {"idle", "add", "write"} /\ outcome \in {"none", "complete", "torn"}
    /\ Len(ptes) <= 3 /\ \A k \in DOMAIN ptes : ptes[k] \in [at : Nat, first : Nat, last : Nat]
    /\ next \in 0..4
    /\ DOMAIN records \subseteq 0 .. Cyls * Unit - 1

(* The logical partitions of layout z: data and cache as planned, and      *)
(* wowconfig without its first track and the track in front of the cache.  *)
LogicalPlan(z) ==
    LET e == Area(Plan(z).p3)
    IN  << Area(Plan(z).p5), Area(Plan(z).p6),
           [first |-> e.first + Track, last |-> FirstOf(Plan(z).p6) - Track - 1] >>

(* fdisk finds room for all three, no record lies in a partition or on     *)
(* another record, and no two partitions share a sector: the records of p6 *)
(* and p7 lie in the cylinders that the plan gives to wowconfig (fdisk.c   *)
(* 2307-2375).                                                             *)
RecordsApart ==
    /\ pc = "add" => InStep(Taken(5 + Len(ptes)))
    /\ \A j, k \in DOMAIN ptes :
         /\ ptes[j].at \in Extended.first .. Extended.last
         /\ ptes[j].at \notin ptes[k].first .. ptes[k].last
         /\ j # k => /\ ptes[j].at # ptes[k].at
                     /\ ptes[j].last < ptes[k].first \/ ptes[k].last < ptes[j].first

(* Where layout z has the records of p5, p6 and p7.                        *)
RecordPlan(z) ==
    LET e == Area(Plan(z).p3) IN <<e.first, FirstOf(Plan(z).p6) - Track, e.first + 1>>

(* A table that was written completely is read back as it was planned, and *)
(* nothing but its records is read for it, whatever records of earlier     *)
(* tables the device still holds and whatever has been written into its    *)
(* partitions since: p5, p6 and p7 of mkfs and mount are data, cache and   *)
(* wowconfig (fdisk.c 1033-1051, 1103-1195).                               *)
ReadBack ==
    pc = "idle" /\ outcome = "complete" => Logicals = LogicalPlan(layout) /\ mbr = Mbr(layout) /\ ~Astray

(* What a torn table can show (fdisk.c 1119-1176, 2495-2505).  A partition *)
(* read from a record is one that this run or an earlier one planned under *)
(* its number.  The chain may leave the records, and then fdisk reads file *)
(* data for entries; it does so only where a run was to write the record   *)
(* of that number.  When every run had the same layout and one of them     *)
(* came to its end, it does not happen at all: an interrupted repetition   *)
(* leaves no partition or all of them.                                     *)
TornFromPlans ==
    pc = "idle" /\ outcome = "torn" =>
      /\ mbr \in {NoMbr, Mbr(layout)}
      /\ \A k \in DOMAIN Logicals : k <= 3 /\ Logicals[k] \in {LogicalPlan(z)[k] : z \in used}
      /\ Astray => /\ Len(Chain) = Len(Logicals) + 1 /\ Len(Chain) <= 3
                   /\ Chain[Len(Chain)] \in {RecordPlan(z)[Len(Chain)] : z \in used}
      /\ layout \in whole /\ used = {layout} /\ mbr # NoMbr => Logicals = LogicalPlan(layout) /\ ~Astray
=============================================================================
