-------------------------------- MODULE Fdisk --------------------------------
(***************************************************************************)
(* The interactive part of busybox fdisk as do_partition drives it: the    *)
(* answers of PartCmds arrive on standard input, one prompt reads one      *)
(* line, and end of input makes read_line() exit with status 0 whatever    *)
(* has been entered so far.                                                *)
(*                                                                         *)
(* Positions are whole cylinders (fdisk's display unit here).  The tracks  *)
(* that hold the extended boot records lie inside the first cylinder of a  *)
(* logical partition or the last one before it and are not modelled.       *)
(* The table is empty at the start: do_partition has just zeroed it.       *)
(***************************************************************************)
EXTENDS PartitionPlan, Sequences, FiniteSets

CONSTANTS MaxCyls,   \* devices of 1..MaxCyls cylinders
          SizeSet    \* sizes, in cylinders, the spaces may come to

ASSUME FdiskAssumption == MaxCyls \in Nat \ {0} /\ SizeSet \subseteq Nat

VARIABLES
    cyls,    \* g_cylinders
    sizes,   \* the script's *_size variables
    input,   \* lines not read yet
    prompt,  \* which question fdisk is asking
    cur,     \* the partition being created, 0 if none
    makeExt, \* TRUE while the partition being created is the extended one
    ext,     \* number of the extended partition, 0 if none
    start,   \* cylinder chosen for its start (or lowest one offered)
    parts,   \* partitions defined so far: number -> [first, last]
    written  \* TRUE once write_table() has run

vars == <<cyls, sizes, input, prompt, cur, makeExt, ext, start, parts, written>>

Primaries == 1..4
Exited    == prompt = "exit"

Init ==
    /\ cyls \in 1..MaxCyls
    /\ sizes \in [Spaces -> SizeSet]
    /\ input = PartCmds(sizes)
    /\ prompt = "command"
    /\ cur = 0 /\ ext = 0 /\ start = 0 /\ makeExt = FALSE
    /\ parts = << >>
    /\ written = FALSE

-----------------------------------------------------------------------------
(* Room for partition n.  A primary (or the extended one) may use any      *)
(* cylinder outside the other primaries, a logical one any cylinder of the *)
(* extended partition outside the other logicals.                          *)
IsLogical(n) == n > 4
Limit(n)     == IF IsLogical(n) THEN parts[ext].last ELSE cyls
Peers(n)     == {m \in DOMAIN parts : IsLogical(m) <=> IsLogical(n)}
Taken(n, c)  == \E m \in Peers(n) : c \in parts[m].first .. parts[m].last
Lowest(n)    == IF IsLogical(n) THEN parts[ext].first ELSE 1

(* Free cylinders at or after c.                                           *)
FreeFrom(n, c) == {k \in c .. Limit(n) : ~Taken(n, k)}
MinOf(S)       == CHOOSE x \in S : \A y \in S : x <= y

ReachToLimit(n, c) == Limit(n)

(* Last cylinder a partition starting at c can reach.                      *)
ReachOf(n, c) ==
    LET after == {parts[m].first : m \in {m \in Peers(n) : parts[m].first > c}}
    IN  IF after = {} THEN Limit(n) ELSE MinOf(after) - 1

FreePrimaries == Primaries \ DOMAIN parts
NextLogical   == IF \E m \in DOMAIN parts : IsLogical(m)
                 THEN 1 + CHOOSE m \in DOMAIN parts : \A k \in DOMAIN parts : k <= m
                 ELSE 5
GPartitions   == IF ext = 0 THEN 4 ELSE IF NextLogical = 5 THEN 5 ELSE NextLogical - 1

Define(n, lo, hi) ==
    [m \in DOMAIN parts \cup {n} |->
        IF m = n THEN [first |-> lo, last |-> hi] ELSE parts[m]]

-----------------------------------------------------------------------------
(* Reading a line.                                                         *)
Line == Head(input)
ReadLine == input # << >> /\ input' = Tail(input)

IsKey(k)        == Line.kind = k
IsBlank         == Line.kind = "blank"
InRange(lo, hi) == Line.kind = "num" /\ Line.val \in lo..hi

ReadsIntOrDefault(c, low, dflt, high) ==
    c \in low..high /\ c = IF InRange(low, high) THEN Line.val ELSE dflt

(* read_int(low, dflt, high) takes the line read as answer c; when there   *)
(* is no such c the question is asked again.                               *)
ReadsInt(c, low, dflt, high) ==
    c \in low..high /\ IF IsBlank THEN c = dflt ELSE InRange(c, c)
Refused(low, dflt, high) == \A c \in low..high : ~ReadsInt(c, low, dflt, high)

Ask(p)        == prompt' = p
KeepAsking    == UNCHANGED <<prompt, cur, makeExt, ext, start, parts>>
BackToCommand == /\ Ask("command") /\ cur' = 0 /\ start' = 0 /\ makeExt' = FALSE

(* add_partition(n) up to its first question: nothing is asked when n is   *)
(* defined already or no cylinder is free.                                 *)
BeginAdd(n, isExt) ==
    LET free == FreeFrom(n, Lowest(n))
    IN  /\ IF n \in DOMAIN parts \/ free = {}
           THEN BackToCommand
           ELSE Ask("first") /\ cur' = n /\ start' = MinOf(free) /\ makeExt' = isExt
        /\ UNCHANGED <<ext, parts>>

(* get_nonexisting_partition: a single free slot is taken without asking.  *)
ChooseSlot(isExt) ==
    \/ \E n \in FreePrimaries : FreePrimaries = {n} /\ BeginAdd(n, isExt)
    \/ /\ Cardinality(FreePrimaries) > 1
       /\ Ask("slot") /\ makeExt' = isExt
       /\ UNCHANGED <<cur, ext, start, parts>>

(* The end of add_partition: set_partition, and the bookkeeping for an     *)
(* extended partition.                                                     *)
FinishAdd(lo, hi) ==
    /\ parts' = Define(cur, lo, hi)
    /\ ext' = IF makeExt THEN cur ELSE ext
    /\ BackToCommand

-----------------------------------------------------------------------------
(* "Command (m for help)": n, t and w act; the other keys the script can   *)
(* leave here (p, e, b, digits, empty lines) change nothing.               *)
Command ==
    /\ prompt = "command" /\ ReadLine
    /\ \/ /\ IsKey("n") /\ FreePrimaries # {}
          /\ Ask("kind") /\ UNCHANGED <<cur, makeExt, ext, start, parts, written>>
       \/ /\ IsKey("n") /\ FreePrimaries = {} /\ ext # 0
          /\ BeginAdd(NextLogical, FALSE) /\ UNCHANGED written
       \/ /\ IsKey("t") /\ parts # << >>
          /\ Ask(IF Cardinality(DOMAIN parts) = 1 THEN "hex" ELSE "retype")
          /\ UNCHANGED <<cur, makeExt, ext, start, parts, written>>
       \/ /\ IsKey("w")
          /\ written' = TRUE /\ Ask("exit")
          /\ UNCHANGED <<cur, makeExt, ext, start, parts>>
       \/ /\ \/ Line.kind \notin {"n", "t", "w"}
             \/ IsKey("n") /\ FreePrimaries = {} /\ ext = 0
             \/ IsKey("t") /\ parts = << >>
          /\ KeepAsking /\ UNCHANGED written
    /\ UNCHANGED <<cyls, sizes>>

(* "Command action: e extended, p primary"                                 *)
Kind ==
    /\ prompt = "kind" /\ ReadLine
    /\ \/ /\ IsKey("p") \/ (IsKey("e") /\ ext = 0)
          /\ ChooseSlot(IsKey("e"))
       \/ ~IsKey("p") /\ ~(IsKey("e") /\ ext = 0) /\ KeepAsking
    /\ UNCHANGED <<cyls, sizes, written>>

(* "Partition number": no default, so an empty line is out of range.       *)
Slot ==
    /\ prompt = "slot" /\ ReadLine
    /\ \/ \E n \in Primaries : ReadsInt(n, 1, 0, 4) /\ BeginAdd(n, makeExt)
       \/ Refused(1, 0, 4) /\ KeepAsking
    /\ UNCHANGED <<cyls, sizes, written>>

(* "First cylinder": default the lowest free one.  An answer inside an     *)
(* allocated range is asked again from the next free cylinder.             *)
First ==
    /\ prompt = "first" /\ ReadLine
    /\ \/ \E c \in start .. Limit(cur) :
            /\ ReadsInt(c, start, start, Limit(cur))
            /\ \/ /\ ~Taken(cur, c) /\ ReachOf(cur, c) = c
                  /\ FinishAdd(c, c)
               \/ /\ ~Taken(cur, c) /\ ReachOf(cur, c) > c
                  /\ Ask("last") /\ start' = c
                  /\ UNCHANGED <<cur, makeExt, ext, parts>>
               \/ /\ Taken(cur, c) /\ FreeFrom(cur, c) # {}
                  /\ start' = MinOf(FreeFrom(cur, c))
                  /\ UNCHANGED <<prompt, cur, makeExt, ext, parts>>
               \/ /\ Taken(cur, c) /\ FreeFrom(cur, c) = {}
                  /\ BackToCommand /\ UNCHANGED <<ext, parts>>
       \/ Refused(start, start, Limit(cur)) /\ KeepAsking
    /\ UNCHANGED <<cyls, sizes, written>>

(* "Last cylinder": default the furthest one.                              *)
Last ==
    LET reach == ReachOf(cur, start)
    IN  /\ prompt = "last" /\ ReadLine
        /\ \/ \E c \in start..reach : ReadsInt(c, start, reach, reach) /\ FinishAdd(start, c)
           \/ Refused(start, reach, reach) /\ KeepAsking
        /\ UNCHANGED <<cyls, sizes, written>>

(* change_sysid: "Partition number", then "Hex code".                      *)
Retype ==
    /\ prompt = "retype" /\ ReadLine
    /\ prompt' = CASE ~InRange(1, GPartitions)  -> "retype"
                   [] Line.val \in DOMAIN parts -> "hex"
                   [] OTHER                     -> "command"
    /\ UNCHANGED <<cyls, sizes, cur, makeExt, ext, start, parts, written>>

(* read_hex takes the hex digits e and b and any number of two digits.     *)
Hex ==
    /\ prompt = "hex" /\ ReadLine
    /\ Ask(IF Line.kind \in {"b", "e"} \/ InRange(0, 99) THEN "command" ELSE "hex")
    /\ UNCHANGED <<cyls, sizes, cur, makeExt, ext, start, parts, written>>

EndOfInputIgnored == ~Exited /\ input = << >> /\ UNCHANGED vars

(* read_line at end of input: exit(EXIT_SUCCESS), nothing is written.      *)
EndOfInput ==
    /\ ~Exited /\ input = << >>
    /\ Ask("exit")
    /\ UNCHANGED <<cyls, sizes, input, cur, makeExt, ext, start, parts, written>>

Next == Command \/ Kind \/ Slot \/ First \/ Last \/ Retype \/ Hex \/ EndOfInput

Spec == Init /\ [][Next]_vars /\ WF_vars(Next)

-----------------------------------------------------------------------------

(* Every variable stays in its domain; a partition that is defined lies on *)
(* the device (fdisk.c 2280-2403).                                         *)
TypeOK ==
    /\ cyls \in 1..MaxCyls /\ sizes \in [Spaces -> SizeSet]
    /\ input \in Seq([kind : STRING, val : Int])
    /\ prompt \in {"command", "kind", "slot", "first", "last", "retype", "hex", "exit"}
    /\ cur \in 0..7 /\ ext \in 0..4 /\ start \in 0..cyls
    /\ makeExt \in BOOLEAN /\ written \in BOOLEAN
    /\ DOMAIN parts \subseteq 1..7
    /\ \A n \in DOMAIN parts : parts[n] \in [first : 1..cyls, last : 1..cyls]

Planned ==
    LET plan == CylinderPlan(sizes, cyls)
    IN  <<plan.p1, plan.p2, plan.p3, plan.p4, plan.p5, plan.p6, plan.p7>>

(* On a device that is large enough the answers of part_cmds lead fdisk,   *)
(* prompt by prompt and with the slot numbers it chooses by itself, to     *)
(* write exactly the partitions do_partition computed: the numbers that    *)
(* mkfs, dd and mount use later mean the areas they were meant to          *)
(* (flash.sh 181-199).                                                     *)
PlanRealised == Exited /\ Fits(sizes, cyls) => written /\ parts = Planned

(* Whatever the answers, wrong ones included, partitions never overlap:    *)
(* primaries are disjoint, logical ones are disjoint and lie inside the    *)
(* extended one (fdisk.c 2280-2403).                                       *)
Cyl(n) == parts[n].first .. parts[n].last
NoOverlap ==
    /\ \A m, n \in DOMAIN parts : m # n /\ (IsLogical(m) <=> IsLogical(n)) => Cyl(m) \cap Cyl(n) = {}
    /\ \A n \in DOMAIN parts : IsLogical(n) => ext \in DOMAIN parts /\ Cyl(n) \subseteq Cyl(ext)

(* When the plan asks for more than the device has, fdisk loses step with  *)
(* the answers and ends with status 0 all the same.  What it may have      *)
(* written then has no logical partition: the mkfs of p5 that follows is   *)
(* what stops the script (flash.sh 199-216).                               *)
TooLarge == sizes["boot"] >= 4 /\ (\A s \in Spaces : sizes[s] >= 1) /\ ~Fits(sizes, cyls)
OvercommitOutcome == Exited /\ TooLarge /\ written => DOMAIN parts \subseteq {1, 2, 4}

(* fdisk always comes to an end: no question is repeated for ever, because *)
(* the input ends (fdisk.c 538-552).                                       *)
Terminates == <>Exited
=============================================================================
