--------------------------- MODULE InitProc_proofs ---------------------------
(***************************************************************************)
(* init keeps its books: for every set of inittabs, processes and signals. *)
(***************************************************************************)
EXTENDS InitProc, SequenceTheorems, FiniteSetTheorems, TLAPS

-----------------------------------------------------------------------------
(* The list.                                                               *)

(* No command is in the list twice.                                        *)
Unique(l) == \A j, k \in DOMAIN l : l[j].cmd = l[k].cmd => j = k

LEMMA RemoveAtFacts ==
    ASSUME NEW S, NEW s \in Seq(S), NEW k \in 1..Len(s)
    PROVE  /\ RemoveAt(s, k) \in Seq(S)
           /\ Len(RemoveAt(s, k)) = Len(s) - 1
           /\ \A j \in 1 .. Len(s) - 1 : RemoveAt(s, k)[j] = IF j < k THEN s[j] ELSE s[j + 1]
<1>. DEFINE a == SubSeq(s, 1, k - 1)
            b == SubSeq(s, k + 1, Len(s))
<1>1. Len(s) \in Nat /\ \A j \in 1..Len(s) : s[j] \in S
  BY LenProperties
<1>2. /\ a \in Seq(S) /\ Len(a) = k - 1
      /\ \A j \in 1 .. k - 1 : a[j] = s[j]
  BY <1>1, SubSeqProperties
<1>3. /\ b \in Seq(S) /\ Len(b) = Len(s) - k
      /\ \A j \in 1 .. Len(s) - k : b[j] = s[k + j]
  <2>1. k + 1 \in Int /\ Len(s) \in Int /\ \A j \in k + 1 .. Len(s) : s[j] \in S
    BY <1>1
  <2>2. /\ b \in Seq(S)
        /\ Len(b) = IF k + 1 <= Len(s) THEN Len(s) - (k + 1) + 1 ELSE 0
        /\ \A j \in 1 .. Len(s) - (k + 1) + 1 : b[j] = s[k + 1 + j - 1]
    BY <2>1, SubSeqProperties
  <2>. QED  BY <1>1, <2>2
<1>. HIDE DEF a, b
<1>4. RemoveAt(s, k) = a \o b
  BY DEF RemoveAt, a, b
<1>5. /\ a \o b \in Seq(S) /\ Len(a \o b) = Len(a) + Len(b)
      /\ \A j \in 1 .. Len(a) + Len(b) : (a \o b)[j] = IF j <= Len(a) THEN a[j] ELSE b[j - Len(a)]
  BY <1>2, <1>3, ConcatProperties
<1>6. ASSUME NEW j \in 1 .. Len(s) - 1 PROVE (a \o b)[j] = IF j < k THEN s[j] ELSE s[j + 1]
  <2>1. CASE j < k
    BY <1>1, <1>2, <1>3, <1>5, <2>1
  <2>2. CASE ~(j < k)
    <3>1. j - (k - 1) \in 1 .. Len(s) - k /\ k + (j - (k - 1)) = j + 1
      BY <1>1, <2>2
    <3>2. (a \o b)[j] = b[j - (k - 1)]
      BY <1>1, <1>2, <1>3, <1>5, <2>2
    <3>. QED  BY <1>3, <2>2, <3>1, <3>2
  <2>. QED  BY <2>1, <2>2
<1>. QED  BY <1>1, <1>2, <1>3, <1>4, <1>5, <1>6

(* Removing an entry keeps the others.                                     *)
LEMMA RemoveEntry ==
    ASSUME NEW l \in Seq(Entry), Unique(l), NEW k \in 1..Len(l)
    PROVE  /\ RemoveAt(l, k) \in Seq(Entry) /\ Unique(RemoveAt(l, k))
           /\ \A j \in DOMAIN RemoveAt(l, k) : \E h \in DOMAIN l : h # k /\ RemoveAt(l, k)[j] = l[h]
           /\ \A h \in DOMAIN l : h # k => \E j \in DOMAIN RemoveAt(l, k) : RemoveAt(l, k)[j] = l[h]
<1>. DEFINE m == RemoveAt(l, k)
<1>1. /\ m \in Seq(Entry) /\ Len(m) = Len(l) - 1 /\ Len(l) \in Nat
      /\ \A j \in 1 .. Len(l) - 1 : m[j] = IF j < k THEN l[j] ELSE l[j + 1]
  BY RemoveAtFacts
<1>2. DOMAIN l = 1..Len(l) /\ DOMAIN m = 1 .. Len(l) - 1
  BY <1>1
<1>. HIDE DEF m
<1>3. \A j \in DOMAIN m : \E h \in DOMAIN l : h # k /\ m[j] = l[h] /\ (h = IF j < k THEN j ELSE j + 1)
  BY <1>1, <1>2
<1>4. ASSUME NEW h \in DOMAIN l, h # k PROVE \E j \in DOMAIN m : m[j] = l[h]
  <2>1. CASE h < k
    <3>1. h \in DOMAIN m /\ m[h] = l[h]
      BY <1>1, <1>2, <2>1
    <3>. QED  BY <3>1
  <2>2. CASE h > k
    <3>1. h - 1 \in DOMAIN m /\ m[h - 1] = l[h]
      BY <1>1, <1>2, <2>2
    <3>. QED  BY <3>1
  <2>. QED  BY <1>2, <1>4, <2>1, <2>2
<1>5. Unique(m)
  <2>. SUFFICES ASSUME NEW j \in DOMAIN m, NEW n \in DOMAIN m, m[j].cmd = m[n].cmd PROVE j = n
    BY DEF Unique
  <2>1. PICK h \in DOMAIN l : m[j] = l[h] /\ (h = IF j < k THEN j ELSE j + 1)
    BY <1>3
  <2>2. PICK g \in DOMAIN l : m[n] = l[g] /\ (g = IF n < k THEN n ELSE n + 1)
    BY <1>3
  <2>3. h = g
    BY <2>1, <2>2 DEF Unique
  <2>. QED  BY <1>1, <1>2, <2>1, <2>2, <2>3
<1>. QED  BY <1>1, <1>3, <1>4, <1>5 DEF m

(* Appending an entry of a command that is not on the list.                *)
LEMMA AppendEntry ==
    ASSUME NEW l \in Seq(Entry), Unique(l), NEW e \in Entry, \A j \in DOMAIN l : l[j].cmd # e.cmd
    PROVE  /\ Append(l, e) \in Seq(Entry) /\ Unique(Append(l, e))
           /\ \A j \in DOMAIN Append(l, e) : Append(l, e)[j] = e \/ \E h \in DOMAIN l : h = j /\ Append(l, e)[j] = l[h]
           /\ \A h \in DOMAIN l : h \in DOMAIN Append(l, e) /\ Append(l, e)[h] = l[h]
           /\ \E j \in DOMAIN Append(l, e) : Append(l, e)[j] = e /\ \A h \in DOMAIN l : h < j
           /\ \A j \in DOMAIN Append(l, e) : Append(l, e)[j] = e => \A h \in DOMAIN Append(l, e) : h <= j
<1>. DEFINE a == Append(l, e)
<1>1. /\ a \in Seq(Entry) /\ Len(l) \in Nat /\ DOMAIN l = 1..Len(l) /\ DOMAIN a = 1 .. Len(l) + 1
      /\ a[Len(l) + 1] = e /\ \A j \in 1..Len(l) : a[j] = l[j]
  OBVIOUS
<1>. HIDE DEF a
<1>2. Unique(a)
  BY <1>1 DEF Unique
<1>3. \E j \in DOMAIN a : a[j] = e /\ \A h \in DOMAIN l : h < j
  BY <1>1
<1>4. \A j \in DOMAIN a : a[j] = e \/ \E h \in DOMAIN l : h = j /\ a[j] = l[h]
  BY <1>1
<1>5. \A j \in DOMAIN a : a[j] = e => \A h \in DOMAIN a : h <= j
  <2>1. \A j \in DOMAIN a : a[j] = e => j = Len(l) + 1
    BY <1>1
  <2>. QED  BY <1>1, <2>1
<1>. QED  BY <1>1, <1>2, <1>3, <1>4, <1>5 DEF a

(* The entry of a command, when there is one.                              *)
LEMMA FirstSame ==
    ASSUME NEW l \in Seq(Entry), Unique(l), NEW new, Same(l, new) # {}
    PROVE  LET k == First(Same(l, new))
           IN  k \in 1..Len(l) /\ l[k].cmd = new.cmd /\ l[k] \in Entry /\ \A h \in DOMAIN l : h # k => l[h].cmd # new.cmd
<1>. DEFINE k == First(Same(l, new))
<1>0. Len(l) \in Nat /\ DOMAIN l = 1..Len(l) /\ \A h \in DOMAIN l : l[h] \in Entry
  BY LenProperties, ElementOfSeq
<1>1. PICK x \in Same(l, new) : TRUE
  OBVIOUS
<1>2. \A j \in Same(l, new) : j = x /\ x <= j
  BY <1>0, <1>1 DEF Unique, Same
<1>3. k = CHOOSE m \in Same(l, new) : \A j \in Same(l, new) : m <= j
  BY DEF First
<1>4. k \in Same(l, new)
  BY <1>1, <1>2, <1>3
<1>. HIDE DEF k
<1>5. k \in 1..Len(l) /\ l[k].cmd = new.cmd /\ l[k] \in Entry /\ \A h \in DOMAIN l : h # k => l[h].cmd # new.cmd
  BY <1>0, <1>4 DEF Unique, Same
<1>. QED  BY <1>5 DEF k

(* A line read moves the entry of its command to the end, with its pid, or *)
(* adds one.                                                               *)
LEMMA NewEntry ==
    ASSUME NEW l \in Seq(Entry), Unique(l), NEW new \in Line
    PROVE  \E c \in Seq(Entry), e \in Entry :
             /\ Unique(c) /\ new_init_action(l, new) = Append(c, e)
             /\ e.cmd = new.cmd /\ e.type = new.type /\ (\A j \in DOMAIN c : c[j].cmd # e.cmd)
             /\ \/ Same(l, new) = {} /\ c = l /\ e.pid = 0
                \/ /\ Same(l, new) # {} /\ c = RemoveAt(l, First(Same(l, new)))
                   /\ e.pid = l[First(Same(l, new))].pid
<1>1. CASE Same(l, new) = {}
  <2>1. Fresh(new) \in Entry /\ Fresh(new).cmd = new.cmd /\ Fresh(new).type = new.type /\ Fresh(new).pid = 0
    BY DEF Line, Entry, Fresh
  <2>2. \A j \in DOMAIN l : l[j].cmd # new.cmd
    BY <1>1 DEF Same
  <2>3. new_init_action(l, new) = Append(l, Fresh(new))
    BY <1>1 DEF new_init_action
  <2>. QED  BY <1>1, <2>1, <2>2, <2>3
<1>2. CASE Same(l, new) # {}
  <2>. DEFINE k == First(Same(l, new))
              e == [l[k] EXCEPT !.type = new.type]
              c == RemoveAt(l, k)
  <2>1. new_init_action(l, new) = Append(c, e)
    BY <1>2 DEF new_init_action
  <2>2. k \in 1..Len(l) /\ l[k].cmd = new.cmd /\ l[k] \in Entry /\ \A h \in DOMAIN l : h # k => l[h].cmd # new.cmd
    BY <1>2, FirstSame
  <2>3. e \in Entry /\ e.cmd = new.cmd /\ e.type = new.type /\ e.pid = l[k].pid
    <3>. HIDE DEF k
    <3>. QED  BY <2>2 DEF Line, Entry
  <2>4. c \in Seq(Entry) /\ Unique(c) /\ \A j \in DOMAIN c : c[j].cmd # new.cmd
    <3>. HIDE DEF k
    <3>1. c \in Seq(Entry) /\ Unique(c) /\ \A j \in DOMAIN c : \E h \in DOMAIN l : h # k /\ c[j] = l[h]
      BY <2>2, RemoveEntry
    <3>. QED  BY <2>2, <3>1
  <2>. HIDE DEF e, c
  <2>5. c = RemoveAt(l, k)
    BY DEF c
  <2>. QED  BY <1>2, <2>1, <2>3, <2>4, <2>5
<1>. QED  BY <1>1, <1>2

-----------------------------------------------------------------------------
(* What a step may do to the list, to the lines still to be read and to    *)
(* the processes.                                                          *)
ProcType == [state : {"free", "alive", "zombie"}, cmd : Commands \cup {"daemon"}]

SameLines ==
    /\ list' \in Seq(Entry) /\ DOMAIN list' = DOMAIN list
    /\ \A k \in DOMAIN list : list'[k].cmd = list[k].cmd /\ list'[k].type = list[k].type

(* What is off the list stays off it until a handler takes over for good.  *)
Aside ==
    /\ moving' = moving \/ (moving' = <<>> /\ down' # "no")
    /\ pc = "record" => pc' = "record" \/ down' # "no"
    /\ pc' = "record" => pc = "record" /\ i' = i /\ target' = target

Reaps(p) ==
    /\ SameLines /\ rest' = rest /\ Aside
    /\ \A k \in DOMAIN list : list'[k].pid = IF Holds(list, k, p) THEN 0 ELSE list[k].pid
    /\ \A q \in Pids : proc'[q] = IF q = p THEN Unused ELSE proc[q]
    /\ missed \subseteq missed' /\ (Unlisted(p) => p \in missed')

Starts(p) ==
    /\ pc = "run" /\ i \in DOMAIN list /\ list[i].type \in want /\ (list[i].type \in Kept => list[i].pid = 0)
    /\ list' = list /\ rest' = rest /\ moving' = moving /\ missed' = missed
    /\ down' = down /\ want' = want /\ errors' = errors /\ ran' = ran
    /\ \A q \in Pids : proc'[q] = IF q = p THEN [state |-> "alive", cmd |-> list[i].cmd] ELSE proc[q]
    /\ IF list[i].type = "once" THEN pc' = pc /\ target' = target /\ i' = i + 1
       ELSE pc' = (IF list[i].type \in Kept THEN "record" ELSE "wait") /\ target' = p /\ i' = i

Fails ==
    /\ pc = "run" /\ i \in DOMAIN list /\ (list[i].type \in Kept => list[i].pid = 0)
    /\ SameLines /\ rest' = rest /\ proc' = proc /\ errors > 0 /\ errors' = errors - 1
    /\ moving' = moving /\ missed' = missed
    /\ \A k \in DOMAIN list : list'[k].pid = IF k = i /\ list[i].type \in Kept THEN -1 ELSE list[k].pid
    /\ pc' = pc /\ target' = target /\ i' = i + 1 /\ down' = down /\ want' = want /\ ran' = ran

Records ==
    /\ pc = "record" /\ pc' = "run" /\ i \in DOMAIN list
    /\ SameLines /\ rest' = rest /\ proc' = proc /\ moving' = moving /\ missed' = missed
    /\ \A k \in DOMAIN list : list'[k].pid = IF k = i THEN target ELSE list[k].pid

Disables ==
    /\ pc = "disable" /\ pc' = "parse" /\ moving' = moving /\ missed' = missed
    /\ list' \in Seq(Entry) /\ DOMAIN list' = DOMAIN list /\ rest' = file /\ proc' = proc
    /\ \A k \in DOMAIN list : list'[k].cmd = list[k].cmd /\ list'[k].pid = list[k].pid /\ list'[k].type = "stale"

Reads ==
    /\ rest # <<>> /\ list' = new_init_action(list, Head(rest)) /\ rest' = Tail(rest)
    /\ proc' = proc /\ pc = "boot" /\ pc' = pc /\ moving' = moving /\ missed' = missed

Unlinks ==
    /\ rest # <<>> /\ moving = <<>> /\ Same(list, Head(rest)) # {}
    /\ list' = RemoveAt(list, First(Same(list, Head(rest)))) /\ moving' = <<list[First(Same(list, Head(rest)))]>>
    /\ rest' = rest /\ proc' = proc /\ pc = "parse" /\ pc' = pc /\ missed' = missed

Relinked == IF moving = <<>> THEN Fresh(Head(rest)) ELSE [moving[1] EXCEPT !.type = Head(rest).type]
Relinks ==
    /\ rest # <<>> /\ (moving = <<>> => Same(list, Head(rest)) = {})
    /\ list' = Append(list, Relinked) /\ moving' = <<>>
    /\ rest' = Tail(rest) /\ proc' = proc /\ pc = "parse" /\ pc' = pc /\ missed' = missed

Removes ==
    /\ i \in DOMAIN list /\ list[i].type \in {"stale", "sysinit"} /\ list' = RemoveAt(list, i)
    /\ rest' = rest /\ proc' = proc /\ pc = "remove" /\ pc' = pc /\ moving' = moving /\ missed' = missed

Ends ==
    /\ list' = list /\ rest' = rest /\ Aside /\ missed' = missed
    /\ \E D \in SUBSET Unassigned : \A q \in Pids :
         IF q \in D THEN proc'[q] = [state |-> "alive", cmd |-> "daemon"]
         ELSE /\ proc'[q].cmd = proc[q].cmd
              /\ proc'[q].state = proc[q].state \/ (q \in Alive /\ proc'[q].state = "zombie")

Restarts ==
    /\ list' = <<>> /\ rest' = file /\ proc' = proc /\ pc = "last" /\ pc' = "boot"
    /\ moving' = moving /\ missed' = {}

Calm == list' = list /\ rest' = rest /\ proc' = proc /\ Aside /\ missed' = missed

(* A new_init_action that handlers may interrupt has an entry off the list *)
(* only until it has put it back.                                          *)
MovingInv == moving # <<>> =>
    /\ pc = "parse" /\ down = "no" /\ rest # <<>>
    /\ moving[1].cmd = Head(rest).cmd /\ Same(list, Head(rest)) = {}

LEMMA FunSeq ==
    ASSUME NEW S, NEW n \in Nat, NEW f \in [1..n -> S] PROVE f \in Seq(S) /\ Len(f) = n
BY SeqDef, LenProperties

LEMMA ListFacts ==
    ASSUME TypeOK
    PROVE  /\ Len(list) \in Nat /\ DOMAIN list = 1..Len(list)
           /\ \A k \in DOMAIN list : list[k] \in Entry
           /\ i \in Nat \ {0}
BY LenProperties, ElementOfSeq DEF TypeOK

LEMMA ReapLines ==
    ASSUME TypeOK, NEW p \in Zombies, Reap(p)
    PROVE  SameLines /\ \A k \in DOMAIN list : list'[k].pid = IF Holds(list, k, p) THEN 0 ELSE list[k].pid
<1>1. Len(list) \in Nat /\ DOMAIN list = 1..Len(list) /\ \A k \in DOMAIN list : list[k] \in Entry
  BY ListFacts
<1>2. list' = [k \in DOMAIN list |-> IF Holds(list, k, p) THEN [list[k] EXCEPT !.pid = 0] ELSE list[k]]
  BY DEF Reap, mark_terminated
<1>3. ASSUME NEW k \in DOMAIN list
      PROVE  /\ list'[k] \in Entry /\ list'[k].cmd = list[k].cmd /\ list'[k].type = list[k].type
             /\ list'[k].pid = IF Holds(list, k, p) THEN 0 ELSE list[k].pid
  <2>1. list'[k] = IF Holds(list, k, p) THEN [list[k] EXCEPT !.pid = 0] ELSE list[k]
    BY <1>2
  <2>2. list[k] \in Entry
    BY <1>1
  <2>. QED  BY <2>1, <2>2 DEF Entry
<1>4. list' \in [1..Len(list) -> Entry]
  BY <1>1, <1>2, <1>3
<1>5. list' \in Seq(Entry) /\ DOMAIN list' = DOMAIN list
  BY <1>1, <1>4, FunSeq
<1>. QED  BY <1>3, <1>5 DEF SameLines

LEMMA ReapIs ==
    ASSUME TypeOK, NEW p \in Zombies, Reap(p), rest' = rest, Aside, missed \subseteq missed', Unlisted(p) => p \in missed'
    PROVE  Reaps(p)
<1>1. \A q \in Pids : proc'[q] = IF q = p THEN Unused ELSE proc[q]
  BY DEF Reap, TypeOK
<1>. QED  BY <1>1, ReapLines DEF Reaps

(* A child that the main thread waits for is not off the list.             *)
LEMMA MainReap ==
    ASSUME TypeOK, MovingInv, NEW p \in Zombies, Reap(p), UNCHANGED <<rest, moving, missed>>,
           pc \notin {"record", "parse"}, pc' # "record"
    PROVE  Reaps(p)
<1>1. Aside
  BY DEF Aside
<1>2. ~Unlisted(p)
  BY DEF Unlisted, MovingInv
<1>. QED  BY <1>1, <1>2, ReapIs

LEMMA StopReapIs ==
    ASSUME TypeOK, StopReap PROVE SameLines /\ \E p \in Zombies : Reaps(p)
<1>1. PICK p \in Zombies : Reap(p) /\ missed' = missed \cup {q \in {p} : Unlisted(q)}
  BY DEF StopReap
<1>2. UNCHANGED <<rest, moving, pc, i, target>>
  BY DEF StopReap, control
<1>3. Reaps(p)
  BY <1>1, <1>2, ReapIs DEF Aside
<1>. QED  BY <1>3 DEF Reaps

(* The entry run_actions is at, given another pid.                         *)
LEMMA NewPidIn ==
    ASSUME TypeOK, NEW k \in DOMAIN list, NEW p \in Pids \cup {0, -1}
    PROVE  LET m == [list EXCEPT ![k].pid = p]
           IN  /\ m \in Seq(Entry) /\ DOMAIN m = DOMAIN list
               /\ \A j \in DOMAIN list : /\ m[j].cmd = list[j].cmd /\ m[j].type = list[j].type
                                         /\ m[j].pid = IF j = k THEN p ELSE list[j].pid
<1>1. Len(list) \in Nat /\ DOMAIN list = 1..Len(list) /\ \A j \in DOMAIN list : list[j] \in Entry /\ list \in Seq(Entry)
  BY ListFacts DEF TypeOK
<1>. DEFINE e == [list[k] EXCEPT !.pid = p]
            m == [list EXCEPT ![k] = e]
<1>2. e \in Entry /\ e.cmd = list[k].cmd /\ e.type = list[k].type /\ e.pid = p
  BY <1>1 DEF Entry
<1>3. [list EXCEPT ![k].pid = p] = m
  OBVIOUS
<1>. HIDE DEF e
<1>4. m \in Seq(Entry) /\ DOMAIN m = DOMAIN list /\ \A j \in DOMAIN list : m[j] = IF j = k THEN e ELSE list[j]
  BY <1>1, <1>2, ExceptSeq
<1>. QED  BY <1>2, <1>3, <1>4

LEMMA NewPidFree == Unassigned # {} => NewPid \in Unassigned
BY DEF NewPid

LEMMA RunEntryIs ==
    ASSUME TypeOK, RunEntry
    PROVE  \/ /\ Calm /\ pc' = "run" /\ i' = i + 1 /\ UNCHANGED <<target, errors, want, down, ran>>
              /\ i \in DOMAIN list /\ (list[i].type \notin want \/ list[i].type \in Kept)
           \/ \E p \in Unassigned : Starts(p)
           \/ Fails
<1>1. Len(list) \in Nat /\ DOMAIN list = 1..Len(list) /\ i \in Nat \ {0}
  BY ListFacts
<1>2. pc = "run" /\ i \in DOMAIN list /\ UNCHANGED <<want, down, ran, rest, moving, missed>>
  BY <1>1 DEF RunEntry, Keep
<1>. DEFINE due == list[i].type \in want /\ (list[i].type \in Kept => list[i].pid = 0)
<1>3. CASE ~due /\ i' = i + 1 /\ UNCHANGED <<list, proc, pc, target, errors>>
  BY <1>2, <1>3 DEF Calm, Aside
<1>4. CASE /\ due /\ Unassigned # {} /\ proc' = Started(list[i].cmd) /\ UNCHANGED <<list, errors>>
           /\ IF list[i].type = "once" THEN i' = i + 1 /\ UNCHANGED <<pc, target>>
              ELSE pc' = (IF list[i].type \in Kept THEN "record" ELSE "wait") /\ target' = NewPid /\ UNCHANGED i
  <2>. DEFINE p == NewPid
  <2>1. p \in Unassigned
    BY <1>4, NewPidFree
  <2>2. p \in Pids
    BY <2>1 DEF Unassigned, Free
  <2>3. \A q \in Pids : proc'[q] = IF q = p THEN [state |-> "alive", cmd |-> list[i].cmd] ELSE proc[q]
    BY <1>4, <2>2 DEF Started, TypeOK
  <2>4. Starts(p)
    BY <1>2, <1>4, <2>3 DEF Starts
  <2>. QED  BY <2>1, <2>4
<1>5. CASE /\ due /\ errors > 0 /\ errors' = errors - 1
           /\ list' = (IF list[i].type \in Kept THEN [list EXCEPT ![i].pid = -1] ELSE list)
           /\ i' = i + 1 /\ UNCHANGED <<proc, pc, target>>
  <2>1. SameLines /\ \A k \in DOMAIN list : list'[k].pid = IF k = i /\ list[i].type \in Kept THEN -1 ELSE list[k].pid
    <3>. DEFINE p == -1
    <3>1. p \in Pids \cup {0, -1} /\ list' = IF list[i].type \in Kept THEN [list EXCEPT ![i].pid = p] ELSE list
      BY <1>5
    <3>. SUFFICES SameLines /\ \A k \in DOMAIN list : list'[k].pid = IF k = i /\ list[i].type \in Kept THEN p ELSE list[k].pid
      OBVIOUS
    <3>. HIDE DEF p
    <3>2. CASE list[i].type \in Kept
      <4>. DEFINE m == [list EXCEPT ![i].pid = p]
      <4>1. /\ m \in Seq(Entry) /\ DOMAIN m = DOMAIN list
            /\ \A j \in DOMAIN list : /\ m[j].cmd = list[j].cmd /\ m[j].type = list[j].type
                                      /\ m[j].pid = IF j = i THEN p ELSE list[j].pid
        BY <1>2, <3>1, NewPidIn
      <4>2. list' = m
        BY <3>1, <3>2
      <4>. HIDE DEF m
      <4>. QED  BY <3>2, <4>1, <4>2 DEF SameLines
    <3>3. CASE list[i].type \notin Kept
      BY <3>1, <3>3 DEF SameLines, TypeOK
    <3>. QED  BY <3>2, <3>3
  <2>. QED  BY <1>2, <1>5, <2>1 DEF Fails
<1>. QED  BY <1>3, <1>4, <1>5 DEF RunEntry

LEMMA DisableIs ==
    ASSUME TypeOK, Disable PROVE Disables
<1>1. Len(list) \in Nat /\ DOMAIN list = 1..Len(list) /\ \A k \in DOMAIN list : list[k] \in Entry
  BY ListFacts
<1>2. /\ list' = [k \in DOMAIN list |-> [list[k] EXCEPT !.type = "stale"]] /\ rest' = file /\ proc' = proc
      /\ pc = "disable" /\ pc' = "parse" /\ UNCHANGED <<moving, missed>>
  BY DEF Disable, Keep
<1>3. ASSUME NEW k \in DOMAIN list
      PROVE  list'[k] \in Entry /\ list'[k].cmd = list[k].cmd /\ list'[k].pid = list[k].pid /\ list'[k].type = "stale"
  BY <1>1, <1>2 DEF Entry, Types
<1>4. list' \in [1..Len(list) -> Entry]
  BY <1>1, <1>2, <1>3
<1>. QED  BY <1>1, <1>2, <1>3, <1>4, FunSeq DEF Disables

LEMMA RecordIs ==
    ASSUME TypeOK, i \in DOMAIN list, Record PROVE Records
<1>0. list' = [list EXCEPT ![i].pid = target] /\ target \in Pids \cup {0, -1}
  BY DEF Record, TypeOK
<1>1. /\ list' \in Seq(Entry) /\ DOMAIN list' = DOMAIN list
      /\ \A k \in DOMAIN list : /\ list'[k].cmd = list[k].cmd /\ list'[k].type = list[k].type
                                 /\ list'[k].pid = IF k = i THEN target ELSE list[k].pid
  BY <1>0, NewPidIn
<1>2. pc = "record" /\ pc' = "run" /\ UNCHANGED <<rest, proc, moving, missed>>
  BY DEF Record, Keep
<1>. QED  BY <1>1, <1>2 DEF Records, SameLines

LEMMA ParseIs ==
    ASSUME TypeOK, MovingInv, Unlink \/ Parse PROVE Calm \/ Unlinks \/ Relinks
<1>1. CASE Unlink
  BY <1>1 DEF Unlink, Unlinks, control
<1>2. CASE Parse /\ rest = <<>>
  <2>1. moving = <<>> /\ moving' = <<>>
    BY <1>2 DEF MovingInv, Parse
  <2>. QED  BY <1>2, <2>1 DEF Parse, Calm, Aside
<1>3. CASE Parse /\ rest # <<>>
  BY <1>3 DEF Parse, Relinks, Relinked
<1>. QED  BY <1>1, <1>2, <1>3

LEMMA EndsPlainly ==
    ASSUME list' = list, rest' = rest, Aside, missed' = missed,
           \A q \in Pids : /\ proc'[q].cmd = proc[q].cmd
                           /\ proc'[q].state = proc[q].state \/ (q \in Alive /\ proc'[q].state = "zombie")
    PROVE  Ends
<1>1. {} \in SUBSET Unassigned
  OBVIOUS
<1>2. \A q \in Pids : IF q \in {} THEN proc'[q] = [state |-> "alive", cmd |-> "daemon"]
                      ELSE /\ proc'[q].cmd = proc[q].cmd
                           /\ proc'[q].state = proc[q].state \/ (q \in Alive /\ proc'[q].state = "zombie")
  OBVIOUS
<1>. QED  BY <1>1, <1>2, Zenon DEF Ends

LEMMA ExitIs ==
    ASSUME TypeOK, NEW p \in Pids, Exit(p) PROVE Ends /\ p \in Alive
<1>1. list' = list /\ rest' = rest /\ p \in Alive /\ Aside /\ missed' = missed
  BY DEF Exit, Aside, control
<1>. DEFINE ended == [proc EXCEPT ![p].state = "zombie"]
<1>2. /\ \A q \in Pids : ended[q].cmd = proc[q].cmd /\ (q # p => ended[q] = proc[q])
      /\ ended[p].state = "zombie" /\ DOMAIN ended = Pids
  BY DEF TypeOK
<1>. HIDE DEF ended
<1>3. CASE proc' = ended
  <2>1. \A q \in Pids : proc'[q].cmd = proc[q].cmd /\ (proc'[q].state = proc[q].state \/ (q \in Alive /\ proc'[q].state = "zombie"))
    BY <1>1, <1>2, <1>3
  <2>. QED  BY <1>1, <2>1, EndsPlainly
<1>4. CASE Unassigned # {} /\ proc' = [ended EXCEPT ![NewPid] = [state |-> "alive", cmd |-> "daemon"]]
  <2>. DEFINE d == NewPid
  <2>1. d \in Unassigned
    BY <1>4, NewPidFree
  <2>. HIDE DEF d
  <2>2. d \in Pids /\ {d} \in SUBSET Unassigned
    BY <2>1 DEF Unassigned, Free
  <2>3. \A q \in Pids : proc'[q] = IF q = d THEN [state |-> "alive", cmd |-> "daemon"] ELSE ended[q]
    BY <1>2, <1>4, <2>2 DEF d
  <2>4. \A q \in Pids : IF q \in {d} THEN proc'[q] = [state |-> "alive", cmd |-> "daemon"]
                        ELSE /\ proc'[q].cmd = proc[q].cmd
                             /\ proc'[q].state = proc[q].state \/ (q \in Alive /\ proc'[q].state = "zombie")
    BY <1>1, <1>2, <2>3
  <2>. QED  BY <1>1, <2>2, <2>4 DEF Ends
<1>. QED  BY <1>1, <1>3, <1>4 DEF Exit, ended

LEMMA KillIs ==
    ASSUME TypeOK, KillAll PROVE Ends
<1>1. list' = list /\ rest' = rest /\ Aside /\ missed' = missed
  BY DEF KillAll, Aside, Keep
<1>2. PICK dead \in SUBSET Alive :
        proc' = [q \in Pids |-> IF q \in dead THEN [proc[q] EXCEPT !.state = "zombie"] ELSE proc[q]]
  BY DEF KillAll
<1>3. \A q \in Pids : proc'[q].cmd = proc[q].cmd /\ (proc'[q].state = proc[q].state \/ (q \in Alive /\ proc'[q].state = "zombie"))
  BY <1>2 DEF TypeOK
<1>. QED  BY <1>1, <1>3, EndsPlainly

LEMMA GoOnTo ==
    ASSUME TypeOK, GoOn PROVE pc' \in {"check", "run", "reap"}
<1>0. pc = "check" /\ point \in 1..5
  BY DEF GoOn, TypeOK
<1>1. CASE point = 1  BY <1>1 DEF GoOn, Call
<1>2. CASE point = 2  BY <1>2 DEF GoOn, Call
<1>3. CASE point = 3  BY <1>3 DEF GoOn, Call
<1>4. CASE point = 4  BY <1>0, <1>4 DEF GoOn
<1>5. CASE point = 5  BY <1>5 DEF GoOn
<1>. QED  BY <1>0, <1>1, <1>2, <1>3, <1>4, <1>5

LEMMA Moves ==
    ASSUME TypeOK, MovingInv, pc = "record" => i \in DOMAIN list, [Next]_vars
    PROVE  \/ Calm \/ (\E p \in Zombies : Reaps(p)) \/ (\E p \in Unassigned : Starts(p)) \/ Fails \/ Records
           \/ Disables \/ Reads \/ Unlinks \/ Relinks \/ Removes \/ Ends \/ Restarts
<1>. DEFINE M == \/ Calm \/ (\E p \in Zombies : Reaps(p)) \/ (\E p \in Unassigned : Starts(p)) \/ Fails \/ Records
                 \/ Disables \/ Reads \/ Unlinks \/ Relinks \/ Removes \/ Ends \/ Restarts
<1>1. CASE Boot
  BY <1>1 DEF Boot, Reads, Calm, Aside, Keep, Call
<1>2. CASE RunEntry
  BY <1>2, RunEntryIs
<1>3. CASE RunDone
  BY <1>3 DEF RunDone, Calm, Aside, Keep, control
<1>4. CASE WaitCall
  <2>1. CASE \E p \in Zombies : Reap(p)
    BY <1>4, <2>1, MainReap DEF WaitCall, Keep
  <2>. QED  BY <1>4, <2>1 DEF WaitCall, Calm, Aside, Keep, control
<1>5. CASE WaitReturns
  BY <1>5, MainReap DEF WaitReturns, Keep
<1>6. CASE Probe
  BY <1>6 DEF Probe, Calm, Aside, Keep, control
<1>7. CASE ReadSignal
  BY <1>7 DEF ReadSignal, Calm, Aside, Keep, control
<1>8. CASE ActOnSignal
  BY <1>8 DEF ActOnSignal, Calm, Aside, Keep, Call
<1>9. CASE GoOn
  <2>1. pc' # "record" /\ pc = "check" /\ UNCHANGED <<list, rest, proc, moving, missed>>
    BY <1>9, GoOnTo DEF GoOn, Keep
  <2>. QED  BY <2>1 DEF Calm, Aside
<1>10. CASE ReapCall
  <2>1. CASE \E p \in Zombies : Reap(p)
    BY <1>10, <2>1, MainReap DEF ReapCall, Keep
  <2>. QED  BY <1>10, <2>1 DEF ReapCall, Calm, Aside, Keep, control
<1>11. CASE ReapReturns
  BY <1>11, MainReap DEF ReapReturns, Keep
<1>12. CASE Disable
  BY <1>12, DisableIs
<1>13. CASE Parse
  BY <1>13, ParseIs
<1>26. CASE Record
  BY <1>26, RecordIs DEF Record
<1>27. CASE Unlink
  BY <1>27, ParseIs
<1>14. CASE RemoveStale
  BY <1>14, ListFacts DEF RemoveStale, Removes, Calm, Aside, Keep
<1>15. CASE KillAll
  BY <1>15, KillIs
<1>16. CASE LowLevelReboot
  BY <1>16 DEF LowLevelReboot, Calm, Aside, Keep, control
<1>17. CASE ReExec
  BY <1>17 DEF ReExec, Restarts, Calm, Aside
<1>18. CASE StopReap
  BY <1>18, StopReapIs
<1>19. CASE Continue
  BY <1>19 DEF Continue, Calm, Aside, Interrupted
<1>20. CASE Stop
  BY <1>20 DEF Stop, Calm, Aside, Keep, control
<1>21. CASE Restart
  BY <1>21 DEF Restart, Calm, Aside, Call
<1>22. ASSUME NEW s \in {"HUP", "INT"}, Delayed(s) PROVE M
  BY <1>22 DEF Delayed, Calm, Aside, Interrupted
<1>23. ASSUME NEW s \in {"TERM", "USR1", "USR2"}, Halt(s) PROVE M
  BY <1>23 DEF Halt, Calm, Aside, Call
<1>24. ASSUME NEW p \in Pids, Exit(p) PROVE M
  BY <1>24, ExitIs
<1>25. CASE UNCHANGED vars
  BY <1>25 DEF vars, control, Calm, Aside
<1>. QED
  BY <1>1, <1>2, <1>3, <1>4, <1>5, <1>6, <1>7, <1>8, <1>9, <1>10, <1>11, <1>12, <1>13, <1>14, <1>15, <1>16, <1>17, <1>18, <1>19, <1>20, <1>21, <1>22, <1>23, <1>24, <1>25, <1>26, <1>27 DEF Next, InitStep

LEMMA ProcFun ==
    ASSUME TypeOK, [Next]_vars PROVE proc' \in [Pids -> ProcType]
<1>. USE DEF ProcType
<1>0. proc \in [Pids -> ProcType] /\ Unused \in ProcType
  BY DEF TypeOK, Unused
<1>90. ASSUME NEW p \in Zombies, Reap(p) PROVE proc' \in [Pids -> ProcType]
  <2>1. proc' = [proc EXCEPT ![p] = Unused]
    BY <1>90 DEF Reap
  <2>. QED  BY <1>0, <2>1
<1>1. CASE Boot
  BY <1>0, <1>1 DEF Boot
<1>2. CASE RunEntry
  <2>1. list[i] \in Entry
    BY <1>2, ListFacts DEF RunEntry
  <2>2. proc' = proc \/ proc' = [proc EXCEPT ![NewPid] = [state |-> "alive", cmd |-> list[i].cmd]]
    BY <1>2 DEF RunEntry, Started
  <2>3. [state |-> "alive", cmd |-> list[i].cmd] \in ProcType
    BY <2>1 DEF Entry
  <2>. QED  BY <1>0, <2>2, <2>3
<1>3. CASE RunDone
  BY <1>0, <1>3 DEF RunDone
<1>4. CASE WaitCall
  BY <1>0, <1>4, <1>90 DEF WaitCall
<1>5. CASE WaitReturns
  BY <1>0, <1>5, <1>90 DEF WaitReturns
<1>6. CASE Probe
  BY <1>0, <1>6 DEF Probe
<1>7. CASE ReadSignal
  BY <1>0, <1>7 DEF ReadSignal
<1>8. CASE ActOnSignal
  BY <1>0, <1>8 DEF ActOnSignal
<1>9. CASE GoOn
  BY <1>0, <1>9 DEF GoOn
<1>10. CASE ReapCall
  BY <1>0, <1>10, <1>90 DEF ReapCall
<1>11. CASE ReapReturns
  BY <1>0, <1>11, <1>90 DEF ReapReturns
<1>12. CASE Disable
  BY <1>0, <1>12 DEF Disable
<1>13. CASE Parse
  BY <1>0, <1>13 DEF Parse
<1>26. CASE Record
  BY <1>0, <1>26 DEF Record
<1>27. CASE Unlink
  BY <1>0, <1>27 DEF Unlink
<1>14. CASE RemoveStale
  BY <1>0, <1>14 DEF RemoveStale
<1>15. CASE KillAll
  <2>1. PICK dead \in SUBSET Alive :
          proc' = [q \in Pids |-> IF q \in dead THEN [proc[q] EXCEPT !.state = "zombie"] ELSE proc[q]]
    BY <1>15 DEF KillAll
  <2>. QED  BY <1>0, <2>1
<1>16. CASE LowLevelReboot
  BY <1>0, <1>16 DEF LowLevelReboot
<1>17. CASE ReExec
  BY <1>0, <1>17 DEF ReExec
<1>18. CASE StopReap
  BY <1>0, <1>18, <1>90 DEF StopReap
<1>19. CASE Continue
  BY <1>0, <1>19 DEF Continue
<1>20. CASE Stop
  BY <1>0, <1>20 DEF Stop
<1>21. CASE Restart
  BY <1>0, <1>21 DEF Restart
<1>22. ASSUME NEW s \in {"HUP", "INT"}, Delayed(s) PROVE proc' \in [Pids -> ProcType]
  BY <1>0, <1>22 DEF Delayed
<1>23. ASSUME NEW s \in {"TERM", "USR1", "USR2"}, Halt(s) PROVE proc' \in [Pids -> ProcType]
  BY <1>0, <1>23 DEF Halt
<1>24. ASSUME NEW p \in Pids, Exit(p) PROVE proc' \in [Pids -> ProcType]
  <2>. DEFINE ended == [proc EXCEPT ![p].state = "zombie"]
  <2>1. ended \in [Pids -> ProcType]
    BY <1>0
  <2>2. proc' = ended \/ proc' = [ended EXCEPT ![NewPid] = [state |-> "alive", cmd |-> "daemon"]]
    BY <1>24 DEF Exit
  <2>. HIDE DEF ended
  <2>. QED  BY <2>1, <2>2
<1>25. CASE UNCHANGED vars
  BY <1>0, <1>25 DEF vars
<1>. QED
  BY <1>1, <1>2, <1>3, <1>4, <1>5, <1>6, <1>7, <1>8, <1>9, <1>10, <1>11, <1>12, <1>13, <1>14, <1>15, <1>16, <1>17, <1>18, <1>19, <1>20, <1>21, <1>22, <1>23, <1>24, <1>25, <1>26, <1>27 DEF Next, InitStep

-----------------------------------------------------------------------------
(* No command twice, and no type that no inittab gives it.                 *)
Given(c, t) == \E tab \in Inittabs : \E l \in Lines(tab) : l.cmd = c /\ l.type = t

ListInv ==
    /\ Unique(list)
    /\ \A k \in DOMAIN list : list[k].type # "stale" => Given(list[k].cmd, list[k].type)
    /\ \A k \in DOMAIN rest : Given(rest[k].cmd, rest[k].type)

LEMMA OnlyGiven ==
    ASSUME NEW c, NEW t, NEW types, Given(c, t), c \in Only(types) PROVE t \in types
BY DEF Given, Only

LEMMA TabLines ==
    ASSUME NEW tab \in Inittabs
    PROVE  tab \in Seq(Line) /\ \A k \in DOMAIN tab : Given(tab[k].cmd, tab[k].type)
BY InitAssumption DEF Given, Lines

LEMMA RestFacts ==
    ASSUME TypeOK, ListInv, rest # <<>>
    PROVE  /\ Head(rest) \in Line /\ Tail(rest) \in Seq(Line)
           /\ Given(Head(rest).cmd, Head(rest).type)
           /\ \A k \in DOMAIN Tail(rest) : k + 1 \in DOMAIN rest /\ Tail(rest)[k] = rest[k + 1]
           /\ \A k \in DOMAIN rest : rest[k] = Head(rest) \/ \E j \in DOMAIN Tail(rest) : Tail(rest)[j] = rest[k]
<1>1. rest \in Seq(Line)
  BY DEF TypeOK
<1>2. Len(rest) \in Nat \ {0} /\ DOMAIN rest = 1..Len(rest) /\ Head(rest) = rest[1]
  BY <1>1, EmptySeq, LenProperties
<1>3. /\ Head(rest) \in Line /\ Tail(rest) \in Seq(Line) /\ Len(Tail(rest)) = Len(rest) - 1
      /\ \A k \in 1..Len(Tail(rest)) : Tail(rest)[k] = rest[k + 1]
  BY <1>1, HeadTailProperties
<1>4. DOMAIN Tail(rest) = 1 .. Len(rest) - 1
  BY <1>3
<1>5. Given(Head(rest).cmd, Head(rest).type)
  BY <1>2 DEF ListInv
<1>6. \A k \in DOMAIN Tail(rest) : k + 1 \in DOMAIN rest /\ Tail(rest)[k] = rest[k + 1]
  BY <1>2, <1>3, <1>4
<1>7. ASSUME NEW k \in DOMAIN rest, k # 1 PROVE \E j \in DOMAIN Tail(rest) : Tail(rest)[j] = rest[k]
  <2>1. k - 1 \in DOMAIN Tail(rest) /\ k - 1 + 1 = k
    BY <1>2, <1>4, <1>7
  <2>. QED  BY <1>6, <2>1
<1>. QED  BY <1>2, <1>3, <1>5, <1>6, <1>7

LEMMA RelinkedIs ==
    ASSUME TypeOK, ListInv, MovingInv, Relinks
    PROVE  /\ Relinked \in Entry /\ Relinked.cmd = Head(rest).cmd /\ Relinked.type = Head(rest).type
           /\ Relinked.pid = IF moving = <<>> THEN 0 ELSE moving[1].pid
           /\ \A j \in DOMAIN list : list[j].cmd # Head(rest).cmd
<1>1. rest # <<>> /\ Head(rest) \in Line /\ Same(list, Head(rest)) = {}
  BY RestFacts DEF Relinks, MovingInv
<1>2. CASE moving = <<>>
  BY <1>1, <1>2 DEF Relinked, Fresh, Line, Entry, Same
<1>3. CASE moving # <<>>
  <2>1. moving[1] \in Entry /\ moving[1].cmd = Head(rest).cmd
    BY <1>3 DEF TypeOK, MovingInv
  <2>2. Relinked = [moving[1] EXCEPT !.type = Head(rest).type]
    BY <1>3 DEF Relinked
  <2>3. Relinked \in Entry /\ Relinked.cmd = Head(rest).cmd /\ Relinked.type = Head(rest).type /\ Relinked.pid = moving[1].pid
    BY <1>1, <2>1, <2>2 DEF Line, Entry
  <2>. QED  BY <1>1, <1>3, <2>3 DEF Same
<1>. QED  BY <1>2, <1>3

LEMMA MissedIn ==
    ASSUME TypeOK, [Next]_vars PROVE missed' \subseteq Pids
<1>1. missed \subseteq Pids
  BY DEF TypeOK
<1>2. CASE StopReap
  <2>1. PICK p \in Zombies : missed' = missed \cup {q \in {p} : Unlisted(q)}
    BY <1>2 DEF StopReap
  <2>. QED  BY <1>1, <2>1 DEF Zombies
<1>3. CASE ReExec
  BY <1>1, <1>3 DEF ReExec
<1>4. CASE Boot \/ RunEntry \/ Record \/ RunDone \/ WaitCall \/ WaitReturns \/ Probe \/ ReadSignal \/ ActOnSignal \/ GoOn \/ ReapCall
           \/ ReapReturns \/ Disable \/ RemoveStale \/ KillAll \/ LowLevelReboot
  <2>1. Keep
    BY <1>4 DEF Boot, RunEntry, Record, RunDone, WaitCall, WaitReturns, Probe, ReadSignal, ActOnSignal, GoOn, ReapCall,
                ReapReturns, Disable, RemoveStale, KillAll, LowLevelReboot
  <2>. QED  BY <1>1, <2>1 DEF Keep
<1>5. CASE Unlink \/ Parse \/ Continue \/ Stop \/ Restart \/ UNCHANGED vars
  BY <1>1, <1>5 DEF Unlink, Parse, Continue, Stop, Restart, vars
<1>6. ASSUME NEW s \in {"HUP", "INT"}, Delayed(s) PROVE missed' \subseteq Pids
  BY <1>1, <1>6 DEF Delayed
<1>7. ASSUME NEW s \in {"TERM", "USR1", "USR2"}, Halt(s) PROVE missed' \subseteq Pids
  BY <1>1, <1>7 DEF Halt
<1>8. ASSUME NEW p \in Pids, Exit(p) PROVE missed' \subseteq Pids
  BY <1>1, <1>8 DEF Exit
<1>. QED  BY <1>2, <1>3, <1>4, <1>5, <1>6, <1>7, <1>8 DEF Next, InitStep

LEMMA ListNext ==
    ASSUME TypeOK, ListInv, MovingInv, pc = "record" => i \in DOMAIN list, [Next]_vars
    PROVE  /\ ListInv' /\ list' \in Seq(Entry) /\ rest' \in Seq(Line)
           /\ moving' \in {<<>>} \cup {<<e>> : e \in Entry} /\ missed' \subseteq Pids
<1>0. list \in Seq(Entry) /\ rest \in Seq(Line) /\ file \in Inittabs
  BY DEF TypeOK
<1>1. ASSUME SameLines, rest' = rest PROVE ListInv' /\ list' \in Seq(Entry) /\ rest' \in Seq(Line)
  BY <1>0, <1>1 DEF SameLines, ListInv, Unique
<1>2. ASSUME Calm \/ Ends PROVE ListInv' /\ list' \in Seq(Entry) /\ rest' \in Seq(Line)
  BY <1>0, <1>2 DEF Calm, Ends, ListInv, Unique
<1>3. ASSUME NEW p, Reaps(p) PROVE ListInv' /\ list' \in Seq(Entry) /\ rest' \in Seq(Line)
  BY <1>1, <1>3 DEF Reaps
<1>9. ASSUME NEW p, Starts(p) PROVE ListInv' /\ list' \in Seq(Entry) /\ rest' \in Seq(Line)
  BY <1>0, <1>9 DEF Starts, ListInv, Unique
<1>10. ASSUME Records PROVE ListInv' /\ list' \in Seq(Entry) /\ rest' \in Seq(Line)
  BY <1>1, <1>10 DEF Records
<1>4. ASSUME Fails PROVE ListInv' /\ list' \in Seq(Entry) /\ rest' \in Seq(Line)
  BY <1>1, <1>4 DEF Fails
<1>5. ASSUME Disables PROVE ListInv' /\ list' \in Seq(Entry) /\ rest' \in Seq(Line)
  BY <1>0, <1>5, TabLines DEF Disables, ListInv, Unique
<1>a. ASSUME NEW c \in Seq(Entry), NEW e \in Entry, Unique(c), \A j \in DOMAIN c : c[j].cmd # e.cmd,
             \A j \in DOMAIN c : \E h \in DOMAIN list : c[j] = list[h],
             rest # <<>>, e.cmd = Head(rest).cmd, e.type = Head(rest).type,
             list' = Append(c, e), rest' = Tail(rest)
      PROVE  ListInv' /\ list' \in Seq(Entry) /\ rest' \in Seq(Line)
  <2>1. /\ list' \in Seq(Entry) /\ Unique(list')
        /\ \A j \in DOMAIN list' : list'[j] = e \/ \E h \in DOMAIN c : h = j /\ list'[j] = c[h]
    BY <1>a, AppendEntry
  <2>2. /\ Tail(rest) \in Seq(Line) /\ Given(e.cmd, e.type)
        /\ \A k \in DOMAIN Tail(rest) : k + 1 \in DOMAIN rest /\ Tail(rest)[k] = rest[k + 1]
    BY <1>a, RestFacts
  <2>3. \A j \in DOMAIN list' : list'[j].type # "stale" => Given(list'[j].cmd, list'[j].type)
    BY <1>a, <2>1, <2>2 DEF ListInv
  <2>4. \A k \in DOMAIN Tail(rest) : Given(Tail(rest)[k].cmd, Tail(rest)[k].type)
    BY <2>2 DEF ListInv
  <2>. QED  BY <1>a, <2>1, <2>2, <2>3, <2>4 DEF ListInv
<1>6. ASSUME Reads PROVE ListInv' /\ list' \in Seq(Entry) /\ rest' \in Seq(Line)
  <2>0. rest # <<>> /\ Unique(list) /\ Head(rest) \in Line
    BY <1>6, RestFacts DEF Reads, ListInv
  <2>1. PICK c \in Seq(Entry), e \in Entry :
             /\ Unique(c) /\ new_init_action(list, Head(rest)) = Append(c, e)
             /\ e.cmd = Head(rest).cmd /\ e.type = Head(rest).type /\ (\A j \in DOMAIN c : c[j].cmd # e.cmd)
             /\ \/ Same(list, Head(rest)) = {} /\ c = list /\ e.pid = 0
                \/ /\ Same(list, Head(rest)) # {} /\ c = RemoveAt(list, First(Same(list, Head(rest))))
                   /\ e.pid = list[First(Same(list, Head(rest)))].pid
    BY <1>0, <2>0, NewEntry
  <2>2. \A j \in DOMAIN c : \E h \in DOMAIN list : c[j] = list[h]
    <3>1. CASE c = list
      BY <3>1
    <3>2. CASE Same(list, Head(rest)) # {} /\ c = RemoveAt(list, First(Same(list, Head(rest))))
      BY <1>0, <2>0, <3>2, FirstSame, RemoveEntry
    <3>. QED  BY <2>1, <3>1, <3>2
  <2>. QED  BY <1>6, <1>a, <2>0, <2>1, <2>2 DEF Reads
<1>11. ASSUME Unlinks PROVE ListInv' /\ list' \in Seq(Entry) /\ rest' \in Seq(Line)
  <2>. DEFINE k == First(Same(list, Head(rest)))
              m == RemoveAt(list, k)
  <2>1. list' = m /\ rest' = rest /\ Unique(list) /\ k \in 1..Len(list)
    BY <1>0, <1>11, FirstSame DEF Unlinks, ListInv
  <2>2. m \in Seq(Entry) /\ Unique(m) /\ \A j \in DOMAIN m : \E h \in DOMAIN list : m[j] = list[h]
    <3>. HIDE DEF k
    <3>. QED  BY <1>0, <2>1, RemoveEntry
  <2>. HIDE DEF m
  <2>. QED  BY <1>0, <2>1, <2>2 DEF ListInv
<1>12. ASSUME Relinks PROVE ListInv' /\ list' \in Seq(Entry) /\ rest' \in Seq(Line)
  <2>1. rest # <<>> /\ list' = Append(list, Relinked) /\ rest' = Tail(rest) /\ Unique(list)
    BY <1>12 DEF Relinks, ListInv
  <2>2. Relinked \in Entry /\ Relinked.cmd = Head(rest).cmd /\ Relinked.type = Head(rest).type /\ \A j \in DOMAIN list : list[j].cmd # Head(rest).cmd
    BY <1>12, RelinkedIs
  <2>. QED  BY <1>0, <1>a, <2>1, <2>2
<1>7. ASSUME Removes PROVE ListInv' /\ list' \in Seq(Entry) /\ rest' \in Seq(Line)
  <2>. DEFINE m == RemoveAt(list, i)
  <2>1. list' = m /\ rest' = rest /\ Unique(list) /\ i \in 1..Len(list)
    BY <1>7, ListFacts DEF Removes, ListInv
  <2>2. m \in Seq(Entry) /\ Unique(m) /\ \A j \in DOMAIN m : \E h \in DOMAIN list : m[j] = list[h]
    BY <1>0, <2>1, RemoveEntry
  <2>. HIDE DEF m
  <2>. QED  BY <1>0, <2>1, <2>2 DEF ListInv
<1>8. ASSUME Restarts PROVE ListInv' /\ list' \in Seq(Entry) /\ rest' \in Seq(Line)
  <2>1. list' = <<>> /\ rest' = file /\ DOMAIN list' = {}
    BY <1>8 DEF Restarts
  <2>. QED  BY <1>0, <2>1, TabLines DEF ListInv, Unique
<1>13. ListInv' /\ list' \in Seq(Entry) /\ rest' \in Seq(Line)
  BY <1>2, <1>3, <1>4, <1>5, <1>6, <1>7, <1>8, <1>9, <1>10, <1>11, <1>12, Moves
<1>14. moving' \in {<<>>} \cup {<<e>> : e \in Entry}
  <2>0. moving \in {<<>>} \cup {<<e>> : e \in Entry}
    BY DEF TypeOK
  <2>1. moving' = moving \/ moving' = <<>> \/ Unlinks
    BY Moves DEF Calm, Aside, Reaps, Starts, Fails, Records, Disables, Reads, Relinks, Removes, Ends, Restarts
  <2>2. CASE Unlinks
    BY <1>0, <2>2, FirstSame DEF Unlinks, ListInv
  <2>. QED  BY <2>0, <2>1, <2>2
<1>15. missed' \subseteq Pids
  BY MissedIn
<1>. QED  BY <1>13, <1>14, <1>15

-----------------------------------------------------------------------------
(* Where init is.                                                          *)
Waiting == {"wait", "waiting", "probe"}
Ending  == {"term", "kill", "last", "off"}

ControlInv ==
    /\ down # "no" => want = {"shutdown"} /\ pc \in {"run"} \cup Waiting \cup Ending /\ ~stopped
    /\ down = "no" => want # {"shutdown"} /\ pc \notin Ending
    /\ want \in {{}, {"sysinit"}, {"wait"}, {"once"}, Kept, {"ctrlaltdel"}, {"shutdown"}}
    /\ pc \in Waiting \cup {"record"} <=> target # 0
    /\ pc \in Waiting \cup {"record"} => i \in DOMAIN list /\ list[i].type \in want
    /\ pc = "record" => want = Kept

LEMMA MovingNext ==
    ASSUME TypeOK, ListInv, MovingInv, ControlInv, [Next]_vars PROVE MovingInv'
<1>0. ASSUME moving' = <<>> PROVE MovingInv'
  BY <1>0 DEF MovingInv
<1>a. ASSUME pc # "parse", moving' = moving PROVE MovingInv'
  BY <1>a DEF MovingInv
<1>b. ASSUME UNCHANGED <<pc, down, rest, moving>>, SameLines PROVE MovingInv'
  <2>1. \A new : Same(list', new) = Same(list, new)
    BY <1>b DEF SameLines, Same
  <2>. QED  BY <1>b, <2>1 DEF MovingInv
<1>c. list' = list => SameLines
  BY DEF SameLines, TypeOK
<1>1. CASE Boot \/ RunEntry \/ Record \/ RunDone \/ WaitCall \/ WaitReturns \/ Probe \/ ReadSignal \/ ActOnSignal \/ GoOn \/ ReapCall
           \/ ReapReturns \/ Disable \/ RemoveStale \/ KillAll \/ LowLevelReboot \/ ReExec
  <2>1. pc # "parse"
    BY <1>1 DEF Boot, RunEntry, Record, RunDone, WaitCall, WaitReturns, Probe, ReadSignal, ActOnSignal, GoOn, ReapCall,
                ReapReturns, Disable, RemoveStale, KillAll, LowLevelReboot, ReExec
  <2>2. moving' = moving
    BY <1>1 DEF Boot, RunEntry, Record, RunDone, WaitCall, WaitReturns, Probe, ReadSignal, ActOnSignal, GoOn, ReapCall,
                ReapReturns, Disable, RemoveStale, KillAll, LowLevelReboot, ReExec, Keep
  <2>. QED  BY <1>a, <2>1, <2>2
<1>2. CASE Unlink
  <2>. DEFINE k == First(Same(list, Head(rest)))
              m == RemoveAt(list, k)
  <2>1. /\ list' = m /\ UNCHANGED <<rest, pc, down>> /\ pc = "parse" /\ rest # <<>> /\ moving' = <<list[k]>>
        /\ Same(list, Head(rest)) # {} /\ list \in Seq(Entry) /\ Unique(list)
    BY <1>2 DEF Unlink, control, TypeOK, ListInv
  <2>2. k \in 1..Len(list) /\ list[k].cmd = Head(rest).cmd /\ \A h \in DOMAIN list : h # k => list[h].cmd # Head(rest).cmd
    BY <2>1, FirstSame
  <2>3. down = "no"
    BY <2>1 DEF ControlInv, Waiting, Ending
  <2>4. \A j \in DOMAIN m : m[j].cmd # Head(rest).cmd
    <3>. HIDE DEF k
    <3>1. \A j \in DOMAIN m : \E h \in DOMAIN list : h # k /\ m[j] = list[h]
      BY <2>1, <2>2, RemoveEntry
    <3>. QED  BY <2>2, <3>1
  <2>. HIDE DEF k, m
  <2>5. Same(list', Head(rest')) = {}
    BY <2>1, <2>4 DEF Same
  <2>. QED  BY <2>1, <2>2, <2>3, <2>5 DEF MovingInv
<1>3. CASE Parse
  BY <1>3, <1>0 DEF Parse
<1>4. CASE StopReap
  <2>1. UNCHANGED <<pc, down, rest, moving, i, target>>
    BY <1>4 DEF StopReap, control
  <2>3. SameLines
    BY <1>4, StopReapIs
  <2>. QED  BY <1>b, <2>1, <2>3
<1>5. CASE Continue
  <2>1. UNCHANGED <<down, rest, moving, list>> /\ (pc' = pc \/ pc # "parse")
    BY <1>5 DEF Continue, Interrupted
  <2>. QED  BY <1>a, <1>b, <1>c, <2>1
<1>6. CASE Stop \/ UNCHANGED vars
  BY <1>6, <1>b, <1>c DEF Stop, control, vars
<1>7. CASE Restart
  BY <1>7, <1>0, <1>b, <1>c DEF Restart
<1>8. ASSUME NEW s \in {"HUP", "INT"}, Delayed(s) PROVE MovingInv'
  <2>1. UNCHANGED <<down, rest, moving, list>> /\ (pc' = pc \/ pc # "parse")
    BY <1>8 DEF Delayed, Interrupted
  <2>. QED  BY <1>a, <1>b, <1>c, <2>1
<1>9. ASSUME NEW s \in {"TERM", "USR1", "USR2"}, Halt(s) PROVE MovingInv'
  BY <1>9, <1>0 DEF Halt
<1>10. ASSUME NEW p \in Pids, Exit(p) PROVE MovingInv'
  BY <1>10, <1>b, <1>c DEF Exit, control
<1>. QED  BY <1>1, <1>2, <1>3, <1>4, <1>5, <1>6, <1>7, <1>8, <1>9, <1>10 DEF Next, InitStep

(* Steps that stay in waitfor, and those that have nothing to do with it.  *)
LEMMA ControlNext ==
    ASSUME TypeOK, ControlInv, [Next]_vars PROVE ControlInv'
<1>. USE DEF Waiting, Ending
<1>. DEFINE Elsewhere == {"boot", "check", "clear", "reap", "asleep", "disable", "parse", "remove"}
            Reaped == DOMAIN list' = DOMAIN list /\ \A k \in DOMAIN list : list'[k].type = list[k].type
<1>90. (list' = list \/ \E p \in Zombies : Reap(p)) => Reaped
  <2>1. CASE list' = list
    BY <2>1
  <2>2. ASSUME NEW p \in Zombies, Reap(p) PROVE Reaped
    <3>1. list' = [k \in DOMAIN list |-> IF Holds(list, k, p) THEN [list[k] EXCEPT !.pid = 0] ELSE list[k]]
      BY <2>2 DEF Reap, mark_terminated
    <3>2. \A k \in DOMAIN list : list[k] \in Entry
      BY ListFacts
    <3>. QED  BY <3>1, <3>2 DEF Entry
  <2>. QED  BY <2>1, <2>2
<1>1. CASE Boot
  <2>1. /\ UNCHANGED <<down, stopped, target>> /\ pc \in Elsewhere
        /\ (pc' \in Elsewhere /\ want' = want) \/ (pc' = "run" /\ want' = {"sysinit"})
    BY <1>1 DEF Boot, Call, Keep
  <2>. QED  BY <2>1 DEF ControlInv
<1>2. CASE RunEntry
  <2>1. UNCHANGED <<want, down, stopped>> /\ Awake /\ pc = "run" /\ target = 0
    BY <1>2 DEF RunEntry, Keep, ControlInv
  <2>2. CASE Calm /\ pc' = "run" /\ UNCHANGED target
    BY <2>1, <2>2 DEF ControlInv
  <2>3. ASSUME NEW p \in Unassigned, Starts(p) PROVE ControlInv'
    <3>1. p # 0
      BY InitAssumption DEF Unassigned, Free
    <3>0. list' = list /\ i \in DOMAIN list /\ list[i].type \in want
      BY <2>3 DEF Starts
    <3>2. CASE list[i].type = "once"
      <4>1. pc' = "run" /\ target' = 0
        BY <2>1, <2>3, <3>2 DEF Starts
      <4>. QED  BY <2>1, <4>1 DEF ControlInv
    <3>3. CASE list[i].type \in Kept
      <4>1. pc' = "record" /\ target' = p /\ i' = i
        BY <2>3, <3>3 DEF Starts, Kept
      <4>2. want = Kept
        BY <3>0, <3>3 DEF ControlInv, Kept
      <4>3. down = "no"
        BY <4>2 DEF ControlInv, Kept
      <4>. QED  BY <2>1, <3>0, <3>1, <4>1, <4>2, <4>3 DEF ControlInv
    <3>4. CASE list[i].type \notin Kept \cup {"once"}
      <4>1. pc' = "wait" /\ target' = p /\ i' = i
        BY <2>3, <3>4 DEF Starts
      <4>. QED  BY <2>1, <3>0, <3>1, <4>1 DEF ControlInv
    <3>. QED  BY <3>2, <3>3, <3>4
  <2>4. CASE Fails
    BY <2>1, <2>4 DEF Fails, ControlInv
  <2>. QED  BY <1>2, <2>2, <2>3, <2>4, RunEntryIs
<1>3. CASE RunDone
  <2>1. UNCHANGED <<want, down, stopped, target>> /\ pc = "run" /\ pc' = IF want = {"shutdown"} THEN "term" ELSE "check"
    BY <1>3 DEF RunDone, Keep
  <2>. QED  BY <2>1 DEF ControlInv
<1>4. CASE WaitCall
  <2>1. UNCHANGED <<want, down, stopped, target, i>> /\ pc \in {"wait", "waiting"} /\ pc' \in {"waiting", "probe"}
    BY <1>4 DEF WaitCall, Keep
  <2>2. Reaped
    BY <1>4, <1>90 DEF WaitCall
  <2>. QED  BY <2>1, <2>2 DEF ControlInv
<1>5. CASE WaitReturns
  <2>1. UNCHANGED <<want, down, stopped, target, i>> /\ pc \in {"wait", "waiting"} /\ pc' \in {"waiting", "probe"}
    BY <1>5 DEF WaitReturns, Keep
  <2>2. Reaped
    BY <1>5, <1>90 DEF WaitReturns
  <2>. QED  BY <2>1, <2>2 DEF ControlInv
<1>6. CASE Probe
  <2>1. /\ UNCHANGED <<want, down, stopped, list>> /\ pc = "probe"
        /\ (pc' = "run" /\ target' = 0) \/ (pc' = "wait" /\ UNCHANGED <<target, i>>)
    BY <1>6 DEF Probe, Keep
  <2>. QED  BY <2>1 DEF ControlInv
<1>7. CASE ReadSignal
  <2>1. /\ UNCHANGED <<down, stopped, target>> /\ pc \in Elsewhere /\ pc' \in Elsewhere
        /\ want' = want
    BY <1>7 DEF ReadSignal, Keep
  <2>. QED  BY <2>1 DEF ControlInv
<1>8. CASE ActOnSignal
  <2>1. /\ UNCHANGED <<down, stopped, target>> /\ pc \in Elsewhere
        /\ (pc' \in Elsewhere /\ want' = want) \/ (pc' = "run" /\ want' = {"ctrlaltdel"})
    BY <1>8 DEF ActOnSignal, Call, Keep
  <2>. QED  BY <2>1 DEF ControlInv
<1>9. CASE GoOn
  <2>1. /\ UNCHANGED <<down, stopped, target>> /\ pc \in Elsewhere /\ point \in 1..5
        /\ (pc' \in Elsewhere /\ want' = want) \/ (pc' = "run" /\ want' \in {{"wait"}, {"once"}, Kept})
    <3>1. UNCHANGED <<down, stopped, target>> /\ pc = "check" /\ point \in 1..5
      BY <1>9 DEF GoOn, Keep, TypeOK
    <3>2. \/ pc' = "run" /\ want' = {"wait"}
          \/ pc' = "run" /\ want' = {"once"}
          \/ pc' = "run" /\ want' = Kept
          \/ pc' = pc /\ want' = want
          \/ pc' = "reap" /\ want' = want
      <4>1. CASE point = 1  BY <1>9, <4>1 DEF GoOn, Call
      <4>2. CASE point = 2  BY <1>9, <4>2 DEF GoOn, Call
      <4>3. CASE point = 3  BY <1>9, <4>3 DEF GoOn, Call
      <4>4. CASE point = 4  BY <1>9, <4>4 DEF GoOn
      <4>5. CASE point = 5  BY <1>9, <4>5 DEF GoOn
      <4>. QED  BY <3>1, <4>1, <4>2, <4>3, <4>4, <4>5
    <3>. QED  BY <3>1, <3>2
  <2>. QED  BY <2>1 DEF ControlInv, Kept
<1>10. CASE ReapCall
  <2>1. /\ UNCHANGED <<down, stopped, target>> /\ pc \in Elsewhere /\ pc' \in Elsewhere
        /\ want' = want
    BY <1>10 DEF ReapCall, Keep
  <2>. QED  BY <2>1 DEF ControlInv
<1>11. CASE ReapReturns
  <2>1. /\ UNCHANGED <<down, stopped, target>> /\ pc \in Elsewhere /\ pc' \in Elsewhere
        /\ want' = want
    BY <1>11 DEF ReapReturns, Keep
  <2>. QED  BY <2>1 DEF ControlInv
<1>12. CASE Disable
  <2>1. /\ UNCHANGED <<down, stopped, target>> /\ pc \in Elsewhere /\ pc' \in Elsewhere
        /\ want' = want
    BY <1>12 DEF Disable, Keep
  <2>. QED  BY <2>1 DEF ControlInv
<1>13. CASE Parse
  <2>1. /\ UNCHANGED <<down, stopped, target>> /\ pc \in Elsewhere /\ pc' \in Elsewhere
        /\ want' = want
    BY <1>13 DEF Parse
  <2>. QED  BY <2>1 DEF ControlInv
<1>26. CASE Record
  <2>1. UNCHANGED <<want, down, stopped>> /\ pc = "record" /\ pc' = "run" /\ target' = 0
    BY <1>26 DEF Record, Keep
  <2>. QED  BY <2>1 DEF ControlInv
<1>27. CASE Unlink
  <2>1. UNCHANGED <<pc, want, down, stopped, target>> /\ pc = "parse"
    BY <1>27 DEF Unlink, control
  <2>. QED  BY <2>1 DEF ControlInv
<1>14. CASE RemoveStale
  <2>1. /\ UNCHANGED <<down, stopped, target>> /\ pc \in Elsewhere /\ pc' \in Elsewhere
        /\ want' = want
    BY <1>14 DEF RemoveStale, Keep
  <2>. QED  BY <2>1 DEF ControlInv
<1>15. CASE KillAll
  <2>1. UNCHANGED <<want, down, stopped, target>> /\ pc \in Ending /\ pc' \in Ending
    BY <1>15 DEF KillAll, Keep
  <2>. QED  BY <2>1 DEF ControlInv
<1>16. CASE LowLevelReboot
  <2>1. UNCHANGED <<want, down, stopped, target>> /\ pc \in Ending /\ pc' \in Ending
    BY <1>16 DEF LowLevelReboot, Keep
  <2>. QED  BY <2>1 DEF ControlInv
<1>17. CASE ReExec
  <2>1. CASE pc' = "boot" /\ down' = "no" /\ want' = {} /\ target' = 0
    BY <2>1 DEF ControlInv
  <2>2. CASE pc' = "off" /\ UNCHANGED <<down, want, target, stopped>>
    BY <1>17, <2>2 DEF ReExec, ControlInv
  <2>. QED  BY <1>17, <2>1, <2>2 DEF ReExec
<1>18. CASE StopReap
  <2>1. UNCHANGED <<pc, want, down, stopped, target, i>>
    BY <1>18 DEF StopReap, control
  <2>2. Reaped
    BY <1>18, <1>90 DEF StopReap
  <2>. QED  BY <2>1, <2>2 DEF ControlInv
<1>19. CASE Continue
  <2>1. UNCHANGED <<want, down, target, i, list>> /\ ~stopped' /\ stopped
    BY <1>19 DEF Continue
  <2>2. (pc' = pc) \/ (pc = "waiting" /\ pc' = "probe") \/ (pc = "asleep" /\ pc' = "check")
    BY <1>19 DEF Continue, Interrupted
  <2>. QED  BY <2>1, <2>2 DEF ControlInv
<1>20. CASE Stop
  <2>1. UNCHANGED <<pc, want, down, target, i, list>> /\ down = "no"
    BY <1>20 DEF Stop, control, Deliver
  <2>. QED  BY <2>1 DEF ControlInv
<1>21. CASE Restart
  <2>0. stopped' = stopped /\ ~stopped /\ down = "no" /\ list' = list
    BY <1>21 DEF Restart, Deliver, Awake
  <2>1. CASE down' = "QUIT" /\ pc' = "run" /\ want' = {"shutdown"} /\ target' = 0
    BY <2>0, <2>1 DEF ControlInv
  <2>2. CASE UNCHANGED <<down, pc, want, i, target>>
    BY <2>0, <2>2 DEF ControlInv
  <2>. QED  BY <1>21, <2>1, <2>2 DEF Restart, Call
<1>22. ASSUME NEW s \in {"HUP", "INT"}, Delayed(s) PROVE ControlInv'
  <2>1. UNCHANGED <<want, down, target, i, list, stopped>> /\ down = "no"
    BY <1>22 DEF Delayed, Deliver
  <2>2. (pc' = pc) \/ (pc = "waiting" /\ pc' = "probe") \/ (pc = "asleep" /\ pc' = "check")
    BY <1>22 DEF Delayed, Interrupted
  <2>. QED  BY <2>1, <2>2 DEF ControlInv
<1>23. ASSUME NEW s \in {"TERM", "USR1", "USR2"}, Halt(s) PROVE ControlInv'
  <2>1. stopped' = stopped /\ ~stopped /\ down' = s /\ s # "no" /\ pc' = "run" /\ want' = {"shutdown"} /\ target' = 0
    BY <1>23 DEF Halt, Deliver, Awake, Call
  <2>. QED  BY <2>1 DEF ControlInv
<1>24. ASSUME NEW p \in Pids, Exit(p) PROVE ControlInv'
  <2>1. UNCHANGED <<pc, want, down, target, i, list, stopped>>
    BY <1>24 DEF Exit, control
  <2>. QED  BY <2>1 DEF ControlInv
<1>25. CASE UNCHANGED vars
  <2>1. UNCHANGED <<pc, want, down, target, i, list, stopped>>
    BY <1>25 DEF vars, control
  <2>. QED  BY <2>1 DEF ControlInv
<1>. QED
  BY <1>1, <1>2, <1>3, <1>4, <1>5, <1>6, <1>7, <1>8, <1>9, <1>10, <1>11, <1>12, <1>13, <1>14, <1>15, <1>16, <1>17, <1>18, <1>19, <1>20, <1>21, <1>22, <1>23, <1>24, <1>25, <1>26, <1>27 DEF Next, InitStep

-----------------------------------------------------------------------------
(* Types.                                                                  *)
PcType == {"boot", "run", "record", "wait", "waiting", "probe", "check", "clear", "reap", "asleep",
           "disable", "parse", "remove", "term", "kill", "last", "off"}

ControlType ==
    /\ file \in Inittabs /\ pc \in PcType /\ point \in 1..5 /\ want \subseteq Types /\ i \in Nat \ {0}
    /\ target \in Pids \cup {0}
    /\ got \in {"none", "HUP", "INT"} /\ signal \in {"none", "HUP", "INT"}
    /\ nohang \in BOOLEAN /\ stopped \in BOOLEAN
    /\ down \in {"no", "TERM", "USR1", "USR2", "QUIT"}
    /\ ran \subseteq Commands /\ strays \in BOOLEAN
    /\ signals \in 0..MaxSignals /\ errors \in 0..MaxErrors

LEMMA ControlTypeNext ==
    ASSUME TypeOK, ControlInv, [Next]_vars PROVE ControlType'
<1>. USE DEF PcType
<1>0. ControlType
  BY DEF ControlType, TypeOK
<1>a. \A T \in {{"sysinit"}, {"wait"}, {"once"}, Kept, {"ctrlaltdel"}, {"shutdown"}} : T \subseteq Types
  BY DEF Types, Waited, Kept
<1>b. MaxSignals \in Nat /\ MaxErrors \in Nat
  BY InitAssumption
<1>c. Interrupted => pc' \in PcType /\ point' \in 1..5 /\ nohang' \in BOOLEAN
  <2>1. CASE pc = "waiting"
    BY <1>0, <2>1 DEF Interrupted, ControlType
  <2>2. ASSUME pc = "asleep", Interrupted PROVE pc' \in PcType /\ point' \in 1..5 /\ nohang' \in BOOLEAN
    <3>1. pc' = "check" /\ point' = 3 /\ nohang' = FALSE
      BY <2>2 DEF Interrupted
    <3>2. nohang' \in BOOLEAN
      BY <3>1, Zenon
    <3>. QED  BY <3>1, <3>2
  <2>3. CASE pc \notin {"waiting", "asleep"}
    BY <1>0, <2>3 DEF Interrupted, ControlType
  <2>. QED  BY <2>1, <2>2, <2>3
<1>1. CASE Boot
  BY <1>1, <1>0, <1>a, <1>b DEF Boot, Keep, Call, Deliver, Interrupted, ControlType, control
<1>2. CASE RunEntry
  <2>1. UNCHANGED <<file, stopped, strays, signals, point, want, got, nohang, signal, ran, down>>
    BY <1>2 DEF RunEntry, Keep
  <2>2. pc' \in PcType /\ i' \in Nat \ {0} /\ errors' \in 0..MaxErrors /\ target' \in Pids \cup {0}
    <3>1. CASE pc' = "run" /\ i' = i + 1 /\ UNCHANGED <<target, errors>>
      BY <1>0, <3>1 DEF ControlType
    <3>2. ASSUME NEW p \in Unassigned, Starts(p) PROVE pc' \in PcType /\ i' \in Nat \ {0} /\ errors' \in 0..MaxErrors /\ target' \in Pids \cup {0}
      BY <1>0, <3>2 DEF ControlType, Starts, Unassigned, Free
    <3>3. CASE Fails
      BY <1>0, <1>b, <3>3 DEF ControlType, Fails
    <3>. QED  BY <1>2, <3>1, <3>2, <3>3, RunEntryIs
  <2>. QED  BY <1>0, <2>1, <2>2 DEF ControlType
<1>3. CASE RunDone
  <2>1. UNCHANGED <<file, stopped, strays, signals, want, i, target, got, signal, ran, errors, down>>
    BY <1>3 DEF RunDone, Keep
  <2>2. pc' \in PcType /\ nohang' \in BOOLEAN
    BY <1>0, <1>3 DEF RunDone, ControlType
  <2>3. point' \in {1, 2, 3, 4, point}
    BY <1>3 DEF RunDone
  <2>. QED  BY <1>0, <2>1, <2>2, <2>3 DEF ControlType
<1>4. CASE WaitCall
  BY <1>4, <1>0, <1>a, <1>b DEF WaitCall, Keep, Call, Deliver, Interrupted, ControlType, control
<1>5. CASE WaitReturns
  BY <1>5, <1>0, <1>a, <1>b DEF WaitReturns, Keep, Call, Deliver, Interrupted, ControlType, control
<1>6. CASE Probe
  <2>1. UNCHANGED <<file, stopped, strays, signals, point, want, got, nohang, signal, errors, down>>
    BY <1>6 DEF Probe, Keep
  <2>2. list[i].cmd \in Commands
    <3>1. i \in DOMAIN list
      BY <1>6 DEF Probe, ControlInv, Waiting
    <3>. QED  BY <3>1, ListFacts DEF Entry
  <2>3. pc' \in PcType /\ i' \in Nat \ {0} /\ target' \in Pids \cup {0} /\ ran' \subseteq Commands
    BY <1>0, <1>6, <2>2 DEF Probe, ControlType
  <2>. QED  BY <1>0, <2>1, <2>3 DEF ControlType
<1>7. CASE ReadSignal
  BY <1>7, <1>0, <1>a, <1>b DEF ReadSignal, Keep, Call, Deliver, Interrupted, ControlType, control
<1>8. CASE ActOnSignal
  BY <1>8, <1>0, <1>a, <1>b DEF ActOnSignal, Keep, Call, Deliver, Interrupted, ControlType, control
<1>9. CASE GoOn
  <2>1. UNCHANGED <<file, stopped, strays, signals, target, got, nohang, signal, errors, down, ran>> /\ pc = "check"
    BY <1>9 DEF GoOn, Keep
  <2>2. point' \in 1..5 /\ pc' \in PcType /\ want' \subseteq Types /\ i' \in Nat \ {0}
    <3>1. CASE point = 1  BY <1>0, <1>a, <1>9, <3>1 DEF GoOn, Call, ControlType
    <3>2. CASE point = 2  BY <1>0, <1>a, <1>9, <3>2 DEF GoOn, Call, ControlType
    <3>3. CASE point = 3  BY <1>0, <1>a, <1>9, <3>3 DEF GoOn, Call, ControlType
    <3>4. CASE point = 4  BY <1>0, <1>9, <3>4 DEF GoOn, ControlType
    <3>5. CASE point = 5  BY <1>0, <1>9, <3>5 DEF GoOn, ControlType
    <3>. QED  BY <1>0, <3>1, <3>2, <3>3, <3>4, <3>5 DEF ControlType
  <2>. QED  BY <1>0, <2>1, <2>2 DEF ControlType
<1>10. CASE ReapCall
  <2>1. UNCHANGED <<file, stopped, strays, signals, want, i, target, got, signal, ran, errors, down>>
    BY <1>10 DEF ReapCall, Keep
  <2>2. pc' \in PcType /\ point' \in {point, 3}
    BY <1>0, <1>10 DEF ReapCall, ControlType
  <2>3. nohang' \in BOOLEAN
    BY <1>0, <1>10 DEF ReapCall, ControlType
  <2>. QED  BY <1>0, <2>1, <2>2, <2>3 DEF ControlType
<1>11. CASE ReapReturns
  BY <1>11, <1>0, <1>a, <1>b DEF ReapReturns, Keep, Call, Deliver, Interrupted, ControlType, control
<1>12. CASE Disable
  BY <1>12, <1>0, <1>a, <1>b DEF Disable, Keep, Call, Deliver, Interrupted, ControlType, control
<1>13. CASE Parse
  BY <1>13, <1>0, <1>a, <1>b DEF Parse, Keep, Call, Deliver, Interrupted, ControlType, control
<1>26. CASE Record
  <2>1. i \in Nat \ {0} /\ i + 1 \in Nat \ {0}
    BY <1>0 DEF ControlType
  <2>. QED  BY <1>26, <1>0, <2>1 DEF Record, Keep, ControlType
<1>27. CASE Unlink
  BY <1>27, <1>0 DEF Unlink, ControlType, control
<1>14. CASE RemoveStale
  BY <1>14, <1>0, <1>a, <1>b DEF RemoveStale, Keep, Call, Deliver, Interrupted, ControlType, control
<1>15. CASE KillAll
  BY <1>15, <1>0, <1>a, <1>b DEF KillAll, Keep, Call, Deliver, Interrupted, ControlType, control
<1>16. CASE LowLevelReboot
  BY <1>16, <1>0, <1>a, <1>b DEF LowLevelReboot, Keep, Call, Deliver, Interrupted, ControlType, control
<1>17. CASE ReExec
  <2>1. UNCHANGED <<file, stopped, strays, signals>>
    BY <1>17 DEF ReExec
  <2>2. /\ pc' \in PcType /\ point' \in 1..5 /\ want' \subseteq Types /\ i' \in Nat \ {0} /\ target' \in Pids \cup {0}
        /\ down' \in {"no", down} /\ ran' \subseteq Commands /\ errors' \in 0..MaxErrors
        /\ got' \in {"none", got} /\ signal' \in {"none", signal}
    BY <1>0, <1>b, <1>17 DEF ReExec, ControlType
  <2>3. nohang' \in BOOLEAN
    BY <1>0, <1>17 DEF ReExec, ControlType
  <2>. QED  BY <1>0, <2>1, <2>2, <2>3 DEF ControlType
<1>18. CASE StopReap
  BY <1>18, <1>0, <1>a, <1>b DEF StopReap, Keep, Call, Deliver, Interrupted, ControlType, control
<1>19. CASE Continue
  <2>1. UNCHANGED <<file, want, i, target, got, signal, down, ran, signals, strays, errors>> /\ stopped' = FALSE
    BY <1>19 DEF Continue
  <2>2. pc' \in PcType /\ point' \in 1..5 /\ nohang' \in BOOLEAN
    BY <1>0, <1>c, <1>19 DEF Continue
  <2>. QED  BY <1>0, <2>1, <2>2 DEF ControlType
<1>20. CASE Stop
  BY <1>20, <1>0, <1>a, <1>b DEF Stop, Keep, Call, Deliver, Interrupted, ControlType, control
<1>21. CASE Restart
  BY <1>21, <1>0, <1>a, <1>b DEF Restart, Keep, Call, Deliver, Interrupted, ControlType, control
<1>22. ASSUME NEW s \in {"HUP", "INT"}, Delayed(s) PROVE ControlType'
  <2>1. UNCHANGED <<want, i, target, got, stopped, down, ran, strays, errors>> /\ signal' = s /\ file' \in Inittabs
    BY <1>0, <1>22 DEF Delayed, ControlType
  <2>2. pc' \in PcType /\ point' \in 1..5 /\ nohang' \in BOOLEAN
    BY <1>0, <1>c, <1>22 DEF Delayed
  <2>3. signals' \in 0..MaxSignals
    BY <1>0, <1>b, <1>22 DEF Delayed, Deliver, ControlType
  <2>. QED  BY <1>0, <2>1, <2>2, <2>3 DEF ControlType
<1>23. ASSUME NEW s \in {"TERM", "USR1", "USR2"}, Halt(s) PROVE ControlType'
  BY <1>23, <1>0, <1>a, <1>b DEF Halt, Keep, Call, Deliver, Interrupted, ControlType, control
<1>24. ASSUME NEW p \in Pids, Exit(p) PROVE ControlType'
  BY <1>24, <1>0, <1>a, <1>b DEF Exit, Keep, Call, Deliver, Interrupted, ControlType, control
<1>25. CASE UNCHANGED vars
  BY <1>0, <1>25 DEF vars, control, ControlType
<1>. QED
  BY <1>1, <1>2, <1>3, <1>4, <1>5, <1>6, <1>7, <1>8, <1>9, <1>10, <1>11, <1>12, <1>13, <1>14, <1>15, <1>16, <1>17, <1>18, <1>19, <1>20, <1>21, <1>22, <1>23, <1>24, <1>25, <1>26, <1>27 DEF Next, InitStep

LEMMA TypeNext ==
    ASSUME TypeOK, ListInv, MovingInv, ControlInv, [Next]_vars PROVE TypeOK'
<1>1. pc = "record" => i \in DOMAIN list
  BY DEF ControlInv
<1>. QED  BY <1>1, ListNext, ProcFun, ControlTypeNext DEF ProcType, PcType, ControlType, TypeOK

-----------------------------------------------------------------------------
(* reload_inittab loses no supervised command.                             *)
StaleInv ==
    /\ pc = "parse" => \A k \in DOMAIN list : list[k].cmd \in Supervised /\ list[k].type = "stale"
                         => \E j \in DOMAIN rest : rest[j].cmd = list[k].cmd
    /\ pc = "remove" => \A k \in DOMAIN list : list[k].cmd \in Supervised => list[k].type # "stale"

LEMMA StaleNext ==
    ASSUME TypeOK, ListInv, MovingInv, ControlInv, StaleInv, [Next]_vars PROVE StaleInv'
<1>0. ASSUME pc' \notin {"parse", "remove"} PROVE StaleInv'
  BY <1>0 DEF StaleInv
<1>a. ASSUME pc' = pc \/ pc' \notin {"parse", "remove"}, SameLines, rest' = rest PROVE StaleInv'
  BY <1>a DEF StaleInv, SameLines
<1>b. list' = list => SameLines
  BY DEF SameLines, TypeOK
<1>1. CASE Boot
  BY <1>1, <1>0 DEF Boot, Call
<1>2. CASE RunEntry
  <2>1. pc' \in {"run", "wait", "record"}
    BY <1>2 DEF RunEntry
  <2>. QED  BY <1>0, <2>1
<1>3. CASE RunDone
  BY <1>3, <1>0 DEF RunDone
<1>4. CASE WaitCall
  BY <1>4, <1>0 DEF WaitCall
<1>5. CASE WaitReturns
  BY <1>5, <1>0 DEF WaitReturns
<1>6. CASE Probe
  BY <1>6, <1>0 DEF Probe
<1>7. CASE ReadSignal
  BY <1>7, <1>0 DEF ReadSignal
<1>8. CASE ActOnSignal
  BY <1>8, <1>0 DEF ActOnSignal, Call
<1>9. CASE GoOn
  <2>1. pc' \in {"check", "run", "reap"}
    <3>0. pc = "check" /\ point \in 1..5
      BY <1>9 DEF GoOn, TypeOK
    <3>1. CASE point = 1  BY <1>9, <3>1 DEF GoOn, Call
    <3>2. CASE point = 2  BY <1>9, <3>2 DEF GoOn, Call
    <3>3. CASE point = 3  BY <1>9, <3>3 DEF GoOn, Call
    <3>4. CASE point = 4  BY <1>9, <3>0, <3>4 DEF GoOn
    <3>5. CASE point = 5  BY <1>9, <3>5 DEF GoOn
    <3>. QED  BY <3>0, <3>1, <3>2, <3>3, <3>4, <3>5
  <2>. QED  BY <1>0, <2>1
<1>10. CASE ReapCall
  BY <1>10, <1>0 DEF ReapCall
<1>11. CASE ReapReturns
  BY <1>11, <1>0 DEF ReapReturns
<1>12. CASE Disable
  <2>1. Disables /\ pc' = "parse"
    BY <1>12, DisableIs DEF Disable
  <2>2. ASSUME NEW k \in DOMAIN list, list[k].cmd \in Supervised PROVE \E j \in DOMAIN file : file[j].cmd = list[k].cmd
    BY <2>2 DEF Supervised, Lines, TypeOK
  <2>. QED  BY <2>1, <2>2 DEF Disables, StaleInv
<1>13. CASE Parse
  <2>1. CASE rest = <<>>
    <3>1. pc = "parse" /\ pc' = "remove" /\ list' = list /\ DOMAIN rest = {}
      BY <1>13, <2>1 DEF Parse
    <3>. QED  BY <3>1 DEF StaleInv
  <2>2. CASE rest # <<>>
    <3>. DEFINE new == Head(rest)
                m == Append(list, Relinked)
    <3>0. Relinks
      BY <1>13, <2>2 DEF Parse, Relinks, Relinked
    <3>1. pc = "parse" /\ pc' = "parse" /\ list' = m /\ rest' = Tail(rest) /\ list \in Seq(Entry) /\ Unique(list)
      BY <1>13, <2>2, <3>0 DEF Relinks, TypeOK, ListInv
    <3>2. /\ new \in Line
          /\ \A k \in DOMAIN rest : rest[k] = new \/ \E j \in DOMAIN Tail(rest) : Tail(rest)[j] = rest[k]
      BY <2>2, RestFacts
    <3>a. Relinked \in Entry /\ Relinked.cmd = new.cmd /\ Relinked.type = new.type /\ \A j \in DOMAIN list : list[j].cmd # new.cmd
      BY <3>0, RelinkedIs
    <3>b. \A j \in DOMAIN m : m[j] = Relinked \/ \E h \in DOMAIN list : h = j /\ m[j] = list[h]
      BY <3>1, <3>a, AppendEntry
    <3>. HIDE DEF m
    <3>3. \A j \in DOMAIN m : \/ m[j].cmd # new.cmd /\ \E h \in DOMAIN list : m[j] = list[h]
                              \/ m[j].cmd = new.cmd /\ m[j].type = new.type
      BY <3>a, <3>b
    <3>4. new.type # "stale"
      BY <3>2 DEF Line
    <3>. HIDE DEF m, new
    <3>5. ASSUME NEW j \in DOMAIN m, m[j].cmd \in Supervised, m[j].type = "stale"
          PROVE  \E n \in DOMAIN Tail(rest) : Tail(rest)[n].cmd = m[j].cmd
      <4>1. m[j].cmd # new.cmd
        BY <3>3, <3>4, <3>5
      <4>2. PICK h \in DOMAIN list : m[j] = list[h]
        BY <3>3, <4>1
      <4>3. PICK k \in DOMAIN rest : rest[k].cmd = list[h].cmd
        BY <3>1, <3>5, <4>2 DEF StaleInv
      <4>. QED  BY <3>2, <4>1, <4>2, <4>3
    <3>. QED  BY <3>1, <3>5 DEF StaleInv
  <2>. QED  BY <2>1, <2>2
<1>26. CASE Record
  BY <1>26, <1>0 DEF Record
<1>27. CASE Unlink
  <2>. DEFINE k == First(Same(list, Head(rest)))
              m == RemoveAt(list, k)
  <2>1. /\ list' = m /\ rest' = rest /\ pc' = pc /\ pc = "parse" /\ list \in Seq(Entry) /\ Unique(list)
        /\ Same(list, Head(rest)) # {}
    BY <1>27 DEF Unlink, control, TypeOK, ListInv
  <2>2. k \in 1..Len(list)
    BY <2>1, FirstSame
  <2>3. \A j \in DOMAIN m : \E h \in DOMAIN list : m[j] = list[h]
    <3>. HIDE DEF k
    <3>. QED  BY <2>1, <2>2, RemoveEntry
  <2>. HIDE DEF k, m
  <2>. QED  BY <2>1, <2>3 DEF StaleInv
<1>14. CASE RemoveStale
  <2>1. pc = "remove"
    BY <1>14 DEF RemoveStale
  <2>2. CASE list' = list
    BY <1>14, <2>2 DEF RemoveStale, StaleInv
  <2>3. CASE i <= Len(list) /\ list' = RemoveAt(list, i) /\ pc' = pc
    <3>. DEFINE m == RemoveAt(list, i)
    <3>1. list \in Seq(Entry) /\ Unique(list) /\ i \in 1..Len(list)
      BY <2>3, ListFacts DEF TypeOK, ListInv
    <3>2. \A j \in DOMAIN m : \E h \in DOMAIN list : m[j] = list[h]
      BY <3>1, RemoveEntry
    <3>. HIDE DEF m
    <3>3. list' = m /\ pc' = "remove"
      BY <2>1, <2>3 DEF m
    <3>. QED  BY <2>1, <3>2, <3>3 DEF StaleInv
  <2>. QED  BY <1>14, <2>2, <2>3 DEF RemoveStale
<1>15. CASE KillAll
  BY <1>15, <1>0 DEF KillAll
<1>16. CASE LowLevelReboot
  BY <1>16, <1>0 DEF LowLevelReboot
<1>17. CASE ReExec
  BY <1>17, <1>0 DEF ReExec
<1>18. CASE StopReap
  <2>1. pc' = pc /\ rest' = rest
    BY <1>18 DEF StopReap, control
  <2>2. SameLines
    BY <1>18, StopReapIs
  <2>. QED  BY <1>a, <2>1, <2>2
<1>19. CASE Continue
  BY <1>19, <1>a, <1>b DEF Continue, Interrupted
<1>20. CASE Stop
  BY <1>20, <1>a, <1>b DEF Stop, control
<1>21. CASE Restart
  BY <1>21, <1>a, <1>b DEF Restart, Call
<1>22. ASSUME NEW s \in {"HUP", "INT"}, Delayed(s) PROVE StaleInv'
  BY <1>22, <1>a, <1>b DEF Delayed, Interrupted
<1>23. ASSUME NEW s \in {"TERM", "USR1", "USR2"}, Halt(s) PROVE StaleInv'
  BY <1>23, <1>a, <1>b DEF Halt, Call
<1>24. ASSUME NEW p \in Pids, Exit(p) PROVE StaleInv'
  BY <1>24, <1>a, <1>b DEF Exit, control
<1>25. CASE UNCHANGED vars
  BY <1>25, <1>a, <1>b DEF vars, control
<1>. QED
  BY <1>1, <1>2, <1>3, <1>4, <1>5, <1>6, <1>7, <1>8, <1>9, <1>10, <1>11, <1>12, <1>13, <1>14, <1>15, <1>16, <1>17, <1>18, <1>19, <1>20, <1>21, <1>22, <1>23, <1>24, <1>25, <1>26, <1>27 DEF Next, InitStep

-----------------------------------------------------------------------------
(* Who may run.                                                            *)

(* A command runs because it did so before or because it is started.       *)
LEMMA AliveNext ==
    ASSUME TypeOK, MovingInv, ControlInv, [Next]_vars, NEW q \in Pids, proc'[q].state = "alive", proc'[q].cmd \in Commands
    PROVE  (q \in Alive /\ proc'[q].cmd = proc[q].cmd) \/ (q \in Unassigned /\ Starts(q))
<1>1. CASE proc' = proc
  BY <1>1 DEF Alive
<1>2. CASE \E p \in Zombies : Reaps(p)
  BY <1>2 DEF Reaps, Unused, Alive
<1>3. CASE \E p \in Unassigned : Starts(p)
  BY <1>3 DEF Starts, Alive
<1>4. CASE Ends
  BY <1>4, InitAssumption DEF Ends, Alive
<1>5. pc = "record" => i \in DOMAIN list
  BY DEF ControlInv
<1>. QED  BY <1>1, <1>2, <1>3, <1>4, <1>5, Moves DEF Calm, Fails, Records, Disables, Reads, Unlinks, Relinks, Removes, Restarts

(* A process that is waited for stays so until it is gone, or until a      *)
(* handler that never returns takes over; only a new init is no longer on  *)
(* its way down; and the sysinit commands are the first to be run.         *)
Stays == UNCHANGED <<target, want, down>> \/ (down = "no" /\ down' # "no")
Busy(p) == p \in {"run"} \cup Waiting

ControlStep ==
    /\ target \in Alive /\ pc # "record" => Stays
    /\ down # "no" /\ down' = "no" => pc = "last"
    /\ want' = {"sysinit"} /\ Busy(pc') => pc = "boot" \/ (want = {"sysinit"} /\ Busy(pc))

LEMMA ControlSteps ==
    ASSUME TypeOK, ControlInv, [Next]_vars PROVE ControlStep
<1>. USE DEF Waiting, Busy
<1>0. 0 \notin Alive
  BY InitAssumption DEF Alive
<1>1. ASSUME target = 0, down' = down, want' = want, Busy(pc') => Busy(pc) PROVE ControlStep
  BY <1>0, <1>1 DEF ControlStep
<1>2. ASSUME target = 0, down' = down, want' # {"sysinit"} PROVE ControlStep
  BY <1>0, <1>2 DEF ControlStep
<1>3. ASSUME UNCHANGED <<target, want, down>>, Busy(pc') => Busy(pc) PROVE ControlStep
  BY <1>3 DEF ControlStep, Stays
<1>4. ASSUME down = "no", down' # "no", want' = {"shutdown"} PROVE ControlStep
  BY <1>4 DEF ControlStep, Stays
<1>. DEFINE Idle == pc \notin Waiting \cup {"record"}
<1>5. Idle => target = 0
  BY DEF ControlInv
<1>11. CASE Boot
  <2>1. pc = "boot" /\ target = 0 /\ down' = down
    BY <1>11, <1>5 DEF Boot, Keep
  <2>. QED  BY <1>0, <2>1 DEF ControlStep
<1>12. CASE RunEntry
  <2>1. pc = "run" /\ target = 0 /\ UNCHANGED <<down, want>>
    BY <1>12, <1>5 DEF RunEntry, Keep
  <2>. QED  BY <1>1, <2>1
<1>13. CASE RunDone
  BY <1>13, <1>3 DEF RunDone, Keep
<1>14. CASE WaitCall
  BY <1>14, <1>3 DEF WaitCall, Keep
<1>15. CASE WaitReturns
  BY <1>15, <1>3 DEF WaitReturns, Keep
<1>16. CASE Probe
  <2>1. UNCHANGED <<down, want>> /\ pc = "probe"
    BY <1>16 DEF Probe, Keep
  <2>2. target \in Alive => target' = target
    BY <1>16 DEF Probe, Kill0, Alive, Free
  <2>. QED  BY <2>1, <2>2 DEF ControlStep, Stays
<1>17. CASE ReadSignal
  BY <1>17, <1>3 DEF ReadSignal, Keep
<1>18. CASE ActOnSignal
  <2>1. /\ target = 0 /\ down' = down
        /\ (want' = want /\ pc' = "disable") \/ want' = {"ctrlaltdel"}
    BY <1>18, <1>5 DEF ActOnSignal, Keep, Call
  <2>. QED  BY <1>1, <1>2, <2>1
<1>19. CASE GoOn
  <2>1. target = 0 /\ down' = down /\ pc = "check" /\ point \in 1..5
    BY <1>19, <1>5 DEF GoOn, Keep, TypeOK
  <2>2. CASE point = 1  BY <1>19, <1>2, <2>1, <2>2 DEF GoOn, Call
  <2>3. CASE point = 2  BY <1>19, <1>2, <2>1, <2>3 DEF GoOn, Call
  <2>4. CASE point = 3  BY <1>19, <1>2, <2>1, <2>4 DEF GoOn, Call, Kept
  <2>5. CASE point = 4  BY <1>19, <1>1, <2>1, <2>5 DEF GoOn
  <2>6. CASE point = 5  BY <1>19, <1>1, <2>1, <2>6 DEF GoOn
  <2>. QED  BY <2>1, <2>2, <2>3, <2>4, <2>5, <2>6
<1>20. CASE ReapCall
  BY <1>20, <1>3 DEF ReapCall, Keep
<1>21. CASE ReapReturns
  BY <1>21, <1>3 DEF ReapReturns, Keep
<1>22. CASE Disable
  BY <1>22, <1>3 DEF Disable, Keep
<1>23. CASE Parse
  BY <1>23, <1>3 DEF Parse
<1>36. CASE Record
  <2>1. UNCHANGED <<want, down>> /\ pc = "record" /\ want # {"sysinit"}
    BY <1>36 DEF Record, Keep, ControlInv, Kept
  <2>. QED  BY <2>1 DEF ControlStep
<1>37. CASE Unlink
  BY <1>37, <1>3 DEF Unlink, control
<1>24. CASE RemoveStale
  BY <1>24, <1>3 DEF RemoveStale, Keep
<1>25. CASE KillAll
  BY <1>25, <1>3 DEF KillAll, Keep
<1>26. CASE LowLevelReboot
  BY <1>26, <1>3 DEF LowLevelReboot, Keep
<1>27. CASE ReExec
  <2>1. target = 0 /\ pc = "last" /\ (want' = {} \/ pc' = "off")
    BY <1>27, <1>5 DEF ReExec
  <2>. QED  BY <1>0, <2>1 DEF ControlStep
<1>28. CASE StopReap
  BY <1>28, <1>3 DEF StopReap, Keep, control
<1>29. CASE Continue
  BY <1>29, <1>3 DEF Continue, Keep, Interrupted
<1>30. CASE Stop
  BY <1>30, <1>3 DEF Stop, Keep, control
<1>31. CASE Restart
  <2>1. down = "no"
    BY <1>31 DEF Restart, Deliver
  <2>. QED  BY <1>31, <1>3, <1>4, <2>1 DEF Restart, Call
<1>32. ASSUME NEW s \in {"HUP", "INT"}, Delayed(s) PROVE ControlStep
  BY <1>32, <1>3 DEF Delayed, Keep, Interrupted
<1>33. ASSUME NEW s \in {"TERM", "USR1", "USR2"}, Halt(s) PROVE ControlStep
  BY <1>33, <1>4 DEF Halt, Deliver, Call
<1>34. ASSUME NEW p \in Pids, Exit(p) PROVE ControlStep
  BY <1>34, <1>3 DEF Exit, Keep, control
<1>35. CASE UNCHANGED vars
  BY <1>35, <1>3 DEF vars, Keep, control
<1>. QED
  BY <1>11, <1>12, <1>13, <1>14, <1>15, <1>16, <1>17, <1>18, <1>19, <1>20, <1>21, <1>22, <1>23, <1>24, <1>25, <1>26, <1>27, <1>28, <1>29, <1>30, <1>31, <1>32, <1>33, <1>34, <1>35, <1>36, <1>37 DEF Next, InitStep

(* The second signal of the shutdown leaves no process.                    *)
Quiet == pc \in {"boot", "last", "off"} => Alive = {}

LEMMA QuietNext ==
    ASSUME TypeOK, Quiet, [Next]_vars PROVE Quiet'
<1>0. ASSUME pc' \notin {"boot", "last", "off"} PROVE Quiet'
  BY <1>0 DEF Quiet
<1>a. ASSUME pc' = pc \/ pc' \notin {"boot", "last", "off"}, proc' = proc PROVE Quiet'
  BY <1>a DEF Quiet, Alive
<1>b. ASSUME pc \in {"last", "boot"}, proc' = proc PROVE Quiet'
  BY <1>b DEF Quiet, Alive
<1>1. CASE Boot
  BY <1>1, <1>b DEF Boot
<1>2. CASE RunEntry
  <2>1. pc' \in {"run", "wait", "record"}
    BY <1>2 DEF RunEntry
  <2>. QED  BY <1>0, <2>1
<1>3. CASE RunDone
  BY <1>3, <1>0 DEF RunDone
<1>4. CASE WaitCall
  BY <1>4, <1>0 DEF WaitCall
<1>5. CASE WaitReturns
  BY <1>5, <1>0 DEF WaitReturns
<1>6. CASE Probe
  BY <1>6, <1>0 DEF Probe
<1>7. CASE ReadSignal
  BY <1>7, <1>0 DEF ReadSignal
<1>8. CASE ActOnSignal
  BY <1>8, <1>0 DEF ActOnSignal, Call
<1>9. CASE GoOn
  <2>1. proc' = proc /\ pc = "check" /\ point \in 1..5
    BY <1>9 DEF GoOn, TypeOK
  <2>2. CASE point = 1  BY <1>9, <1>0, <2>2 DEF GoOn, Call
  <2>3. CASE point = 2  BY <1>9, <1>0, <2>3 DEF GoOn, Call
  <2>4. CASE point = 3  BY <1>9, <1>0, <2>4 DEF GoOn, Call
  <2>5. CASE point = 4  BY <1>9, <1>a, <2>1, <2>5 DEF GoOn
  <2>6. CASE point = 5  BY <1>9, <1>0, <2>6 DEF GoOn
  <2>. QED  BY <2>1, <2>2, <2>3, <2>4, <2>5, <2>6
<1>10. CASE ReapCall
  BY <1>10, <1>0 DEF ReapCall
<1>11. CASE ReapReturns
  BY <1>11, <1>0 DEF ReapReturns
<1>12. CASE Disable
  BY <1>12, <1>0 DEF Disable
<1>13. CASE Parse
  BY <1>13, <1>0 DEF Parse
<1>26. CASE Record
  BY <1>26, <1>0 DEF Record
<1>27. CASE Unlink
  BY <1>27, <1>a DEF Unlink, control
<1>14. CASE RemoveStale
  BY <1>14, <1>0 DEF RemoveStale
<1>15. CASE KillAll
  <2>1. CASE pc = "term"
    BY <1>15, <1>0, <2>1 DEF KillAll
  <2>2. CASE pc = "kill"
    <3>1. \A q \in Pids : proc'[q] = IF q \in Alive THEN [proc[q] EXCEPT !.state = "zombie"] ELSE proc[q]
      BY <1>15, <2>2 DEF KillAll
    <3>2. \A q \in Pids : proc'[q].state # "alive"
      BY <3>1 DEF Alive, TypeOK
    <3>. QED  BY <3>2 DEF Quiet, Alive
  <2>. QED  BY <1>15, <2>1, <2>2 DEF KillAll
<1>16. CASE LowLevelReboot
  BY <1>16, <1>b DEF LowLevelReboot
<1>17. CASE ReExec
  BY <1>17, <1>b DEF ReExec
<1>18. CASE StopReap
  <2>1. PICK p \in Zombies : Reap(p)
    BY <1>18 DEF StopReap
  <2>2. pc' = pc /\ \A q \in Pids : proc'[q] = IF q = p THEN Unused ELSE proc[q]
    BY <1>18, <2>1 DEF StopReap, control, Reap, TypeOK
  <2>. QED  BY <2>2 DEF Quiet, Alive, Unused
<1>19. CASE Continue
  BY <1>19, <1>a DEF Continue, Interrupted
<1>20. CASE Stop
  BY <1>20, <1>a DEF Stop, control
<1>21. CASE Restart
  BY <1>21, <1>a DEF Restart, Call
<1>22. ASSUME NEW s \in {"HUP", "INT"}, Delayed(s) PROVE Quiet'
  BY <1>22, <1>a DEF Delayed, Interrupted
<1>23. ASSUME NEW s \in {"TERM", "USR1", "USR2"}, Halt(s) PROVE Quiet'
  BY <1>23, <1>a DEF Halt, Call
<1>24. ASSUME NEW p \in Pids, Exit(p) PROVE Quiet'
  <2>1. pc' = pc /\ p \in Alive
    BY <1>24 DEF Exit, control
  <2>. QED  BY <2>1 DEF Quiet
<1>25. CASE UNCHANGED vars
  BY <1>25, <1>a DEF vars, control
<1>. QED
  BY <1>1, <1>2, <1>3, <1>4, <1>5, <1>6, <1>7, <1>8, <1>9, <1>10, <1>11, <1>12, <1>13, <1>14, <1>15, <1>16, <1>17, <1>18, <1>19, <1>20, <1>21, <1>22, <1>23, <1>24, <1>25, <1>26, <1>27 DEF Next, InitStep

RunInv ==
    /\ \A p \in Alive : proc[p].cmd \in Only({"sysinit"}) /\ down = "no" => want = {"sysinit"} /\ p = target
    /\ \A p \in Alive : proc[p].cmd \in Only({"shutdown"}) => down # "no" /\ p = target
    /\ want = {"sysinit"} /\ Busy(pc) => \A p \in Alive : proc[p].cmd \notin Only(Kept)
    /\ ShellWaitsForSysinit

(* What is started has a type that is asked for.                           *)
LEMMA StartedOnly ==
    ASSUME TypeOK, ListInv, ControlInv, NEW q, Starts(q), NEW types, list[i].cmd \in Only(types)
    PROVE  list[i].type \in want \cap types
<1>1. list[i].type \in want /\ i \in DOMAIN list
  BY DEF Starts
<1>2. list[i].type # "stale"
  BY <1>1 DEF ControlInv, Kept
<1>. QED  BY <1>1, <1>2, OnlyGiven DEF ListInv

LEMMA RunNext ==
    ASSUME TypeOK, ListInv, MovingInv, ControlInv, ControlInv', Quiet, RunInv, [Next]_vars PROVE RunInv'
<1>0. ControlStep
  BY ControlSteps
<1>1. ASSUME NEW types, NEW q \in Alive', proc'[q].cmd \in Only(types)
      PROVE  \/ q \in Alive /\ proc[q].cmd \in Only(types)
             \/ Starts(q) /\ list[i].type \in want \cap types
  <2>1. q \in Pids /\ proc'[q].state = "alive" /\ proc'[q].cmd \in Commands
    BY <1>1 DEF Alive, Only
  <2>2. CASE q \in Alive /\ proc'[q].cmd = proc[q].cmd
    BY <1>1, <2>2
  <2>3. CASE Starts(q)
    <3>1. proc'[q].cmd = list[i].cmd
      BY <2>1, <2>3 DEF Starts
    <3>2. list[i].cmd \in Only(types)
      BY <1>1, <3>1
    <3>. QED  BY <2>3, <3>2, StartedOnly
  <2>. QED  BY <2>1, <2>2, <2>3, AliveNext
<1>2. ASSUME NEW q, Starts(q), list[i].type \in Waited PROVE target' = q /\ want' = want /\ down' = down
  BY <1>2 DEF Starts, Waited
<1>3. ASSUME NEW q \in Alive', proc'[q].cmd \in Only({"sysinit"}), down' = "no"
      PROVE  want' = {"sysinit"} /\ q = target'
  <2>1. CASE Starts(q) /\ list[i].type \in want \cap {"sysinit"}
    <3>1. "sysinit" \in want /\ list[i].type = "sysinit"
      BY <2>1
    <3>2. want = {"sysinit"}
      BY <3>1 DEF ControlInv, Kept
    <3>. QED  BY <1>2, <2>1, <3>1, <3>2 DEF Waited
  <2>2. CASE q \in Alive /\ proc[q].cmd \in Only({"sysinit"})
    <3>1. down = "no"
      BY <1>0, <1>3, <2>2 DEF ControlStep, Quiet
    <3>2. want = {"sysinit"} /\ q = target
      BY <2>2, <3>1 DEF RunInv
    <3>3. pc # "record"
      BY <3>2 DEF ControlInv, Kept
    <3>. QED  BY <1>0, <1>3, <2>2, <3>1, <3>2, <3>3 DEF ControlStep, Stays
  <2>. QED  BY <1>1, <1>3, <2>1, <2>2
<1>4. ASSUME NEW q \in Alive', proc'[q].cmd \in Only({"shutdown"}) PROVE down' # "no" /\ q = target'
  <2>1. CASE Starts(q) /\ list[i].type \in want \cap {"shutdown"}
    <3>1. "shutdown" \in want /\ list[i].type = "shutdown"
      BY <2>1
    <3>2. down # "no"
      BY <3>1 DEF ControlInv, Kept
    <3>. QED  BY <1>2, <2>1, <3>1, <3>2 DEF Waited
  <2>2. CASE q \in Alive /\ proc[q].cmd \in Only({"shutdown"})
    <3>1. down # "no" /\ q = target /\ pc # "record"
      BY <2>2 DEF RunInv, ControlInv, Waiting, Ending
    <3>. QED  BY <1>0, <2>2, <3>1 DEF ControlStep, Stays
  <2>. QED  BY <1>1, <1>4, <2>1, <2>2
<1>5. ASSUME want' = {"sysinit"}, Busy(pc'), NEW q \in Alive', proc'[q].cmd \in Only(Kept) PROVE FALSE
  <2>1. CASE Starts(q) /\ list[i].type \in want \cap Kept
    <3>1. want' = want
      BY <2>1 DEF Starts
    <3>. QED  BY <1>5, <2>1, <3>1 DEF Kept
  <2>2. CASE q \in Alive /\ proc[q].cmd \in Only(Kept)
    BY <1>0, <1>5, <2>2 DEF ControlStep, RunInv, Quiet
  <2>. QED  BY <1>1, <1>5, <2>1, <2>2
<1>6. ASSUME NEW p \in Alive', NEW q \in Alive', proc'[p].cmd \in Only({"sysinit"}), proc'[q].cmd \in Only(Kept) PROVE FALSE
  <2>1. CASE down' = "no"
    <3>1. want' = {"sysinit"} /\ p = target'
      BY <1>3, <1>6, <2>1
    <3>2. p # 0
      BY InitAssumption DEF Alive
    <3>3. Busy(pc')
      BY <3>1, <3>2 DEF ControlInv, Busy, Kept
    <3>. QED  BY <1>5, <1>6, <3>1, <3>3
  <2>2. CASE down' # "no"
    <3>1. ASSUME NEW r, Starts(r) PROVE want = {"shutdown"}
      BY <2>2, <3>1 DEF Starts, ControlInv
    <3>2. p \in Alive /\ proc[p].cmd \in Only({"sysinit"})
      <4>1. ~(Starts(p) /\ list[i].type \in want \cap {"sysinit"})
        BY <3>1
      <4>. QED  BY <1>1, <1>6, <4>1
    <3>3. q \in Alive /\ proc[q].cmd \in Only(Kept)
      <4>1. ~(Starts(q) /\ list[i].type \in want \cap Kept)
        BY <3>1 DEF Kept
      <4>. QED  BY <1>1, <1>6, <4>1
    <3>4. Running(proc[p].cmd) # {} /\ Running(proc[q].cmd) # {}
      BY <3>2, <3>3 DEF Running
    <3>. QED  BY <3>2, <3>3, <3>4 DEF RunInv, ShellWaitsForSysinit
  <2>. QED  BY <2>1, <2>2
<1>7. ShellWaitsForSysinit'
  BY <1>6 DEF ShellWaitsForSysinit, Running
<1>. QED  BY <1>3, <1>4, <1>5, <1>7 DEF RunInv

-----------------------------------------------------------------------------
(* The pids in the list.                                                   *)
PidHolds(p, c) == p > 0 => Child(p, c) \/ p \in missed

PidInv ==
    /\ \A k \in DOMAIN list : PidHolds(list[k].pid, list[k].cmd)
    /\ moving # <<>> => PidHolds(moving[1].pid, moving[1].cmd)
    /\ pc = "record" => PidHolds(target, list[i].cmd) /\ list[i].pid = 0
    /\ down = "no" => \A p \in Alive : proc[p].cmd \in Supervised => Recorded(proc[p].cmd, p)
    /\ \A p, q \in Alive : proc[p].cmd \in Supervised /\ proc[p].cmd = proc[q].cmd => p = q

LEMMA PidFacts ==
    ASSUME TypeOK, NEW k \in DOMAIN list
    PROVE  /\ list[k].pid \in Pids \cup {0, -1} /\ list[k].cmd \in Commands
           /\ list[k].pid > 0 => list[k].pid \in Pids
BY ListFacts, InitAssumption DEF Entry

(* What a step has to keep.                                                *)
Holds1(p, c) == p > 0 => (proc'[p].state # "free" /\ proc'[p].cmd = c) \/ p \in missed'
PidStep ==
    /\ \A k \in DOMAIN list' : Holds1(list'[k].pid, list'[k].cmd)
    /\ moving' # <<>> => Holds1(moving'[1].pid, moving'[1].cmd)
    /\ pc' = "record" => Holds1(target', list'[i'].cmd) /\ list'[i'].pid = 0
    /\ \A q \in Alive : \A c \in Supervised :
         q \in Alive' /\ down = "no" /\ down' = "no" /\ Recorded(c, q) => Recorded(c, q)'

(* A supervised command is started only when it does not run.              *)
LEMMA StartsAlone ==
    ASSUME TypeOK, ListInv, MovingInv, ControlInv, PidInv, NEW q, Starts(q), list[i].cmd \in Supervised
    PROVE  list[i].type \in Kept /\ \A r \in Alive : proc[r].cmd # list[i].cmd
<1>1. list[i].type \in want \cap Kept /\ i \in DOMAIN list /\ pc = "run"
  BY StartedOnly DEF Supervised, Starts
<1>2. down = "no" /\ list[i].pid = 0
  BY <1>1 DEF ControlInv, Kept, Starts
<1>3. ASSUME NEW r \in Alive, proc[r].cmd = list[i].cmd PROVE FALSE
  <2>1. Recorded(list[i].cmd, r)
    BY <1>2, <1>3 DEF PidInv
  <2>2. PICK k \in DOMAIN list : list[k].cmd = list[i].cmd /\ list[k].pid = r
    BY <1>1, <2>1 DEF Recorded, MovingInv
  <2>3. k = i /\ r # 0
    BY <1>1, <2>2, InitAssumption DEF ListInv, Unique, Alive
  <2>. QED  BY <1>2, <2>2, <2>3
<1>. QED  BY <1>1, <1>3

LEMMA PidSteps ==
    ASSUME TypeOK, ListInv, MovingInv, ControlInv, Quiet, PidInv, PidStep, [Next]_vars PROVE PidInv'
<1>1. ControlStep
  BY ControlSteps
<1>2. ASSUME NEW q \in Alive', proc'[q].cmd \in Supervised
      PROVE  \/ q \in Alive /\ proc'[q].cmd = proc[q].cmd /\ (down' = "no" => down = "no")
             \/ q \in Unassigned /\ Starts(q) /\ proc'[q].cmd = list[i].cmd
  <2>1. q \in Pids /\ proc'[q].state = "alive" /\ proc'[q].cmd \in Commands
    BY <1>2 DEF Alive, Supervised, Only
  <2>2. q \in Alive /\ down' = "no" => down = "no"
    BY <1>1 DEF ControlStep, Quiet
  <2>3. Starts(q) => proc'[q].cmd = list[i].cmd
    BY <2>1 DEF Starts
  <2>. QED  BY <2>1, <2>2, <2>3, AliveNext
<1>3. ASSUME NEW q \in Alive', proc'[q].cmd \in Supervised, down' = "no" PROVE Recorded(proc[q].cmd, q)'
  <2>1. CASE q \in Alive /\ proc'[q].cmd = proc[q].cmd /\ down = "no"
    <3>1. Recorded(proc[q].cmd, q) /\ proc[q].cmd \in Supervised
      BY <1>3, <2>1 DEF PidInv
    <3>2. PICK c \in Supervised : c = proc[q].cmd
      BY <3>1
    <3>3. Recorded(c, q)'
      BY <1>3, <2>1, <3>1, <3>2 DEF PidStep
    <3>. QED  BY <2>1, <3>2, <3>3 DEF Recorded
  <2>2. CASE Starts(q) /\ proc'[q].cmd = list[i].cmd
    <3>1. list[i].type \in Kept
      BY <1>3, <2>2, StartsAlone
    <3>2. pc' = "record" /\ target' = q /\ i' = i /\ list' = list
      BY <2>2, <3>1 DEF Starts, Kept
    <3>. QED  BY <2>2, <3>2 DEF Recorded
  <2>. QED  BY <1>2, <1>3, <2>1, <2>2
<1>4. ASSUME NEW p \in Alive', NEW q \in Alive', proc'[p].cmd \in Supervised, proc'[p].cmd = proc'[q].cmd PROVE p = q
  <2>1. CASE Starts(p) /\ Starts(q)
    <3>. SUFFICES ASSUME p # q PROVE FALSE
      OBVIOUS
    <3>1. p \in Pids /\ q \in Pids
      BY DEF Alive
    <3>2. proc'[q] = [state |-> "alive", cmd |-> list[i].cmd] /\ proc'[q] = proc[q]
      BY <2>1, <3>1 DEF Starts
    <3>3. q \in Alive /\ proc[q].cmd = list[i].cmd /\ list[i].cmd \in Supervised
      BY <1>4, <3>1, <3>2 DEF Alive
    <3>. QED  BY <2>1, <3>3, StartsAlone
  <2>2. CASE q \in Alive /\ proc'[q].cmd = proc[q].cmd /\ Starts(p) /\ proc'[p].cmd = list[i].cmd
    BY <1>4, <2>2, StartsAlone
  <2>3. CASE p \in Alive /\ proc'[p].cmd = proc[p].cmd /\ Starts(q) /\ proc'[q].cmd = list[i].cmd
    BY <1>4, <2>3, StartsAlone
  <2>4. CASE p \in Alive /\ proc'[p].cmd = proc[p].cmd /\ q \in Alive /\ proc'[q].cmd = proc[q].cmd
    BY <1>4, <2>4 DEF PidInv
  <2>. QED  BY <1>2, <1>4, <2>1, <2>2, <2>3, <2>4
<1>5. /\ \A k \in DOMAIN list' : PidHolds(list[k].pid, list[k].cmd)'
      /\ moving' # <<>> => PidHolds(moving[1].pid, moving[1].cmd)'
      /\ pc' = "record" => PidHolds(target, list[i].cmd)' /\ list'[i'].pid = 0
  BY DEF PidStep, PidHolds, Child, Holds1
<1>. QED  BY <1>3, <1>4, <1>5 DEF PidInv

(* Steps that leave the processes alone.                                   *)
LEMMA SameHolds ==
    ASSUME proc' = proc, missed' = missed PROVE \A p, c : PidHolds(p, c) => Holds1(p, c)
BY DEF PidHolds, Holds1, Child

LEMMA PidNext ==
    ASSUME TypeOK, ListInv, MovingInv, ControlInv, StaleInv, Quiet, PidInv, [Next]_vars PROVE PidInv'
<1>0. \A k \in DOMAIN list : /\ list[k].pid \in Pids \cup {0, -1} /\ list[k].cmd \in Commands
                             /\ list[k].pid > 0 => list[k].pid \in Pids
  BY PidFacts
<1>a. Pids \subseteq Nat \ {0} /\ "daemon" \notin Commands /\ \A p \in Pids : p > 0
  BY InitAssumption
<1>b. moving # <<>> => /\ moving[1] \in Entry /\ pc = "parse"
                       /\ moving[1].pid > 0 => moving[1].pid \in Pids
  BY <1>a DEF TypeOK, MovingInv, Entry
<1>c. pc = "record" => i \in DOMAIN list /\ target \in Pids
  BY DEF ControlInv, TypeOK
<1>d. list \in Seq(Entry) /\ Unique(list)
  BY DEF TypeOK, ListInv
<1>1. ASSUME Calm PROVE PidStep
  BY <1>1, SameHolds DEF Calm, Aside, PidInv, PidStep, Recorded
<1>2. ASSUME NEW p \in Zombies, Reaps(p) PROVE PidStep
  <2>0. p \in Pids /\ p # 0 /\ p \notin Alive /\ missed \subseteq missed'
    BY <1>2, <1>a DEF Zombies, Alive, Reaps
  <2>a. \A r \in Pids : \A c : r # p /\ PidHolds(r, c) => Holds1(r, c)
    BY <1>2, <2>0 DEF PidHolds, Holds1, Child, Reaps
  <2>b. p \in missed' => \A c : Holds1(p, c)
    BY DEF Holds1
  <2>1. ASSUME NEW k \in DOMAIN list' PROVE Holds1(list'[k].pid, list'[k].cmd)
    <3>1. k \in DOMAIN list /\ list'[k].cmd = list[k].cmd /\ (list'[k].pid = IF Holds(list, k, p) THEN 0 ELSE list[k].pid)
      BY <1>2, <2>1 DEF Reaps, SameLines
    <3>2. CASE list'[k].pid > 0 /\ list[k].pid # p
      BY <1>0, <2>a, <3>1, <3>2 DEF PidInv
    <3>3. CASE list'[k].pid > 0 /\ list[k].pid = p
      <4>1. PICK j \in 1..(k - 1) : list[j].pid = p
        BY <3>1, <3>3 DEF Holds
      <4>2. j \in DOMAIN list /\ j # k
        BY <3>1, <4>1, ListFacts
      <4>3. p \in missed
        <5>1. list[j].cmd # list[k].cmd
          BY <1>d, <3>1, <4>2 DEF Unique
        <5>2. PidHolds(list[j].pid, list[j].cmd) /\ PidHolds(list[k].pid, list[k].cmd)
          BY <3>1, <4>2 DEF PidInv
        <5>. QED  BY <1>a, <2>0, <3>3, <4>1, <5>1, <5>2 DEF PidHolds, Child
      <4>. QED  BY <2>0, <3>1, <3>3, <4>3 DEF Holds1
    <3>4. CASE ~(list'[k].pid > 0)
      BY <3>4 DEF Holds1
    <3>. QED  BY <3>2, <3>3, <3>4
  <2>2. ASSUME moving' # <<>> PROVE Holds1(moving'[1].pid, moving'[1].cmd)
    <3>1. moving' = moving /\ moving # <<>>
      BY <1>2, <2>2 DEF Reaps, Aside
    <3>2. CASE moving[1].pid = p
      <4>1. p \in missed'
        BY <1>2, <3>1, <3>2 DEF Reaps, Unlisted
      <4>. QED  BY <2>b, <3>1, <3>2, <4>1
    <3>3. CASE moving[1].pid # p /\ moving[1].pid > 0
      BY <1>b, <2>a, <3>1, <3>3 DEF PidInv
    <3>4. CASE ~(moving[1].pid > 0)
      BY <3>1, <3>4 DEF Holds1
    <3>. QED  BY <3>2, <3>3, <3>4
  <2>3. ASSUME pc' = "record" PROVE Holds1(target', list'[i'].cmd) /\ list'[i'].pid = 0
    <3>1. pc = "record" /\ i' = i /\ target' = target /\ list'[i].cmd = list[i].cmd
      BY <1>2, <1>c, <2>3 DEF Reaps, Aside, SameLines
    <3>2. list'[i].pid = 0
      BY <1>2, <1>c, <3>1 DEF Reaps, PidInv
    <3>3. CASE target = p
      <4>1. p \in missed'
        BY <1>2, <3>1, <3>3 DEF Reaps, Unlisted
      <4>. QED  BY <2>b, <3>1, <3>2, <3>3, <4>1
    <3>4. CASE target # p
      BY <1>c, <2>a, <3>1, <3>2, <3>4 DEF PidInv
    <3>. QED  BY <3>3, <3>4
  <2>4. ASSUME NEW q \in Alive, NEW c \in Supervised, down' = "no", Recorded(c, q) PROVE Recorded(c, q)'
    <3>1. ASSUME NEW k \in DOMAIN list, list[k].cmd = c, list[k].pid = q PROVE Recorded(c, q)'
      <4>1. k \in DOMAIN list' /\ list'[k].cmd = c /\ list'[k].pid = q
        BY <1>2, <2>0, <3>1 DEF Reaps, SameLines, Holds
      <4>. QED  BY <4>1 DEF Recorded
    <3>2. moving' = moving /\ (pc = "record" => pc' = "record" /\ i' = i /\ target' = target /\ list'[i].cmd = list[i].cmd)
      BY <1>2, <1>c, <2>4 DEF Reaps, Aside, SameLines
    <3>. QED  BY <2>4, <3>1, <3>2 DEF Recorded
  <2>. QED  BY <2>1, <2>2, <2>3, <2>4 DEF PidStep
<1>3. ASSUME NEW p \in Unassigned, Starts(p) PROVE PidStep
  <2>0. /\ p \in Pids /\ proc[p].state = "free" /\ i \in DOMAIN list /\ pc = "run" /\ moving = <<>>
        /\ list' = list /\ moving' = moving /\ missed' = missed
    BY <1>3, <1>b DEF Unassigned, Free, Starts
  <2>a. \A r \in Pids : \A c : PidHolds(r, c) => Holds1(r, c)
    BY <1>3, <2>0 DEF PidHolds, Holds1, Child, Starts
  <2>1. \A k \in DOMAIN list' : Holds1(list'[k].pid, list'[k].cmd)
    BY <1>0, <2>0, <2>a DEF PidInv, Holds1
  <2>2. ASSUME pc' = "record" PROVE Holds1(target', list'[i'].cmd) /\ list'[i'].pid = 0
    <3>1. target' = p /\ i' = i /\ list[i].pid = 0
      BY <1>3, <2>0, <2>2 DEF Starts
    <3>2. proc'[p] = [state |-> "alive", cmd |-> list[i].cmd]
      BY <1>3, <2>0 DEF Starts
    <3>. QED  BY <2>0, <3>1, <3>2 DEF Holds1
  <2>3. \A q, c : Recorded(c, q) => Recorded(c, q)'
    BY <2>0 DEF Recorded
  <2>. QED  BY <2>0, <2>1, <2>2, <2>3 DEF PidStep
<1>4. ASSUME Fails PROVE PidStep
  <2>0. moving = <<>> /\ moving' = moving /\ pc = "run" /\ pc' = "run"
    BY <1>4, <1>b DEF Fails
  <2>1. ASSUME NEW k \in DOMAIN list' PROVE Holds1(list'[k].pid, list'[k].cmd)
    <3>1. k \in DOMAIN list /\ list'[k].cmd = list[k].cmd /\ (list'[k].pid = list[k].pid \/ list'[k].pid = -1)
      BY <1>4, <2>1 DEF Fails, SameLines
    <3>2. PidHolds(list[k].pid, list[k].cmd) => Holds1(list[k].pid, list[k].cmd)
      BY <1>4, SameHolds DEF Fails
    <3>. QED  BY <3>1, <3>2 DEF PidInv, Holds1
  <2>2. ASSUME NEW q \in Alive, NEW c \in Supervised, Recorded(c, q) PROVE Recorded(c, q)'
    <3>1. PICK k \in DOMAIN list : list[k].cmd = c /\ list[k].pid = q
      BY <2>0, <2>2 DEF Recorded
    <3>2. k \in DOMAIN list' /\ list'[k].cmd = c /\ list'[k].pid = q
      BY <1>4, <1>a, <3>1 DEF Fails, SameLines, Alive
    <3>. QED  BY <3>2 DEF Recorded
  <2>. QED  BY <2>0, <2>1, <2>2 DEF PidStep
<1>5. ASSUME Records PROVE PidStep
  <2>0. moving = <<>> /\ moving' = moving /\ pc = "record" /\ pc' = "run" /\ i \in DOMAIN list /\ list[i].pid = 0
    BY <1>5, <1>b DEF Records, PidInv
  <2>1. ASSUME NEW k \in DOMAIN list' PROVE Holds1(list'[k].pid, list'[k].cmd)
    <3>1. k \in DOMAIN list /\ list'[k].cmd = list[k].cmd /\ (list'[k].pid = IF k = i THEN target ELSE list[k].pid)
      BY <1>5, <2>1 DEF Records, SameLines
    <3>2. \A r, c : PidHolds(r, c) => Holds1(r, c)
      BY <1>5, SameHolds DEF Records
    <3>. QED  BY <2>0, <3>1, <3>2 DEF PidInv
  <2>2. ASSUME NEW q \in Alive, NEW c \in Supervised, Recorded(c, q) PROVE Recorded(c, q)'
    <3>1. q # 0
      BY <1>a DEF Alive
    <3>2. \E k \in DOMAIN list : list'[k].cmd = c /\ list'[k].pid = q
      <4>1. CASE list[i].cmd = c /\ target = q
        BY <1>5, <2>0, <4>1 DEF Records, SameLines
      <4>2. ASSUME NEW k \in DOMAIN list, list[k].cmd = c, list[k].pid = q PROVE list'[k].cmd = c /\ list'[k].pid = q
        BY <1>5, <2>0, <3>1, <4>2 DEF Records, SameLines
      <4>. QED  BY <2>0, <2>2, <4>1, <4>2 DEF Recorded
    <3>3. DOMAIN list' = DOMAIN list
      BY <1>5 DEF Records, SameLines
    <3>. QED  BY <3>2, <3>3 DEF Recorded
  <2>. QED  BY <2>0, <2>1, <2>2 DEF PidStep
<1>6. ASSUME Disables PROVE PidStep
  <2>0. moving = <<>> /\ moving' = moving /\ pc = "disable" /\ pc' = "parse"
    BY <1>6, <1>b DEF Disables
  <2>1. \A k \in DOMAIN list' : Holds1(list'[k].pid, list'[k].cmd)
    BY <1>6, SameHolds DEF Disables, PidInv
  <2>2. \A q, c : Recorded(c, q) => Recorded(c, q)'
    BY <1>6, <2>0 DEF Disables, Recorded
  <2>. QED  BY <2>0, <2>1, <2>2 DEF PidStep
<1>7. ASSUME Reads PROVE PidStep
  <2>0. moving = <<>> /\ moving' = moving /\ pc = "boot" /\ pc' = "boot" /\ rest # <<>> /\ Head(rest) \in Line
    BY <1>7, <1>b, RestFacts DEF Reads
  <2>1. PICK l \in Seq(Entry), e \in Entry :
             /\ Unique(l) /\ new_init_action(list, Head(rest)) = Append(l, e)
             /\ e.cmd = Head(rest).cmd /\ e.type = Head(rest).type /\ (\A j \in DOMAIN l : l[j].cmd # e.cmd)
             /\ \/ Same(list, Head(rest)) = {} /\ l = list /\ e.pid = 0
                \/ /\ Same(list, Head(rest)) # {} /\ l = RemoveAt(list, First(Same(list, Head(rest))))
                   /\ e.pid = list[First(Same(list, Head(rest)))].pid
    BY <1>d, <2>0, NewEntry
  <2>2. /\ \A j \in DOMAIN l : \E h \in DOMAIN list : l[j] = list[h]
        /\ e.pid = 0 \/ \E h \in DOMAIN list : list[h].cmd = e.cmd /\ list[h].pid = e.pid
        /\ \A h \in DOMAIN list : \/ \E j \in DOMAIN l : l[j] = list[h]
                                  \/ list[h].cmd = e.cmd /\ list[h].pid = e.pid
    <3>1. CASE l = list /\ e.pid = 0
      BY <3>1
    <3>2. CASE Same(list, Head(rest)) # {} /\ l = RemoveAt(list, First(Same(list, Head(rest)))) /\ e.pid = list[First(Same(list, Head(rest)))].pid
      <4>1. PICK k \in 1..Len(list) : k = First(Same(list, Head(rest))) /\ list[k].cmd = Head(rest).cmd
        BY <1>d, <3>2, FirstSame
      <4>2. l = RemoveAt(list, k) /\ e.pid = list[k].pid /\ e.cmd = list[k].cmd /\ k \in DOMAIN list
        BY <2>1, <3>2, <4>1, ListFacts
      <4>3. /\ \A j \in DOMAIN l : \E h \in DOMAIN list : l[j] = list[h]
            /\ \A h \in DOMAIN list : h # k => \E j \in DOMAIN l : l[j] = list[h]
        BY <1>d, <4>2, RemoveEntry
      <4>. QED  BY <4>2, <4>3
    <3>. QED  BY <2>1, <3>1, <3>2
  <2>3. list' = Append(l, e) /\ proc' = proc /\ missed' = missed
    BY <1>7, <2>1 DEF Reads
  <2>4. /\ \A j \in DOMAIN list' : list'[j] = e \/ \E h \in DOMAIN l : h = j /\ list'[j] = l[h]
        /\ \A h \in DOMAIN l : h \in DOMAIN list' /\ list'[h] = l[h]
        /\ \E j \in DOMAIN list' : list'[j] = e
    BY <2>1, <2>3, AppendEntry
  <2>5. ASSUME NEW j \in DOMAIN list' PROVE Holds1(list'[j].pid, list'[j].cmd)
    <3>1. list'[j].pid = 0 \/ \E h \in DOMAIN list : list[h].cmd = list'[j].cmd /\ list[h].pid = list'[j].pid
      BY <2>2, <2>4
    <3>2. \A r, c : PidHolds(r, c) => Holds1(r, c)
      BY <2>3, SameHolds
    <3>. QED  BY <3>1, <3>2 DEF PidInv, Holds1
  <2>6. ASSUME NEW q, NEW c, Recorded(c, q) PROVE Recorded(c, q)'
    <3>1. PICK k \in DOMAIN list : list[k].cmd = c /\ list[k].pid = q
      BY <2>0, <2>6 DEF Recorded
    <3>2. \E j \in DOMAIN list' : list'[j].cmd = c /\ list'[j].pid = q
      BY <2>2, <2>4, <3>1
    <3>. QED  BY <3>2 DEF Recorded
  <2>. QED  BY <2>0, <2>5, <2>6 DEF PidStep
<1>8. ASSUME Unlinks PROVE PidStep
  <2>0. /\ moving = <<>> /\ pc = "parse" /\ pc' = "parse" /\ proc' = proc /\ missed' = missed
        /\ Same(list, Head(rest)) # {}
    BY <1>8 DEF Unlinks
  <2>1. PICK k \in 1..Len(list) : k = First(Same(list, Head(rest)))
    BY <1>d, <2>0, FirstSame
  <2>2. PICK l : l = RemoveAt(list, k)
    OBVIOUS
  <2>3. list' = l /\ moving' = <<list[k]>> /\ k \in DOMAIN list
    BY <1>8, <2>1, <2>2, ListFacts DEF Unlinks
  <2>4. /\ \A j \in DOMAIN l : \E h \in DOMAIN list : l[j] = list[h]
        /\ \A h \in DOMAIN list : h # k => \E j \in DOMAIN l : l[j] = list[h]
    BY <1>d, <2>2, RemoveEntry
  <2>5. \A r, c : PidHolds(r, c) => Holds1(r, c)
    BY <2>0, SameHolds
  <2>6. \A j \in DOMAIN list' : Holds1(list'[j].pid, list'[j].cmd)
    BY <2>3, <2>4, <2>5 DEF PidInv
  <2>7. Holds1(moving'[1].pid, moving'[1].cmd)
    BY <2>3, <2>5 DEF PidInv
  <2>8. ASSUME NEW q, NEW c, Recorded(c, q) PROVE Recorded(c, q)'
    <3>1. PICK h \in DOMAIN list : list[h].cmd = c /\ list[h].pid = q
      BY <2>0, <2>8 DEF Recorded
    <3>2. CASE h = k
      BY <2>3, <3>1, <3>2 DEF Recorded
    <3>3. CASE h # k
      BY <2>3, <2>4, <3>1, <3>3 DEF Recorded
    <3>. QED  BY <3>2, <3>3
  <2>. QED  BY <2>0, <2>6, <2>7, <2>8 DEF PidStep
<1>9. ASSUME Relinks PROVE PidStep
  <2>0. pc = "parse" /\ pc' = "parse" /\ proc' = proc /\ missed' = missed /\ moving' = <<>> /\ rest # <<>>
    BY <1>9 DEF Relinks
  <2>1. /\ Relinked \in Entry /\ Relinked.cmd = Head(rest).cmd
        /\ Relinked.pid = IF moving = <<>> THEN 0 ELSE moving[1].pid
        /\ \A j \in DOMAIN list : list[j].cmd # Relinked.cmd
    BY <1>9, RelinkedIs
  <2>2. list' = Append(list, Relinked)
    BY <1>9 DEF Relinks
  <2>3. /\ \A j \in DOMAIN list' : list'[j] = Relinked \/ \E h \in DOMAIN list : h = j /\ list'[j] = list[h]
        /\ \A h \in DOMAIN list : h \in DOMAIN list' /\ list'[h] = list[h]
        /\ \E j \in DOMAIN list' : list'[j] = Relinked
    BY <1>d, <2>1, <2>2, AppendEntry
  <2>4. moving # <<>> => Relinked.cmd = moving[1].cmd /\ Relinked.pid = moving[1].pid
    BY <2>1 DEF MovingInv
  <2>5. \A r, c : PidHolds(r, c) => Holds1(r, c)
    BY <2>0, SameHolds
  <2>6. Holds1(Relinked.pid, Relinked.cmd)
    BY <2>1, <2>4, <2>5 DEF PidInv, Holds1
  <2>7. \A j \in DOMAIN list' : Holds1(list'[j].pid, list'[j].cmd)
    BY <2>3, <2>5, <2>6 DEF PidInv
  <2>8. ASSUME NEW q, NEW c, Recorded(c, q) PROVE Recorded(c, q)'
    <3>1. \/ \E h \in DOMAIN list : list[h].cmd = c /\ list[h].pid = q
          \/ Relinked.cmd = c /\ Relinked.pid = q
      BY <2>0, <2>4, <2>8 DEF Recorded
    <3>2. \E j \in DOMAIN list' : list'[j].cmd = c /\ list'[j].pid = q
      BY <2>3, <3>1
    <3>. QED  BY <3>2 DEF Recorded
  <2>. QED  BY <2>0, <2>7, <2>8 DEF PidStep
<1>10. ASSUME Removes PROVE PidStep
  <2>0. /\ moving = <<>> /\ moving' = moving /\ pc = "remove" /\ pc' = "remove" /\ proc' = proc /\ missed' = missed
        /\ i \in DOMAIN list /\ list[i].type \in {"stale", "sysinit"}
    BY <1>10, <1>b DEF Removes
  <2>1. PICK l : l = RemoveAt(list, i)
    OBVIOUS
  <2>2. list' = l /\ i \in 1..Len(list)
    BY <1>10, <2>1, ListFacts DEF Removes
  <2>3. /\ \A j \in DOMAIN l : \E h \in DOMAIN list : l[j] = list[h]
        /\ \A h \in DOMAIN list : h # i => \E j \in DOMAIN l : l[j] = list[h]
    BY <1>d, <2>1, <2>2, RemoveEntry
  <2>4. list[i].cmd \notin Supervised
    <3>1. CASE list[i].type = "stale"
      BY <2>0, <3>1 DEF StaleInv
    <3>2. CASE list[i].type = "sysinit"
      BY <2>0, <3>2, OnlyGiven DEF ListInv, Supervised, Kept
    <3>. QED  BY <2>0, <3>1, <3>2
  <2>5. \A j \in DOMAIN list' : Holds1(list'[j].pid, list'[j].cmd)
    BY <2>0, <2>2, <2>3, SameHolds DEF PidInv
  <2>6. ASSUME NEW q, NEW c \in Supervised, Recorded(c, q) PROVE Recorded(c, q)'
    <3>1. PICK h \in DOMAIN list : list[h].cmd = c /\ list[h].pid = q
      BY <2>0, <2>6 DEF Recorded
    <3>2. h # i
      BY <2>4, <2>6, <3>1
    <3>. QED  BY <2>2, <2>3, <3>1, <3>2 DEF Recorded
  <2>. QED  BY <2>0, <2>5, <2>6 DEF PidStep
<1>11. ASSUME Ends PROVE PidStep
  <2>1. list' = list /\ Aside /\ missed' = missed
    BY <1>11 DEF Ends
  <2>2. PICK D \in SUBSET Unassigned : \A q \in Pids :
          IF q \in D THEN proc'[q] = [state |-> "alive", cmd |-> "daemon"]
          ELSE /\ proc'[q].cmd = proc[q].cmd
               /\ proc'[q].state = proc[q].state \/ (q \in Alive /\ proc'[q].state = "zombie")
    BY <1>11 DEF Ends
  <2>3. \A r \in Pids : \A c : PidHolds(r, c) => Holds1(r, c)
    BY <2>1, <2>2 DEF PidHolds, Holds1, Child, Unassigned, Free
  <2>4. \A k \in DOMAIN list' : Holds1(list'[k].pid, list'[k].cmd)
    BY <1>0, <2>1, <2>3 DEF PidInv, Holds1
  <2>5. moving' # <<>> => Holds1(moving'[1].pid, moving'[1].cmd)
    BY <1>b, <2>1, <2>3 DEF Aside, PidInv, Holds1
  <2>6. pc' = "record" => Holds1(target', list'[i'].cmd) /\ list'[i'].pid = 0
    BY <1>c, <2>1, <2>3 DEF Aside, PidInv
  <2>7. \A q, c : down' = "no" /\ Recorded(c, q) => Recorded(c, q)'
    BY <2>1 DEF Aside, Recorded
  <2>. QED  BY <2>4, <2>5, <2>6, <2>7 DEF PidStep
<1>12. ASSUME Restarts PROVE PidStep
  <2>1. DOMAIN list' = {} /\ pc = "last" /\ pc' = "boot" /\ moving' = moving /\ moving = <<>>
    BY <1>12, <1>b DEF Restarts
  <2>. QED  BY <2>1 DEF PidStep, Quiet
<1>13. PidStep
  BY <1>1, <1>2, <1>3, <1>4, <1>5, <1>6, <1>7, <1>8, <1>9, <1>10, <1>11, <1>12, <1>c, Moves
<1>. QED  BY <1>13, PidSteps

-----------------------------------------------------------------------------
(* The shutdown: what run_actions has passed has been run, if no start     *)
(* fails.                                                                  *)
DownInv ==
    errors = MaxErrors /\ down # "no" =>
        \A k \in DOMAIN list : list[k].type = "shutdown" /\ (pc \in Ending \/ k < i) => list[k].cmd \in ran

LEMMA DownNext ==
    ASSUME TypeOK, ControlInv, DownInv, [Next]_vars PROVE DownInv'
<1>. USE DEF Waiting, Ending
<1>a. errors \in 0..MaxErrors /\ MaxErrors \in Nat
  BY InitAssumption DEF TypeOK
<1>b. ASSUME down = "no", down' = "no" PROVE DownInv'
  BY <1>b DEF DownInv
<1>c. ASSUME UNCHANGED <<errors, down, ran, i>>, pc' \in Ending => pc \in Ending, SameLines PROVE DownInv'
  BY <1>c DEF DownInv, SameLines
<1>d. list' = list => SameLines
  BY DEF SameLines, TypeOK
<1>e. ASSUME NEW p \in Zombies, Reap(p) PROVE SameLines
  BY <1>e, ReapLines
<1>f. ASSUME pc \notin {"run"} \cup Waiting \cup Ending, down' = down PROVE DownInv'
  BY <1>b, <1>f DEF ControlInv
<1>g. ASSUME i' = 1, pc' = "run", list' = list PROVE DownInv'
  <2>1. \A k \in DOMAIN list' : ~(k < i')
    BY <1>g, ListFacts
  <2>. QED  BY <1>g, <2>1 DEF DownInv
<1>1. CASE Boot
  BY <1>1, <1>f DEF Boot, Keep
<1>2. CASE RunEntry
  <2>0. UNCHANGED down /\ pc = "run"
    BY <1>2 DEF RunEntry, Keep
  <2>. SUFFICES ASSUME down # "no" PROVE DownInv'
    BY <1>b, <2>0
  <2>1. want = {"shutdown"}
    BY DEF ControlInv
  <2>2. i \in Nat /\ DOMAIN list \subseteq Nat
    BY ListFacts
  <2>3. CASE /\ Calm /\ pc' = "run" /\ i' = i + 1 /\ UNCHANGED <<target, errors, want, down, ran>>
             /\ i \in DOMAIN list /\ (list[i].type \notin want \/ list[i].type \in Kept)
    <3>1. list' = list /\ list[i].type # "shutdown"
      BY <2>1, <2>3 DEF Calm, Kept
    <3>2. \A k \in DOMAIN list : k < i + 1 => k < i \/ k = i
      BY <2>2
    <3>. QED  BY <2>0, <2>3, <3>1, <3>2 DEF DownInv
  <2>4. ASSUME NEW p \in Unassigned, Starts(p) PROVE DownInv'
    <3>1. list[i].type = "shutdown"
      BY <2>1, <2>4 DEF Starts
    <3>2. UNCHANGED <<errors, down, ran, i>> /\ pc' = "wait" /\ SameLines
      BY <1>d, <2>4, <3>1 DEF Starts, Kept
    <3>. QED  BY <1>c, <3>2
  <2>5. CASE Fails
    BY <1>a, <2>5 DEF Fails, DownInv
  <2>. QED  BY <1>2, <2>3, <2>4, <2>5, RunEntryIs
<1>3. CASE RunDone
  <2>0. UNCHANGED <<down, list, errors, ran, i>> /\ pc = "run" /\ i > Len(list)
    BY <1>3 DEF RunDone, Keep
  <2>1. \A k \in DOMAIN list : k < i
    BY <2>0, ListFacts
  <2>. QED  BY <2>0, <2>1 DEF DownInv
<1>4. CASE WaitCall
  <2>1. UNCHANGED <<errors, down, ran, i>> /\ pc' \notin Ending /\ SameLines
    BY <1>4, <1>d, <1>e DEF WaitCall, Keep
  <2>. QED  BY <1>c, <2>1
<1>5. CASE WaitReturns
  <2>1. UNCHANGED <<errors, down, ran, i>> /\ pc' \notin Ending /\ SameLines
    BY <1>5, <1>e DEF WaitReturns, Keep
  <2>. QED  BY <1>c, <2>1
<1>6. CASE Probe
  <2>1. UNCHANGED <<errors, down, list>> /\ pc = "probe" /\ i \in DOMAIN list
    BY <1>6 DEF Probe, Keep, ControlInv
  <2>2. CASE pc' = "wait" /\ UNCHANGED <<i, ran>>
    BY <1>c, <1>d, <2>1, <2>2
  <2>3. CASE pc' = "run" /\ i' = i + 1 /\ ran' = IF want = {"shutdown"} THEN ran \cup {list[i].cmd} ELSE ran
    <3>. SUFFICES ASSUME down # "no" PROVE DownInv'
      BY <1>b, <2>1
    <3>1. ran' = ran \cup {list[i].cmd}
      BY <2>3 DEF ControlInv
    <3>2. \A k \in DOMAIN list : k < i + 1 => k < i \/ k = i
      BY ListFacts
    <3>. QED  BY <2>1, <2>3, <3>1, <3>2 DEF DownInv
  <2>. QED  BY <1>6, <2>2, <2>3 DEF Probe
<1>7. CASE ReadSignal
  BY <1>7, <1>f DEF ReadSignal, Keep
<1>8. CASE ActOnSignal
  BY <1>8, <1>f DEF ActOnSignal, Keep
<1>9. CASE GoOn
  BY <1>9, <1>f DEF GoOn, Keep
<1>10. CASE ReapCall
  BY <1>10, <1>f DEF ReapCall, Keep
<1>11. CASE ReapReturns
  BY <1>11, <1>f DEF ReapReturns, Keep
<1>12. CASE Disable
  BY <1>12, <1>f DEF Disable, Keep
<1>13. CASE Parse
  BY <1>13, <1>f DEF Parse
<1>26. CASE Record
  BY <1>26, <1>f DEF Record, Keep
<1>27. CASE Unlink
  BY <1>27, <1>f DEF Unlink
<1>14. CASE RemoveStale
  BY <1>14, <1>f DEF RemoveStale, Keep
<1>15. CASE KillAll
  BY <1>15, <1>c, <1>d DEF KillAll, Keep
<1>16. CASE LowLevelReboot
  BY <1>16, <1>c, <1>d DEF LowLevelReboot, Keep
<1>17. CASE ReExec
  <2>1. CASE down' = "no"
    BY <2>1 DEF DownInv
  <2>2. CASE errors > 0 /\ errors' = errors - 1
    BY <1>a, <2>2 DEF DownInv
  <2>. QED  BY <1>17, <2>1, <2>2 DEF ReExec
<1>18. CASE StopReap
  <2>1. UNCHANGED <<errors, down, ran, i, pc, rest>>
    BY <1>18 DEF StopReap, control
  <2>2. SameLines
    BY <1>18, StopReapIs
  <2>. QED  BY <1>c, <2>1, <2>2
<1>19. CASE Continue
  <2>1. UNCHANGED <<errors, down, ran, i, list>> /\ (pc' \in Ending => pc \in Ending)
    BY <1>19 DEF Continue, Interrupted
  <2>. QED  BY <1>c, <1>d, <2>1
<1>20. CASE Stop
  BY <1>20, <1>c, <1>d DEF Stop, control
<1>21. CASE Restart
  <2>1. CASE UNCHANGED <<down, pc, want, i, target, point, nohang>>
    BY <1>21, <1>c, <1>d, <2>1 DEF Restart
  <2>2. CASE pc' = "run" /\ i' = 1
    BY <1>21, <1>g, <2>2 DEF Restart
  <2>. QED  BY <1>21, <2>1, <2>2 DEF Restart, Call
<1>22. ASSUME NEW s \in {"HUP", "INT"}, Delayed(s) PROVE DownInv'
  BY <1>22, <1>b DEF Delayed, Deliver
<1>23. ASSUME NEW s \in {"TERM", "USR1", "USR2"}, Halt(s) PROVE DownInv'
  BY <1>23, <1>g DEF Halt, Call
<1>24. ASSUME NEW p \in Pids, Exit(p) PROVE DownInv'
  BY <1>24, <1>c, <1>d DEF Exit, control
<1>25. CASE UNCHANGED vars
  BY <1>25, <1>c, <1>d DEF vars, control
<1>. QED
  BY <1>1, <1>2, <1>3, <1>4, <1>5, <1>6, <1>7, <1>8, <1>9, <1>10, <1>11, <1>12, <1>13, <1>14, <1>15, <1>16, <1>17, <1>18, <1>19, <1>20, <1>21, <1>22, <1>23, <1>24, <1>25, <1>26, <1>27 DEF Next, InitStep

-----------------------------------------------------------------------------
(* The lines of inittab in the list.                                       *)

(* Those of the first n lines that count, and a list that has them in      *)
(* their order after or among entries without a type.                      *)
UpTo(tab, n) == {k \in 1..n : \A j \in 1..n : tab[j].cmd = tab[k].cmd => j <= k}
Follows(l, tab, n) ==
    /\ \A k \in UpTo(tab, n) : \E j \in DOMAIN l : IsLine(l[j], tab[k])
    /\ \A j \in DOMAIN l : l[j].type # "stale" => \E k \in UpTo(tab, n) : IsLine(l[j], tab[k])
    /\ \A j, h \in DOMAIN l : \A k, m \in UpTo(tab, n) :
         j < h /\ IsLine(l[j], tab[k]) /\ IsLine(l[h], tab[m]) => k < m

(* The same for all of inittab, when the sysinit lines are being removed.  *)
Covers(l, tab) ==
    /\ \A k \in Counting(tab) : tab[k].type # "sysinit" => \E j \in DOMAIN l : IsLine(l[j], tab[k])
    /\ \A j \in DOMAIN l : l[j].type # "stale" => \E k \in Counting(tab) : IsLine(l[j], tab[k])
    /\ \A j, h \in DOMAIN l : \A k, m \in Counting(tab) :
         j < h /\ IsLine(l[j], tab[k]) /\ IsLine(l[h], tab[m]) => k < m

LEMMA UpToNext ==
    ASSUME NEW tab \in Seq(Line), NEW n \in Nat
    PROVE  /\ n + 1 \in UpTo(tab, n + 1) /\ UpTo(tab, n) \subseteq 1..n
           /\ \A k \in UpTo(tab, n + 1) : k # n + 1 => k \in UpTo(tab, n) /\ tab[k].cmd # tab[n + 1].cmd
           /\ \A k \in UpTo(tab, n) : tab[k].cmd # tab[n + 1].cmd => k \in UpTo(tab, n + 1)
<1>1. n + 1 \in UpTo(tab, n + 1) /\ UpTo(tab, n) \subseteq 1..n
  BY DEF UpTo
<1>2. ASSUME NEW k \in UpTo(tab, n + 1), k # n + 1 PROVE k \in UpTo(tab, n) /\ tab[k].cmd # tab[n + 1].cmd
  <2>1. k \in 1 .. n + 1 /\ \A j \in 1 .. n + 1 : tab[j].cmd = tab[k].cmd => j <= k
    BY DEF UpTo
  <2>2. k \in 1..n /\ ~(n + 1 <= k) /\ n + 1 \in 1 .. n + 1 /\ \A j \in 1..n : j \in 1 .. n + 1
    BY <1>2, <2>1
  <2>. QED  BY <2>1, <2>2 DEF UpTo
<1>3. ASSUME NEW k \in UpTo(tab, n), tab[k].cmd # tab[n + 1].cmd PROVE k \in UpTo(tab, n + 1)
  <2>1. k \in 1..n /\ \A j \in 1..n : tab[j].cmd = tab[k].cmd => j <= k
    BY DEF UpTo
  <2>2. ASSUME NEW j \in 1 .. n + 1, tab[j].cmd = tab[k].cmd PROVE j <= k
    <3>1. j \in 1..n
      BY <1>3, <2>2
    <3>. QED  BY <2>1, <2>2, <3>1
  <2>. QED  BY <2>1, <2>2 DEF UpTo
<1>. QED  BY <1>1, <1>2, <1>3

(* The same between the two halves of new_init_action: the entry of the    *)
(* next line is off the list.                                              *)
Kept1(tab, n) == UpTo(tab, n + 1) \ {n + 1}
Almost(l, tab, n) ==
    /\ \A k \in Kept1(tab, n) : \E j \in DOMAIN l : IsLine(l[j], tab[k])
    /\ \A j \in DOMAIN l : l[j].type # "stale" => \E k \in Kept1(tab, n) : IsLine(l[j], tab[k])
    /\ \A j, h \in DOMAIN l : \A k, m \in Kept1(tab, n) :
         j < h /\ IsLine(l[j], tab[k]) /\ IsLine(l[h], tab[m]) => k < m
    /\ \A j \in DOMAIN l : l[j].cmd # tab[n + 1].cmd

(* A list without the entries of the next line's command.                  *)
LEMMA FollowsAlmost ==
    ASSUME NEW tab \in Seq(Line), NEW n \in Nat, NEW l, Follows(l, tab, n), NEW m,
           \A j \in DOMAIN m : \E h \in DOMAIN l : m[j] = l[h] /\ l[h].cmd # tab[n + 1].cmd,
           \A h \in DOMAIN l : l[h].cmd # tab[n + 1].cmd => \E j \in DOMAIN m : m[j] = l[h],
           \A j, g \in DOMAIN m : j < g => \E h, f \in DOMAIN l : h < f /\ m[j] = l[h] /\ m[g] = l[f]
    PROVE  Almost(m, tab, n)
<1>1. /\ \A k \in Kept1(tab, n) : k \in UpTo(tab, n) /\ tab[k].cmd # tab[n + 1].cmd
      /\ \A k \in UpTo(tab, n) : tab[k].cmd # tab[n + 1].cmd => k \in Kept1(tab, n)
  BY UpToNext DEF Kept1
<1>2. ASSUME NEW k \in Kept1(tab, n) PROVE \E j \in DOMAIN m : IsLine(m[j], tab[k])
  <2>1. PICK h \in DOMAIN l : IsLine(l[h], tab[k])
    BY <1>1 DEF Follows
  <2>2. l[h].cmd # tab[n + 1].cmd
    BY <1>1, <2>1 DEF IsLine
  <2>3. PICK j \in DOMAIN m : m[j] = l[h]
    BY <2>2
  <2>. QED  BY <2>1, <2>3
<1>3. ASSUME NEW j \in DOMAIN m, m[j].type # "stale" PROVE \E k \in Kept1(tab, n) : IsLine(m[j], tab[k])
  <2>1. PICK h \in DOMAIN l : m[j] = l[h] /\ l[h].cmd # tab[n + 1].cmd
    OBVIOUS
  <2>2. PICK k \in UpTo(tab, n) : IsLine(l[h], tab[k])
    BY <1>3, <2>1 DEF Follows
  <2>. QED  BY <1>1, <2>1, <2>2 DEF IsLine
<1>4. ASSUME NEW j \in DOMAIN m, NEW g \in DOMAIN m, NEW k \in Kept1(tab, n), NEW q \in Kept1(tab, n),
             j < g, IsLine(m[j], tab[k]), IsLine(m[g], tab[q])
      PROVE  k < q
  <2>1. PICK h, f \in DOMAIN l : h < f /\ m[j] = l[h] /\ m[g] = l[f]
    BY <1>4
  <2>. QED  BY <1>1, <1>4, <2>1 DEF Follows
<1>. QED  BY <1>2, <1>3, <1>4 DEF Almost

LEMMA UnlinkAlmost ==
    ASSUME NEW tab \in Seq(Line), NEW n \in Nat, NEW l \in Seq(Entry), Unique(l), Follows(l, tab, n),
           NEW k \in 1..Len(l), l[k].cmd = tab[n + 1].cmd
    PROVE  Almost(RemoveAt(l, k), tab, n)
<1>. DEFINE m == RemoveAt(l, k)
<1>0. Len(l) \in Nat /\ DOMAIN l = 1..Len(l) /\ \A h \in DOMAIN l : h # k => l[h].cmd # tab[n + 1].cmd
  BY LenProperties DEF Unique
<1>1. DOMAIN m = 1 .. Len(l) - 1 /\ \A j \in 1 .. Len(l) - 1 : m[j] = IF j < k THEN l[j] ELSE l[j + 1]
  <2>1. m \in Seq(Entry) /\ Len(m) = Len(l) - 1 /\ \A j \in 1 .. Len(l) - 1 : m[j] = IF j < k THEN l[j] ELSE l[j + 1]
    BY RemoveAtFacts
  <2>. HIDE DEF m
  <2>. QED  BY <2>1
<1>2. \A h \in DOMAIN l : h # k => \E j \in DOMAIN m : m[j] = l[h]
  BY RemoveEntry
<1>. HIDE DEF m
<1>3. \A j \in DOMAIN m : \E h \in DOMAIN l : h # k /\ m[j] = l[h] /\ (h = IF j < k THEN j ELSE j + 1)
  BY <1>0, <1>1
<1>4. ASSUME NEW j \in DOMAIN m, NEW g \in DOMAIN m, j < g
      PROVE  \E h, f \in DOMAIN l : h < f /\ m[j] = l[h] /\ m[g] = l[f]
  <2>1. PICK h \in DOMAIN l : (h = IF j < k THEN j ELSE j + 1) /\ m[j] = l[h]
    BY <1>3
  <2>2. PICK f \in DOMAIN l : (f = IF g < k THEN g ELSE g + 1) /\ m[g] = l[f]
    BY <1>3
  <2>3. h < f
    BY <1>0, <1>1, <1>4, <2>1, <2>2
  <2>. QED  BY <2>1, <2>2, <2>3
<1>5. /\ \A j \in DOMAIN m : \E h \in DOMAIN l : m[j] = l[h] /\ l[h].cmd # tab[n + 1].cmd
      /\ \A h \in DOMAIN l : l[h].cmd # tab[n + 1].cmd => \E j \in DOMAIN m : m[j] = l[h]
  BY <1>0, <1>2, <1>3
<1>6. Almost(m, tab, n)
  BY <1>4, <1>5, FollowsAlmost
<1>. QED  BY <1>6 DEF m

LEMMA NoneAlmost ==
    ASSUME NEW tab \in Seq(Line), NEW n \in Nat, NEW l, Follows(l, tab, n), \A j \in DOMAIN l : l[j].cmd # tab[n + 1].cmd
    PROVE  Almost(l, tab, n)
BY FollowsAlmost

LEMMA AppendFollows ==
    ASSUME NEW l \in Seq(Entry), NEW e \in Entry, NEW tab \in Seq(Line), NEW n \in Nat,
           Almost(l, tab, n), IsLine(e, tab[n + 1])
    PROVE  Follows(Append(l, e), tab, n + 1)
<1>1. PICK m \in Seq(Entry), b \in Nat : m = Append(l, e) /\ b = Len(l)
  <2>1. Append(l, e) \in Seq(Entry) /\ Len(l) \in Nat
    OBVIOUS
  <2>. QED  BY <2>1
<1>2. /\ DOMAIN m = 1 .. b + 1 /\ DOMAIN l = 1..b /\ m[b + 1] = e /\ \A j \in 1..b : m[j] = l[j]
  BY <1>1
<1>3. /\ n + 1 \in UpTo(tab, n + 1) /\ UpTo(tab, n + 1) = Kept1(tab, n) \cup {n + 1}
      /\ \A k \in Kept1(tab, n) : k \in 1..n /\ tab[k].cmd # tab[n + 1].cmd
  <2>1. /\ n + 1 \in UpTo(tab, n + 1) /\ UpTo(tab, n) \subseteq 1..n
        /\ \A k \in UpTo(tab, n + 1) : k # n + 1 => k \in UpTo(tab, n) /\ tab[k].cmd # tab[n + 1].cmd
    BY UpToNext
  <2>. QED  BY <2>1 DEF Kept1
<1>4. b + 1 \in DOMAIN m /\ \A j \in DOMAIN m : j \in DOMAIN l \/ j = b + 1
  BY <1>2
<1>5. ASSUME NEW k \in UpTo(tab, n + 1) PROVE \E j \in DOMAIN m : IsLine(m[j], tab[k])
  <2>1. CASE k = n + 1
    BY <1>2, <1>4, <2>1
  <2>2. CASE k \in Kept1(tab, n)
    <3>1. PICK j \in DOMAIN l : IsLine(l[j], tab[k])
      BY <2>2 DEF Almost
    <3>. QED  BY <1>2, <3>1
  <2>. QED  BY <1>3, <2>1, <2>2
<1>6. ASSUME NEW j \in DOMAIN m, m[j].type # "stale" PROVE \E k \in UpTo(tab, n + 1) : IsLine(m[j], tab[k])
  <2>1. CASE j = b + 1
    BY <1>2, <1>3, <2>1
  <2>2. CASE j \in DOMAIN l
    BY <1>2, <1>3, <1>6, <2>2 DEF Almost
  <2>. QED  BY <1>4, <2>1, <2>2
<1>7. ASSUME NEW j \in DOMAIN m, NEW g \in DOMAIN m, NEW k \in UpTo(tab, n + 1), NEW q \in UpTo(tab, n + 1),
             j < g, IsLine(m[j], tab[k]), IsLine(m[g], tab[q])
      PROVE  k < q
  <2>1. j \in DOMAIN l /\ m[j] = l[j]
    BY <1>2, <1>4, <1>7
  <2>2. k \in Kept1(tab, n)
    BY <1>3, <1>7, <2>1 DEF Almost, IsLine
  <2>3. CASE g = b + 1
    <3>1. q = n + 1
      BY <1>2, <1>3, <1>7, <2>3 DEF IsLine
    <3>. QED  BY <1>3, <2>2, <3>1
  <2>4. CASE g \in DOMAIN l
    <3>1. m[g] = l[g]
      BY <1>2, <2>4
    <3>2. q \in Kept1(tab, n)
      BY <1>3, <1>7, <2>4, <3>1 DEF Almost, IsLine
    <3>. QED  BY <1>7, <2>1, <2>2, <2>4, <3>1, <3>2 DEF Almost
  <2>. QED  BY <1>4, <2>3, <2>4
<1>8. Follows(m, tab, n + 1)
  BY <1>5, <1>6, <1>7 DEF Follows
<1>. QED  BY <1>1, <1>8

LEMMA RemoveCovers ==
    ASSUME NEW l \in Seq(Entry), NEW tab \in Seq(Line), Covers(l, tab), NEW k \in 1..Len(l),
           l[k].type \in {"stale", "sysinit"}
    PROVE  /\ Covers(RemoveAt(l, k), tab)
           /\ \A j \in DOMAIN RemoveAt(l, k) : j < k => j \in DOMAIN l /\ RemoveAt(l, k)[j] = l[j]
<1>. DEFINE m == RemoveAt(l, k)
<1>0. Len(l) \in Nat /\ DOMAIN l = 1..Len(l)
  BY LenProperties
<1>1. DOMAIN m = 1 .. Len(l) - 1 /\ \A j \in 1 .. Len(l) - 1 : m[j] = IF j < k THEN l[j] ELSE l[j + 1]
  <2>1. m \in Seq(Entry) /\ Len(m) = Len(l) - 1 /\ \A j \in 1 .. Len(l) - 1 : m[j] = IF j < k THEN l[j] ELSE l[j + 1]
    BY RemoveAtFacts
  <2>. HIDE DEF m
  <2>. QED  BY <2>1
<1>. HIDE DEF m
<1>2. ASSUME NEW j \in DOMAIN m PROVE \E h \in DOMAIN l : m[j] = l[h] /\ (h = IF j < k THEN j ELSE j + 1)
  BY <1>0, <1>1
<1>3. ASSUME NEW h \in DOMAIN l, h # k PROVE \E j \in DOMAIN m : m[j] = l[h]
  <2>1. CASE h < k
    BY <1>0, <1>1, <2>1
  <2>2. CASE h > k
    <3>1. h - 1 \in DOMAIN m /\ (h - 1) + 1 = h /\ ~(h - 1 < k)
      BY <1>0, <1>1, <2>2
    <3>2. m[h - 1] = l[h]
      BY <1>1, <3>1
    <3>. QED  BY <3>1, <3>2
  <2>. QED  BY <1>0, <1>3, <2>1, <2>2
<1>4. ASSUME NEW q \in Counting(tab), tab[q].type # "sysinit" PROVE \E j \in DOMAIN m : IsLine(m[j], tab[q])
  <2>1. PICK h \in DOMAIN l : IsLine(l[h], tab[q])
    BY <1>4 DEF Covers
  <2>2. tab[q].type # "stale"
    <3>1. tab[q] \in Line
      BY ElementOfSeq, LenProperties DEF Counting
    <3>. QED  BY <3>1 DEF Line
  <2>3. h # k
    BY <1>4, <2>1, <2>2 DEF IsLine
  <2>. QED  BY <1>3, <2>1, <2>3
<1>5. ASSUME NEW j \in DOMAIN m, m[j].type # "stale" PROVE \E q \in Counting(tab) : IsLine(m[j], tab[q])
  BY <1>2, <1>5 DEF Covers
<1>6. ASSUME NEW j \in DOMAIN m, NEW g \in DOMAIN m, NEW p \in Counting(tab), NEW q \in Counting(tab),
             j < g, IsLine(m[j], tab[p]), IsLine(m[g], tab[q])
      PROVE  p < q
  <2>1. PICK h \in DOMAIN l : m[j] = l[h] /\ (h = IF j < k THEN j ELSE j + 1)
    BY <1>2
  <2>2. PICK f \in DOMAIN l : m[g] = l[f] /\ (f = IF g < k THEN g ELSE g + 1)
    BY <1>2
  <2>3. h < f
    BY <1>0, <1>1, <1>6, <2>1, <2>2
  <2>. QED  BY <1>6, <2>1, <2>2, <2>3 DEF Covers
<1>7. Covers(m, tab)
  BY <1>4, <1>5, <1>6 DEF Covers
<1>8. \A j \in DOMAIN m : j < k => j \in DOMAIN l /\ m[j] = l[j]
  BY <1>0, <1>1
<1>. QED  BY <1>7, <1>8 DEF m

(* Where init is in reading inittab.                                       *)
ReadSoFar(n) ==
    /\ n \in Nat /\ n <= Len(file) /\ Len(rest) = Len(file) - n
    /\ \A q \in 1..Len(rest) : rest[q] = file[n + q]
Working == {"run", "record", "wait", "waiting", "probe", "check", "reap", "asleep"}
NoStale == \A j \in DOMAIN list : list[j].type # "stale"

(* The list while inittab is read: with, or for a moment without, the      *)
(* entry of the next line.                                                 *)
Part(n) == IF moving = <<>> THEN Follows(list, file, n) ELSE Almost(list, file, n)

(* Without a signal pending, the list has what has been read of the latest *)
(* inittab.                                                                *)
FileInv ==
    "INT" \notin Signals =>
      /\ signal # "INT" /\ (pc = "clear" => got = "HUP")
      /\ signal = "none" /\ down = "no" =>
           /\ pc \in {"boot", "parse"} => \E n \in Nat : ReadSoFar(n) /\ Part(n)
           /\ pc = "boot" => NoStale
           /\ pc = "remove" => /\ Covers(list, file)
                               /\ \A j \in DOMAIN list : j < i => list[j].type # "stale"
           /\ pc \in Working => InForce(list, file)

LEMMA SameCovers ==
    ASSUME SameLines, file' = file
    PROVE  /\ InForce(list, file) => InForce(list', file') /\ Covers(list', file')
           /\ Covers(list, file) => Covers(list', file')
           /\ \A n \in Nat : Follows(list, file, n) => Follows(list', file', n)
           /\ \A n \in Nat : Almost(list, file, n) => Almost(list', file', n)
           /\ NoStale => NoStale'
<1>1. /\ DOMAIN list' = DOMAIN list
      /\ \A k \in DOMAIN list : \A x : IsLine(list'[k], x) <=> IsLine(list[k], x)
  BY DEF SameLines, IsLine
<1>2. \A k \in DOMAIN list : list'[k].type = list[k].type
  BY DEF SameLines
<1>3. InForce(list, file) => InForce(list', file')
  BY <1>1 DEF InForce
<1>4. InForce(list, file) => Covers(list', file')
  BY <1>1 DEF InForce, Covers
<1>5. Covers(list, file) => Covers(list', file')
  BY <1>1, <1>2 DEF Covers
<1>6. \A n \in Nat : Follows(list, file, n) => Follows(list', file', n)
  BY <1>1, <1>2 DEF Follows
<1>7. NoStale => NoStale'
  BY <1>1, <1>2 DEF NoStale
<1>8. \A n \in Nat : Almost(list, file, n) => Almost(list', file', n)
  <2>1. \A k \in DOMAIN list : list'[k].cmd = list[k].cmd
    BY DEF SameLines
  <2>. QED  BY <1>1, <1>2, <2>1 DEF Almost
<1>. QED  BY <1>3, <1>4, <1>5, <1>6, <1>7, <1>8

(* All lines are read.                                                     *)
LEMMA AllRead ==
    ASSUME TypeOK, rest = <<>>, NEW n \in Nat, ReadSoFar(n), Follows(list, file, n)
    PROVE  Covers(list, file) /\ (NoStale => InForce(list, file))
<1>1. file \in Seq(Line) /\ Len(file) \in Nat /\ DOMAIN file = 1..Len(file)
  BY InitAssumption, LenProperties DEF TypeOK
<1>2. Len(rest) = 0
  OBVIOUS
<1>3. n = Len(file)
  BY <1>1, <1>2 DEF ReadSoFar
<1>4. UpTo(file, n) = Counting(file)
  BY <1>1, <1>3 DEF UpTo, Counting
<1>. QED  BY <1>4 DEF Follows, Covers, InForce, NoStale

(* What the next line is, and what is left to read after it.               *)
LEMMA NextLine ==
    ASSUME TypeOK, rest # <<>>, NEW n \in Nat, ReadSoFar(n)
    PROVE  /\ file \in Seq(Line) /\ Head(rest) = file[n + 1]
           /\ file' = file /\ rest' = Tail(rest) => n + 1 \in Nat /\ ReadSoFar(n + 1)'
<1>1. file \in Seq(Line) /\ Len(file) \in Nat /\ rest \in Seq(Line)
  BY InitAssumption, LenProperties DEF TypeOK
<1>2. /\ Len(rest) \in Nat \ {0} /\ Head(rest) = rest[1] /\ Len(Tail(rest)) = Len(rest) - 1
      /\ \A k \in 1..Len(Tail(rest)) : Tail(rest)[k] = rest[k + 1]
  BY <1>1, EmptySeq, LenProperties, HeadTailProperties
<1>3. Head(rest) = file[n + 1] /\ n + 1 \in Nat /\ n + 1 <= Len(file) /\ Len(Tail(rest)) = Len(file) - (n + 1)
  BY <1>1, <1>2 DEF ReadSoFar
<1>4. ASSUME NEW q \in 1..Len(Tail(rest)) PROVE Tail(rest)[q] = file[(n + 1) + q]
  <2>1. q + 1 \in 1..Len(rest) /\ n + (q + 1) = (n + 1) + q
    BY <1>2
  <2>. QED  BY <1>2, <2>1 DEF ReadSoFar
<1>5. file' = file /\ rest' = Tail(rest) => ReadSoFar(n + 1)'
  BY <1>3, <1>4 DEF ReadSoFar
<1>. QED  BY <1>1, <1>3, <1>5

(* The next line is read while init starts.                                *)
LEMMA BootLine ==
    ASSUME TypeOK, ListInv, rest # <<>>, file' = file, list' = new_init_action(list, Head(rest)), rest' = Tail(rest),
           NEW n \in Nat, ReadSoFar(n), Follows(list, file, n)
    PROVE  /\ (\E k \in Nat : ReadSoFar(k)' /\ Follows(list', file', k)) /\ (NoStale => NoStale')
<1>1. /\ file \in Seq(Line) /\ Head(rest) = file[n + 1] /\ n + 1 \in Nat /\ ReadSoFar(n + 1)'
      /\ list \in Seq(Entry) /\ Unique(list) /\ Head(rest) \in Line
  BY NextLine, RestFacts DEF TypeOK, ListInv
<1>2. PICK l \in Seq(Entry), e \in Entry :
             /\ Unique(l) /\ new_init_action(list, Head(rest)) = Append(l, e)
             /\ e.cmd = Head(rest).cmd /\ e.type = Head(rest).type /\ (\A j \in DOMAIN l : l[j].cmd # e.cmd)
             /\ \/ Same(list, Head(rest)) = {} /\ l = list /\ e.pid = 0
                \/ /\ Same(list, Head(rest)) # {} /\ l = RemoveAt(list, First(Same(list, Head(rest))))
                   /\ e.pid = list[First(Same(list, Head(rest)))].pid
  BY <1>1, NewEntry
<1>3. Almost(l, file, n) /\ \A j \in DOMAIN l : \E h \in DOMAIN list : l[j] = list[h]
  <2>1. CASE l = list
    BY <1>1, <1>2, <2>1, NoneAlmost
  <2>2. CASE Same(list, Head(rest)) # {} /\ l = RemoveAt(list, First(Same(list, Head(rest))))
    <3>1. PICK k \in 1..Len(list) : k = First(Same(list, Head(rest))) /\ list[k].cmd = Head(rest).cmd
      BY <1>1, <2>2, FirstSame
    <3>2. l = RemoveAt(list, k) /\ list[k].cmd = file[n + 1].cmd
      BY <1>1, <2>2, <3>1
    <3>. QED  BY <1>1, <3>2, UnlinkAlmost, RemoveEntry
  <2>. QED  BY <1>2, <2>1, <2>2
<1>4. list' = Append(l, e) /\ IsLine(e, file[n + 1])
  BY <1>1, <1>2 DEF IsLine
<1>5. Follows(list', file', n + 1)
  BY <1>1, <1>3, <1>4, AppendFollows
<1>6. ASSUME NoStale PROVE NoStale'
  <2>1. e.type # "stale"
    BY <1>1, <1>2 DEF Line
  <2>a. Unique(l) /\ \A j \in DOMAIN l : l[j].cmd # e.cmd
    BY <1>2
  <2>2. \A j \in DOMAIN list' : list'[j] = e \/ \E h \in DOMAIN l : h = j /\ list'[j] = l[h]
    BY <1>4, <2>a, AppendEntry
  <2>. QED  BY <1>3, <1>6, <2>1, <2>2 DEF NoStale
<1>. QED  BY <1>1, <1>5, <1>6

LEMMA UnlinkPart ==
    ASSUME TypeOK, ListInv, Unlinks, file' = file, NEW n \in Nat, ReadSoFar(n), Part(n)
    PROVE  ReadSoFar(n)' /\ Part(n)'
<1>1. /\ file \in Seq(Line) /\ Head(rest) = file[n + 1] /\ list \in Seq(Entry) /\ Unique(list)
      /\ moving = <<>> /\ Same(list, Head(rest)) # {} /\ rest' = rest /\ Follows(list, file, n)
  BY NextLine DEF Unlinks, TypeOK, ListInv, Part
<1>2. PICK k \in 1..Len(list) : k = First(Same(list, Head(rest))) /\ list[k].cmd = Head(rest).cmd
  BY <1>1, FirstSame
<1>3. list' = RemoveAt(list, k) /\ list[k].cmd = file[n + 1].cmd /\ moving' = <<list[k]>>
  BY <1>1, <1>2 DEF Unlinks
<1>4. Almost(list', file, n)
  BY <1>1, <1>3, UnlinkAlmost
<1>5. moving' # <<>>
  BY <1>3
<1>. QED  BY <1>1, <1>4, <1>5 DEF Part, ReadSoFar

LEMMA RelinkPart ==
    ASSUME TypeOK, ListInv, MovingInv, Relinks, file' = file, NEW n \in Nat, ReadSoFar(n), Part(n)
    PROVE  n + 1 \in Nat /\ ReadSoFar(n + 1)' /\ Part(n + 1)'
<1>1. /\ file \in Seq(Line) /\ Head(rest) = file[n + 1] /\ n + 1 \in Nat /\ ReadSoFar(n + 1)' /\ list \in Seq(Entry)
      /\ list' = Append(list, Relinked) /\ moving' = <<>>
  BY NextLine DEF Relinks, TypeOK
<1>2. /\ Relinked \in Entry /\ IsLine(Relinked, file[n + 1])
      /\ \A j \in DOMAIN list : list[j].cmd # file[n + 1].cmd
  BY <1>1, RelinkedIs DEF IsLine
<1>3. Almost(list, file, n)
  BY <1>1, <1>2, NoneAlmost DEF Part
<1>4. Follows(list', file', n + 1)
  BY <1>1, <1>2, <1>3, AppendFollows
<1>. QED  BY <1>1, <1>4 DEF Part

(* Nothing is read yet.                                                    *)
LEMMA NoneRead ==
    ASSUME TypeOK, NEW l, \A j \in DOMAIN l : l[j].type = "stale"
    PROVE  Follows(l, file, 0) /\ Len(file) \in Nat
<1>1. UpTo(file, 0) = {}
  BY DEF UpTo
<1>2. Len(file) \in Nat
  BY InitAssumption, LenProperties DEF TypeOK
<1>. QED  BY <1>1, <1>2 DEF Follows

LEMMA FileNext ==
    ASSUME TypeOK, ListInv, MovingInv, ControlInv, FileInv, [Next]_vars PROVE FileInv'
<1>. USE DEF Working
<1>0. CASE "INT" \in Signals
  BY <1>0 DEF FileInv
<1>. SUFFICES ASSUME "INT" \notin Signals PROVE FileInv'
  BY <1>0
<1>a. ASSUME UNCHANGED <<file, signal, down>>, SameLines, pc \in Working, pc' \in Working PROVE FileInv'
  BY <1>a, SameCovers DEF FileInv
<1>b. ASSUME UNCHANGED <<file, signal, down, rest, got, i, pc, moving>>, SameLines PROVE FileInv'
  <2>1. \A n \in Nat : ReadSoFar(n) => ReadSoFar(n)'
    BY <1>b DEF ReadSoFar
  <2>2. /\ signal' # "INT" /\ (pc' = "clear" => got' = "HUP")
    BY <1>b DEF FileInv
  <2>3. ASSUME signal' = "none", down' = "no", pc' \in {"boot", "parse"}
        PROVE  \E n \in Nat : ReadSoFar(n)' /\ Part(n)'
    <3>1. PICK n \in Nat : ReadSoFar(n) /\ Part(n)
      BY <1>b, <2>3 DEF FileInv
    <3>2. /\ \A x \in Nat : Follows(list, file, x) => Follows(list', file', x)
          /\ \A x \in Nat : Almost(list, file, x) => Almost(list', file', x)
      <4>1. SameLines /\ file' = file
        BY <1>b
      <4>. QED  BY <4>1, SameCovers
    <3>3. Part(n)'
      BY <1>b, <3>1, <3>2 DEF Part
    <3>. QED  BY <2>1, <3>1, <3>3
  <2>4. ASSUME signal' = "none", down' = "no", pc' = "boot" PROVE NoStale'
    BY <1>b, <2>4, SameCovers DEF FileInv
  <2>5. ASSUME signal' = "none", down' = "no", pc' = "remove"
        PROVE  Covers(list', file') /\ \A j \in DOMAIN list' : j < i' => list'[j].type # "stale"
    BY <1>b, <2>5, SameCovers DEF FileInv, SameLines
  <2>6. ASSUME signal' = "none", down' = "no", pc' \in Working PROVE InForce(list', file')
    BY <1>b, <2>6, SameCovers DEF FileInv
  <2>. QED  BY <2>2, <2>3, <2>4, <2>5, <2>6 DEF FileInv
<1>c. ASSUME pc' \in {"disable", "term", "kill", "last", "off"} \/ down' # "no" \/ signal' = "HUP", signal' # "INT",
             pc' # "clear" \/ (pc = "clear" /\ UNCHANGED got)
      PROVE  FileInv'
  BY <1>c DEF FileInv
<1>d. list' = list => SameLines
  BY DEF SameLines, TypeOK
<1>e. signal # "INT" /\ (pc = "clear" => got = "HUP")
  BY DEF FileInv
<1>1. CASE Boot
  <2>0. UNCHANGED <<file, signal, down, moving>> /\ pc = "boot" /\ moving = <<>>
    BY <1>1 DEF Boot, Keep, MovingInv
  <2>1. CASE rest = <<>>
    <3>1. pc' = "run" /\ list' = list
      BY <1>1, <2>1 DEF Boot, Call
    <3>2. ASSUME signal = "none", down = "no" PROVE InForce(list', file')
      BY <2>0, <2>1, <3>1, <3>2, AllRead DEF FileInv, Part
    <3>. QED  BY <1>e, <2>0, <3>1, <3>2 DEF FileInv
  <2>2. CASE rest # <<>>
    <3>1. pc' = "boot" /\ list' = new_init_action(list, Head(rest)) /\ rest' = Tail(rest)
      BY <1>1, <2>0, <2>2 DEF Boot
    <3>2. ASSUME signal = "none", down = "no"
          PROVE  (\E n \in Nat : ReadSoFar(n)' /\ Part(n)') /\ NoStale'
      <4>1. NoStale /\ \E n \in Nat : ReadSoFar(n) /\ Follows(list, file, n)
        BY <2>0, <3>2 DEF FileInv, Part
      <4>2. (\E n \in Nat : ReadSoFar(n)' /\ Follows(list', file', n)) /\ NoStale'
        BY <2>0, <2>2, <3>1, <4>1, BootLine
      <4>. QED  BY <2>0, <4>2 DEF Part
    <3>. QED  BY <1>e, <2>0, <3>1, <3>2 DEF FileInv
  <2>. QED  BY <2>1, <2>2
<1>2. CASE RunEntry
  <2>1. UNCHANGED <<file, signal, down>> /\ pc \in Working /\ pc' \in Working
    BY <1>2 DEF RunEntry, Keep
  <2>2. SameLines
    BY <1>2, <1>d, RunEntryIs DEF Calm, Starts, Fails
  <2>. QED  BY <1>a, <2>1, <2>2
<1>3. CASE RunDone
  BY <1>3, <1>a, <1>c, <1>d, <1>e DEF RunDone, Keep
<1>4. CASE WaitCall
  <2>1. UNCHANGED <<file, signal, down, rest>> /\ pc \in Working /\ pc' \in Working
    BY <1>4 DEF WaitCall, Keep
  <2>2. list' = list \/ \E p \in Zombies : Reap(p)
    BY <1>4 DEF WaitCall
  <2>3. SameLines
    BY <1>d, <2>2, ReapLines
  <2>. QED  BY <1>a, <2>1, <2>3
<1>5. CASE WaitReturns
  <2>1. UNCHANGED <<file, signal, down, rest>> /\ pc \in Working /\ pc' \in Working
    BY <1>5 DEF WaitReturns, Keep
  <2>2. SameLines
    BY <1>5, ReapLines DEF WaitReturns
  <2>. QED  BY <1>a, <2>1, <2>2
<1>6. CASE Probe
  BY <1>6, <1>a, <1>d DEF Probe, Keep
<1>7. CASE ReadSignal
  <2>1. UNCHANGED <<signal, down, file>> /\ signal # "none" /\ got' = signal /\ pc' = "clear"
    BY <1>7 DEF ReadSignal, Keep
  <2>2. signal \in {"none", "HUP", "INT"}
    BY DEF TypeOK
  <2>. QED  BY <1>e, <2>1, <2>2 DEF FileInv
<1>8. CASE ActOnSignal
  <2>1. got = "HUP" /\ pc' = "disable" /\ signal' = "none"
    BY <1>8, <1>e DEF ActOnSignal
  <2>. QED  BY <1>c, <2>1
<1>9. CASE GoOn
  <2>1. UNCHANGED <<file, signal, down, list>> /\ pc = "check" /\ point \in 1..5
    BY <1>9 DEF GoOn, Keep, TypeOK
  <2>2. pc' \in Working
    <3>1. CASE point = 1  BY <1>9, <3>1 DEF GoOn, Call
    <3>2. CASE point = 2  BY <1>9, <3>2 DEF GoOn, Call
    <3>3. CASE point = 3  BY <1>9, <3>3 DEF GoOn, Call
    <3>4. CASE point = 4  BY <1>9, <2>1, <3>4 DEF GoOn
    <3>5. CASE point = 5  BY <1>9, <3>5 DEF GoOn
    <3>. QED  BY <2>1, <3>1, <3>2, <3>3, <3>4, <3>5
  <2>. QED  BY <1>a, <1>d, <2>1, <2>2
<1>10. CASE ReapCall
  <2>1. UNCHANGED <<file, signal, down, rest>> /\ pc \in Working /\ pc' \in Working
    BY <1>10 DEF ReapCall, Keep
  <2>2. list' = list \/ \E p \in Zombies : Reap(p)
    BY <1>10 DEF ReapCall
  <2>3. SameLines
    BY <1>d, <2>2, ReapLines
  <2>. QED  BY <1>a, <2>1, <2>3
<1>11. CASE ReapReturns
  <2>1. UNCHANGED <<file, signal, down, rest>> /\ pc \in Working /\ pc' \in Working
    BY <1>11 DEF ReapReturns, Keep
  <2>2. SameLines
    BY <1>11, ReapLines DEF ReapReturns
  <2>. QED  BY <1>a, <2>1, <2>2
<1>12. CASE Disable
  <2>1. Disables /\ pc' = "parse" /\ UNCHANGED <<file, signal, down>> /\ rest' = file /\ moving' = <<>>
    BY <1>12, DisableIs DEF Disable, Keep, MovingInv
  <2>2. \A j \in DOMAIN list' : list'[j].type = "stale"
    BY <2>1 DEF Disables
  <2>3. Follows(list', file, 0) /\ Len(file) \in Nat
    BY <2>2, NoneRead
  <2>4. ReadSoFar(0)'
    <3>1. Len(rest') = Len(file') - 0 /\ \A q \in 1..Len(rest') : 0 + q = q
      BY <2>1, <2>3
    <3>. QED  BY <2>1, <2>3, <3>1 DEF ReadSoFar
  <2>. QED  BY <1>e, <2>1, <2>3, <2>4 DEF FileInv, Part
<1>13. CASE Parse
  <2>0. UNCHANGED <<file, signal, down>> /\ pc = "parse" /\ (rest = <<>> => moving = <<>>)
    BY <1>13 DEF Parse, MovingInv
  <2>1. CASE rest = <<>>
    <3>1. pc' = "remove" /\ list' = list /\ i' = 1
      BY <1>13, <2>1 DEF Parse
    <3>2. ASSUME signal = "none", down = "no" PROVE Covers(list', file')
      BY <2>0, <2>1, <3>1, <3>2, AllRead DEF FileInv, Part
    <3>3. \A j \in DOMAIN list' : ~(j < i')
      BY <3>1, ListFacts
    <3>. QED  BY <1>e, <2>0, <3>1, <3>2, <3>3 DEF FileInv
  <2>2. CASE rest # <<>>
    <3>1. pc' = "parse" /\ Relinks
      BY <1>13, <2>2 DEF Parse, Relinks, Relinked
    <3>2. ASSUME signal = "none", down = "no"
          PROVE  \E n \in Nat : ReadSoFar(n)' /\ Part(n)'
      <4>1. PICK n \in Nat : ReadSoFar(n) /\ Part(n)
        BY <2>0, <3>2 DEF FileInv
      <4>2. n + 1 \in Nat /\ ReadSoFar(n + 1)' /\ Part(n + 1)'
        BY <2>0, <3>1, <4>1, RelinkPart
      <4>. QED  BY <4>2
    <3>. QED  BY <1>e, <2>0, <3>1, <3>2 DEF FileInv
  <2>. QED  BY <2>1, <2>2
<1>26. CASE Record
  <2>1. UNCHANGED <<file, signal, down>> /\ pc \in Working /\ pc' \in Working
    BY <1>26 DEF Record, Keep
  <2>2. SameLines
    BY <1>26, RecordIs DEF Record, Records, ControlInv
  <2>. QED  BY <1>a, <2>1, <2>2
<1>27. CASE Unlink
  <2>0. UNCHANGED <<file, signal, down, got>> /\ pc = "parse" /\ pc' = "parse" /\ Unlinks
    BY <1>27 DEF Unlink, Unlinks, control
  <2>1. ASSUME signal = "none", down = "no" PROVE \E n \in Nat : ReadSoFar(n)' /\ Part(n)'
    <3>1. PICK n \in Nat : ReadSoFar(n) /\ Part(n)
      BY <2>0, <2>1 DEF FileInv
    <3>. QED  BY <2>0, <3>1, UnlinkPart
  <2>. QED  BY <1>e, <2>0, <2>1 DEF FileInv
<1>14. CASE RemoveStale
  <2>0. UNCHANGED <<file, signal, down>> /\ pc = "remove" /\ file \in Seq(Line) /\ list \in Seq(Entry)
    BY <1>14, InitAssumption DEF RemoveStale, Keep, TypeOK
  <2>a. Len(list) \in Nat /\ DOMAIN list = 1..Len(list) /\ i \in Nat \ {0}
    BY ListFacts
  <2>1. CASE i > Len(list) /\ pc' = "check" /\ list' = list
    <3>1. ASSUME signal = "none", down = "no" PROVE InForce(list', file')
      <4>1. Covers(list, file) /\ \A j \in DOMAIN list : list[j].type # "stale"
        BY <2>0, <2>1, <2>a, <3>1 DEF FileInv
      <4>. QED  BY <2>0, <2>1, <4>1 DEF Covers, InForce
    <3>. QED  BY <1>e, <2>0, <2>1, <3>1 DEF FileInv
  <2>2. CASE i <= Len(list) /\ list[i].type \in {"stale", "sysinit"} /\ list' = RemoveAt(list, i) /\ i' = i /\ pc' = pc
    <3>1. ASSUME signal = "none", down = "no"
          PROVE  Covers(list', file') /\ \A j \in DOMAIN list' : j < i' => list'[j].type # "stale"
      <4>1. Covers(list, file) /\ \A j \in DOMAIN list : j < i => list[j].type # "stale"
        BY <2>0, <3>1 DEF FileInv
      <4>2. i \in 1..Len(list)
        BY <2>2, <2>a
      <4>3. Covers(list', file) /\ \A j \in DOMAIN list' : j < i => j \in DOMAIN list /\ list'[j] = list[j]
        BY <2>0, <2>2, <4>1, <4>2, RemoveCovers
      <4>. QED  BY <2>0, <2>2, <4>1, <4>3
    <3>. QED  BY <1>e, <2>0, <2>2, <3>1 DEF FileInv
  <2>3. CASE i <= Len(list) /\ list[i].type \notin {"stale", "sysinit"} /\ i' = i + 1 /\ list' = list /\ pc' = pc
    <3>1. ASSUME signal = "none", down = "no"
          PROVE  Covers(list', file') /\ \A j \in DOMAIN list' : j < i' => list'[j].type # "stale"
      <4>1. Covers(list, file) /\ \A j \in DOMAIN list : j < i => list[j].type # "stale"
        BY <2>0, <3>1 DEF FileInv
      <4>2. \A j \in DOMAIN list : j < i + 1 => j < i \/ j = i
        BY <2>a
      <4>. QED  BY <2>0, <2>3, <4>1, <4>2
    <3>. QED  BY <1>e, <2>0, <2>3, <3>1 DEF FileInv
  <2>. QED  BY <1>14, <2>1, <2>2, <2>3 DEF RemoveStale
<1>15. CASE KillAll
  BY <1>15, <1>c, <1>e DEF KillAll
<1>16. CASE LowLevelReboot
  BY <1>16, <1>c, <1>e DEF LowLevelReboot
<1>17. CASE ReExec
  <2>1. CASE pc' = "off" /\ signal' = signal
    BY <1>c, <1>e, <2>1
  <2>2. CASE pc' = "boot" /\ list' = <<>> /\ rest' = file /\ signal' = "none"
    <3>1. DOMAIN list' = {} /\ file' = file /\ moving' = <<>>
      BY <1>17, <2>2 DEF ReExec, MovingInv
    <3>2. Follows(list', file, 0) /\ Len(file) \in Nat
      BY <3>1, NoneRead
    <3>3. ReadSoFar(0)'
      <4>1. Len(rest') = Len(file') - 0 /\ \A q \in 1..Len(rest') : 0 + q = q
        BY <2>2, <3>1, <3>2
      <4>. QED  BY <2>2, <3>1, <3>2, <4>1 DEF ReadSoFar
    <3>4. NoStale'
      BY <3>1 DEF NoStale
    <3>. QED  BY <2>2, <3>1, <3>2, <3>3, <3>4 DEF FileInv, Part
  <2>. QED  BY <1>17, <2>1, <2>2 DEF ReExec
<1>18. CASE StopReap
  <2>1. UNCHANGED <<file, signal, down, rest, got, i, pc, moving>>
    BY <1>18 DEF StopReap, control
  <2>2. SameLines
    BY <1>18, StopReapIs
  <2>. QED  BY <1>b, <2>1, <2>2
<1>19. CASE Continue
  <2>1. UNCHANGED <<file, signal, down, rest, got, i, list, moving>>
    BY <1>19 DEF Continue
  <2>2. pc' = pc \/ (pc \in Working /\ pc' \in Working)
    BY <1>19 DEF Continue, Interrupted
  <2>. QED  BY <1>a, <1>b, <1>d, <2>1, <2>2
<1>20. CASE Stop
  BY <1>20, <1>b, <1>d DEF Stop, control
<1>21. CASE Restart
  <2>1. CASE down' = "QUIT"
    BY <1>21, <1>c, <1>e, <2>1 DEF Restart, Call
  <2>2. CASE UNCHANGED <<down, pc, i, moving>>
    BY <1>21, <1>b, <1>d, <2>2 DEF Restart
  <2>. QED  BY <1>21, <2>1, <2>2 DEF Restart
<1>22. ASSUME NEW s \in {"HUP", "INT"}, Delayed(s) PROVE FileInv'
  <2>1. s = "HUP" /\ signal' = "HUP"
    BY <1>22 DEF Delayed, Deliver
  <2>2. pc' # "clear" \/ (pc = "clear" /\ UNCHANGED got)
    BY <1>22 DEF Delayed, Interrupted
  <2>. QED  BY <1>c, <2>1, <2>2
<1>23. ASSUME NEW s \in {"TERM", "USR1", "USR2"}, Halt(s) PROVE FileInv'
  BY <1>23, <1>c, <1>e DEF Halt, Call
<1>24. ASSUME NEW p \in Pids, Exit(p) PROVE FileInv'
  BY <1>24, <1>b, <1>d DEF Exit, control
<1>25. CASE UNCHANGED vars
  BY <1>25, <1>b, <1>d DEF vars, control
<1>. QED
  BY <1>1, <1>2, <1>3, <1>4, <1>5, <1>6, <1>7, <1>8, <1>9, <1>10, <1>11, <1>12, <1>13, <1>14, <1>15, <1>16, <1>17, <1>18, <1>19, <1>20, <1>21, <1>22, <1>23, <1>24, <1>25, <1>26, <1>27 DEF Next, InitStep

-----------------------------------------------------------------------------
(* Together.                                                               *)
IInv ==
    /\ TypeOK /\ ListInv /\ MovingInv /\ ControlInv /\ StaleInv
    /\ Quiet /\ RunInv /\ PidInv /\ DownInv /\ FileInv

LEMMA InitHolds == Init => IInv
<1>. SUFFICES ASSUME Init PROVE IInv
  OBVIOUS
<1>1. DOMAIN list = {} /\ list = <<>> /\ rest = FirstTab /\ FirstTab \in Inittabs /\ FirstTab \in Seq(Line)
  BY InitAssumption DEF Init
<1>2. TypeOK
  <2>1. list \in Seq(Entry) /\ rest \in Seq(Line) /\ file \in Inittabs
    BY <1>1 DEF Init
  <2>2. proc \in [Pids -> [state : {"free", "alive", "zombie"}, cmd : Commands \cup {"daemon"}]]
    BY DEF Init, Unused
  <2>3. MaxSignals \in 0..MaxSignals /\ MaxErrors \in 0..MaxErrors
    BY InitAssumption
  <2>4. nohang \in BOOLEAN /\ stopped \in BOOLEAN /\ strays \in BOOLEAN
    BY Zenon DEF Init
  <2>5. 1 \in 1..5 /\ 1 \in Nat \ {0} /\ 0 \in Pids \cup {0} /\ {} \subseteq Types /\ {} \subseteq Commands /\ {} \subseteq Pids
    OBVIOUS
  <2>. QED  BY <2>1, <2>2, <2>3, <2>4, <2>5 DEF Init, TypeOK
<1>3. ListInv /\ MovingInv
  BY <1>1, TabLines DEF Init, ListInv, Unique, MovingInv
<1>4. ControlInv /\ StaleInv
  BY DEF Init, ControlInv, StaleInv, Waiting, Ending
<1>5. Alive = {}
  BY DEF Init, Alive, Unused
<1>6. Quiet /\ RunInv /\ PidInv
  BY <1>1, <1>5 DEF Init, Quiet, RunInv, PidInv, ShellWaitsForSysinit, Running
<1>7. DownInv
  BY DEF Init, DownInv
<1>8. FileInv
  <2>1. Follows(list, file, 0) /\ Len(file) \in Nat /\ rest = file
    BY <1>1, <1>2, NoneRead DEF Init
  <2>2. ReadSoFar(0)
    <3>1. Len(rest) = Len(file) - 0 /\ \A q \in 1..Len(rest) : 0 + q = q
      BY <2>1
    <3>. QED  BY <2>1, <3>1 DEF ReadSoFar
  <2>3. NoStale
    BY <1>1 DEF NoStale
  <2>. QED  BY <2>1, <2>2, <2>3 DEF Init, FileInv, Working, Part
<1>. QED  BY <1>2, <1>3, <1>4, <1>6, <1>7, <1>8 DEF IInv

LEMMA NextHolds == IInv /\ [Next]_vars => IInv'
<1>. SUFFICES ASSUME IInv, [Next]_vars PROVE IInv'
  OBVIOUS
<1>1. TypeOK /\ ListInv /\ MovingInv /\ ControlInv /\ StaleInv /\ Quiet /\ RunInv /\ PidInv /\ DownInv /\ FileInv
  BY DEF IInv
<1>2. TypeOK' /\ ListInv' /\ MovingInv' /\ ControlInv' /\ StaleInv'
  <2>1. pc = "record" => i \in DOMAIN list
    BY <1>1 DEF ControlInv
  <2>. QED  BY <1>1, <2>1, TypeNext, ListNext, MovingNext, ControlNext, StaleNext
<1>3. Quiet' /\ RunInv' /\ PidInv' /\ DownInv' /\ FileInv'
  BY <1>1, <1>2, QuietNext, RunNext, PidNext, DownNext, FileNext
<1>. QED  BY <1>2, <1>3 DEF IInv

LEMMA Inductive == Spec => []IInv
BY InitHolds, NextHolds, PTL DEF Spec

(* A set all of whose members are equal.                                   *)
LEMMA AtMostOne ==
    ASSUME NEW S, \A x, y \in S : x = y PROVE Cardinality(S) <= 1
<1>1. CASE S = {}
  BY <1>1, FS_EmptySet
<1>2. CASE S # {}
  <2>1. PICK x \in S : TRUE
    BY <1>2
  <2>2. S = {x}
    BY <2>1
  <2>. QED  BY <2>2, FS_Singleton
<1>. QED  BY <1>1, <1>2

(* The variables stay in their domains in every behaviour of init: no      *)
(* entry names a command that no inittab has, run_actions and waitfor      *)
(* never look past the end of init_action_list.                            *)
THEOREM TypeCorrect == Spec => []TypeOK
BY Inductive, PTL DEF IInv

(* The books are right but for one deviation: every pid in the list is    *)
(* that of a child started for its entry and not waited for yet, unless    *)
(* stop_handler waited for that child after run() had let the signals      *)
(* through and before its pid was stored (init.c 343, 464), or while       *)
(* new_init_action had the entry off the list (493-506).  A reload keeps   *)
(* the pid of a supervised command, and none is started a second time      *)
(* while it runs.                                                          *)
THEOREM PidsTrueHolds == Spec => []PidsTrue
<1>1. IInv => PidsTrue
  <2>. SUFFICES ASSUME IInv PROVE PidsTrue
    OBVIOUS
  <2>0. PidInv
    BY DEF IInv
  <2>1. \A k \in DOMAIN list : list[k].pid > 0 => Child(list[k].pid, list[k].cmd) \/ list[k].pid \in missed
    BY <2>0 DEF PidInv, PidHolds
  <2>2. ASSUME down = "no", NEW c \in Supervised, NEW p \in Running(c) PROVE Recorded(c, p)
    BY <2>0, <2>2 DEF PidInv, Running
  <2>3. ASSUME NEW c \in Supervised PROVE Cardinality(Running(c)) <= 1
    <3>1. ASSUME NEW p \in Running(c), NEW q \in Running(c) PROVE p = q
      BY <2>0 DEF PidInv, Running
    <3>. QED  BY <3>1, AtMostOne
  <2>. QED  BY <2>1, <2>2, <2>3 DEF PidsTrue
<1>. QED  BY <1>1, Inductive, PTL

(* No rescue shell runs beside rcS: a shell is started only by the calls   *)
(* of run_actions that come after the one that waits for sysinit, and a    *)
(* handler that cuts that wait short starts shutdown commands only.        *)
THEOREM ShellWaitsHolds == Spec => []ShellWaitsForSysinit
BY Inductive, PTL DEF IInv, RunInv

(* A shutdown command runs only as the one process that waitfor waits for, *)
(* so none is started twice.                                               *)
THEOREM ShutdownOnceHolds == Spec => []ShutdownOnce
<1>1. IInv => ShutdownOnce
  <2>. SUFFICES ASSUME IInv, NEW c \in Only({"shutdown"}) PROVE Cardinality(Running(c)) <= 1
    BY DEF ShutdownOnce
  <2>1. \A p \in Running(c) : p = target
    BY DEF IInv, RunInv, Running
  <2>. QED  BY <2>1, AtMostOne
<1>. QED  BY <1>1, Inductive, PTL

(* When the machine goes down, the shutdown commands of the list have been *)
(* run to their end, unless a start failed, and nothing runs any more.     *)
THEOREM ShutdownCompleteHolds == Spec => []ShutdownComplete
<1>1. IInv => ShutdownComplete
  <2>. SUFFICES ASSUME IInv, pc = "off", errors = MaxErrors
                PROVE  {list[k].cmd : k \in {j \in DOMAIN list : list[j].type = "shutdown"}} \subseteq ran /\ Alive = {}
    BY DEF ShutdownComplete
  <2>1. down # "no"
    BY DEF IInv, ControlInv, Ending
  <2>. QED  BY <2>1 DEF IInv, DownInv, Quiet, Ending
<1>. QED  BY <1>1, Inductive, PTL

(* At rest, with no signal pending, init_action_list has exactly the last  *)
(* line of each command of the latest inittab, in their order, whatever    *)
(* was reloaded, stopped or waited for in between (init.c 469-512,         *)
(* 774-814); nothing is said when Ctrl-Alt-Del is in use.                  *)
THEOREM InittabHolds == Spec => []InittabInForce
<1>1. IInv => InittabInForce
  <2>. SUFFICES ASSUME IInv, pc = "asleep", signal = "none", "INT" \notin Signals PROVE InForce(list, file)
    BY DEF InittabInForce
  <2>1. down = "no"
    BY DEF IInv, ControlInv, Waiting, Ending
  <2>. QED  BY <2>1 DEF IInv, FileInv, Working
<1>. QED  BY <1>1, Inductive, PTL
=============================================================================
