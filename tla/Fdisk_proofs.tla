---------------------------- MODULE Fdisk_proofs ----------------------------
(***************************************************************************)
(* Theorems about module Fdisk, for every device and every size of the     *)
(* spaces: partitions never overlap, whatever the answers are; on a device *)
(* large enough the answers of part_cmds lead to exactly the plan; and on  *)
(* a smaller one to no logical partition.                                  *)
(***************************************************************************)
EXTENDS Fdisk, WellFoundedInduction, SequenceTheorems, FiniteSetTheorems, TLAPS

LEMMA MinIs ==
    ASSUME NEW S, S \subseteq Nat, S # {}
    PROVE  MinOf(S) \in S /\ \A y \in S : MinOf(S) <= y
<1>. DEFINE R == {ss \in Nat \X Nat : ss[1] < ss[2]}
<1>1. IsWellFoundedOn(R, Nat)
  BY NatLessThanWellFounded DEF OpToRel
<1>2. \A x, y \in Nat : y < x => <<y, x>> \in R
  OBVIOUS
<1>. HIDE DEF R
<1>3. PICK x \in S : \A y \in S : ~(<<y, x>> \in R)
  BY <1>1, WFMin
<1>4. ASSUME NEW y \in S PROVE x <= y
  <2>1. x \in Nat /\ y \in Nat /\ ~(y < x)
    BY <1>2, <1>3
  <2>. QED  BY <2>1
<1>. QED  BY <1>4 DEF MinOf

-----------------------------------------------------------------------------
(* The partitions lie on the device, logical ones only beside an extended  *)
(* one, and one of them has the highest number.                            *)
Numbers == Nat \ {0}
PartsInv ==
    /\ cyls \in Nat \ {0} /\ DOMAIN parts \subseteq Numbers
    /\ \A n \in DOMAIN parts :
         /\ parts[n].first \in Nat /\ parts[n].last \in Nat
         /\ 1 <= parts[n].first /\ parts[n].first <= parts[n].last /\ parts[n].last <= cyls
    /\ DOMAIN parts # {} => \E m \in DOMAIN parts : \A k \in DOMAIN parts : k <= m
    /\ ext \in 0..4 /\ (ext # 0 => ext \in DOMAIN parts)
    /\ \A n \in DOMAIN parts : IsLogical(n) => ext # 0

(* A partition being created has a free number and a place to begin that   *)
(* no partition of its kind takes.                                         *)
AddInv ==
    /\ makeExt \in BOOLEAN /\ (makeExt => ext = 0)
    /\ prompt \in {"first", "last"} =>
         /\ cur \in Numbers \ DOMAIN parts /\ (IsLogical(cur) => ext # 0 /\ ~makeExt)
         /\ start \in Nat /\ Lowest(cur) <= start
    /\ prompt = "last" => ~Taken(cur, start)

IInv == PartsInv /\ AddInv /\ NoOverlap

LEMMA LimitIs ==
    ASSUME PartsInv, NoOverlap, NEW n \in Numbers, IsLogical(n) => ext # 0
    PROVE  /\ Limit(n) \in Nat /\ Limit(n) <= cyls /\ Lowest(n) \in Nat /\ 1 <= Lowest(n)
           /\ \A m \in Peers(n) : m \in DOMAIN parts /\ parts[m].first <= Limit(n)
<1>1. CASE IsLogical(n)
  <2>1. ext \in DOMAIN parts
    BY <1>1 DEF PartsInv
  <2>2. ASSUME NEW m \in Peers(n) PROVE m \in DOMAIN parts /\ parts[m].first <= parts[ext].last
    <3>1. m \in DOMAIN parts /\ IsLogical(m)
      BY <1>1, <2>2 DEF Peers
    <3>2. parts[m].first \in Cyl(m)
      BY <3>1 DEF Cyl, PartsInv
    <3>3. parts[m].first \in Cyl(ext)
      BY <3>1, <3>2 DEF NoOverlap
    <3>. QED  BY <2>1, <3>1, <3>3 DEF Cyl, PartsInv
  <2>. QED  BY <1>1, <2>1, <2>2 DEF Limit, Lowest, PartsInv
<1>2. CASE ~IsLogical(n)
  BY <1>2 DEF Limit, Lowest, Peers, PartsInv
<1>. QED  BY <1>1, <1>2

LEMMA ReachIs ==
    ASSUME PartsInv, NoOverlap, NEW n \in Numbers, IsLogical(n) => ext # 0, NEW c \in Nat
    PROVE  /\ ReachOf(n, c) \in Int /\ ReachOf(n, c) <= Limit(n)
           /\ \A m \in Peers(n) : parts[m].first > c => ReachOf(n, c) < parts[m].first
<1>. DEFINE after == {parts[m].first : m \in {m \in Peers(n) : parts[m].first > c}}
<1>0. PICK l \in Nat : l = Limit(n)
  BY LimitIs
<1>1. after \subseteq Nat /\ \A x \in after : x <= l
  BY <1>0, LimitIs DEF PartsInv
<1>2. \A m \in Peers(n) : parts[m].first > c => parts[m].first \in after
  OBVIOUS
<1>3. ReachOf(n, c) = IF after = {} THEN l ELSE MinOf(after) - 1
  BY <1>0 DEF ReachOf
<1>. HIDE DEF after
<1>4. CASE after = {}
  BY <1>0, <1>2, <1>3, <1>4
<1>5. CASE after # {}
  <2>1. PICK x \in Nat : x = MinOf(after) /\ x \in after /\ \A y \in after : x <= y
    BY <1>1, <1>5, MinIs
  <2>2. ReachOf(n, c) = x - 1 /\ x <= l
    BY <1>1, <1>3, <1>5, <2>1
  <2>3. \A m \in Peers(n) : parts[m].first > c => parts[m].first \in Nat /\ x <= parts[m].first
    BY <1>1, <1>2, <2>1
  <2>. QED  BY <1>0, <2>1, <2>2, <2>3
<1>. QED  BY <1>4, <1>5

(* A range from a free cylinder to one in reach meets no other partition   *)
(* of its kind and, for a logical one, lies in the extended partition.     *)
LEMMA FreeRange ==
    ASSUME PartsInv, NoOverlap, NEW n \in Numbers, IsLogical(n) => ext # 0,
           NEW lo \in Nat, NEW hi \in Nat, Lowest(n) <= lo, lo <= hi, hi <= ReachOf(n, lo), ~Taken(n, lo)
    PROVE  /\ 1 <= lo /\ hi <= cyls
           /\ \A m \in Peers(n) : lo..hi \cap Cyl(m) = {}
           /\ IsLogical(n) => lo..hi \subseteq Cyl(ext)
<1>1. PICK r \in Int : r = ReachOf(n, lo)
  BY ReachIs
<1>2. PICK l \in Nat : l = Limit(n) /\ l <= cyls
  BY LimitIs
<1>3. PICK b \in Nat : b = Lowest(n) /\ 1 <= b
  BY LimitIs
<1>4. hi <= r /\ r <= l /\ b <= lo /\ cyls \in Nat
  BY <1>1, <1>2, <1>3, ReachIs DEF PartsInv
<1>5. ASSUME NEW m \in Peers(n) PROVE lo..hi \cap Cyl(m) = {}
  <2>1. m \in DOMAIN parts /\ parts[m].first \in Nat /\ parts[m].last \in Nat
    BY LimitIs DEF PartsInv
  <2>2. parts[m].first > lo => r < parts[m].first
    BY <1>1, ReachIs
  <2>3. lo \notin parts[m].first .. parts[m].last
    BY DEF Taken
  <2>. QED  BY <1>4, <2>1, <2>2, <2>3 DEF Cyl
<1>6. ASSUME IsLogical(n) PROVE lo..hi \subseteq Cyl(ext)
  <2>1. b = parts[ext].first /\ l = parts[ext].last
    BY <1>2, <1>3, <1>6 DEF Lowest, Limit
  <2>. QED  BY <1>4, <2>1 DEF Cyl
<1>. QED  BY <1>2, <1>3, <1>4, <1>5, <1>6

LEMMA FinishKeeps ==
    ASSUME IInv, prompt \in {"first", "last"}, NEW lo \in Nat, NEW hi \in Nat,
           Lowest(cur) <= lo, lo <= hi, hi <= ReachOf(cur, lo), ~Taken(cur, lo),
           FinishAdd(lo, hi), cyls' = cyls
    PROVE  IInv'
<1>0. PICK p, e : p = cur /\ e = ext
  OBVIOUS
<1>1. /\ p \in Numbers \ DOMAIN parts /\ (IsLogical(p) => e # 0 /\ ~makeExt) /\ makeExt \in BOOLEAN
      /\ PartsInv /\ NoOverlap
  BY <1>0 DEF IInv, AddInv
<1>2. /\ 1 <= lo /\ hi <= cyls
      /\ \A m \in Peers(p) : lo..hi \cap Cyl(m) = {}
      /\ IsLogical(p) => lo..hi \subseteq Cyl(e)
  BY <1>0, <1>1, FreeRange
<1>3. /\ DOMAIN parts' = DOMAIN parts \cup {p}
      /\ parts'[p] = [first |-> lo, last |-> hi]
      /\ \A m \in DOMAIN parts : parts'[m] = parts[m]
      /\ ext' = (IF makeExt THEN p ELSE e) /\ makeExt' = FALSE /\ prompt' = "command"
  BY <1>0, <1>1 DEF FinishAdd, Define, BackToCommand, Ask
<1>4. Cyl(p)' = lo..hi /\ \A m \in DOMAIN parts : Cyl(m)' = Cyl(m)
  BY <1>3 DEF Cyl
<1>5. ext' \in 0..4 /\ (ext' # 0 => ext' \in DOMAIN parts') /\ \A n \in DOMAIN parts' : IsLogical(n) => ext' # 0
  <2>1. CASE makeExt
    <3>1. p \in 1..4
      BY <1>1, <2>1 DEF IsLogical, Numbers
    <3>. QED  BY <1>3, <2>1, <3>1
  <2>2. CASE ~makeExt
    BY <1>0, <1>1, <1>3, <2>2 DEF PartsInv
  <2>. QED  BY <2>1, <2>2
<1>6. \E m \in DOMAIN parts' : \A k \in DOMAIN parts' : k <= m
  <2>1. CASE DOMAIN parts = {}
    BY <1>1, <1>3, <2>1 DEF Numbers
  <2>2. CASE DOMAIN parts # {}
    <3>1. PICK m \in DOMAIN parts : \A k \in DOMAIN parts : k <= m
      BY <1>1, <2>2 DEF PartsInv
    <3>2. m \in Nat /\ p \in Nat /\ DOMAIN parts \subseteq Nat
      BY <1>1 DEF PartsInv, Numbers
    <3>3. CASE p <= m
      BY <1>3, <3>1, <3>3
    <3>4. CASE m <= p
      <4>1. \A k \in DOMAIN parts : k <= p
        BY <3>1, <3>2, <3>4
      <4>. QED  BY <1>3, <3>2, <4>1
    <3>. QED  BY <3>2, <3>3, <3>4
  <2>. QED  BY <2>1, <2>2
<1>7. PartsInv'
  <2>1. ASSUME NEW n \in DOMAIN parts'
        PROVE  /\ parts'[n].first \in Nat /\ parts'[n].last \in Nat
               /\ 1 <= parts'[n].first /\ parts'[n].first <= parts'[n].last /\ parts'[n].last <= cyls
    <3>1. CASE n = p
      BY <1>2, <1>3, <3>1
    <3>2. CASE n \in DOMAIN parts
      BY <1>1, <1>3, <3>2 DEF PartsInv
    <3>. QED  BY <1>3, <3>1, <3>2
  <2>2. cyls' \in Nat \ {0} /\ DOMAIN parts' \subseteq Numbers
    BY <1>1, <1>3 DEF PartsInv
  <2>. QED  BY <1>5, <1>6, <2>1, <2>2 DEF PartsInv
<1>8. NoOverlap'
  <2>1. ASSUME NEW m \in DOMAIN parts', NEW n \in DOMAIN parts', m # n, IsLogical(m) <=> IsLogical(n)
        PROVE  Cyl(m)' \cap Cyl(n)' = {}
    <3>1. CASE m \in DOMAIN parts /\ n \in DOMAIN parts
      BY <1>1, <1>4, <2>1, <3>1 DEF NoOverlap
    <3>2. CASE m = p /\ n \in DOMAIN parts
      BY <1>2, <1>4, <2>1, <3>2 DEF Peers
    <3>3. CASE n = p /\ m \in DOMAIN parts
      BY <1>2, <1>4, <2>1, <3>3 DEF Peers
    <3>. QED  BY <1>3, <2>1, <3>1, <3>2, <3>3
  <2>2. ASSUME NEW n \in DOMAIN parts', IsLogical(n)
        PROVE  ext' \in DOMAIN parts' /\ Cyl(n)' \subseteq Cyl(ext)'
    <3>1. ~makeExt /\ e # 0 /\ e \in DOMAIN parts
      <4>1. CASE n = p
        BY <1>0, <1>1, <2>2, <4>1 DEF PartsInv
      <4>2. CASE n \in DOMAIN parts
        <5>1. e # 0 /\ e \in DOMAIN parts
          BY <1>0, <1>1, <2>2, <4>2 DEF PartsInv
        <5>. QED  BY <1>0, <5>1 DEF IInv, AddInv
      <4>. QED  BY <1>3, <4>1, <4>2
    <3>2. ext' = e
      BY <1>3, <3>1
    <3>3. Cyl(e)' = Cyl(e)
      BY <1>4, <3>1
    <3>4. Cyl(n)' \subseteq Cyl(e)
      <4>1. CASE n = p
        BY <1>2, <1>4, <2>2, <4>1
      <4>2. CASE n \in DOMAIN parts
        BY <1>0, <1>1, <1>4, <2>2, <4>2 DEF NoOverlap
      <4>. QED  BY <1>3, <4>1, <4>2
    <3>5. Cyl(ext)' = Cyl(e)'
      BY <3>2 DEF Cyl
    <3>. QED  BY <1>3, <3>1, <3>2, <3>3, <3>4, <3>5
  <2>. QED  BY <2>1, <2>2 DEF NoOverlap, IsLogical, Cyl
<1>9. AddInv'
  BY <1>3 DEF AddInv
<1>. QED  BY <1>7, <1>8, <1>9 DEF IInv

(* As long as no partition is added, only the dialogue can go wrong.       *)
LEMMA PartsKept ==
    ASSUME PartsInv, NoOverlap, UNCHANGED <<cyls, parts, ext>> PROVE PartsInv' /\ NoOverlap'
  BY DEF PartsInv, NoOverlap, Cyl, IsLogical

LEMMA BackKeeps ==
    ASSUME IInv, BackToCommand, UNCHANGED <<cyls, parts, ext>> PROVE IInv'
<1>1. AddInv'
  BY DEF AddInv, BackToCommand, Ask
<1>. QED  BY <1>1, PartsKept DEF IInv

LEMMA DialogueKeeps ==
    ASSUME IInv, prompt' \notin {"first", "last"}, UNCHANGED <<cyls, parts, ext, makeExt>> PROVE IInv'
<1>1. AddInv'
  BY DEF AddInv, IInv
<1>. QED  BY <1>1, PartsKept DEF IInv

LEMMA StayKeeps ==
    ASSUME IInv, UNCHANGED <<cyls, parts, ext, makeExt, prompt, cur, start>> PROVE IInv'
<1>1. AddInv'
  BY DEF AddInv, IInv, Lowest, Taken, Peers, IsLogical
<1>. QED  BY <1>1, PartsKept DEF IInv

LEMMA BeginKeeps ==
    ASSUME IInv, NEW n \in Numbers, NEW isExt \in BOOLEAN, isExt => ext = 0,
           IsLogical(n) => ext # 0 /\ ~isExt, BeginAdd(n, isExt), cyls' = cyls
    PROVE  IInv'
<1>. DEFINE free == FreeFrom(n, Lowest(n))
<1>1. CASE n \in DOMAIN parts \/ free = {}
  BY <1>1, BackKeeps DEF BeginAdd
<1>2. CASE n \notin DOMAIN parts /\ free # {}
  <2>1. /\ prompt' = "first" /\ cur' = n /\ start' = MinOf(free) /\ makeExt' = isExt
        /\ UNCHANGED <<ext, parts>>
    BY <1>2 DEF BeginAdd, Ask
  <2>2. PICK b \in Nat : b = Lowest(n)
    BY LimitIs DEF IInv
  <2>3. PICK l \in Nat : l = Limit(n)
    BY LimitIs DEF IInv
  <2>4. free \subseteq b..l
    BY <2>2, <2>3 DEF FreeFrom
  <2>. HIDE DEF free
  <2>5. free \subseteq Nat
    BY <2>2, <2>3, <2>4
  <2>6. MinOf(free) \in free
    BY <1>2, <2>5, MinIs
  <2>a. start' \in b..l
    BY <2>1, <2>4, <2>6
  <2>7. start' \in Nat /\ b <= start'
    BY <2>2, <2>3, <2>a
  <2>8. Lowest(cur)' = b
    BY <2>1, <2>2 DEF Lowest, IsLogical
  <2>9. AddInv'
    BY <1>2, <2>1, <2>7, <2>8 DEF AddInv, IsLogical
  <2>. QED  BY <2>1, <2>9, PartsKept DEF IInv
<1>. QED  BY <1>1, <1>2

LEMMA NextLogicalIs ==
    ASSUME PartsInv PROVE NextLogical \in Numbers /\ IsLogical(NextLogical)
<1>1. CASE \E m \in DOMAIN parts : IsLogical(m)
  <2>. DEFINE top == CHOOSE m \in DOMAIN parts : \A k \in DOMAIN parts : k <= m
  <2>1. top \in DOMAIN parts /\ \A k \in DOMAIN parts : k <= top
    BY <1>1 DEF PartsInv
  <2>2. NextLogical = 1 + top
    BY <1>1 DEF NextLogical
  <2>. HIDE DEF top
  <2>3. PICK t \in Nat : t = top
    BY <2>1 DEF PartsInv, Numbers
  <2>4. PICK m \in DOMAIN parts : m \in Nat /\ m > 4 /\ m <= t
    BY <1>1, <2>1, <2>3 DEF IsLogical, PartsInv, Numbers
  <2>. QED  BY <2>2, <2>3, <2>4 DEF IsLogical, Numbers
<1>2. CASE ~(\E m \in DOMAIN parts : IsLogical(m))
  BY <1>2 DEF NextLogical, IsLogical, Numbers
<1>. QED  BY <1>1, <1>2

LEMMA CommandKeeps == ASSUME IInv, Command PROVE IInv'
<1>0. cyls' = cyls
  BY DEF Command
<1>1. CASE Ask("kind") /\ UNCHANGED <<cur, makeExt, ext, start, parts, written>>
  BY <1>0, <1>1, DialogueKeeps DEF Ask
<1>2. CASE ext # 0 /\ BeginAdd(NextLogical, FALSE)
  <2>1. PICK n \in Numbers : n = NextLogical /\ IsLogical(n)
    BY NextLogicalIs DEF IInv
  <2>. QED  BY <1>0, <1>2, <2>1, BeginKeeps
<1>3. CASE /\ Ask(IF Cardinality(DOMAIN parts) = 1 THEN "hex" ELSE "retype")
           /\ UNCHANGED <<cur, makeExt, ext, start, parts, written>>
  BY <1>0, <1>3, DialogueKeeps DEF Ask
<1>4. CASE Ask("exit") /\ UNCHANGED <<cur, makeExt, ext, start, parts>>
  BY <1>0, <1>4, DialogueKeeps DEF Ask
<1>5. CASE KeepAsking
  BY <1>0, <1>5, StayKeeps DEF KeepAsking
<1>. QED  BY <1>1, <1>2, <1>3, <1>4, <1>5 DEF Command

LEMMA KindKeeps == ASSUME IInv, Kind PROVE IInv'
<1>0. cyls' = cyls
  BY DEF Kind
<1>1. ASSUME NEW x \in BOOLEAN, x => ext = 0, ChooseSlot(x) PROVE IInv'
  <2>1. ASSUME NEW n \in FreePrimaries, BeginAdd(n, x) PROVE IInv'
    <3>1. n \in Numbers /\ ~IsLogical(n)
      BY DEF FreePrimaries, Primaries, Numbers, IsLogical
    <3>. QED  BY <1>0, <1>1, <2>1, <3>1, BeginKeeps
  <2>2. CASE Ask("slot") /\ makeExt' = x /\ UNCHANGED <<cur, ext, start, parts>>
    <3>1. AddInv'
      BY <1>1, <2>2 DEF AddInv, Ask
    <3>. QED  BY <1>0, <2>2, <3>1, PartsKept DEF IInv
  <2>. QED  BY <1>1, <2>1, <2>2 DEF ChooseSlot
<1>2. CASE IsKey("p") /\ ChooseSlot(IsKey("e"))
  <2>1. IsKey("e") = FALSE
    BY <1>2 DEF IsKey
  <2>. QED  BY <1>1, <1>2, <2>1
<1>3. CASE IsKey("e") /\ ext = 0 /\ ChooseSlot(IsKey("e"))
  <2>1. IsKey("e") = TRUE
    BY <1>3 DEF IsKey
  <2>. QED  BY <1>1, <1>3, <2>1
<1>4. CASE KeepAsking
  BY <1>0, <1>4, StayKeeps DEF KeepAsking
<1>. QED  BY <1>2, <1>3, <1>4 DEF Kind

LEMMA SlotKeeps == ASSUME IInv, Slot PROVE IInv'
<1>0. cyls' = cyls
  BY DEF Slot
<1>1. ASSUME NEW n \in Primaries, BeginAdd(n, makeExt) PROVE IInv'
  <2>1. n \in Numbers /\ ~IsLogical(n)
    BY DEF Primaries, Numbers, IsLogical
  <2>2. PICK x \in BOOLEAN : x = makeExt /\ (x => ext = 0)
    BY DEF IInv, AddInv
  <2>. QED  BY <1>0, <1>1, <2>1, <2>2, BeginKeeps
<1>2. CASE KeepAsking
  BY <1>0, <1>2, StayKeeps DEF KeepAsking
<1>. QED  BY <1>1, <1>2 DEF Slot

LEMMA FirstKeeps == ASSUME IInv, First PROVE IInv'
<1>0. /\ cyls' = cyls /\ prompt = "first" /\ cur \in Numbers \ DOMAIN parts /\ (IsLogical(cur) => ext # 0 /\ ~makeExt)
      /\ start \in Nat /\ Lowest(cur) <= start
  BY DEF First, IInv, AddInv
<1>a. PICK p : p = cur
  OBVIOUS
<1>b. PICK b \in Nat : b = Lowest(p)
  BY <1>0, <1>a, LimitIs DEF IInv
<1>c. PICK l \in Nat : l = Limit(p)
  BY <1>0, <1>a, LimitIs DEF IInv
<1>1. ASSUME NEW c \in start .. Limit(cur), ~Taken(cur, c), ReachOf(cur, c) = c, FinishAdd(c, c) PROVE IInv'
  <2>1. c \in Nat /\ Lowest(cur) <= c /\ c <= ReachOf(cur, c)
    BY <1>0, <1>1, <1>a, <1>b, <1>c
  <2>. QED  BY <1>0, <1>1, <2>1, FinishKeeps
<1>2. ASSUME NEW c \in start .. Limit(cur), ~Taken(cur, c), Ask("last"), start' = c,
             UNCHANGED <<cur, makeExt, ext, parts>>
      PROVE  IInv'
  <2>1. c \in Nat /\ b <= c
    BY <1>0, <1>2, <1>a, <1>b, <1>c
  <2>2. Lowest(cur)' = b
    BY <1>2, <1>a, <1>b DEF Lowest, IsLogical
  <2>3. ~Taken(cur, start)'
    BY <1>2 DEF Taken, Peers, IsLogical
  <2>4. AddInv'
    BY <1>0, <1>2, <2>1, <2>2, <2>3 DEF AddInv, IInv, Ask
  <2>. QED  BY <1>0, <1>2, <2>4, PartsKept DEF IInv
<1>3. ASSUME NEW c \in start .. Limit(cur), FreeFrom(cur, c) # {}, start' = MinOf(FreeFrom(cur, c)),
             UNCHANGED <<prompt, cur, makeExt, ext, parts>>
      PROVE  IInv'
  <2>1. c \in Nat /\ b <= c
    BY <1>0, <1>3, <1>a, <1>b, <1>c
  <2>2. FreeFrom(cur, c) \subseteq c..l
    BY <1>a, <1>c DEF FreeFrom
  <2>3. FreeFrom(cur, c) \subseteq Nat
    BY <1>c, <2>1, <2>2
  <2>4. start' \in FreeFrom(cur, c)
    BY <1>3, <2>3, MinIs
  <2>5. start' \in Nat /\ b <= start'
    BY <1>b, <1>c, <2>1, <2>2, <2>4
  <2>6. Lowest(cur)' = b
    BY <1>3, <1>a, <1>b DEF Lowest, IsLogical
  <2>7. AddInv'
    BY <1>0, <1>3, <2>5, <2>6 DEF AddInv, IInv
  <2>. QED  BY <1>0, <1>3, <2>7, PartsKept DEF IInv
<1>4. CASE BackToCommand /\ UNCHANGED <<ext, parts>>
  BY <1>0, <1>4, BackKeeps
<1>5. CASE KeepAsking
  BY <1>0, <1>5, StayKeeps DEF KeepAsking
<1>. QED  BY <1>1, <1>2, <1>3, <1>4, <1>5 DEF First

LEMMA LastKeeps == ASSUME IInv, Last PROVE IInv'
<1>0. /\ cyls' = cyls /\ prompt = "last" /\ cur \in Numbers /\ (IsLogical(cur) => ext # 0 /\ ~makeExt)
      /\ start \in Nat /\ Lowest(cur) <= start /\ ~Taken(cur, start)
  BY DEF Last, IInv, AddInv
<1>1. ASSUME NEW c \in start .. ReachOf(cur, start), FinishAdd(start, c) PROVE IInv'
  <2>1. PICK p, a : p = cur /\ a = start
    OBVIOUS
  <2>2. p \in Numbers /\ (IsLogical(p) => ext # 0) /\ a \in Nat /\ Lowest(p) <= a /\ ~Taken(p, a)
    BY <1>0, <2>1
  <2>3. PICK r \in Int : r = ReachOf(p, a)
    BY <2>2, ReachIs DEF IInv
  <2>4. c \in Nat /\ a <= c /\ c <= ReachOf(p, a)
    BY <1>1, <2>1, <2>2, <2>3
  <2>5. FinishAdd(a, c)
    BY <1>1, <2>1
  <2>. QED  BY <1>0, <2>1, <2>2, <2>4, <2>5, FinishKeeps
<1>2. CASE KeepAsking
  BY <1>0, <1>2, StayKeeps DEF KeepAsking
<1>. QED  BY <1>1, <1>2 DEF Last

LEMMA RestKeeps == ASSUME IInv, Retype \/ Hex \/ EndOfInput PROVE IInv'
<1>1. CASE Retype
  <2>1. prompt' \in {"retype", "hex", "command"}
    BY <1>1 DEF Retype
  <2>. QED  BY <1>1, <2>1, DialogueKeeps DEF Retype
<1>2. CASE Hex
  BY <1>2, DialogueKeeps DEF Hex, Ask
<1>3. CASE EndOfInput
  BY <1>3, DialogueKeeps DEF EndOfInput, Ask
<1>. QED  BY <1>1, <1>2, <1>3

LEMMA NextKeeps == ASSUME IInv, [Next]_vars PROVE IInv'
<1>1. CASE UNCHANGED vars
  BY <1>1, StayKeeps DEF vars
<1>. QED  BY <1>1, CommandKeeps, KindKeeps, SlotKeeps, FirstKeeps, LastKeeps, RestKeeps DEF Next

LEMMA InitHolds == Init => IInv
<1>. SUFFICES ASSUME Init PROVE IInv
  OBVIOUS
<1>1. parts = << >> /\ DOMAIN parts = {} /\ ext = 0 /\ makeExt = FALSE /\ prompt = "command" /\ cyls \in 1..MaxCyls
  BY DEF Init
<1>2. cyls \in Nat \ {0}
  BY <1>1, FdiskAssumption
<1>3. PartsInv
  BY <1>1, <1>2 DEF PartsInv
<1>4. AddInv
  BY <1>1 DEF AddInv
<1>5. NoOverlap
  BY <1>1 DEF NoOverlap
<1>. QED  BY <1>3, <1>4, <1>5 DEF IInv

(* Whatever the answers, the script's or any others, fdisk never defines   *)
(* overlapping partitions, nor a logical one outside the extended one:     *)
(* add_partition's search for a free start and its limit for the end agree *)
(* with each other (fdisk.c 2280-2403).                                    *)
THEOREM NoOverlapHolds == Spec => []NoOverlap
<1>1. IInv => NoOverlap
  BY DEF IInv
<1>. QED  BY <1>1, InitHolds, NextKeeps, PTL DEF Spec
-----------------------------------------------------------------------------
(* The dialogue of a plan that fits, line by line: the state after i lines *)
(* of part_cmds, with the partitions of D defined as planned.  Partition n *)
(* is then being asked for; one of a single cylinder may be complete with  *)
(* its first answer, and the second one falls to the command prompt.       *)
Left(i) == [k \in 1 .. 32 - i |-> PartCmds(sizes)[k + i]]
Made(D) == [n \in D |-> Planned[n]]
Stage(i, p, D) ==
    input = Left(i) /\ prompt = p /\ parts = Made(D) /\ ext = (IF 3 \in D THEN 3 ELSE 0)

CommandAt(i, D) == Stage(i, "command", D)
KindAt(i, D)    == Stage(i, "kind", D)
SlotAt(i, D)    == Stage(i, "slot", D) /\ ~makeExt
FirstAt(i, D, n) ==
    /\ Stage(i, "first", D) /\ cur = n /\ (makeExt <=> n = 3)
    /\ start \in Nat /\ start <= Planned[n].first /\ (n = 7 => start = Planned[n].first)
LastAt(i, D, n) ==
    Stage(i, "last", D) /\ cur = n /\ (makeExt <=> n = 3) /\ start = Planned[n].first

(* The answers for one partition: b is the line of its n, e the one after  *)
(* its last answer.                                                        *)
Asked(D, n, b, e) ==
    \/ CommandAt(b, D) \/ (n <= 4 /\ KindAt(b + 1, D)) \/ (n \in {1, 2, 4} /\ SlotAt(b + 2, D))
    \/ FirstAt(e - 2, D, n) \/ LastAt(e - 1, D, n) \/ CommandAt(e - 1, D \cup {n})
Creating ==
    \/ Asked({}, 2, 0, 5) \/ Asked({2}, 4, 5, 10) \/ Asked({2, 4}, 1, 10, 15) \/ Asked({1, 2, 4}, 3, 15, 19)
    \/ Asked(1..4, 5, 19, 22) \/ Asked(1..5, 6, 22, 25) \/ Asked(1..6, 7, 25, 28)
Finishing ==
    \/ CommandAt(28, 1..7) \/ Stage(29, "retype", 1..7) \/ Stage(30, "hex", 1..7) \/ CommandAt(31, 1..7)
    \/ Stage(32, "exit", 1..7) /\ written
ScriptInv == Fits(sizes, cyls) => Creating \/ Finishing

Base == sizes \in [Spaces -> Nat] /\ cyls \in Nat /\ Fits(sizes, cyls)

(* The plan in numbers.                                                    *)
LEMMA PlanIs ==
    ASSUME Base
    PROVE  \E b, s, w, c, e, r \in Nat :
             /\ 1 <= b /\ b <= s /\ s < w /\ w < c /\ c < e /\ e < r /\ r < cyls
             /\ Planned[1] = [first |-> r + 1, last |-> cyls] /\ Planned[2] = [first |-> b, last |-> s]
             /\ Planned[3] = [first |-> s + 1, last |-> e]    /\ Planned[4] = [first |-> e + 1, last |-> r]
             /\ Planned[5] = [first |-> c + 1, last |-> e]    /\ Planned[6] = [first |-> w + 1, last |-> c]
             /\ Planned[7] = [first |-> s + 1, last |-> w]
<1>. DEFINE z == sizes
            b == BootEnd(z)
            s == SystemEnd(z)
            w == WowconfigEnd(z)
            c == CacheEnd(z)
            e == ExtEnd(z)
            r == RecoveryEnd(z)
<1>1. \A x \in Spaces : z[x] \in Nat
  BY DEF Base
<1>2. z["boot"] >= 2 /\ z["data"] >= 1 /\ z["cache"] >= 1 /\ z["recovery"] >= 1 /\ z["wowconfig"] >= 1 /\ r < cyls
  BY DEF Base, Fits
<1>3. /\ b \in Nat /\ s \in Nat /\ w \in Nat /\ c \in Nat /\ e \in Nat /\ r \in Nat /\ DataEnd(z) = e
      /\ 1 <= b /\ b <= s /\ s < w /\ w < c /\ c < e /\ e < r
  BY <1>1, <1>2 DEF Spaces, BootEnd, SystemEnd, WowconfigEnd, CacheEnd, ExtEnd, RecoveryEnd, DataEnd
<1>4. /\ Planned[1] = [first |-> r + 1, last |-> cyls] /\ Planned[2] = [first |-> b, last |-> s]
      /\ Planned[3] = [first |-> s + 1, last |-> e]    /\ Planned[4] = [first |-> e + 1, last |-> r]
      /\ Planned[5] = [first |-> c + 1, last |-> DataEnd(z)] /\ Planned[6] = [first |-> w + 1, last |-> c]
      /\ Planned[7] = [first |-> s + 1, last |-> w]
  BY DEF Planned, CylinderPlan
<1>. HIDE DEF b, s, w, c, e, r
<1>. QED  BY <1>2, <1>3, <1>4

(* The answers, line by line.                                              *)
LEMMA LinesAre ==
    LET L == PartCmds(sizes)
        P == Planned
    IN  /\ L[1] = Key("n") /\ L[2] = Key("p") /\ L[3] = Num(2) /\ L[4] = Num(P[2].first) /\ L[5] = Num(P[2].last)
        /\ L[6] = Key("n") /\ L[7] = Key("p") /\ L[8] = Num(4) /\ L[9] = Num(P[4].first) /\ L[10] = Num(P[4].last)
        /\ L[11] = Key("n") /\ L[12] = Key("p") /\ L[13] = Num(1) /\ L[14] = Num(P[1].first) /\ L[15] = AUTO
        /\ L[16] = Key("n") /\ L[17] = Key("e") /\ L[18] = Num(P[3].first) /\ L[19] = Num(P[3].last)
        /\ L[20] = Key("n") /\ L[21] = Num(P[5].first) /\ L[22] = Num(P[5].last)
        /\ L[23] = Key("n") /\ L[24] = Num(P[6].first) /\ L[25] = Num(P[6].last)
        /\ L[26] = Key("n") /\ L[27] = AUTO /\ L[28] = AUTO
        /\ L[29] = Key("t") /\ L[30] = Num(1) /\ L[31] = Key("b") /\ L[32] = Key("w")
  BY DEF PartCmds, Planned, CylinderPlan

LEMMA SeqIs == ASSUME NEW S, NEW T \in Seq(S), NEW m \in Nat, Len(T) = m PROVE T = [k \in 1..m |-> T[k]]
  OBVIOUS

LEMMA Reads ==
    ASSUME NEW i \in 0..31, input = Left(i)
    PROVE  input # << >> /\ Line = PartCmds(sizes)[i + 1] /\ Tail(input) = Left(i + 1)
<1>. DEFINE S == {PartCmds(sizes)[k] : k \in 1..32}
<1>1. Left(i) \in [1 .. 32 - i -> S]
  <2>1. \A k \in 1 .. 32 - i : k + i \in 1..32
    OBVIOUS
  <2>. QED  BY <2>1 DEF Left
<1>. HIDE DEF S
<1>2. 32 - i \in Nat /\ 32 - i >= 1 /\ input \in Seq(S) /\ Len(input) = 32 - i /\ input # << >>
  BY <1>1
<1>3. \A k \in 1 .. 32 - i : input[k] = PartCmds(sizes)[k + i]
  BY DEF Left
<1>4. Line = PartCmds(sizes)[i + 1]
  <2>1. Line = input[1]
    BY <1>2 DEF Line
  <2>. QED  BY <1>2, <1>3, <2>1
<1>5. /\ Tail(input) \in Seq(S) /\ Len(Tail(input)) = 32 - (i + 1)
      /\ \A k \in 1 .. 32 - (i + 1) : Tail(input)[k] = input[k + 1]
  BY <1>2, HeadTailProperties
<1>6. Tail(input) = [k \in 1 .. 32 - (i + 1) |-> Tail(input)[k]]
  <2>1. 32 - (i + 1) \in Nat
    OBVIOUS
  <2>. QED  BY <1>5, <2>1, SeqIs
<1>7. \A k \in 1 .. 32 - (i + 1) : Tail(input)[k] = PartCmds(sizes)[k + (i + 1)]
  <2>1. \A k \in 1 .. 32 - (i + 1) : k + 1 \in 1 .. 32 - i /\ (k + 1) + i = k + (i + 1)
    OBVIOUS
  <2>. QED  BY <1>3, <1>5, <2>1
<1>8. Tail(input) = Left(i + 1)
  BY <1>6, <1>7 DEF Left
<1>. QED  BY <1>2, <1>4, <1>8

(* What partition n needs of the partitions made before it.                *)
Roomy(n) ==
    LET lo == Planned[n].first
        hi == Planned[n].last
    IN  /\ n \in Numbers \ DOMAIN parts /\ (IsLogical(n) => ext # 0)
        /\ lo \in Nat /\ hi \in Nat /\ lo <= hi
        /\ Lowest(n) <= lo /\ lo <= Limit(n) /\ (n = 7 => Lowest(n) = lo)
        /\ ~Taken(n, lo) /\ ReachOf(n, lo) \in Int /\ hi <= ReachOf(n, lo)
        /\ IF n \in {2, 4} THEN lo < ReachOf(n, lo) ELSE ReachOf(n, lo) = hi

LEMMA ReachAtLeast ==
    ASSUME PartsInv, NoOverlap, NEW n \in Numbers, IsLogical(n) => ext # 0,
           NEW lo \in Nat, NEW hi \in Nat, lo <= hi, hi <= Limit(n),
           \A m \in Peers(n) : parts[m].first > hi \/ parts[m].last < lo
    PROVE  ~Taken(n, lo) /\ ReachOf(n, lo) \in Int /\ hi <= ReachOf(n, lo)
<1>. DEFINE after == {parts[m].first : m \in {m \in Peers(n) : parts[m].first > lo}}
<1>0. PICK l \in Nat : l = Limit(n) /\ hi <= l
  BY LimitIs
<1>1. \A m \in Peers(n) : parts[m].first \in Nat /\ parts[m].last \in Nat /\ parts[m].first <= parts[m].last
  BY LimitIs DEF PartsInv
<1>2. ~Taken(n, lo)
  BY <1>1 DEF Taken
<1>3. after \subseteq Nat /\ \A x \in after : x > hi
  BY <1>1
<1>4. ReachOf(n, lo) = IF after = {} THEN l ELSE MinOf(after) - 1
  BY <1>0 DEF ReachOf
<1>. HIDE DEF after
<1>5. CASE after = {}
  BY <1>0, <1>2, <1>4, <1>5
<1>6. CASE after # {}
  <2>1. PICK x \in Nat : x = MinOf(after) /\ x > hi
    BY <1>3, <1>6, MinIs
  <2>. QED  BY <1>2, <1>4, <1>6, <2>1
<1>. QED  BY <1>5, <1>6

Steps == {<<{}, 2>>, <<{2}, 4>>, <<{2, 4}, 1>>, <<{1, 2, 4}, 3>>, <<1..4, 5>>, <<1..5, 6>>, <<1..6, 7>>}

LEMMA RoomyIs ==
    ASSUME Base, PartsInv, NoOverlap, NEW D, NEW n, <<D, n>> \in Steps, parts = Made(D),
           ext = (IF 3 \in D THEN 3 ELSE 0)
    PROVE  Roomy(n)
<1>1. PICK b, s, w, c, e, r \in Nat :
        /\ 1 <= b /\ b <= s /\ s < w /\ w < c /\ c < e /\ e < r /\ r < cyls
        /\ Planned[1] = [first |-> r + 1, last |-> cyls] /\ Planned[2] = [first |-> b, last |-> s]
        /\ Planned[3] = [first |-> s + 1, last |-> e]    /\ Planned[4] = [first |-> e + 1, last |-> r]
        /\ Planned[5] = [first |-> c + 1, last |-> e]    /\ Planned[6] = [first |-> w + 1, last |-> c]
        /\ Planned[7] = [first |-> s + 1, last |-> w]
  BY PlanIs
<1>0. PICK g \in Nat : g = cyls
  BY DEF Base
<1>2. DOMAIN parts = D /\ \A m \in D : parts[m] = Planned[m]
  BY DEF Made
<1>3. ASSUME n \in Numbers \ D, IsLogical(n) => ext # 0,
             NEW lo \in Nat, NEW hi \in Nat, NEW l \in Nat,
             lo = Planned[n].first, hi = Planned[n].last, l = Limit(n), lo <= hi, hi <= l,
             Lowest(n) <= lo, n = 7 => Lowest(n) = lo,
             \A m \in Peers(n) : parts[m].first > hi \/ parts[m].last < lo,
             n \in {2, 4} => lo < l /\ \A m \in Peers(n) : ~(parts[m].first > lo),
             n \notin {2, 4} => l = hi \/ \E m \in Peers(n) : parts[m].first = hi + 1
      PROVE  Roomy(n)
  <2>1. PICK x \in Int : x = ReachOf(n, lo) /\ ~Taken(n, lo) /\ hi <= x
    BY <1>3, ReachAtLeast
  <2>2. x <= l /\ \A m \in Peers(n) : parts[m].first > lo => x < parts[m].first
    BY <1>3, <2>1, ReachIs
  <2>3. CASE n \in {2, 4}
    <3>1. x = l
      <4>1. {parts[m].first : m \in {m \in Peers(n) : parts[m].first > lo}} = {}
        BY <1>3, <2>3
      <4>. QED  BY <1>3, <2>1, <4>1 DEF ReachOf
    <3>. QED  BY <1>2, <1>3, <2>1, <2>3, <3>1 DEF Roomy
  <2>4. CASE n \notin {2, 4}
    <3>1. x = hi
      <4>1. CASE l = hi
        BY <2>1, <2>2, <4>1
      <4>2. ASSUME NEW m \in Peers(n), parts[m].first = hi + 1 PROVE x = hi
        <5>1. hi + 1 > lo /\ parts[m].first > lo
          BY <1>3, <4>2
        <5>2. x < hi + 1
          BY <2>2, <4>2, <5>1
        <5>. QED  BY <1>3, <2>1, <5>2
      <4>. QED  BY <1>3, <2>4, <4>1, <4>2
    <3>. QED  BY <1>2, <1>3, <2>1, <2>4, <3>1 DEF Roomy
  <2>. QED  BY <2>3, <2>4
<1>4. CASE D = {} /\ n = 2
  <2>1. n \in Numbers \ D /\ ~IsLogical(n) /\ Limit(n) = g /\ Lowest(n) = 1 /\ Peers(n) = {}
    BY <1>0, <1>2, <1>4 DEF Numbers, IsLogical, Limit, Lowest, Peers
  <2>2. Planned[n].first = b /\ Planned[n].last = s
    BY <1>1, <1>4
  <2>. QED  BY <1>0, <1>1, <1>3, <1>4, <2>1, <2>2
<1>5. CASE D = {2} /\ n = 4
  <2>1. n \in Numbers \ D /\ ~IsLogical(n) /\ Limit(n) = g /\ Lowest(n) = 1 /\ Peers(n) = {2}
    BY <1>0, <1>2, <1>5 DEF Numbers, IsLogical, Limit, Lowest, Peers
  <2>2. Planned[n].first = e + 1 /\ Planned[n].last = r /\ parts[2].first = b /\ parts[2].last = s
    BY <1>1, <1>2, <1>5
  <2>. QED  BY <1>0, <1>1, <1>3, <1>5, <2>1, <2>2
<1>6. CASE D = {2, 4} /\ n = 1
  <2>1. n \in Numbers \ D /\ ~IsLogical(n) /\ Limit(n) = g /\ Lowest(n) = 1 /\ Peers(n) = {2, 4}
    BY <1>0, <1>2, <1>6 DEF Numbers, IsLogical, Limit, Lowest, Peers
  <2>2. /\ Planned[n].first = r + 1 /\ Planned[n].last = g
        /\ parts[2].first = b /\ parts[2].last = s /\ parts[4].first = e + 1 /\ parts[4].last = r
    BY <1>0, <1>1, <1>2, <1>6
  <2>. QED  BY <1>0, <1>1, <1>3, <1>6, <2>1, <2>2
<1>7. CASE D = {1, 2, 4} /\ n = 3
  <2>1. n \in Numbers \ D /\ ~IsLogical(n) /\ Limit(n) = g /\ Lowest(n) = 1 /\ Peers(n) = {1, 2, 4}
    BY <1>0, <1>2, <1>7 DEF Numbers, IsLogical, Limit, Lowest, Peers
  <2>2. /\ Planned[n].first = s + 1 /\ Planned[n].last = e /\ parts[1].first = r + 1 /\ parts[1].last = g
        /\ parts[2].first = b /\ parts[2].last = s /\ parts[4].first = e + 1 /\ parts[4].last = r
    BY <1>0, <1>1, <1>2, <1>7
  <2>. QED  BY <1>0, <1>1, <1>3, <1>7, <2>1, <2>2
<1>8. CASE D = 1..4 /\ n = 5
  <2>1. n \in Numbers \ D /\ IsLogical(n) /\ ext = 3 /\ Peers(n) = {}
    BY <1>2, <1>8 DEF Numbers, IsLogical, Peers
  <2>2. Planned[n].first = c + 1 /\ Planned[n].last = e /\ Limit(n) = e /\ Lowest(n) = s + 1
    BY <1>1, <1>2, <1>8, <2>1 DEF Limit, Lowest
  <2>. QED  BY <1>1, <1>3, <1>8, <2>1, <2>2
<1>9. CASE D = 1..5 /\ n = 6
  <2>1. n \in Numbers \ D /\ IsLogical(n) /\ ext = 3 /\ Peers(n) = {5}
    BY <1>2, <1>9 DEF Numbers, IsLogical, Peers
  <2>2. /\ Planned[n].first = w + 1 /\ Planned[n].last = c /\ Limit(n) = e /\ Lowest(n) = s + 1
        /\ parts[5].first = c + 1 /\ parts[5].last = e
    BY <1>1, <1>2, <1>9, <2>1 DEF Limit, Lowest
  <2>. QED  BY <1>1, <1>3, <1>9, <2>1, <2>2
<1>10. CASE D = 1..6 /\ n = 7
  <2>1. n \in Numbers \ D /\ IsLogical(n) /\ ext = 3 /\ Peers(n) = {5, 6}
    BY <1>2, <1>10 DEF Numbers, IsLogical, Peers
  <2>2. /\ Planned[n].first = s + 1 /\ Planned[n].last = w /\ Limit(n) = e /\ Lowest(n) = s + 1
        /\ parts[5].first = c + 1 /\ parts[5].last = e /\ parts[6].first = w + 1 /\ parts[6].last = c
    BY <1>1, <1>2, <1>10, <2>1 DEF Limit, Lowest
  <2>3. /\ s + 1 \in Nat /\ s + 1 <= w /\ w <= e /\ Lowest(n) <= s + 1
        /\ \A m \in Peers(n) : parts[m].first > w \/ parts[m].last < s + 1
        /\ \E m \in Peers(n) : parts[m].first = w + 1
    BY <1>1, <2>1, <2>2
  <2>. QED  BY <1>3, <1>10, <2>1, <2>2, <2>3
<1>. QED  BY <1>4, <1>5, <1>6, <1>7, <1>8, <1>9, <1>10 DEF Steps

-----------------------------------------------------------------------------
(* One lemma for each kind of answer.                                      *)
LEMMA Goes ==
    ASSUME NEW i \in 0..31, NEW p, NEW D, Stage(i, p, D), Next
    PROVE  /\ sizes' = sizes /\ cyls' = cyls /\ Planned' = Planned
           /\ Line = PartCmds(sizes)[i + 1] /\ ~EndOfInput
           /\ \A q, E : /\ prompt' = q /\ parts' = Made(E) /\ ext' = (IF 3 \in E THEN 3 ELSE 0)
                        => Stage(i + 1, q, E)'
<1>1. input # << >> /\ Line = PartCmds(sizes)[i + 1] /\ Tail(input) = Left(i + 1)
  BY Reads DEF Stage
<1>2. ~EndOfInput
  BY <1>1 DEF EndOfInput
<1>3. sizes' = sizes /\ cyls' = cyls /\ input' = Tail(input)
  BY <1>2 DEF Next, Command, Kind, Slot, First, Last, Retype, Hex, ReadLine
<1>4. Planned' = Planned /\ input' = Left(i + 1)' /\ \A E : Made(E)' = Made(E)
  BY <1>1, <1>3 DEF Planned, Left, Made
<1>. QED  BY <1>1, <1>2, <1>3, <1>4 DEF Stage

LEMMA AtPrompt ==
    ASSUME Next, ~EndOfInput
    PROVE  /\ prompt = "command" => Command
           /\ prompt = "kind" => Kind
           /\ prompt = "slot" => Slot
           /\ prompt = "first" => First
           /\ prompt = "last" => Last
           /\ prompt = "retype" => Retype
           /\ prompt = "hex" => Hex
  BY DEF Next, Command, Kind, Slot, First, Last, Retype, Hex

LEMMA StageFacts ==
    ASSUME NEW i, NEW p, NEW D, Stage(i, p, D)
    PROVE  /\ prompt = p /\ parts = Made(D) /\ DOMAIN parts = D /\ ext = (IF 3 \in D THEN 3 ELSE 0)
           /\ FreePrimaries = Primaries \ D
  BY DEF Stage, Made, FreePrimaries

LEMMA AskKind ==
    ASSUME NEW i \in 0..31, NEW D, CommandAt(i, D), Primaries \ D # {},
           PartCmds(sizes)[i + 1] = Key("n"), Next
    PROVE  KindAt(i + 1, D)'
<1>1. Stage(i, "command", D)
  BY DEF CommandAt
<1>2. Line = Key("n") /\ ~EndOfInput
  BY <1>1, Goes
<1>3. Command /\ FreePrimaries # {}
  BY <1>1, <1>2, AtPrompt, StageFacts
<1>4. prompt' = "kind" /\ UNCHANGED <<ext, parts>>
  BY <1>2, <1>3 DEF Command, IsKey, Key, Ask
<1>5. Stage(i + 1, "kind", D)'
  BY <1>1, <1>4, Goes, StageFacts
<1>. QED  BY <1>5 DEF KindAt

LEMMA AskSlot ==
    ASSUME NEW i \in 0..31, NEW D, KindAt(i, D), NEW x \in Primaries \ D, NEW y \in Primaries \ D, x # y,
           PartCmds(sizes)[i + 1] = Key("p"), Next
    PROVE  SlotAt(i + 1, D)'
<1>1. Stage(i, "kind", D)
  BY DEF KindAt
<1>2. Line = Key("p") /\ ~EndOfInput
  BY <1>1, Goes
<1>3. Kind /\ FreePrimaries = Primaries \ D
  BY <1>1, <1>2, AtPrompt, StageFacts
<1>4. IsKey("p") /\ IsKey("e") = FALSE
  BY <1>2 DEF IsKey, Key
<1>5. ChooseSlot(FALSE)
  BY <1>3, <1>4 DEF Kind
<1>6. prompt' = "slot" /\ ~makeExt' /\ UNCHANGED <<ext, parts>>
  <2>1. ~(\E k \in FreePrimaries : FreePrimaries = {k})
    BY <1>3
  <2>. QED  BY <1>5, <2>1, Zenon DEF ChooseSlot, Ask
<1>7. Stage(i + 1, "slot", D)'
  BY <1>1, <1>6, Goes, StageFacts
<1>. QED  BY <1>6, <1>7 DEF SlotAt

LEMMA Begins ==
    ASSUME IInv, NEW n, Roomy(n), NEW x, BeginAdd(n, x)
    PROVE  /\ prompt' = "first" /\ cur' = n /\ makeExt' = x /\ UNCHANGED <<ext, parts>>
           /\ start' \in Nat /\ start' <= Planned[n].first /\ (n = 7 => start' = Planned[n].first)
<1>. DEFINE free == FreeFrom(n, Lowest(n))
<1>1. PICK lo \in Nat : lo = Planned[n].first /\ ~Taken(n, lo) /\ (n = 7 => Lowest(n) = lo)
  BY DEF Roomy
<1>2. PICK b \in Nat, l \in Nat : b = Lowest(n) /\ l = Limit(n)
  BY LimitIs DEF Roomy, IInv
<1>3. b <= lo /\ lo <= l /\ n \notin DOMAIN parts
  BY <1>1, <1>2 DEF Roomy
<1>4. free = {k \in b..l : ~Taken(n, k)}
  BY <1>2 DEF FreeFrom
<1>5. lo \in free /\ free \subseteq b..l /\ free \subseteq Nat
  BY <1>1, <1>2, <1>3, <1>4
<1>6. prompt' = "first" /\ cur' = n /\ makeExt' = x /\ start' = MinOf(free) /\ UNCHANGED <<ext, parts>>
  BY <1>3, <1>5 DEF BeginAdd, Ask
<1>. HIDE DEF free
<1>7. start' \in free /\ start' <= lo
  BY <1>5, <1>6, MinIs
<1>8. start' \in Nat /\ b <= start'
  BY <1>2, <1>5, <1>7
<1>9. n = 7 => start' = lo
  BY <1>1, <1>2, <1>7, <1>8
<1>. QED  BY <1>1, <1>6, <1>7, <1>8, <1>9

LEMMA FirstAsked ==
    ASSUME Base, IInv, NEW i \in 0..31, NEW p, NEW D, NEW n, <<D, n>> \in Steps, Stage(i, p, D), Next,
           (n = 3 /\ BeginAdd(n, TRUE)) \/ (n # 3 /\ BeginAdd(n, FALSE))
    PROVE  FirstAt(i + 1, D, n)'
<1>1. Roomy(n)
  BY RoomyIs DEF Stage, IInv
<1>2. /\ prompt' = "first" /\ cur' = n /\ (makeExt' <=> n = 3) /\ UNCHANGED <<ext, parts>>
      /\ start' \in Nat /\ start' <= Planned[n].first /\ (n = 7 => start' = Planned[n].first)
  <2>1. CASE n = 3 /\ BeginAdd(n, TRUE)
    <3>1. /\ prompt' = "first" /\ cur' = n /\ makeExt' = TRUE /\ UNCHANGED <<ext, parts>>
          /\ start' \in Nat /\ start' <= Planned[n].first /\ (n = 7 => start' = Planned[n].first)
      BY <1>1, <2>1, Begins, Zenon
    <3>. QED  BY <2>1, <3>1, Zenon
  <2>2. CASE n # 3 /\ BeginAdd(n, FALSE)
    <3>1. /\ prompt' = "first" /\ cur' = n /\ makeExt' = FALSE /\ UNCHANGED <<ext, parts>>
          /\ start' \in Nat /\ start' <= Planned[n].first /\ (n = 7 => start' = Planned[n].first)
      BY <1>1, <2>2, Begins, Zenon
    <3>. QED  BY <2>2, <3>1, Zenon
  <2>. QED  BY <2>1, <2>2
<1>3. Stage(i + 1, "first", D)'
  BY <1>2, Goes, StageFacts
<1>4. Planned' = Planned
  BY Goes
<1>. QED  BY <1>2, <1>3, <1>4 DEF FirstAt

LEMMA TakeSlot ==
    ASSUME Base, IInv, NEW i \in 0..31, NEW D, NEW n \in {1, 2, 4}, <<D, n>> \in Steps, SlotAt(i, D),
           PartCmds(sizes)[i + 1] = Num(n), Next
    PROVE  FirstAt(i + 1, D, n)'
<1>1. Stage(i, "slot", D) /\ ~makeExt /\ makeExt \in BOOLEAN
  BY DEF SlotAt, IInv, AddInv
<1>2. Line = Num(n) /\ ~EndOfInput
  BY <1>1, Goes
<1>3. Slot
  BY <1>1, <1>2, AtPrompt, StageFacts
<1>4. \A k \in 1..4 : ReadsInt(k, 1, 0, 4) <=> k = n
  BY <1>2 DEF ReadsInt, IsBlank, InRange, Num
<1>5. BeginAdd(n, makeExt)
  BY <1>3, <1>4 DEF Slot, Refused, Primaries
<1>6. makeExt = FALSE
  BY <1>1
<1>7. BeginAdd(n, FALSE)
  BY <1>5, <1>6
<1>8. n # 3
  OBVIOUS
<1>. QED  BY <1>1, <1>7, <1>8, FirstAsked

LEMMA TakeExtended ==
    ASSUME Base, IInv, NEW i \in 0..31, KindAt(i, {1, 2, 4}), PartCmds(sizes)[i + 1] = Key("e"), Next
    PROVE  FirstAt(i + 1, {1, 2, 4}, 3)'
<1>1. Stage(i, "kind", {1, 2, 4})
  BY DEF KindAt
<1>2. Line = Key("e") /\ ~EndOfInput
  BY <1>1, Goes
<1>3. Kind /\ FreePrimaries = {3} /\ ext = 0
  BY <1>1, <1>2, AtPrompt, StageFacts DEF Primaries
<1>4. IsKey("e") = TRUE
  BY <1>2 DEF IsKey, Key
<1>5. ChooseSlot(TRUE)
  BY <1>3, <1>4 DEF Kind
<1>6. Cardinality({3}) = 1
  BY FS_Singleton
<1>7. BeginAdd(3, TRUE)
  <2>1. ~(Cardinality(FreePrimaries) > 1)
    BY <1>3, <1>6
  <2>2. \A k : FreePrimaries = {k} => k = 3
    BY <1>3
  <2>. QED  BY <1>5, <2>1, <2>2, Zenon DEF ChooseSlot
<1>8. <<{1, 2, 4}, 3>> \in Steps
  BY DEF Steps
<1>. QED  BY <1>1, <1>7, <1>8, FirstAsked

LEMMA NextLogicalOf ==
    ASSUME NEW n \in 4..7, DOMAIN parts = 1..n PROVE NextLogical = n + 1
<1>1. CASE n = 4
  BY <1>1 DEF NextLogical, IsLogical
<1>2. CASE n # 4
  <2>1. n \in DOMAIN parts /\ n > 4
    BY <1>2
  <2>2. ASSUME NEW m \in 1..n, \A k \in DOMAIN parts : k <= m PROVE m = n
    <3>1. n <= m
      BY <2>1, <2>2
    <3>. QED  BY <3>1
  <2>3. (CHOOSE m \in DOMAIN parts : \A k \in DOMAIN parts : k <= m) = n
    BY <2>1, <2>2
  <2>. QED  BY <2>1, <2>3 DEF NextLogical, IsLogical
<1>. QED  BY <1>1, <1>2

LEMMA TakeLogical ==
    ASSUME Base, IInv, NEW i \in 0..31, NEW n \in 5..7, CommandAt(i, 1 .. n - 1), <<1 .. n - 1, n>> \in Steps,
           PartCmds(sizes)[i + 1] = Key("n"), Next
    PROVE  FirstAt(i + 1, 1 .. n - 1, n)'
<1>1. Stage(i, "command", 1 .. n - 1)
  BY DEF CommandAt
<1>2. Line = Key("n") /\ ~EndOfInput
  BY <1>1, Goes
<1>3. Command /\ FreePrimaries = {} /\ ext = 3 /\ DOMAIN parts = 1 .. n - 1
  BY <1>1, <1>2, AtPrompt, StageFacts DEF Primaries
<1>4. NextLogical = n
  <2>1. n - 1 \in 4..7 /\ (n - 1) + 1 = n
    OBVIOUS
  <2>. QED  BY <1>3, <2>1, NextLogicalOf
<1>5. BeginAdd(NextLogical, FALSE)
  <2>1. ~IsKey("t") /\ ~IsKey("w") /\ Line.kind \in {"n", "t", "w"} /\ ext # 0
    BY <1>2, <1>3 DEF Key, IsKey
  <2>. QED  BY <1>3, <2>1, Zenon DEF Command
<1>6. BeginAdd(n, FALSE)
  BY <1>4, <1>5
<1>7. n # 3
  OBVIOUS
<1>. QED  BY <1>1, <1>6, <1>7, FirstAsked

LEMMA Defines ==
    ASSUME Base, IInv, NEW i \in 0..31, NEW p, NEW D, NEW n, <<D, n>> \in Steps, Stage(i, p, D), Next,
           cur = n, makeExt <=> n = 3, FinishAdd(Planned[n].first, Planned[n].last)
    PROVE  CommandAt(i + 1, D \cup {n})'
<1>1. parts = Made(D) /\ DOMAIN parts = D /\ ext = (IF 3 \in D THEN 3 ELSE 0)
  BY StageFacts
<1>2. Planned[n] = [first |-> Planned[n].first, last |-> Planned[n].last]
  <2>1. n = 1 \/ n = 2 \/ n = 3 \/ n = 4 \/ n = 5 \/ n = 6 \/ n = 7
    BY DEF Steps
  <2>2. PICK b, s, w, c, e, r \in Nat :
          /\ 1 <= b /\ b <= s /\ s < w /\ w < c /\ c < e /\ e < r /\ r < cyls
          /\ Planned[1] = [first |-> r + 1, last |-> cyls] /\ Planned[2] = [first |-> b, last |-> s]
          /\ Planned[3] = [first |-> s + 1, last |-> e]    /\ Planned[4] = [first |-> e + 1, last |-> r]
          /\ Planned[5] = [first |-> c + 1, last |-> e]    /\ Planned[6] = [first |-> w + 1, last |-> c]
          /\ Planned[7] = [first |-> s + 1, last |-> w]
    BY PlanIs
  <2>. QED  BY <2>1, <2>2
<1>3. parts' = Made(D \cup {n})
  BY <1>1, <1>2 DEF FinishAdd, Define, Made
<1>4. prompt' = "command"
  BY DEF FinishAdd, BackToCommand, Ask
<1>5. ext' = (IF 3 \in D \cup {n} THEN 3 ELSE 0)
  <2>1. CASE n = 3
    BY <2>1 DEF FinishAdd
  <2>2. CASE n # 3
    BY <1>1, <2>2 DEF FinishAdd
  <2>. QED  BY <2>1, <2>2
<1>. QED  BY <1>3, <1>4, <1>5, Goes DEF CommandAt

(* The first cylinder is taken; when the partition can only have that one  *)
(* it is complete.                                                         *)
LEMMA AnswerFirst ==
    ASSUME Base, IInv, NEW i \in 0..31, NEW D, NEW n, <<D, n>> \in Steps, FirstAt(i, D, n),
           PartCmds(sizes)[i + 1] = Num(Planned[n].first) \/ (n = 7 /\ PartCmds(sizes)[i + 1] = AUTO), Next
    PROVE  LastAt(i + 1, D, n)' \/ CommandAt(i + 1, D \cup {n})'
<1>0. Stage(i, "first", D) /\ cur = n /\ (makeExt <=> n = 3) /\ start \in Nat /\ start <= Planned[n].first
  BY DEF FirstAt
<1>1. Roomy(n)
  BY <1>0, RoomyIs DEF Stage, IInv
<1>2. PICK lo \in Nat, hi \in Nat, x \in Int :
        /\ lo = Planned[n].first /\ hi = Planned[n].last /\ x = ReachOf(n, lo)
        /\ lo <= hi /\ hi <= x /\ ~Taken(n, lo)
        /\ IF n \in {2, 4} THEN lo < x ELSE x = hi
  BY <1>1 DEF Roomy
<1>3. PICK l \in Nat : l = Limit(n) /\ lo <= l
  BY <1>1, <1>2, LimitIs DEF Roomy, IInv
<1>4. PICK a \in Nat : a = start /\ a <= lo /\ (n = 7 => a = lo)
  BY <1>0, <1>2 DEF FirstAt
<1>5. (Line = Num(lo) \/ (n = 7 /\ Line = AUTO)) /\ ~EndOfInput /\ Planned' = Planned
  BY <1>0, <1>2, Goes
<1>6. \A c \in a..l : ReadsInt(c, a, a, l) <=> c = lo
  <2>1. CASE Line = Num(lo)
    <3>1. ~IsBlank /\ Line.kind = "num" /\ Line.val = lo
      BY <2>1 DEF IsBlank, Num
    <3>. QED  BY <1>2, <1>3, <1>4, <3>1 DEF ReadsInt, InRange
  <2>2. CASE n = 7 /\ Line = AUTO
    <3>1. IsBlank /\ a = lo
      BY <1>4, <2>2 DEF IsBlank, AUTO
    <3>. QED  BY <1>2, <1>3, <1>4, <3>1 DEF ReadsInt
  <2>. QED  BY <1>5, <2>1, <2>2
<1>7. First
  BY <1>0, <1>5, AtPrompt, StageFacts
<1>8. lo \in a..l /\ ~Refused(a, a, l)
  BY <1>2, <1>3, <1>4, <1>6 DEF Refused
<1>9. \/ x = lo /\ FinishAdd(lo, lo)
      \/ prompt' = "last" /\ start' = lo /\ UNCHANGED <<cur, makeExt, ext, parts>>
  <2>1. PICK c \in a..l :
          /\ ReadsInt(c, a, a, l)
          /\ \/ ~Taken(n, c) /\ ReachOf(n, c) = c /\ FinishAdd(c, c)
             \/ /\ ~Taken(n, c) /\ ReachOf(n, c) > c
                /\ Ask("last") /\ start' = c /\ UNCHANGED <<cur, makeExt, ext, parts>>
             \/ Taken(n, c)
    BY <1>0, <1>3, <1>4, <1>7, <1>8 DEF First
  <2>2. c = lo
    BY <1>6, <2>1
  <2>. QED  BY <1>2, <2>1, <2>2 DEF Ask
<1>10. CASE x = lo /\ FinishAdd(lo, lo)
  <2>1. hi = lo
    BY <1>2, <1>10
  <2>2. FinishAdd(Planned[n].first, Planned[n].last)
    BY <1>2, <1>10, <2>1
  <2>. QED  BY <1>0, <2>2, Defines
<1>11. CASE prompt' = "last" /\ start' = lo /\ UNCHANGED <<cur, makeExt, ext, parts>>
  <2>1. Stage(i + 1, "last", D)'
    BY <1>0, <1>11, Goes, StageFacts
  <2>. QED  BY <1>0, <1>2, <1>5, <1>11, <2>1 DEF LastAt
<1>. QED  BY <1>9, <1>10, <1>11

LEMMA AnswerLast ==
    ASSUME Base, IInv, NEW i \in 0..31, NEW D, NEW n, <<D, n>> \in Steps, LastAt(i, D, n),
           \/ PartCmds(sizes)[i + 1] = Num(Planned[n].last)
           \/ n \notin {2, 4} /\ PartCmds(sizes)[i + 1] = AUTO,
           Next
    PROVE  CommandAt(i + 1, D \cup {n})'
<1>0. Stage(i, "last", D) /\ cur = n /\ (makeExt <=> n = 3) /\ start = Planned[n].first
  BY DEF LastAt
<1>1. Roomy(n)
  BY <1>0, RoomyIs DEF Stage, IInv
<1>2. PICK lo \in Nat, hi \in Nat, x \in Int :
        /\ lo = Planned[n].first /\ hi = Planned[n].last /\ x = ReachOf(n, lo)
        /\ lo <= hi /\ hi <= x /\ (n \notin {2, 4} => x = hi)
  BY <1>1 DEF Roomy
<1>3. (Line = Num(hi) \/ (n \notin {2, 4} /\ Line = AUTO)) /\ ~EndOfInput
  BY <1>0, <1>2, Goes
<1>4. \A c \in lo..x : ReadsInt(c, lo, x, x) <=> c = hi
  <2>1. CASE Line = Num(hi)
    <3>1. ~IsBlank /\ Line.kind = "num" /\ Line.val = hi
      BY <2>1 DEF IsBlank, Num
    <3>. QED  BY <1>2, <3>1 DEF ReadsInt, InRange
  <2>2. CASE n \notin {2, 4} /\ Line = AUTO
    <3>1. IsBlank /\ x = hi
      BY <1>2, <2>2 DEF IsBlank, AUTO
    <3>. QED  BY <1>2, <3>1 DEF ReadsInt
  <2>. QED  BY <1>3, <2>1, <2>2
<1>5. Last
  BY <1>0, <1>3, AtPrompt, StageFacts
<1>6. ~Refused(lo, x, x)
  BY <1>2, <1>4 DEF Refused
<1>7. FinishAdd(Planned[n].first, Planned[n].last)
  <2>1. PICK c \in lo..x : ReadsInt(c, lo, x, x) /\ FinishAdd(lo, c)
    BY <1>0, <1>2, <1>5, <1>6 DEF Last
  <2>. QED  BY <1>2, <1>4, <2>1
<1>. QED  BY <1>0, <1>7, Defines

LEMMA Ignored ==
    ASSUME NEW i \in 0..31, NEW D, CommandAt(i, D), PartCmds(sizes)[i + 1].kind \notin {"n", "t", "w"}, Next
    PROVE  CommandAt(i + 1, D)'
<1>1. Stage(i, "command", D)
  BY DEF CommandAt
<1>2. Line.kind \notin {"n", "t", "w"} /\ ~EndOfInput
  BY <1>1, Goes
<1>3. Command
  BY <1>1, <1>2, AtPrompt, StageFacts
<1>4. KeepAsking
  BY <1>2, <1>3 DEF Command, IsKey
<1>. QED  BY <1>1, <1>4, Goes, StageFacts DEF CommandAt, KeepAsking

-----------------------------------------------------------------------------
(* The blocks of part_cmds one after the other.                            *)
LEMMA PrimaryDone ==
    ASSUME Base, IInv, Next, NEW D, NEW n \in {1, 2, 4}, <<D, n>> \in Steps, NEW b \in 0..27, Asked(D, n, b, b + 5),
           NEW x \in Primaries \ D, NEW y \in Primaries \ D, x # y,
           LET L == PartCmds(sizes)
           IN  /\ L[b + 1] = Key("n") /\ L[b + 2] = Key("p") /\ L[b + 3] = Num(n) /\ L[b + 4] = Num(Planned[n].first)
               /\ L[b + 5] = Num(Planned[n].last) \/ (n = 1 /\ L[b + 5] = AUTO)
    PROVE  Asked(D, n, b, b + 5)' \/ CommandAt(b + 5, D \cup {n})'
<1>0. /\ b \in 0..31 /\ b + 1 \in 0..31 /\ b + 2 \in 0..31 /\ b + 3 \in 0..31 /\ b + 4 \in 0..31
      /\ (b + 1) + 1 = b + 2 /\ (b + 2) + 1 = b + 3 /\ (b + 3) + 1 = b + 4 /\ (b + 4) + 1 = b + 5
      /\ (b + 5) - 2 = b + 3 /\ (b + 5) - 1 = b + 4
  OBVIOUS
<1>1. CASE CommandAt(b, D)
  <2>1. KindAt(b + 1, D)'
    BY <1>0, <1>1, AskKind
  <2>. QED  BY <2>1 DEF Asked
<1>2. CASE KindAt(b + 1, D)
  <2>1. SlotAt(b + 2, D)'
    BY <1>0, <1>2, AskSlot
  <2>. QED  BY <2>1 DEF Asked
<1>3. CASE SlotAt(b + 2, D)
  <2>1. FirstAt(b + 3, D, n)'
    BY <1>0, <1>3, TakeSlot
  <2>. QED  BY <1>0, <2>1 DEF Asked
<1>4. CASE FirstAt(b + 3, D, n)
  <2>1. LastAt(b + 4, D, n)' \/ CommandAt(b + 4, D \cup {n})'
    BY <1>0, <1>4, AnswerFirst
  <2>. QED  BY <1>0, <2>1 DEF Asked
<1>5. CASE LastAt(b + 4, D, n)
  BY <1>0, <1>5, AnswerLast
<1>6. CASE CommandAt(b + 4, D \cup {n})
  <2>1. PartCmds(sizes)[b + 5].kind \notin {"n", "t", "w"}
    BY DEF Num, AUTO
  <2>. QED  BY <1>0, <1>6, <2>1, Ignored
<1>. QED  BY <1>0, <1>1, <1>2, <1>3, <1>4, <1>5, <1>6 DEF Asked

LEMMA ExtendedDone ==
    ASSUME Base, IInv, Next, Asked({1, 2, 4}, 3, 15, 19)
    PROVE  Asked({1, 2, 4}, 3, 15, 19)' \/ CommandAt(19, 1..4)'
<1>. DEFINE D == {1, 2, 4}
            L == PartCmds(sizes)
<1>0. /\ 15 \in 0..31 /\ 16 \in 0..31 /\ 17 \in 0..31 /\ 18 \in 0..31
      /\ 15 + 1 = 16 /\ 16 + 1 = 17 /\ 17 + 1 = 18 /\ 18 + 1 = 19 /\ 19 - 2 = 17 /\ 19 - 1 = 18
      /\ <<D, 3>> \in Steps /\ D \cup {3} = 1..4 /\ Primaries \ D # {}
  BY DEF Steps, Primaries
<1>a. L[16] = Key("n") /\ L[17] = Key("e") /\ L[18] = Num(Planned[3].first) /\ L[19] = Num(Planned[3].last)
  BY LinesAre
<1>. HIDE DEF D
<1>1. CASE CommandAt(15, D)
  <2>1. KindAt(16, D)'
    BY <1>0, <1>1, <1>a, AskKind
  <2>. QED  BY <1>0, <2>1 DEF Asked, D
<1>2. CASE KindAt(16, D)
  <2>1. FirstAt(17, D, 3)'
    BY <1>0, <1>2, <1>a, TakeExtended DEF D
  <2>. QED  BY <1>0, <2>1 DEF Asked, D
<1>4. CASE FirstAt(17, D, 3)
  <2>1. LastAt(18, D, 3)' \/ CommandAt(18, D \cup {3})'
    BY <1>0, <1>4, <1>a, AnswerFirst
  <2>. QED  BY <1>0, <2>1 DEF Asked, D
<1>5. CASE LastAt(18, D, 3)
  <2>1. CommandAt(19, D \cup {3})'
    BY <1>0, <1>5, <1>a, AnswerLast
  <2>. QED  BY <1>0, <2>1
<1>6. CASE CommandAt(18, D \cup {3})
  <2>1. L[19].kind \notin {"n", "t", "w"}
    BY <1>a DEF Num
  <2>2. CommandAt(19, D \cup {3})'
    BY <1>0, <1>6, <2>1, Ignored
  <2>. QED  BY <1>0, <2>2
<1>. QED  BY <1>0, <1>1, <1>2, <1>4, <1>5, <1>6 DEF Asked, D

LEMMA LinesOfLogical ==
    ASSUME NEW n \in 5..7, NEW b \in 0..28
    PROVE  /\ b \in 0..31 /\ b + 1 \in 0..31 /\ b + 2 \in 0..31
           /\ (b + 1) + 1 = b + 2 /\ (b + 2) + 1 = b + 3 /\ (b + 3) - 2 = b + 1 /\ (b + 3) - 1 = b + 2
           /\ ~(n <= 4) /\ n \notin {1, 2, 4}
  OBVIOUS

LEMMA LogicalDone ==
    ASSUME Base, IInv, Next, NEW n \in 5..7, <<1 .. n - 1, n>> \in Steps, NEW b \in 0..28,
           Asked(1 .. n - 1, n, b, b + 3),
           LET L == PartCmds(sizes)
           IN  /\ L[b + 1] = Key("n")
               /\ L[b + 2] = Num(Planned[n].first) \/ (n = 7 /\ L[b + 2] = AUTO)
               /\ L[b + 3] = Num(Planned[n].last) \/ (n = 7 /\ L[b + 3] = AUTO)
    PROVE  Asked(1 .. n - 1, n, b, b + 3)' \/ CommandAt(b + 3, 1..n)'
<1>. DEFINE D == 1 .. n - 1
<1>0. /\ b \in 0..31 /\ b + 1 \in 0..31 /\ b + 2 \in 0..31
      /\ (b + 1) + 1 = b + 2 /\ (b + 2) + 1 = b + 3 /\ (b + 3) - 2 = b + 1 /\ (b + 3) - 1 = b + 2
      /\ ~(n <= 4) /\ n \notin {1, 2, 4}
  BY LinesOfLogical
<1>a. D \cup {n} = 1..n
  OBVIOUS
<1>b. <<D, n>> \in Steps
  OBVIOUS
<1>1. CASE CommandAt(b, D)
  <2>1. FirstAt(b + 1, D, n)'
    BY <1>0, <1>1, <1>b, TakeLogical
  <2>. QED  BY <1>0, <2>1 DEF Asked
<1>4. CASE FirstAt(b + 1, D, n)
  <2>1. LastAt(b + 2, D, n)' \/ CommandAt(b + 2, D \cup {n})'
    BY <1>0, <1>4, <1>b, AnswerFirst
  <2>. QED  BY <1>0, <2>1 DEF Asked
<1>5. CASE LastAt(b + 2, D, n)
  <2>1. CommandAt(b + 3, D \cup {n})'
    BY <1>0, <1>5, <1>b, AnswerLast
  <2>. QED  BY <1>a, <2>1
<1>6. CASE CommandAt(b + 2, D \cup {n})
  <2>1. PartCmds(sizes)[b + 3].kind \notin {"n", "t", "w"}
    BY DEF Num, AUTO
  <2>2. CommandAt(b + 3, D \cup {n})'
    BY <1>0, <1>6, <2>1, Ignored
  <2>. QED  BY <1>a, <2>2
<1>. QED  BY <1>0, <1>1, <1>4, <1>5, <1>6 DEF Asked

LEMMA SevenAre == Cardinality(1..7) = 7
<1>1. \A a, b \in Int : Cardinality(a..b) = IF a > b THEN 0 ELSE b - a + 1
  BY FS_Interval
<1>2. 1 \in Int /\ 7 \in Int
  OBVIOUS
<1>3. Cardinality(1..7) = IF 1 > 7 THEN 0 ELSE 7 - 1 + 1
  BY <1>1, <1>2, Zenon
<1>. QED  BY <1>3

(* t, 1, b and w.                                                          *)
LEMMA Finishes ==
    ASSUME Next, Finishing PROVE Finishing'
<1>. DEFINE L == PartCmds(sizes)
            D == 1..7
<1>0. /\ 28 \in 0..31 /\ 29 \in 0..31 /\ 30 \in 0..31 /\ 31 \in 0..31
      /\ 28 + 1 = 29 /\ 29 + 1 = 30 /\ 30 + 1 = 31 /\ 31 + 1 = 32 /\ 3 \in D
  OBVIOUS
<1>a. L[29] = Key("t") /\ L[30] = Num(1) /\ L[31] = Key("b") /\ L[32] = Key("w")
  BY LinesAre
<1>b. Cardinality(D) = 7
  BY SevenAre
<1>1. CASE CommandAt(28, D)
  <2>1. Stage(28, "command", D)
    BY <1>1 DEF CommandAt
  <2>2. Line = Key("t") /\ ~EndOfInput
    BY <1>0, <1>a, <2>1, Goes
  <2>3. Command /\ DOMAIN parts = D
    BY <2>1, <2>2, AtPrompt, StageFacts
  <2>4. IsKey("t") /\ ~IsKey("n") /\ ~IsKey("w") /\ Line.kind \in {"n", "t", "w"}
    BY <2>2 DEF IsKey, Key
  <2>a. parts # << >>
    <3>1. 1 \in DOMAIN parts
      BY <2>3
    <3>. QED  BY <3>1
  <2>b. Cardinality(DOMAIN parts) # 1
    BY <1>b, <2>3
  <2>5. prompt' = "retype" /\ UNCHANGED <<ext, parts>>
    BY <2>3, <2>4, <2>a, <2>b, Zenon DEF Command, Ask
  <2>6. Stage(29, "retype", D)'
    BY <1>0, <2>1, <2>5, Goes, StageFacts
  <2>. QED  BY <2>6 DEF Finishing
<1>2. CASE Stage(29, "retype", D)
  <2>1. Line = Num(1) /\ ~EndOfInput
    BY <1>0, <1>2, <1>a, Goes
  <2>2. Retype /\ DOMAIN parts = D /\ ext = 3
    BY <1>0, <1>2, <2>1, AtPrompt, StageFacts
  <2>3. NextLogical = 8
    BY <2>2, NextLogicalOf
  <2>4. GPartitions = 7
    BY <2>2, <2>3 DEF GPartitions
  <2>5. InRange(1, GPartitions) /\ Line.val \in DOMAIN parts
    BY <2>1, <2>2, <2>4 DEF InRange, Num
  <2>6. prompt' = "hex" /\ UNCHANGED <<ext, parts>>
    BY <2>2, <2>5 DEF Retype
  <2>7. Stage(30, "hex", D)'
    BY <1>0, <1>2, <2>6, Goes, StageFacts
  <2>. QED  BY <2>7 DEF Finishing
<1>3. CASE Stage(30, "hex", D)
  <2>1. Line = Key("b") /\ ~EndOfInput
    BY <1>0, <1>3, <1>a, Goes
  <2>2. Hex
    BY <1>3, <2>1, AtPrompt, StageFacts
  <2>3. prompt' = "command" /\ UNCHANGED <<ext, parts>>
    BY <2>1, <2>2 DEF Hex, Ask, Key
  <2>4. Stage(31, "command", D)'
    BY <1>0, <1>3, <2>3, Goes, StageFacts
  <2>. QED  BY <2>4 DEF Finishing, CommandAt
<1>4. CASE CommandAt(31, D)
  <2>1. Stage(31, "command", D)
    BY <1>4 DEF CommandAt
  <2>2. Line = Key("w") /\ ~EndOfInput
    BY <1>0, <1>a, <2>1, Goes
  <2>3. Command
    BY <2>1, <2>2, AtPrompt, StageFacts
  <2>4. IsKey("w") /\ ~IsKey("n") /\ ~IsKey("t") /\ Line.kind \in {"n", "t", "w"}
    BY <2>2 DEF IsKey, Key
  <2>5. prompt' = "exit" /\ written' /\ UNCHANGED <<ext, parts>>
    BY <2>3, <2>4 DEF Command, Ask
  <2>6. Stage(32, "exit", D)'
    BY <1>0, <2>1, <2>5, Goes, StageFacts
  <2>. QED  BY <2>5, <2>6 DEF Finishing
<1>5. CASE Stage(32, "exit", D)
  BY <1>5 DEF Stage, Next, Command, Kind, Slot, First, Last, Retype, Hex, EndOfInput, Exited
<1>. QED  BY <1>1, <1>2, <1>3, <1>4, <1>5 DEF Finishing

LEMMA BlocksDone ==
    ASSUME Base, IInv, Next
    PROVE  /\ Asked({}, 2, 0, 5) => Asked({}, 2, 0, 5)' \/ CommandAt(5, {2})'
           /\ Asked({2}, 4, 5, 10) => Asked({2}, 4, 5, 10)' \/ CommandAt(10, {2, 4})'
           /\ Asked({2, 4}, 1, 10, 15) => Asked({2, 4}, 1, 10, 15)' \/ CommandAt(15, {1, 2, 4})'
           /\ Asked(1..4, 5, 19, 22) => Asked(1..4, 5, 19, 22)' \/ CommandAt(22, 1..5)'
           /\ Asked(1..5, 6, 22, 25) => Asked(1..5, 6, 22, 25)' \/ CommandAt(25, 1..6)'
           /\ Asked(1..6, 7, 25, 28) => Asked(1..6, 7, 25, 28)' \/ CommandAt(28, 1..7)'
<1>1. ASSUME Asked({}, 2, 0, 5) PROVE Asked({}, 2, 0, 5)' \/ CommandAt(5, {2})'
  <2>. DEFINE D == {}
  <2>1. <<D, 2>> \in Steps /\ D \cup {2} = {2}
    BY DEF Steps
  <2>2. 1 \in Primaries \ D /\ 3 \in Primaries \ D /\ 1 # 3
    BY DEF Primaries
  <2>3. 0 \in 0..27 /\ 0 + 1 = 1 /\ 0 + 2 = 2 /\ 0 + 3 = 3 /\ 0 + 4 = 4 /\ 0 + 5 = 5 /\ 2 \in {1, 2, 4}
    OBVIOUS
  <2>4. LET L == PartCmds(sizes)
        IN  /\ L[0 + 1] = Key("n") /\ L[0 + 2] = Key("p") /\ L[0 + 3] = Num(2) /\ L[0 + 4] = Num(Planned[2].first)
            /\ L[0 + 5] = Num(Planned[2].last) \/ (2 = 1 /\ L[0 + 5] = AUTO)
    BY <2>3, LinesAre
  <2>. HIDE DEF D
  <2>5. Asked(D, 2, 0, 0 + 5)
    BY <1>1, <2>3 DEF D
  <2>6. Asked(D, 2, 0, 0 + 5)' \/ CommandAt(0 + 5, D \cup {2})'
    BY <2>1, <2>2, <2>3, <2>4, <2>5, PrimaryDone
  <2>. QED  BY <2>1, <2>3, <2>6 DEF D
<1>2. ASSUME Asked({2}, 4, 5, 10) PROVE Asked({2}, 4, 5, 10)' \/ CommandAt(10, {2, 4})'
  <2>. DEFINE D == {2}
  <2>1. <<D, 4>> \in Steps /\ D \cup {4} = {2, 4}
    BY DEF Steps
  <2>2. 1 \in Primaries \ D /\ 3 \in Primaries \ D /\ 1 # 3
    BY DEF Primaries
  <2>3. 5 \in 0..27 /\ 5 + 1 = 6 /\ 5 + 2 = 7 /\ 5 + 3 = 8 /\ 5 + 4 = 9 /\ 5 + 5 = 10 /\ 4 \in {1, 2, 4}
    OBVIOUS
  <2>4. LET L == PartCmds(sizes)
        IN  /\ L[5 + 1] = Key("n") /\ L[5 + 2] = Key("p") /\ L[5 + 3] = Num(4) /\ L[5 + 4] = Num(Planned[4].first)
            /\ L[5 + 5] = Num(Planned[4].last) \/ (4 = 1 /\ L[5 + 5] = AUTO)
    BY <2>3, LinesAre
  <2>. HIDE DEF D
  <2>5. Asked(D, 4, 5, 5 + 5)
    BY <1>2, <2>3 DEF D
  <2>6. Asked(D, 4, 5, 5 + 5)' \/ CommandAt(5 + 5, D \cup {4})'
    BY <2>1, <2>2, <2>3, <2>4, <2>5, PrimaryDone
  <2>. QED  BY <2>1, <2>3, <2>6 DEF D
<1>3. ASSUME Asked({2, 4}, 1, 10, 15) PROVE Asked({2, 4}, 1, 10, 15)' \/ CommandAt(15, {1, 2, 4})'
  <2>. DEFINE D == {2, 4}
  <2>1. <<D, 1>> \in Steps /\ D \cup {1} = {1, 2, 4}
    BY DEF Steps
  <2>2. 1 \in Primaries \ D /\ 3 \in Primaries \ D /\ 1 # 3
    BY DEF Primaries
  <2>3. 10 \in 0..27 /\ 10 + 1 = 11 /\ 10 + 2 = 12 /\ 10 + 3 = 13 /\ 10 + 4 = 14 /\ 10 + 5 = 15 /\ 1 \in {1, 2, 4}
    OBVIOUS
  <2>4. LET L == PartCmds(sizes)
        IN  /\ L[10 + 1] = Key("n") /\ L[10 + 2] = Key("p") /\ L[10 + 3] = Num(1) /\ L[10 + 4] = Num(Planned[1].first)
            /\ L[10 + 5] = Num(Planned[1].last) \/ (1 = 1 /\ L[10 + 5] = AUTO)
    BY <2>3, LinesAre
  <2>. HIDE DEF D
  <2>5. Asked(D, 1, 10, 10 + 5)
    BY <1>3, <2>3 DEF D
  <2>6. Asked(D, 1, 10, 10 + 5)' \/ CommandAt(10 + 5, D \cup {1})'
    BY <2>1, <2>2, <2>3, <2>4, <2>5, PrimaryDone
  <2>. QED  BY <2>1, <2>3, <2>6 DEF D
<1>4. ASSUME Asked(1..4, 5, 19, 22) PROVE Asked(1..4, 5, 19, 22)' \/ CommandAt(22, 1..5)'
  <2>1. <<1 .. 5 - 1, 5>> \in Steps /\ 5 - 1 = 4 /\ 5 \in 5..7
    BY DEF Steps
  <2>2. 19 \in 0..28 /\ 19 + 1 = 20 /\ 19 + 2 = 21 /\ 19 + 3 = 22
    OBVIOUS
  <2>3. LET L == PartCmds(sizes)
        IN  /\ L[19 + 1] = Key("n")
            /\ L[19 + 2] = Num(Planned[5].first) \/ (5 = 7 /\ L[19 + 2] = AUTO)
            /\ L[19 + 3] = Num(Planned[5].last) \/ (5 = 7 /\ L[19 + 3] = AUTO)
    BY <2>2, LinesAre
  <2>4. Asked(1 .. 5 - 1, 5, 19, 19 + 3)
    BY <1>4, <2>1, <2>2
  <2>5. Asked(1 .. 5 - 1, 5, 19, 19 + 3)' \/ CommandAt(19 + 3, 1..5)'
    BY <2>1, <2>2, <2>3, <2>4, LogicalDone
  <2>. QED  BY <2>1, <2>2, <2>5
<1>5. ASSUME Asked(1..5, 6, 22, 25) PROVE Asked(1..5, 6, 22, 25)' \/ CommandAt(25, 1..6)'
  <2>1. <<1 .. 6 - 1, 6>> \in Steps /\ 6 - 1 = 5 /\ 6 \in 5..7
    BY DEF Steps
  <2>2. 22 \in 0..28 /\ 22 + 1 = 23 /\ 22 + 2 = 24 /\ 22 + 3 = 25
    OBVIOUS
  <2>3. LET L == PartCmds(sizes)
        IN  /\ L[22 + 1] = Key("n")
            /\ L[22 + 2] = Num(Planned[6].first) \/ (6 = 7 /\ L[22 + 2] = AUTO)
            /\ L[22 + 3] = Num(Planned[6].last) \/ (6 = 7 /\ L[22 + 3] = AUTO)
    BY <2>2, LinesAre
  <2>4. Asked(1 .. 6 - 1, 6, 22, 22 + 3)
    BY <1>5, <2>1, <2>2
  <2>5. Asked(1 .. 6 - 1, 6, 22, 22 + 3)' \/ CommandAt(22 + 3, 1..6)'
    BY <2>1, <2>2, <2>3, <2>4, LogicalDone
  <2>. QED  BY <2>1, <2>2, <2>5
<1>6. ASSUME Asked(1..6, 7, 25, 28) PROVE Asked(1..6, 7, 25, 28)' \/ CommandAt(28, 1..7)'
  <2>1. <<1 .. 7 - 1, 7>> \in Steps /\ 7 - 1 = 6 /\ 7 \in 5..7
    BY DEF Steps
  <2>2. 25 \in 0..28 /\ 25 + 1 = 26 /\ 25 + 2 = 27 /\ 25 + 3 = 28
    OBVIOUS
  <2>3. LET L == PartCmds(sizes)
        IN  /\ L[25 + 1] = Key("n")
            /\ L[25 + 2] = Num(Planned[7].first) \/ (7 = 7 /\ L[25 + 2] = AUTO)
            /\ L[25 + 3] = Num(Planned[7].last) \/ (7 = 7 /\ L[25 + 3] = AUTO)
    BY <2>2, LinesAre
  <2>4. Asked(1 .. 7 - 1, 7, 25, 25 + 3)
    BY <1>6, <2>1, <2>2
  <2>5. Asked(1 .. 7 - 1, 7, 25, 25 + 3)' \/ CommandAt(25 + 3, 1..7)'
    BY <2>1, <2>2, <2>3, <2>4, LogicalDone
  <2>. QED  BY <2>1, <2>2, <2>5
<1>. QED  BY <1>1, <1>2, <1>3, <1>4, <1>5, <1>6

(* What a run starts from, and does not change.                            *)
Given == sizes \in [Spaces -> Nat] /\ cyls \in Nat

LEMMA NextScript ==
    ASSUME Given, IInv, ScriptInv, [Next]_vars
    PROVE  Given' /\ ScriptInv'
<1>1. sizes' = sizes /\ cyls' = cyls
  BY DEF Next, Command, Kind, Slot, First, Last, Retype, Hex, EndOfInput, vars
<1>2. Given'
  BY <1>1 DEF Given
<1>3. ASSUME Fits(sizes, cyls) PROVE Creating' \/ Finishing'
  <2>0. Base /\ (Creating \/ Finishing)
    BY <1>3 DEF Base, Given, ScriptInv
  <2>1. CASE UNCHANGED vars
    <3>1. \A i, p, D : Stage(i, p, D)' <=> Stage(i, p, D)
      BY <2>1 DEF Stage, Left, Made, Planned, vars
    <3>2. UNCHANGED <<cur, makeExt, start, written>> /\ Planned' = Planned
      BY <2>1 DEF vars, Planned
    <3>3. \A D, n, b, e : Asked(D, n, b, e)' <=> Asked(D, n, b, e)
      BY <3>1, <3>2 DEF Asked, CommandAt, KindAt, SlotAt, FirstAt, LastAt
    <3>4. Finishing' <=> Finishing
      BY <3>1, <3>2 DEF Finishing, CommandAt
    <3>. QED  BY <2>0, <3>3, <3>4 DEF Creating
  <2>2. CASE Next
    <3>1. \A D, n, b, e : CommandAt(b, D)' => Asked(D, n, b, e)'
      BY DEF Asked
    <3>2. CommandAt(28, 1..7)' => Finishing'
      BY DEF Finishing
    <3>3. CASE Finishing
      BY <2>2, <3>3, Finishes
    <3>4. CASE Creating
      BY <2>0, <2>2, <3>1, <3>2, <3>4, BlocksDone, ExtendedDone DEF Creating
    <3>. QED  BY <2>0, <3>3, <3>4
  <2>. QED  BY <2>1, <2>2
<1>. QED  BY <1>1, <1>2, <1>3 DEF ScriptInv

LEMMA InitScript == Init => Given /\ ScriptInv
<1>. SUFFICES ASSUME Init PROVE Given /\ ScriptInv
  OBVIOUS
<1>1. Given
  <2>1. cyls \in 1..MaxCyls /\ sizes \in [Spaces -> SizeSet]
    BY DEF Init
  <2>2. sizes \in [Spaces -> Nat]
    BY <2>1, FdiskAssumption
  <2>3. cyls \in Nat
    BY <2>1, FdiskAssumption
  <2>. QED  BY <2>2, <2>3 DEF Given
<1>2. input = Left(0)
  BY DEF Init, Left, PartCmds
<1>3. parts = Made({})
  BY DEF Init, Made
<1>4. CommandAt(0, {})
  BY <1>2, <1>3 DEF Init, CommandAt, Stage
<1>. QED  BY <1>1, <1>4 DEF ScriptInv, Creating, Asked

LEMMA ScriptRealises == ScriptInv => PlanRealised
<1>. SUFFICES ASSUME ScriptInv, prompt = "exit", Fits(sizes, cyls) PROVE written /\ parts = Planned
  BY DEF PlanRealised, Exited
<1>1. ~Creating
  BY DEF Creating, Asked, CommandAt, KindAt, SlotAt, FirstAt, LastAt, Stage
<1>2. Stage(32, "exit", 1..7) /\ written
  BY <1>1 DEF ScriptInv, Finishing, CommandAt, Stage
<1>3. Made(1..7) = Planned
  BY DEF Made, Planned
<1>. QED  BY <1>2, <1>3 DEF Stage

(* On every device the plan fits, whatever the sizes of the spaces, the    *)
(* answers of part_cmds make fdisk write exactly the planned partitions    *)
(* under the numbers the rest of flash.sh uses (flash.sh 181-199).         *)
THEOREM PlanRealisedHolds == Spec => []PlanRealised
<1>1. Init => IInv /\ Given /\ ScriptInv
  BY InitHolds, InitScript
<1>2. IInv /\ Given /\ ScriptInv /\ [Next]_vars => (IInv /\ Given /\ ScriptInv)'
  BY NextKeeps, NextScript
<1>. QED  BY <1>1, <1>2, ScriptRealises, PTL DEF Spec
-----------------------------------------------------------------------------
(* The dialogue of a plan that is too large, in a coarser view: after i    *)
(* lines only p1, p2 and p4 can be there, begun by lines 3, 8 and 13.  To  *)
(* have p1 and p4 both takes until line 17, after which fdisk asks for no  *)
(* primary any more and reads no number that would start the extended one  *)
(* in time.                                                                *)
FromOne(i) ==
    \/ prompt = "first" /\ i \in 13..14 /\ start = 1 /\ \A m \in DOMAIN parts : parts[m].first >= 3
    \/ prompt = "last" /\ i >= 15
    \/ i >= 30
Adding(i) ==
    /\ i >= 3 /\ (makeExt => i >= 30)
    /\ \/ cur = 2 /\ DOMAIN parts = {}
       \/ cur = 4 /\ 1 \notin DOMAIN parts
       \/ cur = 1 /\ i >= 13 /\ (4 \in DOMAIN parts => FromOne(i))
    /\ prompt = "last" /\ i <= 12 => start >= 3
LostParts(i) ==
    /\ ext = 0 /\ DOMAIN parts \subseteq {1, 2, 4}
    /\ DOMAIN parts # {} => i >= 4
    /\ 1 \in DOMAIN parts => i >= 13 /\ (4 \in DOMAIN parts => i >= 17)
    /\ i <= 12 => \A m \in DOMAIN parts : parts[m].first >= 3
LostPrompt(i) ==
    /\ prompt = "slot" => i >= 17 \/ (i \in {2, 7, 12} /\ ~makeExt)
    /\ prompt \in {"first", "last"} => Adding(i)
Lost(i) == input = Left(i) /\ LostParts(i) /\ LostPrompt(i)
LostInv == TooLarge => \E i \in 0..32 : Lost(i)

(* What the lines say when the plan is too large.                          *)
LEMMA Answers ==
    ASSUME Given, TooLarge, NEW j \in 1..32, NEW l, l = PartCmds(sizes)[j]
    PROVE  /\ l.kind = "p" => j \in {2, 7, 12}
           /\ l.kind = "e" => j = 17
           /\ j \in 4..12 => l.kind # "blank" /\ (l.kind = "num" => l.val >= 3)
           /\ (j = 3 => l = Num(2)) /\ (j = 8 => l = Num(4)) /\ (j = 13 => l = Num(1)) /\ (j = 15 => l = AUTO)
           /\ j = 14 => l.kind = "num" /\ l.val > cyls
           /\ j \in {16, 17, 31, 32} => l.kind # "num" /\ l.kind # "blank"
           /\ j >= 18 /\ l.kind = "num" /\ l.val \in 1..4 => l.val = 1 /\ j = 30
<1>. DEFINE L == PartCmds(sizes)
<1>1. PICK b \in Nat, s \in Nat, w \in Nat, c \in Nat, e \in Nat, r \in Nat :
        /\ b = BootEnd(sizes) /\ s = SystemEnd(sizes) /\ w = WowconfigEnd(sizes) /\ c = CacheEnd(sizes)
        /\ e = ExtEnd(sizes) /\ e = DataEnd(sizes) /\ r = RecoveryEnd(sizes)
        /\ 3 <= b /\ b < s /\ s < w /\ w < c /\ c < e /\ e < r /\ cyls <= r
  <2>1. PICK x \in Nat, y \in Nat, z \in Nat, u \in Nat, v \in Nat, t \in Nat :
          /\ x = sizes["boot"] /\ y = sizes["system"] /\ z = sizes["wowconfig"] /\ u = sizes["cache"]
          /\ v = sizes["data"] /\ t = sizes["recovery"]
    BY DEF Given, Spaces
  <2>2. x >= 4 /\ y >= 1 /\ z >= 1 /\ u >= 1 /\ v >= 1 /\ t >= 1 /\ ~Fits(sizes, cyls)
    BY <2>1 DEF TooLarge, Spaces
  <2>3. /\ BootEnd(sizes) = x - 1 /\ SystemEnd(sizes) = x - 1 + y /\ WowconfigEnd(sizes) = x - 1 + y + z
        /\ CacheEnd(sizes) = x - 1 + y + z + u /\ DataEnd(sizes) = x - 1 + y + z + u + v
        /\ ExtEnd(sizes) = x - 1 + y + z + v + u /\ RecoveryEnd(sizes) = x - 1 + y + z + v + u + t
    BY <2>1 DEF BootEnd, SystemEnd, WowconfigEnd, CacheEnd, DataEnd, ExtEnd, RecoveryEnd
  <2>4. ~(RecoveryEnd(sizes) < cyls)
    BY <2>1, <2>2 DEF Fits
  <2>. QED  BY <2>2, <2>3, <2>4 DEF Given
<1>2. /\ L[1] = Key("n") /\ L[2] = Key("p") /\ L[3] = Num(2) /\ L[4] = Num(b) /\ L[5] = Num(s)
      /\ L[6] = Key("n") /\ L[7] = Key("p") /\ L[8] = Num(4) /\ L[9] = Num(e + 1) /\ L[10] = Num(r)
      /\ L[11] = Key("n") /\ L[12] = Key("p") /\ L[13] = Num(1) /\ L[14] = Num(r + 1) /\ L[15] = AUTO
      /\ L[16] = Key("n") /\ L[17] = Key("e") /\ L[18] = Num(s + 1) /\ L[19] = Num(e)
      /\ L[20] = Key("n") /\ L[21] = Num(c + 1) /\ L[22] = Num(e) /\ L[23] = Key("n") /\ L[24] = Num(w + 1)
      /\ L[25] = Num(c) /\ L[26] = Key("n") /\ L[27] = AUTO /\ L[28] = AUTO
      /\ L[29] = Key("t") /\ L[30] = Num(1) /\ L[31] = Key("b") /\ L[32] = Key("w")
  BY <1>1 DEF PartCmds
<1>3. /\ \A k : Key(k).kind = k
      /\ \A n : Num(n).kind = "num" /\ Num(n).val = n
      /\ AUTO.kind = "blank"
  BY DEF Key, Num, AUTO
<1>. HIDE DEF L
<1>4. l = L[j]
  BY DEF L
<1>5. j \in 1..8 \/ j \in 9..16 \/ j \in 17..24 \/ j \in 25..32
  OBVIOUS
<1>6. CASE j \in 1..8
  <2>1. j = 1 \/ j = 2 \/ j = 3 \/ j = 4 \/ j = 5 \/ j = 6 \/ j = 7 \/ j = 8
    BY <1>6
  <2>. QED  BY <1>1, <1>2, <1>3, <1>4, <2>1
<1>7. CASE j \in 9..16
  <2>1. j = 9 \/ j = 10 \/ j = 11 \/ j = 12 \/ j = 13 \/ j = 14 \/ j = 15 \/ j = 16
    BY <1>7
  <2>. QED  BY <1>1, <1>2, <1>3, <1>4, <2>1 DEF Given
<1>8. CASE j \in 17..24
  <2>1. j = 17 \/ j = 18 \/ j = 19 \/ j = 20 \/ j = 21 \/ j = 22 \/ j = 23 \/ j = 24
    BY <1>8
  <2>. QED  BY <1>1, <1>2, <1>3, <1>4, <2>1
<1>9. CASE j \in 25..32
  <2>1. j = 25 \/ j = 26 \/ j = 27 \/ j = 28 \/ j = 29 \/ j = 30 \/ j = 31 \/ j = 32
    BY <1>9
  <2>. QED  BY <1>1, <1>2, <1>3, <1>4, <2>1
<1>. QED  BY <1>5, <1>6, <1>7, <1>8, <1>9

LEMMA LostReads ==
    ASSUME Given, TooLarge, NEW i \in 0..31, Lost(i), Next, NEW l, l = Line
    PROVE  /\ sizes' = sizes /\ cyls' = cyls /\ input' = Left(i + 1)' /\ ~EndOfInput
           /\ l.kind = "p" => i \in {1, 6, 11}
           /\ l.kind = "e" => i = 16
           /\ i \in 3..11 => l.kind # "blank" /\ (l.kind = "num" => l.val >= 3)
           /\ (i = 2 => l = Num(2)) /\ (i = 7 => l = Num(4)) /\ (i = 12 => l = Num(1)) /\ (i = 14 => l = AUTO)
           /\ i = 13 => l.kind = "num" /\ l.val > cyls
           /\ i \in {15, 16, 30, 31} => l.kind # "num" /\ l.kind # "blank"
           /\ i >= 17 /\ l.kind = "num" /\ l.val \in 1..4 => l.val = 1 /\ i = 29
<1>1. input # << >> /\ Line = PartCmds(sizes)[i + 1] /\ Tail(input) = Left(i + 1)
  BY Reads DEF Lost
<1>2. ~EndOfInput
  BY <1>1 DEF EndOfInput
<1>3. sizes' = sizes /\ cyls' = cyls /\ input' = Tail(input)
  BY <1>2 DEF Next, Command, Kind, Slot, First, Last, Retype, Hex, ReadLine
<1>4. input' = Left(i + 1)'
  BY <1>1, <1>3 DEF Left
<1>5. PICK j \in 1..32 : j = i + 1
  OBVIOUS
<1>6. l = PartCmds(sizes)[j]
  BY <1>1, <1>5
<1>7. /\ l.kind = "p" => j \in {2, 7, 12}
      /\ l.kind = "e" => j = 17
      /\ j \in 4..12 => l.kind # "blank" /\ (l.kind = "num" => l.val >= 3)
      /\ (j = 3 => l = Num(2)) /\ (j = 8 => l = Num(4)) /\ (j = 13 => l = Num(1)) /\ (j = 15 => l = AUTO)
      /\ j = 14 => l.kind = "num" /\ l.val > cyls
      /\ j \in {16, 17, 31, 32} => l.kind # "num" /\ l.kind # "blank"
      /\ j >= 18 /\ l.kind = "num" /\ l.val \in 1..4 => l.val = 1 /\ j = 30
  BY <1>6, Answers
<1>. QED  BY <1>2, <1>3, <1>4, <1>5, <1>7

(* As long as no partition is defined, time only makes it easier.          *)
LEMMA LostPartsStay ==
    ASSUME NEW i \in 0..31, LostParts(i), UNCHANGED <<ext, parts>>
    PROVE  LostParts(i + 1)'
  BY DEF LostParts

LEMMA LostBegins ==
    ASSUME PartsInv, NEW i \in 0..31, LostParts(i), NEW n \in {1, 2, 4}, NEW x \in BOOLEAN, BeginAdd(n, x),
           i >= 2, x => i >= 29, n = 1 => i >= 12, n = 2 => i = 2, n = 4 => i = 7,
           n = 1 => i = 12 \/ i >= 29
    PROVE  LostParts(i + 1)' /\ LostPrompt(i + 1)'
<1>1. UNCHANGED <<ext, parts>>
  BY DEF BeginAdd
<1>2. LostParts(i + 1)'
  BY <1>1, LostPartsStay
<1>3. CASE prompt' = "command"
  BY <1>2, <1>3 DEF LostPrompt
<1>4. CASE prompt' # "command"
  <2>1. prompt' = "first" /\ cur' = n /\ makeExt' = x /\ start' = MinOf(FreeFrom(n, Lowest(n)))
    BY <1>4 DEF BeginAdd, BackToCommand, Ask
  <2>2. CASE n = 2
    <3>1. DOMAIN parts = {}
      BY <2>2 DEF LostParts
    <3>. QED  BY <1>1, <1>2, <2>1, <2>2, <3>1 DEF LostPrompt, Adding
  <2>3. CASE n = 4
    <3>1. 1 \notin DOMAIN parts
      BY <2>3 DEF LostParts
    <3>. QED  BY <1>1, <1>2, <2>1, <2>3, <3>1 DEF LostPrompt, Adding
  <2>4. CASE n = 1
    <3>1. CASE i >= 29
      BY <1>2, <2>1, <2>4, <3>1 DEF LostPrompt, Adding, FromOne
    <3>2. CASE i = 12
      <4>1. \A m \in DOMAIN parts : parts[m].first >= 3 /\ parts[m].first \in Nat
        BY <3>2 DEF LostParts, PartsInv
      <4>2. ~Taken(1, 1) /\ Lowest(1) = 1 /\ Limit(1) = cyls /\ cyls \in Nat \ {0}
        BY <4>1 DEF Taken, Peers, Lowest, Limit, IsLogical, PartsInv
      <4>3. PICK S : S = FreeFrom(1, 1)
        OBVIOUS
      <4>4. S \subseteq Nat /\ 1 \in S /\ \A k \in S : 1 <= k
        BY <4>2, <4>3 DEF FreeFrom
      <4>5. MinOf(S) = 1
        <5>1. S # {}
          BY <4>4
        <5>2. MinOf(S) \in S /\ \A y \in S : MinOf(S) <= y
          BY <4>4, <5>1, MinIs
        <5>3. PICK k : k = MinOf(S)
          OBVIOUS
        <5>4. k \in Nat /\ 1 <= k /\ k <= 1
          BY <4>4, <5>2, <5>3
        <5>. QED  BY <5>3, <5>4
      <4>6. start' = 1
        BY <2>1, <2>4, <4>2, <4>3, <4>5
      <4>. QED  BY <1>1, <1>2, <2>1, <2>4, <3>2, <4>1, <4>6 DEF LostPrompt, Adding, FromOne
    <3>. QED  BY <2>4, <3>1, <3>2
  <2>. QED  BY <2>2, <2>3, <2>4
<1>. QED  BY <1>3, <1>4

LEMMA LostCommand ==
    ASSUME Given, TooLarge, IInv, NEW i \in 0..31, Lost(i), Next, Command
    PROVE  LostParts(i + 1)' /\ LostPrompt(i + 1)'
<1>1. FreePrimaries # {}
  <2>1. 3 \notin DOMAIN parts
    BY DEF Lost, LostParts
  <2>. QED  BY <2>1 DEF FreePrimaries, Primaries
<1>2. UNCHANGED <<ext, parts>> /\ prompt' \in {"kind", "hex", "retype", "exit", "command"}
  BY <1>1 DEF Command, Ask, KeepAsking
<1>3. LostParts(i + 1)'
  BY <1>2, LostPartsStay DEF Lost
<1>. QED  BY <1>2, <1>3 DEF LostPrompt

LEMMA LostKind ==
    ASSUME Given, TooLarge, IInv, NEW i \in 0..31, Lost(i), Next, Kind
    PROVE  LostParts(i + 1)' /\ LostPrompt(i + 1)'
<1>1. LostParts(i)
  BY DEF Lost
<1>2. CASE KeepAsking
  <2>1. UNCHANGED <<ext, parts, prompt>> /\ prompt = "kind"
    BY <1>2 DEF KeepAsking, Kind
  <2>2. LostParts(i + 1)'
    BY <1>1, <2>1, LostPartsStay
  <2>. QED  BY <2>1, <2>2 DEF LostPrompt
<1>3. CASE ~KeepAsking
  <2>1. (IsKey("p") \/ IsKey("e")) /\ ChooseSlot(IsKey("e"))
    BY <1>3 DEF Kind
  <2>2. (IsKey("p") => i \in {1, 6, 11}) /\ (IsKey("e") => i = 16)
    BY LostReads DEF IsKey
  <2>3. i <= 16
    BY <2>1, <2>2
  <2>4. ~\E n \in FreePrimaries : FreePrimaries = {n}
    <3>1. 3 \in FreePrimaries /\ (1 \in FreePrimaries \/ 4 \in FreePrimaries)
      BY <1>1, <2>3 DEF LostParts, FreePrimaries, Primaries
    <3>. QED  BY <3>1
  <2>5. prompt' = "slot" /\ makeExt' = IsKey("e") /\ UNCHANGED <<ext, parts>>
    BY <2>1, <2>4 DEF ChooseSlot, Ask
  <2>6. LostParts(i + 1)'
    BY <1>1, <2>5, LostPartsStay
  <2>7. i + 1 >= 17 \/ (i + 1 \in {2, 7, 12} /\ ~makeExt')
    <3>1. CASE IsKey("e")
      BY <2>2, <3>1
    <3>2. CASE ~IsKey("e")
      <4>1. i \in {1, 6, 11}
        BY <2>1, <2>2, <3>2
      <4>. QED  BY <2>5, <3>2, <4>1
    <3>. QED  BY <3>1, <3>2
  <2>. QED  BY <2>5, <2>6, <2>7 DEF LostPrompt
<1>. QED  BY <1>2, <1>3

LEMMA LostSlot ==
    ASSUME Given, TooLarge, IInv, NEW i \in 0..31, Lost(i), Next, Slot
    PROVE  LostParts(i + 1)' /\ LostPrompt(i + 1)'
<1>1. LostParts(i) /\ prompt = "slot" /\ (i >= 17 \/ (i \in {2, 7, 12} /\ ~makeExt))
  BY DEF Lost, LostPrompt, Slot
<1>2. CASE KeepAsking
  <2>1. UNCHANGED <<ext, parts, prompt, makeExt>>
    BY <1>2 DEF KeepAsking
  <2>2. LostParts(i + 1)'
    BY <1>1, <2>1, LostPartsStay
  <2>3. i >= 17 \/ ~Refused(1, 0, 4)
    <3>1. SUFFICES ASSUME i \in {2, 7, 12} PROVE ~Refused(1, 0, 4)
      BY <1>1
    <3>2. PICK l : l = Line
      OBVIOUS
    <3>3. (i = 2 => l = Num(2)) /\ (i = 7 => l = Num(4)) /\ (i = 12 => l = Num(1))
      BY <3>2, LostReads
    <3>4. PICK n \in 1..4 : l = Num(n)
      BY <3>1, <3>3
    <3>5. ReadsInt(n, 1, 0, 4)
      BY <3>2, <3>4 DEF ReadsInt, IsBlank, InRange, Num
    <3>. QED  BY <3>5 DEF Refused
  <2>4. CASE i >= 17
    BY <1>1, <2>1, <2>2, <2>4 DEF LostPrompt
  <2>5. CASE ~Refused(1, 0, 4)
    <3>1. PICK n \in Primaries : BeginAdd(n, makeExt)
      BY <2>5 DEF Slot
    <3>2. prompt' # "slot"
      BY <3>1 DEF BeginAdd, BackToCommand, Ask
    <3>. QED  BY <1>1, <2>1, <3>2
  <2>. QED  BY <2>3, <2>4, <2>5
<1>3. CASE ~KeepAsking
  <2>1. PICK n \in 1..4 : ReadsInt(n, 1, 0, 4) /\ BeginAdd(n, makeExt)
    BY <1>3 DEF Slot, Primaries
  <2>2. PICK l : l = Line
    OBVIOUS
  <2>3. l.kind = "num" /\ l.val = n
    BY <2>1, <2>2 DEF ReadsInt, IsBlank, InRange
  <2>4. /\ (i = 2 => l = Num(2)) /\ (i = 7 => l = Num(4)) /\ (i = 12 => l = Num(1))
        /\ i >= 17 /\ l.kind = "num" /\ l.val \in 1..4 => l.val = 1 /\ i = 29
    BY <2>2, LostReads
  <2>5. (i = 2 => n = 2) /\ (i = 7 => n = 4) /\ (i = 12 => n = 1) /\ (i >= 17 => n = 1 /\ i = 29)
    BY <2>3, <2>4 DEF Num
  <2>6. makeExt \in BOOLEAN /\ PartsInv
    BY DEF IInv, AddInv
  <2>7. /\ n \in {1, 2, 4} /\ i >= 2 /\ (n = 1 => i >= 12) /\ (n = 2 => i = 2) /\ (n = 4 => i = 7)
        /\ n = 1 => i = 12 \/ i >= 29
    BY <1>1, <2>5
  <2>8. makeExt => i >= 29
    BY <1>1, <2>5
  <2>. QED  BY <1>1, <2>1, <2>6, <2>7, <2>8, LostBegins
<1>. QED  BY <1>2, <1>3

(* A partition is defined.                                                 *)
LEMMA LostFinishes ==
    ASSUME PartsInv, NEW i \in 0..31, LostParts(i), prompt \in {"first", "last"}, Adding(i),
           NEW lo \in Nat, NEW hi, FinishAdd(lo, hi), i <= 11 => lo >= 3, i < 30,
           cur = 1 /\ 4 \in DOMAIN parts => i >= 16
    PROVE  LostParts(i + 1)' /\ LostPrompt(i + 1)'
<1>1. cur \in {1, 2, 4} /\ ~makeExt /\ i >= 3 /\ ext = 0
  BY DEF Adding, LostParts
<1>2. prompt' = "command" /\ ext' = 0 /\ parts' = Define(cur, lo, hi)
  BY <1>1 DEF FinishAdd, BackToCommand, Ask
<1>3. /\ DOMAIN parts' = DOMAIN parts \cup {cur}
      /\ parts'[cur].first = lo /\ \A m \in DOMAIN parts \ {cur} : parts'[m] = parts[m]
  BY <1>2 DEF Define
<1>4. DOMAIN parts' \subseteq {1, 2, 4}
  BY <1>1, <1>3 DEF LostParts
<1>5. 1 \in DOMAIN parts' => i + 1 >= 13 /\ (4 \in DOMAIN parts' => i + 1 >= 17)
  <2>1. CASE cur = 2
    <3>1. DOMAIN parts = {}
      BY <2>1 DEF Adding
    <3>. QED  BY <1>3, <2>1, <3>1
  <2>2. CASE cur = 4
    <3>1. 1 \notin DOMAIN parts
      BY <2>2 DEF Adding
    <3>. QED  BY <1>3, <2>2, <3>1
  <2>3. CASE cur = 1
    <3>1. i >= 13
      BY <2>3 DEF Adding
    <3>2. 4 \in DOMAIN parts' => 4 \in DOMAIN parts
      BY <1>3, <2>3
    <3>. QED  BY <2>3, <3>1, <3>2
  <2>. QED  BY <1>1, <2>1, <2>2, <2>3
<1>6. i + 1 <= 12 => \A m \in DOMAIN parts' : parts'[m].first >= 3
  <2>1. i + 1 <= 12 => \A m \in DOMAIN parts : parts[m].first >= 3
    BY DEF LostParts
  <2>2. i + 1 <= 12 => lo >= 3
    OBVIOUS
  <2>. QED  BY <1>3, <2>1, <2>2
<1>7. LostParts(i + 1)'
  BY <1>1, <1>2, <1>4, <1>5, <1>6 DEF LostParts
<1>. QED  BY <1>2, <1>7 DEF LostPrompt

LEMMA LostFirst ==
    ASSUME Given, TooLarge, IInv, NEW i \in 0..31, Lost(i), Next, First
    PROVE  LostParts(i + 1)' /\ LostPrompt(i + 1)'
<1>1. LostParts(i) /\ prompt = "first" /\ Adding(i) /\ PartsInv /\ NoOverlap /\ cyls \in Nat \ {0}
  BY DEF Lost, LostPrompt, First, IInv, PartsInv
<1>2. cur \in {1, 2, 4} /\ i >= 3 /\ start \in Nat /\ 1 <= start
  <2>1. cur \in {1, 2, 4} /\ i >= 3
    BY <1>1 DEF Adding
  <2>2. start \in Nat /\ Lowest(cur) <= start /\ Lowest(cur) = 1
    BY <1>1, <2>1 DEF IInv, AddInv, Lowest, IsLogical
  <2>. QED  BY <2>1, <2>2
<1>3. Limit(cur) = cyls
  BY <1>2 DEF Limit, IsLogical
<1>4. PICK l : l = Line
  OBVIOUS
<1>5. /\ i \in 3..11 => l.kind # "blank" /\ (l.kind = "num" => l.val >= 3)
      /\ i = 14 => l = AUTO
      /\ i = 13 => l.kind = "num" /\ l.val > cyls
      /\ i \in {15, 16, 30, 31} => l.kind # "num" /\ l.kind # "blank"
  BY <1>4, LostReads
(* p1 beside p4: only line 15 is accepted, as cylinder 1, and leaves room. *)
<1>6. ASSUME cur = 1, 4 \in DOMAIN parts
      PROVE  \/ i \in 13..14 /\ start = 1 /\ (\A m \in DOMAIN parts : parts[m].first >= 3)
             \/ i >= 30
  BY <1>1, <1>6 DEF Adding, FromOne
<1>7. ASSUME NEW c \in start .. Limit(cur), ReadsInt(c, start, start, Limit(cur))
      PROVE  \/ LostParts(i + 1)' /\ LostPrompt(i + 1)'
             \/ Refused(start, start, Limit(cur))
  <2>1. c \in Nat /\ 1 <= c /\ c <= cyls
    BY <1>2, <1>3
  <2>2. IF l.kind = "blank" THEN c = start ELSE l.kind = "num" /\ l.val = c
    BY <1>4, <1>7, <2>1 DEF ReadsInt, IsBlank, InRange
  <2>3. i < 30 /\ i \notin {13, 15, 16}
    <3>1. l.kind = "num" \/ l.kind = "blank"
      BY <2>2
    <3>2. i \notin {15, 16, 30, 31}
      BY <1>5, <3>1
    <3>3. i # 13
      <4>1. SUFFICES ASSUME i = 13 PROVE FALSE
        OBVIOUS
      <4>2. l.kind = "num" /\ l.val > cyls
        BY <1>5, <4>1
      <4>3. l.val = c
        BY <2>2, <4>2
      <4>. QED  BY <1>1, <2>1, <4>2, <4>3
    <3>. QED  BY <3>2, <3>3
  <2>4. i <= 11 => c >= 3
    BY <1>2, <1>5, <2>2
  <2>5. ASSUME cur = 1, 4 \in DOMAIN parts
        PROVE  i = 14 /\ c = 1 /\ ~Taken(1, 1) /\ ReachOf(1, 1) \in Int /\ ReachOf(1, 1) > 1
    <3>1. i = 14 /\ start = 1 /\ \A m \in DOMAIN parts : parts[m].first >= 3
      BY <1>6, <2>3, <2>5
    <3>2. c = 1
      BY <1>5, <2>2, <3>1 DEF AUTO
    <3>3. ~Taken(1, 1)
      BY <1>1, <3>1 DEF Taken, PartsInv, Peers
    <3>4. PICK A : A = {parts[m].first : m \in {m \in Peers(1) : parts[m].first > 1}}
      OBVIOUS
    <3>5. A \subseteq Nat /\ A # {} /\ \A y \in A : y >= 3
      <4>1. 4 \in Peers(1) /\ parts[4].first > 1
        BY <1>1, <2>5, <3>1 DEF Peers, IsLogical, PartsInv
      <4>2. \A m \in Peers(1) : parts[m].first \in Nat /\ parts[m].first >= 3
        BY <1>1, <3>1 DEF Peers, PartsInv
      <4>. QED  BY <3>4, <4>1, <4>2
    <3>6. MinOf(A) \in A
      BY <3>5, MinIs
    <3>7. ReachOf(1, 1) = MinOf(A) - 1
      BY <3>4, <3>5 DEF ReachOf
    <3>8. PICK k : k = MinOf(A)
      OBVIOUS
    <3>9. k \in Nat /\ k >= 3
      BY <3>5, <3>6, <3>8
    <3>10. ReachOf(1, 1) = k - 1
      BY <3>7, <3>8
    <3>11. ReachOf(1, 1) \in Int /\ ReachOf(1, 1) > 1
      BY <3>9, <3>10
    <3>. QED  BY <3>1, <3>2, <3>3, <3>11
  <2>6. \A x \in start .. Limit(cur) : ReadsInt(x, start, start, Limit(cur)) => x = c
    BY <1>2, <1>3, <1>4, <2>1, <2>2 DEF ReadsInt, IsBlank, InRange
  <2>7. CASE FinishAdd(c, c) /\ ReachOf(cur, c) = c
    <3>1. ~(cur = 1 /\ 4 \in DOMAIN parts)
      BY <2>5, <2>7
    <3>. QED  BY <1>1, <2>1, <2>3, <2>4, <2>7, <3>1, LostFinishes
  <2>8. CASE Ask("last") /\ start' = c /\ UNCHANGED <<cur, makeExt, ext, parts>>
    <3>1. LostParts(i + 1)'
      BY <1>1, <2>8, LostPartsStay
    <3>2. prompt' = "last" /\ start' = c /\ cur' = cur /\ makeExt' = makeExt /\ parts' = parts
      BY <2>8 DEF Ask
    <3>3. cur = 1 /\ 4 \in DOMAIN parts => i + 1 >= 15
      BY <2>5
    <3>4. Adding(i + 1)'
      BY <1>1, <2>4, <3>2, <3>3 DEF Adding, FromOne
    <3>. QED  BY <3>1, <3>2, <3>4 DEF LostPrompt
  <2>9. CASE Taken(cur, c) /\ UNCHANGED <<prompt, cur, makeExt, ext, parts>>
    <3>1. LostParts(i + 1)'
      BY <1>1, <2>9, LostPartsStay
    <3>2. ~(cur = 1 /\ 4 \in DOMAIN parts)
      BY <2>5, <2>9
    <3>3. Adding(i + 1)'
      BY <1>1, <2>9, <3>2 DEF Adding
    <3>. QED  BY <1>1, <2>9, <3>1, <3>3 DEF LostPrompt
  <2>10. CASE BackToCommand /\ UNCHANGED <<ext, parts>>
    <3>1. LostParts(i + 1)'
      BY <1>1, <2>10, LostPartsStay
    <3>. QED  BY <2>10, <3>1 DEF LostPrompt, BackToCommand, Ask
  <2>. QED  BY <2>6, <2>7, <2>8, <2>9, <2>10 DEF First
<1>8. ASSUME Refused(start, start, Limit(cur)) PROVE LostParts(i + 1)' /\ LostPrompt(i + 1)'
  <2>1. KeepAsking
    BY <1>8 DEF First, Refused
  <2>2. UNCHANGED <<prompt, cur, makeExt, ext, start, parts>>
    BY <2>1 DEF KeepAsking
  <2>3. LostParts(i + 1)'
    BY <1>1, <2>2, LostPartsStay
  <2>4. cur = 1 /\ 4 \in DOMAIN parts => i # 14
    <3>1. SUFFICES ASSUME cur = 1, 4 \in DOMAIN parts, i = 14 PROVE FALSE
      OBVIOUS
    <3>2. start = 1
      BY <1>6, <3>1
    <3>3. 1 \in start .. Limit(cur)
      BY <1>1, <1>3, <3>2
    <3>4. ReadsInt(1, start, start, Limit(cur))
      BY <1>4, <1>5, <3>1, <3>2, <3>3 DEF ReadsInt, IsBlank, AUTO
    <3>. QED  BY <1>8, <3>3, <3>4 DEF Refused
  <2>5. cur = 1 /\ 4 \in DOMAIN parts => FromOne(i + 1)'
    <3>1. SUFFICES ASSUME cur = 1, 4 \in DOMAIN parts PROVE FromOne(i + 1)'
      OBVIOUS
    <3>2. \/ i = 13 /\ start = 1 /\ \A m \in DOMAIN parts : parts[m].first >= 3
          \/ i >= 30
      BY <1>6, <2>4, <3>1
    <3>. QED  BY <1>1, <2>2, <3>2 DEF FromOne
  <2>6. Adding(i + 1)'
    BY <1>1, <2>2, <2>5 DEF Adding
  <2>. QED  BY <1>1, <2>2, <2>3, <2>6 DEF LostPrompt
<1>. QED  BY <1>7, <1>8 DEF First

LEMMA LostLast ==
    ASSUME Given, TooLarge, IInv, NEW i \in 0..31, Lost(i), Next, Last
    PROVE  LostParts(i + 1)' /\ LostPrompt(i + 1)'
<1>1. LostParts(i) /\ prompt = "last" /\ Adding(i) /\ PartsInv
  BY DEF Lost, LostPrompt, Last, IInv
<1>2. start \in Nat
  BY <1>1 DEF IInv, AddInv
<1>3. PICK l, h : l = Line /\ h = ReachOf(cur, start)
  OBVIOUS
<1>4. CASE \E c \in start..h : ReadsInt(c, start, h, h) /\ FinishAdd(start, c)
  <2>1. PICK c \in start..h : ReadsInt(c, start, h, h) /\ FinishAdd(start, c)
    BY <1>4
  <2>2. l.kind = "num" \/ l.kind = "blank"
    BY <1>3, <2>1 DEF ReadsInt, IsBlank, InRange
  <2>3. i \notin {15, 16, 30, 31}
    BY <1>3, <2>2, LostReads
  <2>4. cur = 1 /\ 4 \in DOMAIN parts => i >= 15
    BY <1>1 DEF Adding, FromOne
  <2>5. (cur = 1 /\ 4 \in DOMAIN parts => i >= 16) /\ i < 30 /\ (i <= 11 => start >= 3)
    BY <1>1, <2>3, <2>4 DEF Adding
  <2>. QED  BY <1>1, <1>2, <2>1, <2>5, LostFinishes
<1>5. CASE KeepAsking
  <2>1. UNCHANGED <<prompt, cur, makeExt, ext, start, parts>>
    BY <1>5 DEF KeepAsking
  <2>2. LostParts(i + 1)'
    BY <1>1, <2>1, LostPartsStay
  <2>3. Adding(i + 1)'
    BY <1>1, <2>1 DEF Adding, FromOne
  <2>. QED  BY <1>1, <2>1, <2>2, <2>3 DEF LostPrompt
<1>. QED  BY <1>3, <1>4, <1>5 DEF Last

(* The script has 32 lines.                                                *)
LEMMA LeftNothing == Left(32) = << >>
<1>1. 1 .. 32 - 32 = {}
  OBVIOUS
<1>. QED  BY <1>1 DEF Left

LEMMA LostNext ==
    ASSUME Given, IInv, LostInv, [Next]_vars
    PROVE  LostInv'
<1>1. sizes' = sizes /\ cyls' = cyls
  BY DEF Next, Command, Kind, Slot, First, Last, Retype, Hex, EndOfInput, vars
<1>2. TooLarge' <=> TooLarge
  BY <1>1 DEF TooLarge
<1>3. ASSUME TooLarge PROVE \E i \in 0..32 : Lost(i)'
  <2>1. PICK i \in 0..32 : Lost(i)
    BY <1>3 DEF LostInv
  <2>2. CASE UNCHANGED vars
    BY <2>1, <2>2 DEF Lost, Left, LostParts, LostPrompt, Adding, FromOne, vars
  <2>3. CASE Next /\ i = 32
    <3>1. input = << >>
      BY <2>1, <2>3, LeftNothing DEF Lost
    <3>2. EndOfInput
      BY <2>3, <3>1 DEF Next, Command, Kind, Slot, First, Last, Retype, Hex, ReadLine
    <3>3. UNCHANGED <<sizes, input, ext, parts>> /\ prompt' = "exit"
      BY <3>2 DEF EndOfInput, Ask
    <3>4. input' = Left(32)' /\ LostParts(32)'
      BY <2>1, <2>3, <3>3 DEF Lost, Left, LostParts
    <3>5. LostPrompt(32)'
      BY <3>3 DEF LostPrompt
    <3>. QED  BY <3>4, <3>5 DEF Lost
  <2>4. CASE Next /\ i # 32
    <3>1. i \in 0..31 /\ Next
      BY <2>4
    <3>2. input' = Left(i + 1)' /\ ~EndOfInput
      BY <1>3, <2>1, <3>1, LostReads
    <3>3. CASE Retype \/ Hex
      <4>1. UNCHANGED <<ext, parts>> /\ prompt' \in {"command", "hex", "retype"}
        BY <3>3 DEF Retype, Hex, Ask
      <4>2. LostParts(i + 1)'
        BY <2>1, <3>1, <4>1, LostPartsStay DEF Lost
      <4>. QED  BY <3>1, <3>2, <4>1, <4>2 DEF Lost, LostPrompt
    <3>4. CASE Command \/ Kind \/ Slot \/ First \/ Last
      <4>1. LostParts(i + 1)' /\ LostPrompt(i + 1)'
        BY <1>3, <2>1, <3>1, <3>4, LostCommand, LostKind, LostSlot, LostFirst, LostLast
      <4>. QED  BY <3>1, <3>2, <4>1 DEF Lost
    <3>. QED  BY <3>1, <3>2, <3>3, <3>4 DEF Next
  <2>. QED  BY <2>2, <2>3, <2>4
<1>. QED  BY <1>2, <1>3 DEF LostInv

LEMMA InitLost == Init => LostInv
<1>. SUFFICES ASSUME Init PROVE Lost(0)
  BY DEF LostInv
<1>1. input = Left(0)
  BY DEF Init, Left, PartCmds
<1>. QED  BY <1>1 DEF Init, Lost, LostParts, LostPrompt

(* Whatever the sizes and the device, a plan that asks for more than the   *)
(* device has makes fdisk write no extended and no logical partition, so   *)
(* that the mkfs of p5 cannot find its device (flash.sh 199-216).          *)
THEOREM OvercommitHolds == Spec => []OvercommitOutcome
<1>1. Init => IInv /\ Given /\ LostInv
  BY InitHolds, InitScript, InitLost
<1>2. ASSUME IInv, Given, LostInv, [Next]_vars PROVE (IInv /\ Given /\ LostInv)'
  <2>1. sizes' = sizes /\ cyls' = cyls
    BY <1>2 DEF Next, Command, Kind, Slot, First, Last, Retype, Hex, EndOfInput, vars
  <2>2. Given'
    BY <1>2, <2>1 DEF Given
  <2>. QED  BY <1>2, <2>2, NextKeeps, LostNext
<1>3. LostInv => OvercommitOutcome
  BY DEF LostInv, OvercommitOutcome, Lost, LostParts
<1>. QED  BY <1>1, <1>2, <1>3, PTL DEF Spec
=============================================================================
