-------------------------- MODULE BootRecords_proofs --------------------------
(***************************************************************************)
(* Theorems about module BootRecords, for every geometry and every set of  *)
(* layouts that the assumption allows and any number of runs.              *)
(***************************************************************************)
EXTENDS BootRecords, TLAPS

-----------------------------------------------------------------------------
(* The plan in sectors: where the extended partition, the cache (p6) and   *)
(* the data partition (p5) begin, and the sector after all of them.        *)
ExtStart(z)   == SystemEnd(z) * Unit
CacheStart(z) == WowconfigEnd(z) * Unit
DataStart(z)  == CacheEnd(z) * Unit
ExtStop(z)    == DataEnd(z) * Unit

LEMMA Times ==
    ASSUME NEW a \in Int, NEW b \in Int, NEW h \in Nat
    PROVE  /\ a * h \in Int /\ (0 <= a => a * h \in Nat)
           /\ a < b => a * h + h <= b * h
           /\ a <= b => a * h <= b * h
<1>1. a * h \in Int /\ (0 <= a => a * h \in Nat)
  OBVIOUS
<1>2. a < b => a * h + h <= b * h
  OBVIOUS
<1>3. a <= b => a * h <= b * h
  OBVIOUS
<1>. QED  BY <1>1, <1>2, <1>3

LEMMA UnitIs == Unit \in Nat /\ Track \in Nat /\ Track > 1 /\ 3 * Track <= Unit
<1>1. Heads \in Nat /\ 3 <= Heads /\ Track \in Nat /\ Track > 1
  BY GeometryAssumption
<1>2. 3 * Track <= Heads * Track /\ Heads * Track \in Nat
  BY <1>1, Times
<1>. QED  BY <1>1, <1>2 DEF Unit

(* The places of a layout in order, at least a cylinder apart.             *)
LEMMA LayoutIs ==
    ASSUME NEW z \in Layouts
    PROVE  /\ ExtStart(z) \in Nat /\ CacheStart(z) \in Nat /\ DataStart(z) \in Nat /\ ExtStop(z) \in Nat
           /\ ExtStart(z) + Unit <= CacheStart(z) /\ CacheStart(z) + Unit <= DataStart(z)
           /\ DataStart(z) + Unit <= ExtStop(z)
           /\ Area(Plan(z).p3) = [first |-> ExtStart(z), last |-> ExtStop(z) - 1]
           /\ Area(Plan(z).p5) = [first |-> DataStart(z), last |-> ExtStop(z) - 1]
           /\ Area(Plan(z).p6) = [first |-> CacheStart(z), last |-> DataStart(z) - 1]
           /\ Plan(z).p5.first # 0 /\ Plan(z).p5.last # 0 /\ Plan(z).p6.first # 0 /\ Plan(z).p6.last # 0
<1>1. PICK s, w, c, e \in Nat : /\ s = SystemEnd(z) /\ w = WowconfigEnd(z) /\ c = CacheEnd(z) /\ e = DataEnd(z)
                                /\ s < w /\ w < c /\ c < e
  <2>1. z \in [Spaces -> Nat] /\ z["boot"] > 2 /\ Fits(z, Cyls)
    BY GeometryAssumption
  <2>2. PICK b, y, d, h, w \in Nat : /\ b = z["boot"] /\ y = z["system"] /\ d = z["data"] /\ h = z["cache"]
                                     /\ w = z["wowconfig"] /\ b > 2 /\ d >= 1 /\ h >= 1 /\ w >= 1
    BY <2>1 DEF Fits, Spaces
  <2>3. /\ SystemEnd(z) = (b - 1) + y /\ WowconfigEnd(z) = ((b - 1) + y) + w
        /\ CacheEnd(z) = (((b - 1) + y) + w) + h /\ DataEnd(z) = ((((b - 1) + y) + w) + h) + d
    BY <2>2 DEF BootEnd, SystemEnd, WowconfigEnd, CacheEnd, DataEnd
  <2>4. /\ SystemEnd(z) \in Nat /\ WowconfigEnd(z) \in Nat /\ CacheEnd(z) \in Nat /\ DataEnd(z) \in Nat
        /\ SystemEnd(z) < WowconfigEnd(z) /\ WowconfigEnd(z) < CacheEnd(z) /\ CacheEnd(z) < DataEnd(z)
    BY <2>2, <2>3
  <2>. QED  BY <2>4
<1>2. PICK u \in Nat : u = Unit
  BY UnitIs
<1>3. /\ s * u \in Nat /\ w * u \in Nat /\ c * u \in Nat /\ e * u \in Nat
      /\ s * u + u <= w * u /\ w * u + u <= c * u /\ c * u + u <= e * u
  BY <1>1, Times
<1>4. /\ ExtStart(z) = s * u /\ CacheStart(z) = w * u /\ DataStart(z) = c * u /\ ExtStop(z) = e * u
  BY <1>1, <1>2 DEF ExtStart, CacheStart, DataStart, ExtStop
<1>5. ExtEnd(z) = e
  <2>1. z \in [Spaces -> Nat] /\ Fits(z, Cyls)
    BY GeometryAssumption
  <2>2. PICK b, y, d, h, v \in Nat : /\ b = z["boot"] /\ y = z["system"] /\ d = z["data"] /\ h = z["cache"]
                                     /\ v = z["wowconfig"]
    BY <2>1 DEF Spaces
  <2>. QED  BY <1>1, <2>2 DEF BootEnd, SystemEnd, WowconfigEnd, CacheEnd, DataEnd, ExtEnd
<1>6. /\ Plan(z).p3 = [first |-> s + 1, last |-> e] /\ Plan(z).p5 = [first |-> c + 1, last |-> e]
      /\ Plan(z).p6 = [first |-> w + 1, last |-> c]
  BY <1>1, <1>5 DEF Plan, CylinderPlan
<1>7. ASSUME NEW a \in Nat, NEW b \in Nat
      PROVE  Area([first |-> a + 1, last |-> b]) = [first |-> a * u, last |-> b * u - 1]
  <2>1. (a + 1) - 1 = a
    OBVIOUS
  <2>. QED  BY <1>2, <2>1 DEF Area, FirstOf, LastOf
<1>8. Plan(z).p5.first # 0 /\ Plan(z).p5.last # 0 /\ Plan(z).p6.first # 0 /\ Plan(z).p6.last # 0
  BY <1>1, <1>6
<1>. QED  BY <1>2, <1>3, <1>4, <1>6, <1>7, <1>8

-----------------------------------------------------------------------------
(* The search loop has a result for every start.                           *)
LEMMA LoopExists ==
    ASSUME NEW b \in [Nat -> Nat], NEW F \in SUBSET Nat
    PROVE  \E g : g = [s \in Nat |-> IF s \in F THEN s ELSE g[b[s]]]
<1>. DEFINE Closed(X) == \A x \in X : x \notin F => b[x] \in X
            Orbit(s) == {t \in Nat : \A X \in SUBSET Nat : s \in X /\ Closed(X) => t \in X}
            g == [s \in Nat |-> CHOOSE v : v \in Orbit(s) \cap F]
<1>1. ASSUME NEW s \in F PROVE g[s] = s
  <2>1. Orbit(s) \cap F = {s}
    <3>1. {s} \in SUBSET Nat /\ Closed({s})
      OBVIOUS
    <3>. QED  BY <3>1
  <2>2. g[s] = CHOOSE v : v \in Orbit(s) \cap F
    OBVIOUS
  <2>. HIDE DEF Orbit, g
  <2>. QED  BY <2>1, <2>2
<1>2. ASSUME NEW s \in Nat \ F PROVE g[s] = g[b[s]]
  <2>1. b[s] \in Nat
    OBVIOUS
  <2>2. ASSUME NEW t \in Orbit(b[s]) PROVE t \in Orbit(s)
    BY <2>1, <2>2
  <2>3. ASSUME NEW t \in Orbit(s), t \in F PROVE t \in Orbit(b[s])
    <3>1. ASSUME NEW X \in SUBSET Nat, b[s] \in X, Closed(X) PROVE t \in X
      <4>1. X \cup {s} \in SUBSET Nat /\ Closed(X \cup {s})
        BY <3>1
      <4>2. t \in X \cup {s}
        BY <2>3, <4>1
      <4>. QED  BY <2>3, <4>2
    <3>. QED  BY <2>3, <3>1
  <2>4. Orbit(s) \cap F = Orbit(b[s]) \cap F
    BY <2>2, <2>3
  <2>5. g[s] = (CHOOSE v : v \in Orbit(s) \cap F) /\ g[b[s]] = (CHOOSE v : v \in Orbit(b[s]) \cap F)
    BY <2>1
  <2>. HIDE DEF Orbit, g
  <2>. QED  BY <2>4, <2>5
<1>3. DOMAIN g = Nat /\ g = [s \in Nat |-> g[s]]
  OBVIOUS
<1>. HIDE DEF Orbit, g
<1>4. g = [s \in Nat |-> IF s \in F THEN s ELSE g[b[s]]]
  BY <1>1, <1>2, <1>3
<1>. QED  BY <1>4

LEMMA SettleStops ==
    ASSUME \A s \in Nat : Bump(s) \in Nat, NEW s \in Nat, Bump(s) = s
    PROVE  Settle[s] = s
<1>. DEFINE b == [t \in Nat |-> Bump(t)]
            F == {t \in Nat : t > Extended.last \/ Bump(t) = t}
<1>1. PICK g : g = [t \in Nat |-> IF t \in F THEN t ELSE g[b[t]]]
  <2>1. b \in [Nat -> Nat] /\ F \in SUBSET Nat
    OBVIOUS
  <2>. HIDE DEF b, F
  <2>. QED  BY <2>1, LoopExists
<1>2. g = [t \in Nat |-> IF t > Extended.last \/ Bump(t) = t THEN t ELSE g[Bump(t)]]
  BY <1>1
<1>3. Settle = [t \in Nat |-> IF t > Extended.last \/ Bump(t) = t THEN t ELSE Settle[Bump(t)]]
  BY <1>2 DEF Settle
<1>. QED  BY <1>3

-----------------------------------------------------------------------------
(* What add_partition makes of the answers for layout z.                   *)
Placed(z) ==
    << [at |-> ExtStart(z), first |-> DataStart(z), last |-> ExtStop(z) - 1],
       [at |-> CacheStart(z) - Track, first |-> CacheStart(z), last |-> DataStart(z) - 1],
       [at |-> ExtStart(z) + 1, first |-> ExtStart(z) + Track, last |-> (CacheStart(z) - Track) - 1] >>

AddedInv ==
    /\ layout \in Layouts
    /\ ptes \in {<< >>, <<Placed(layout)[1]>>, <<Placed(layout)[1], Placed(layout)[2]>>, Placed(layout)}
    /\ pc = "add" => ptes # Placed(layout)
    /\ pc = "write" => ptes = Placed(layout)

LEMMA MinimumIs ==
    ASSUME NEW S, S \subseteq Int, NEW x \in S, \A y \in S : x <= y PROVE MinOf(S) = x
<1>1. MinOf(S) \in S /\ \A y \in S : MinOf(S) <= y
  BY DEF MinOf
<1>2. PICK w \in Int : w = MinOf(S) /\ w <= x /\ x <= w
  BY <1>1
<1>. QED  BY <1>2

(* The start offered: a track into the extended partition, unless a        *)
(* partition or a record is there.                                         *)
LEMMA OfferedIs ==
    ASSUME NEW z \in Layouts, layout = z, NEW n \in 5..7,
           \A p \in DOMAIN ptes : ptes[p].at \in Nat /\ ptes[p].first \in Nat /\ ptes[p].last \in Nat,
           \A p \in DOMAIN ptes : /\ ptes[p].at # ExtStart(z) + Track
                                  /\ ExtStart(z) + Track \notin ptes[p].first .. ptes[p].last + Track
    PROVE  Offered = ExtStart(z) + Track
<1>1. ExtStart(z) + Track \in Nat /\ Extended.first = ExtStart(z)
  <2>1. Extended = [first |-> ExtStart(z), last |-> ExtStop(z) - 1]
    BY LayoutIs DEF Extended
  <2>2. PICK a, t \in Nat : a = ExtStart(z) /\ t = Track
    BY LayoutIs, UnitIs
  <2>. QED  BY <2>1, <2>2
<1>2. \A s \in Nat : Bump(s) \in Nat
  <2>1. SUFFICES ASSUME NEW s \in Nat PROVE Bump(s) \in Nat
    OBVIOUS
  <2>2. CASE \E p \in DOMAIN ptes : ptes[p].at = s
    BY <2>2, UnitIs DEF Bump
  <2>3. CASE ~\E p \in DOMAIN ptes : ptes[p].at = s
    <3>. DEFINE I == {p \in DOMAIN ptes : s \in ptes[p].first .. ptes[p].last + Track}
    <3>1. Bump(s) = IF I # {} THEN 1 + ptes[CHOOSE p \in I : TRUE].last + Track ELSE s
      BY <2>3 DEF Bump
    <3>2. CASE I # {}
      <4>1. PICK q \in DOMAIN ptes : q = CHOOSE p \in I : TRUE
        BY <3>2
      <4>. QED  BY <3>1, <3>2, <4>1, UnitIs
    <3>. QED  BY <3>1, <3>2
  <2>. QED  BY <2>2, <2>3
<1>3. Bump(ExtStart(z) + Track) = ExtStart(z) + Track
  BY DEF Bump
<1>. QED  BY <1>1, <1>2, <1>3, SettleStops DEF Offered

(* The sectors of layout z as numbers.                                     *)
Spaced(S, W, C, E, t) == t > 1 /\ S + (t + t) < W /\ W + (t + t) < C /\ C + (t + t) < E
Numbers(z, S, W, C, E, t) ==
    /\ S = ExtStart(z) /\ W = CacheStart(z) /\ C = DataStart(z) /\ E = ExtStop(z) /\ t = Track
    /\ Spaced(S, W, C, E, t)
    /\ Area(Plan(z).p3) = [first |-> S, last |-> E - 1]
    /\ Area(Plan(z).p5) = [first |-> C, last |-> E - 1]
    /\ Area(Plan(z).p6) = [first |-> W, last |-> C - 1]
    /\ Placed(z) = << [at |-> S, first |-> C, last |-> E - 1], [at |-> W - t, first |-> W, last |-> C - 1],
                      [at |-> S + 1, first |-> S + t, last |-> (W - t) - 1] >>

LEMMA NumbersAre ==
    ASSUME NEW z \in Layouts
    PROVE  \E S, W, C, E, t \in Nat : Numbers(z, S, W, C, E, t)
<1>1. PICK S, W, C, E, t, u \in Nat :
        /\ S = ExtStart(z) /\ W = CacheStart(z) /\ C = DataStart(z) /\ E = ExtStop(z) /\ t = Track /\ u = Unit
        /\ t > 1 /\ 3 * t <= u /\ S + u <= W /\ W + u <= C /\ C + u <= E
  BY LayoutIs, UnitIs
<1>2. Spaced(S, W, C, E, t)
  BY <1>1 DEF Spaced
<1>3. Numbers(z, S, W, C, E, t)
  BY <1>1, <1>2, LayoutIs DEF Numbers, Placed
<1>. QED  BY <1>3

LEMMA RoomIs ==
    ASSUME NEW start \in Nat, NEW l \in Int, Extended.last = l, NEW x \in Int, x <= l,
           \A p \in DOMAIN ptes : ptes[p].at \in Nat /\ ptes[p].first \in Nat,
           \A p \in DOMAIN ptes : /\ ptes[p].first > start => x <= ptes[p].first - 1
                                  /\ ptes[p].at > start => x <= ptes[p].at - 1,
           \/ x = l
           \/ \E p \in DOMAIN ptes : ptes[p].first > start /\ x = ptes[p].first - 1
           \/ \E p \in DOMAIN ptes : ptes[p].at > start /\ x = ptes[p].at - 1
    PROVE  Room(start) = x
<1>. DEFINE A == {ptes[p].first - 1 : p \in {p \in DOMAIN ptes : ptes[p].first > start}}
            B == {ptes[p].at - 1 : p \in {p \in DOMAIN ptes : ptes[p].at > start}}
<1>1. Room(start) = MinOf({l} \cup A \cup B)
  BY Zenon DEF Room
<1>2. A \subseteq Int /\ \A y \in A : x <= y
  OBVIOUS
<1>3. B \subseteq Int /\ \A y \in B : x <= y
  OBVIOUS
<1>4. x \in {l} \cup A \cup B
  OBVIOUS
<1>. HIDE DEF A, B
<1>5. {l} \cup A \cup B \subseteq Int /\ \A y \in {l} \cup A \cup B : x <= y
  BY <1>2, <1>3
<1>. QED  BY <1>1, <1>4, <1>5, MinimumIs

LEMMA AddIs ==
    ASSUME AddLogical
    PROVE  \E n : /\ n = 5 + Len(ptes)
                  /\ ptes' = Append(ptes, [at |-> RecordOf(n, Taken(n)), first |-> Taken(n),
                                           last |-> MinOf({IF Answer(n).last = 0 THEN Extended.last
                                                           ELSE LastOf(Answer(n)), Room(Taken(n))})])
  BY Zenon DEF AddLogical

LEMMA Longer ==
    (\A a, x : Append(<<a>>, x) = <<a, x>>) /\ \A a, b, x : Append(<<a, b>>, x) = <<a, b, x>>
<1>1. ASSUME NEW a, NEW x PROVE Append(<<a>>, x) = <<a, x>>
  <2>. DEFINE T == Append(<<a>>, x)
  <2>1. <<a>> \in Seq({a, x}) /\ Len(<<a>>) = 1
    OBVIOUS
  <2>2. T \in Seq({a, x}) /\ Len(T) = 2 /\ T[1] = a /\ T[2] = x
    BY <2>1
  <2>. HIDE DEF T
  <2>3. T = <<a, x>>
    BY <2>2
  <2>. QED  BY <2>3 DEF T
<1>2. ASSUME NEW a, NEW b, NEW x PROVE Append(<<a, b>>, x) = <<a, b, x>>
  <2>. DEFINE T == Append(<<a, b>>, x)
  <2>1. <<a, b>> \in Seq({a, b, x}) /\ Len(<<a, b>>) = 2
    OBVIOUS
  <2>2. T \in Seq({a, b, x}) /\ Len(T) = 3 /\ T[1] = a /\ T[2] = b /\ T[3] = x
    BY <2>1
  <2>. HIDE DEF T
  <2>3. T = <<a, b, x>>
    BY <2>2
  <2>. QED  BY <2>3 DEF T
<1>. QED  BY <1>1, <1>2

(* The answers in step with fdisk, one partition after the other.          *)
LEMMA FirstAdded ==
    ASSUME AddedInv, ptes = << >>
    PROVE  InStep(Taken(5)) /\ (pc = "add" /\ AddLogical => ptes' = <<Placed(layout)[1]>> /\ pc' = "add")
<1>0. PICK z \in Layouts : z = layout
  BY DEF AddedInv
<1>1. PICK S, W, C, E, t \in Nat : Numbers(z, S, W, C, E, t)
  BY NumbersAre
<1>2. Extended = [first |-> S, last |-> E - 1] /\ Offered = S + t
  BY <1>0, <1>1, OfferedIs DEF Extended, Numbers
<1>a. Spaced(S, W, C, E, t)
  BY <1>1 DEF Numbers
<1>3. Taken(5) = C
  <2>1. Answer(5) = Plan(z).p5
    BY <1>0 DEF Answer
  <2>2. Answer(5).first # 0 /\ FirstOf(Answer(5)) = C
    BY <1>1, <2>1, LayoutIs DEF Numbers, Area
  <2>3. S + t <= C
    BY <1>a DEF Spaced
  <2>. QED  BY <1>2, <2>2, <2>3 DEF Taken, MaxOf
<1>4. Room(C) = E - 1
  BY <1>2, RoomIs
<1>5. InStep(Taken(5))
  <2>1. C <= E - 1
    BY <1>a DEF Spaced
  <2>2. Bump(C) = C
    BY DEF Bump
  <2>. QED  BY <1>2, <1>3, <1>4, <2>1, <2>2 DEF InStep
<1>6. ASSUME pc = "add", AddLogical PROVE ptes' = <<Placed(z)[1]>> /\ pc' = "add"
  <2>1. Len(ptes) = 0 /\ 5 + Len(ptes) = 5
    OBVIOUS
  <2>2. Answer(5) = Plan(z).p5
    BY <1>0 DEF Answer
  <2>3. Answer(5).last # 0 /\ LastOf(Answer(5)) = E - 1
    BY <1>1, <2>2, LayoutIs DEF Numbers, Area
  <2>4. RecordOf(5, C) = S
    BY <1>2 DEF RecordOf
  <2>5. MinOf({E - 1, E - 1}) = E - 1
    BY MinimumIs
  <2>6. ptes' = Append(ptes, [at |-> S, first |-> C, last |-> E - 1]) /\ pc' = "add"
    <3>1. PICK n : /\ n = 5
                   /\ ptes' = Append(ptes, [at |-> RecordOf(n, Taken(n)), first |-> Taken(n),
                                           last |-> MinOf({IF Answer(n).last = 0 THEN Extended.last
                                                           ELSE LastOf(Answer(n)), Room(Taken(n))})])
      BY <1>6, <2>1, AddIs
    <3>2. pc' = "add"
      BY <1>6, <2>1 DEF AddLogical
    <3>. QED  BY <1>3, <1>4, <2>3, <2>4, <2>5, <3>1, <3>2
  <2>. QED  BY <1>1, <2>6 DEF Numbers
<1>. QED  BY <1>0, <1>5, <1>6

LEMMA SecondAdded ==
    ASSUME AddedInv, ptes = <<Placed(layout)[1]>>
    PROVE  InStep(Taken(6)) /\ (pc = "add" /\ AddLogical => ptes' = <<Placed(layout)[1], Placed(layout)[2]>> /\ pc' = "add")
<1>0. PICK z \in Layouts : z = layout
  BY DEF AddedInv
<1>1. PICK S, W, C, E, t \in Nat : Numbers(z, S, W, C, E, t)
  BY NumbersAre
<1>a. Spaced(S, W, C, E, t)
  BY <1>1 DEF Numbers
<1>b. ptes = <<[at |-> S, first |-> C, last |-> E - 1]>>
  BY <1>0, <1>1 DEF Numbers
<1>c. /\ DOMAIN ptes = {1} /\ Len(ptes) = 1
      /\ ptes[1].at = S /\ ptes[1].first = C /\ ptes[1].last = E - 1
  BY <1>b
<1>d. \A p \in DOMAIN ptes : ptes[p].at \in Nat /\ ptes[p].first \in Nat /\ ptes[p].last \in Nat
  BY <1>a, <1>c DEF Spaced
<1>2. Extended = [first |-> S, last |-> E - 1] /\ Offered = S + t
  <2>1. Extended = [first |-> S, last |-> E - 1] /\ S = ExtStart(z) /\ t = Track
    BY <1>0, <1>1 DEF Extended, Numbers
  <2>2. \A p \in DOMAIN ptes : ptes[p].at # S + t /\ S + t \notin ptes[p].first .. ptes[p].last + t
    BY <1>a, <1>c DEF Spaced
  <2>. QED  BY <1>0, <1>d, <2>1, <2>2, OfferedIs
<1>3. Taken(6) = W
  <2>1. Answer(6) = Plan(z).p6
    BY <1>0 DEF Answer
  <2>2. Answer(6).first # 0 /\ FirstOf(Answer(6)) = W
    BY <1>1, <2>1, LayoutIs DEF Numbers, Area
  <2>3. S + t <= W
    BY <1>a DEF Spaced
  <2>. QED  BY <1>2, <2>2, <2>3 DEF Taken, MaxOf
<1>4. Room(W) = C - 1
  <2>1. W \in Nat /\ C - 1 \in Int /\ E - 1 \in Int /\ C - 1 <= E - 1
    BY <1>a DEF Spaced
  <2>2. \A p \in DOMAIN ptes : /\ ptes[p].first > W => C - 1 <= ptes[p].first - 1
                               /\ ptes[p].at > W => C - 1 <= ptes[p].at - 1
    BY <1>a, <1>c DEF Spaced
  <2>3. \/ \E p \in DOMAIN ptes : ptes[p].first > W /\ C - 1 = ptes[p].first - 1
        \/ \E p \in DOMAIN ptes : ptes[p].at > W /\ C - 1 = ptes[p].at - 1
    BY <1>a, <1>c DEF Spaced
  <2>. QED  BY <1>2, <1>d, <2>1, <2>2, <2>3, RoomIs
<1>5. InStep(Taken(6))
  <2>1. W <= E - 1 /\ W <= C - 1
    BY <1>a DEF Spaced
  <2>2. Bump(W) = W
    <3>1. Track = t
      BY <1>1 DEF Numbers
    <3>2. \A p \in DOMAIN ptes : ptes[p].at # W /\ W \notin ptes[p].first .. ptes[p].last + Track
      BY <1>a, <1>c, <3>1 DEF Spaced
    <3>. QED  BY <3>2 DEF Bump
  <2>. QED  BY <1>2, <1>3, <1>4, <2>1, <2>2 DEF InStep
<1>6. ASSUME pc = "add", AddLogical PROVE ptes' = <<Placed(z)[1], Placed(z)[2]>> /\ pc' = "add"
  <2>1. 5 + Len(ptes) = 6
    BY <1>c
  <2>2. Answer(6) = Plan(z).p6
    BY <1>0 DEF Answer
  <2>3. Answer(6).last # 0 /\ LastOf(Answer(6)) = C - 1
    BY <1>1, <2>2, LayoutIs DEF Numbers, Area
  <2>5. MinOf({C - 1, C - 1}) = C - 1
    BY MinimumIs
  <2>4. RecordOf(6, W) = W - t
    <3>1. W - t # S /\ Track = t
      <4>1. W - t # S
        BY <1>a DEF Spaced
      <4>. QED  BY <1>1, <4>1 DEF Numbers
    <3>. QED  BY <1>2, <3>1 DEF RecordOf
  <2>6. ptes' = Append(ptes, [at |-> W - t, first |-> W, last |-> C - 1]) /\ pc' = "add"
    <3>1. PICK n : /\ n = 6
                   /\ ptes' = Append(ptes, [at |-> RecordOf(n, Taken(n)), first |-> Taken(n),
                                           last |-> MinOf({IF Answer(n).last = 0 THEN Extended.last
                                                           ELSE LastOf(Answer(n)), Room(Taken(n))})])
      BY <1>6, <2>1, AddIs
    <3>2. pc' = "add"
      BY <1>6, <1>c DEF AddLogical
    <3>. QED  BY <1>2, <1>3, <1>4, <2>3, <2>4, <2>5, <3>1, <3>2
  <2>7. Append(ptes, [at |-> W - t, first |-> W, last |-> C - 1])
          = <<[at |-> S, first |-> C, last |-> E - 1], [at |-> W - t, first |-> W, last |-> C - 1]>>
    BY <1>b, Longer
  <2>. QED  BY <1>1, <2>6, <2>7 DEF Numbers
<1>. QED  BY <1>0, <1>5, <1>6

LEMMA ThirdAdded ==
    ASSUME AddedInv, ptes = <<Placed(layout)[1], Placed(layout)[2]>>
    PROVE  InStep(Taken(7)) /\ (pc = "add" /\ AddLogical => ptes' = Placed(layout) /\ pc' = "write")
<1>0. PICK z \in Layouts : z = layout
  BY DEF AddedInv
<1>1. PICK S, W, C, E, t \in Nat : Numbers(z, S, W, C, E, t)
  BY NumbersAre
<1>a. Spaced(S, W, C, E, t)
  BY <1>1 DEF Numbers
<1>b. ptes = <<[at |-> S, first |-> C, last |-> E - 1], [at |-> W - t, first |-> W, last |-> C - 1]>>
  BY <1>0, <1>1 DEF Numbers
<1>c. /\ DOMAIN ptes = {1, 2} /\ Len(ptes) = 2
      /\ ptes[1].at = S /\ ptes[1].first = C /\ ptes[1].last = E - 1
      /\ ptes[2].at = W - t /\ ptes[2].first = W /\ ptes[2].last = C - 1
  BY <1>b
<1>d. \A p \in DOMAIN ptes : ptes[p].at \in Nat /\ ptes[p].first \in Nat /\ ptes[p].last \in Nat
  BY <1>a, <1>c DEF Spaced
<1>2. Extended = [first |-> S, last |-> E - 1] /\ Offered = S + t
  <2>1. Extended = [first |-> S, last |-> E - 1] /\ S = ExtStart(z) /\ t = Track
    BY <1>0, <1>1 DEF Extended, Numbers
  <2>2. \A p \in DOMAIN ptes : ptes[p].at # S + t /\ S + t \notin ptes[p].first .. ptes[p].last + t
    BY <1>a, <1>c DEF Spaced
  <2>. QED  BY <1>0, <1>d, <2>1, <2>2, OfferedIs
<1>3. Taken(7) = S + t
  <2>1. Answer(7).first = 0
    BY DEF Answer
  <2>2. S + t > 0
    BY <1>a DEF Spaced
  <2>. QED  BY <1>2, <2>1, <2>2 DEF Taken, MaxOf
<1>4. Room(S + t) = (W - t) - 1
  <2>1. S + t \in Nat /\ (W - t) - 1 \in Int /\ E - 1 \in Int /\ (W - t) - 1 <= E - 1
    BY <1>a DEF Spaced
  <2>2. \A p \in DOMAIN ptes : /\ ptes[p].first > S + t => (W - t) - 1 <= ptes[p].first - 1
                               /\ ptes[p].at > S + t => (W - t) - 1 <= ptes[p].at - 1
    BY <1>a, <1>c DEF Spaced
  <2>3. \/ \E p \in DOMAIN ptes : ptes[p].first > S + t /\ (W - t) - 1 = ptes[p].first - 1
        \/ \E p \in DOMAIN ptes : ptes[p].at > S + t /\ (W - t) - 1 = ptes[p].at - 1
    BY <1>a, <1>c DEF Spaced
  <2>. QED  BY <1>2, <1>d, <2>1, <2>2, <2>3, RoomIs
<1>5. InStep(Taken(7))
  <2>1. S + t <= E - 1 /\ S + t <= (W - t) - 1
    BY <1>a DEF Spaced
  <2>2. Bump(S + t) = S + t
    <3>1. Track = t
      BY <1>1 DEF Numbers
    <3>2. \A p \in DOMAIN ptes : ptes[p].at # S + t /\ S + t \notin ptes[p].first .. ptes[p].last + Track
      BY <1>a, <1>c, <3>1 DEF Spaced
    <3>. QED  BY <3>2 DEF Bump
  <2>. QED  BY <1>2, <1>3, <1>4, <2>1, <2>2 DEF InStep
<1>6. ASSUME pc = "add", AddLogical PROVE ptes' = Placed(z) /\ pc' = "write"
  <2>1. 5 + Len(ptes) = 7
    BY <1>c
  <2>3. Answer(7).last = 0
    BY DEF Answer
  <2>5. MinOf({E - 1, (W - t) - 1}) = (W - t) - 1
    <3>1. (W - t) - 1 <= E - 1
      BY <1>a DEF Spaced
    <3>. QED  BY <3>1, MinimumIs
  <2>4. RecordOf(7, S + t) = S + 1
    <3>1. (S + t) - t = S /\ Track = t
      BY <1>1 DEF Numbers
    <3>. QED  BY <1>2, <3>1 DEF RecordOf
  <2>6. ptes' = Append(ptes, [at |-> S + 1, first |-> S + t, last |-> (W - t) - 1]) /\ pc' = "write"
    <3>1. PICK n : /\ n = 7
                   /\ ptes' = Append(ptes, [at |-> RecordOf(n, Taken(n)), first |-> Taken(n),
                                           last |-> MinOf({IF Answer(n).last = 0 THEN Extended.last
                                                           ELSE LastOf(Answer(n)), Room(Taken(n))})])
      BY <1>6, <2>1, AddIs
    <3>2. pc' = "write"
      BY <1>6, <1>c DEF AddLogical
    <3>. QED  BY <1>2, <1>3, <1>4, <2>3, <2>4, <2>5, <3>1, <3>2
  <2>7. Append(ptes, [at |-> S + 1, first |-> S + t, last |-> (W - t) - 1])
          = <<[at |-> S, first |-> C, last |-> E - 1], [at |-> W - t, first |-> W, last |-> C - 1],
              [at |-> S + 1, first |-> S + t, last |-> (W - t) - 1]>>
    BY <1>b, Longer
  <2>. QED  BY <1>1, <2>6, <2>7 DEF Numbers
<1>. QED  BY <1>0, <1>5, <1>6

-----------------------------------------------------------------------------
LEMMA PlacedIs ==
    ASSUME NEW z \in Layouts
    PROVE  \E S, W, C, E, t \in Nat :
             /\ Spaced(S, W, C, E, t) /\ Numbers(z, S, W, C, E, t)
             /\ DOMAIN Placed(z) = 1..3 /\ Len(Placed(z)) = 3
             /\ Placed(z)[1].at = S /\ Placed(z)[1].first = C /\ Placed(z)[1].last = E - 1
             /\ Placed(z)[2].at = W - t /\ Placed(z)[2].first = W /\ Placed(z)[2].last = C - 1
             /\ Placed(z)[3].at = S + 1 /\ Placed(z)[3].first = S + t /\ Placed(z)[3].last = (W - t) - 1
<1>1. PICK S, W, C, E, t \in Nat : Numbers(z, S, W, C, E, t)
  BY NumbersAre
<1>2. Spaced(S, W, C, E, t)
  BY <1>1 DEF Numbers
<1>3. Placed(z) = << [at |-> S, first |-> C, last |-> E - 1], [at |-> W - t, first |-> W, last |-> C - 1],
                     [at |-> S + 1, first |-> S + t, last |-> (W - t) - 1] >>
  BY <1>1 DEF Numbers
<1>4. /\ DOMAIN Placed(z) = 1..3 /\ Len(Placed(z)) = 3
      /\ Placed(z)[1].at = S /\ Placed(z)[1].first = C /\ Placed(z)[1].last = E - 1
      /\ Placed(z)[2].at = W - t /\ Placed(z)[2].first = W /\ Placed(z)[2].last = C - 1
      /\ Placed(z)[3].at = S + 1 /\ Placed(z)[3].first = S + t /\ Placed(z)[3].last = (W - t) - 1
  BY <1>3
<1>. QED  BY <1>1, <1>2, <1>4

LEMMA Lengths ==
    ASSUME NEW z \in Layouts
    PROVE  /\ Len(<< >>) = 0 /\ Len(<<Placed(z)[1]>>) = 1 /\ Len(<<Placed(z)[1], Placed(z)[2]>>) = 2
           /\ Len(Placed(z)) = 3
  BY PlacedIs

LEMMA AddedNext == ASSUME AddedInv, [Next]_vars PROVE AddedInv'
<1>1. CASE Start
  <2>1. layout' \in Layouts /\ ptes' = << >> /\ pc' = "add"
    BY <1>1 DEF Start
  <2>2. << >> # Placed(layout')
    BY <2>1, Lengths
  <2>. QED  BY <2>1, <2>2 DEF AddedInv
<1>2. CASE AddLogical
  <2>0. layout \in Layouts /\ layout' = layout /\ pc = "add"
    BY <1>2 DEF AddedInv, AddLogical
  <2>1. CASE ptes = << >>
    <3>1. ptes' = <<Placed(layout)[1]>> /\ pc' = "add"
      BY <1>2, <2>0, <2>1, FirstAdded
    <3>2. <<Placed(layout)[1]>> # Placed(layout)
      BY <2>0, Lengths
    <3>. QED  BY <2>0, <3>1, <3>2 DEF AddedInv
  <2>2. CASE ptes = <<Placed(layout)[1]>>
    <3>1. ptes' = <<Placed(layout)[1], Placed(layout)[2]>> /\ pc' = "add"
      BY <1>2, <2>0, <2>2, SecondAdded
    <3>2. <<Placed(layout)[1], Placed(layout)[2]>> # Placed(layout)
      BY <2>0, Lengths
    <3>. QED  BY <2>0, <3>1, <3>2 DEF AddedInv
  <2>3. CASE ptes = <<Placed(layout)[1], Placed(layout)[2]>>
    <3>1. ptes' = Placed(layout) /\ pc' = "write"
      BY <1>2, <2>0, <2>3, ThirdAdded
    <3>. QED  BY <2>0, <3>1 DEF AddedInv
  <2>. QED  BY <2>0, <2>1, <2>2, <2>3 DEF AddedInv
<1>3. CASE WriteSector \/ Reread \/ WriteFails \/ PowerLoss \/ Use \/ UNCHANGED vars
  <2>1. layout' = layout /\ ptes' = ptes /\ (pc' = pc \/ pc' = "idle")
    BY <1>3 DEF WriteSector, Reread, WriteFails, PowerLoss, Use, Ends, vars
  <2>. QED  BY <2>1 DEF AddedInv
<1>. QED  BY <1>1, <1>2, <1>3 DEF Next

LEMMA InitAdded == Init => AddedInv
  BY DEF Init, AddedInv

(* What fdisk keeps in memory has no overlap.                              *)
LEMMA AddedApart == AddedInv => RecordsApart
<1>. SUFFICES ASSUME AddedInv PROVE RecordsApart
  OBVIOUS
<1>0. PICK z \in Layouts : z = layout
  BY DEF AddedInv
<1>1. ASSUME pc = "add" PROVE InStep(Taken(5 + Len(ptes)))
  <2>1. CASE ptes = << >>
    <3>1. 5 + Len(ptes) = 5
      BY <2>1
    <3>. QED  BY <2>1, <3>1, FirstAdded
  <2>2. CASE ptes = <<Placed(layout)[1]>>
    <3>1. 5 + Len(ptes) = 6
      BY <2>2
    <3>. QED  BY <2>2, <3>1, SecondAdded
  <2>3. CASE ptes = <<Placed(layout)[1], Placed(layout)[2]>>
    <3>1. 5 + Len(ptes) = 7
      BY <2>3
    <3>. QED  BY <2>3, <3>1, ThirdAdded
  <2>. QED  BY <1>1, <2>1, <2>2, <2>3 DEF AddedInv
<1>2. DOMAIN ptes \subseteq 1..3 /\ \A k \in DOMAIN ptes : ptes[k] = Placed(z)[k]
  <2>1. CASE ptes = << >>
    BY <2>1
  <2>2. CASE ptes = <<Placed(z)[1]>>
    BY <2>2
  <2>3. CASE ptes = <<Placed(z)[1], Placed(z)[2]>>
    BY <2>3
  <2>4. CASE ptes = Placed(z)
    BY <2>4, PlacedIs
  <2>. QED  BY <1>0, <2>1, <2>2, <2>3, <2>4 DEF AddedInv
<1>3. PICK S, W, C, E, t \in Nat :
        /\ Spaced(S, W, C, E, t) /\ Numbers(z, S, W, C, E, t)
        /\ DOMAIN Placed(z) = 1..3 /\ Len(Placed(z)) = 3
        /\ Placed(z)[1].at = S /\ Placed(z)[1].first = C /\ Placed(z)[1].last = E - 1
        /\ Placed(z)[2].at = W - t /\ Placed(z)[2].first = W /\ Placed(z)[2].last = C - 1
        /\ Placed(z)[3].at = S + 1 /\ Placed(z)[3].first = S + t /\ Placed(z)[3].last = (W - t) - 1
  BY PlacedIs
<1>4. Extended.first = S /\ Extended.last = E - 1
  BY <1>0, <1>3 DEF Extended, Numbers
<1>5. ASSUME NEW j \in 1..3, NEW k \in 1..3
      PROVE  LET p == Placed(z)[j]
                 q == Placed(z)[k]
             IN  /\ p.at \in S .. E - 1
                 /\ p.at \notin q.first .. q.last
                 /\ j # k => p.at # q.at /\ (p.last < q.first \/ q.last < p.first)
  <2>1. j = 1 \/ j = 2 \/ j = 3
    OBVIOUS
  <2>2. k = 1 \/ k = 2 \/ k = 3
    OBVIOUS
  <2>3. Placed(z)[j].at \in S .. E - 1
    BY <1>3, <2>1 DEF Spaced
  <2>4. Placed(z)[j].at \notin Placed(z)[k].first .. Placed(z)[k].last
    BY <1>3, <2>1, <2>2 DEF Spaced
  <2>5. j # k => Placed(z)[j].at # Placed(z)[k].at
    BY <1>3, <2>1, <2>2 DEF Spaced
  <2>6. j # k => Placed(z)[j].last < Placed(z)[k].first \/ Placed(z)[k].last < Placed(z)[j].first
    BY <1>3, <2>1, <2>2 DEF Spaced
  <2>. QED  BY <2>3, <2>4, <2>5, <2>6
<1>. QED  BY <1>1, <1>2, <1>4, <1>5 DEF RecordsApart

(* For every geometry and every layout that fits, add_partition finds room *)
(* for the three logical partitions with their records, and none of them   *)
(* meets another: the record of p5 has the first sector of the extended    *)
(* partition, that of p7 the second one, and that of p6 the last track of  *)
(* wowconfig (fdisk.c 2307-2375).                                          *)
THEOREM RecordsApartHolds == Spec => []RecordsApart
  BY InitAdded, AddedNext, AddedApart, PTL DEF Spec

-----------------------------------------------------------------------------
(* A sector tells which record it can hold: that of p5 begins a cylinder,  *)
(* that of p7 is one further, that of p6 a track ahead of one.             *)
LEMMA Between ==
    ASSUME NEW a \in Nat, NEW b \in Nat, NEW u \in Nat, NEW x \in Nat, 0 < x, x < u
    PROVE  a * u + x # b * u
<1>1. a * u \in Int /\ b * u \in Int /\ (a < b => a * u + u <= b * u) /\ (b <= a => b * u <= a * u)
  BY Times
<1>. QED  BY <1>1

LEMMA Multiples ==
    ASSUME NEW z \in Layouts
    PROVE  \E s, w \in Nat : ExtStart(z) = s * Unit /\ CacheStart(z) = w * Unit
<1>1. z \in [Spaces -> Nat] /\ z["boot"] > 2
  BY GeometryAssumption
<1>2. PICK b, y, w \in Nat : b = z["boot"] /\ y = z["system"] /\ w = z["wowconfig"] /\ b > 2
  BY <1>1 DEF Spaces
<1>3. SystemEnd(z) \in Nat /\ WowconfigEnd(z) \in Nat
  BY <1>2 DEF BootEnd, SystemEnd, WowconfigEnd
<1>. QED  BY <1>3 DEF ExtStart, CacheStart

LEMMA SameKind ==
    ASSUME NEW z \in Layouts, NEW y \in Layouts, NEW j \in 1..3, NEW k \in 1..3,
           Placed(z)[j].at = Placed(y)[k].at
    PROVE  j = k
<1>1. ASSUME NEW v \in Layouts, NEW x \in Layouts
      PROVE  /\ ExtStart(v) # CacheStart(x) - Track /\ ExtStart(v) # ExtStart(x) + 1
             /\ CacheStart(v) - Track # ExtStart(x) + 1
  <2>1. PICK u, t \in Nat : u = Unit /\ t = Track /\ t > 1 /\ 3 * t <= u
    BY UnitIs
  <2>2. PICK a, b \in Nat : ExtStart(v) = a * u /\ CacheStart(v) = b * u
    BY <2>1, Multiples
  <2>3. PICK c, d \in Nat : ExtStart(x) = c * u /\ CacheStart(x) = d * u
    BY <2>1, Multiples
  <2>4. a * u \in Int /\ b * u \in Int /\ c * u \in Int /\ d * u \in Int
    BY Times
  <2>5. t < u /\ 1 < u /\ t + 1 < u
    BY <2>1
  <2>a. \A p, q, r \in Nat : 0 < r /\ r < u => p * u + r # q * u
    BY Between
  <2>b. t \in Nat /\ 0 < t /\ 1 \in Nat /\ 0 < 1 /\ t + 1 \in Nat /\ 0 < t + 1
    BY <2>1
  <2>6. a * u + t # d * u /\ c * u + 1 # a * u /\ c * u + (t + 1) # b * u
    BY <2>5, <2>a, <2>b, Zenon
  <2>. QED  BY <2>1, <2>2, <2>3, <2>4, <2>6
<1>2. ASSUME NEW v \in Layouts
      PROVE  /\ Placed(v)[1].at = ExtStart(v) /\ Placed(v)[2].at = CacheStart(v) - Track
             /\ Placed(v)[3].at = ExtStart(v) + 1
  BY DEF Placed
<1>3. (j = 1 \/ j = 2 \/ j = 3) /\ (k = 1 \/ k = 2 \/ k = 3)
  OBVIOUS
<1>. QED  BY <1>1, <1>2, <1>3

LEMMA PlacesNat == ASSUME NEW z \in Layouts, NEW k \in 1..3 PROVE Placed(z)[k].at \in Nat
<1>1. PICK S, W, C, E, t \in Nat :
        /\ Spaced(S, W, C, E, t) /\ Numbers(z, S, W, C, E, t)
        /\ DOMAIN Placed(z) = 1..3 /\ Len(Placed(z)) = 3
        /\ Placed(z)[1].at = S /\ Placed(z)[1].first = C /\ Placed(z)[1].last = E - 1
        /\ Placed(z)[2].at = W - t /\ Placed(z)[2].first = W /\ Placed(z)[2].last = C - 1
        /\ Placed(z)[3].at = S + 1 /\ Placed(z)[3].first = S + t /\ Placed(z)[3].last = (W - t) - 1
  BY PlacedIs
<1>2. k = 1 \/ k = 2 \/ k = 3
  OBVIOUS
<1>. QED  BY <1>1, <1>2 DEF Spaced

-----------------------------------------------------------------------------
(* What set_partition puts into the k-th record of layout z.               *)
RecordFor(z, k) ==
    LET p == Placed(z)[k]
        q == Placed(z)[k + 1]
    IN  [part |-> [off |-> p.first - p.at, len |-> p.last - p.first + 1],
         link |-> IF k = 3 THEN << >> ELSE [off |-> q.at - ExtStart(z), len |-> q.last - q.at + 1]]

Holds(s, z, k) == s = Placed(z)[k].at /\ records[s] = RecordFor(z, k)
OnDevice(z, k) == Placed(z)[k].at \in DOMAIN records /\ records[Placed(z)[k].at] = RecordFor(z, k)

(* Every record on the device is one of a run so far, at its place.        *)
DeviceInv ==
    /\ used \subseteq Layouts /\ whole \subseteq used
    /\ layout \in used \/ (mbr = NoMbr /\ pc = "idle" /\ outcome = "none")
    /\ mbr \in {NoMbr, Mbr(layout)}
    /\ pc \in {"idle", "add", "write"} /\ (pc = "add" => next = 0) /\ (pc = "write" => next \in 0..4)
    /\ \A s \in DOMAIN records : \E z \in used, k \in 1..3 : Holds(s, z, k)
    /\ pc = "idle" /\ outcome = "complete" => mbr = Mbr(layout) /\ \A k \in 1..3 : OnDevice(layout, k)
    /\ \A z \in whole : used = {z} => \A k \in 1..3 : OnDevice(z, k)

LEMMA MbrIs ==
    ASSUME NEW z \in Layouts PROVE Mbr(z) # NoMbr /\ Mbr(z).extended.first = ExtStart(z)
<1>1. Mbr(z).extended.first = ExtStart(z)
  <2>1. Mbr(z).extended = Area(Plan(z).p3)
    BY DEF Mbr
  <2>2. Area(Plan(z).p3) = [first |-> ExtStart(z), last |-> ExtStop(z) - 1]
    BY LayoutIs
  <2>. QED  BY <2>1, <2>2
<1>2. Len(Mbr(z).primary) = 3 /\ Len(NoMbr.primary) = 0
  BY DEF Mbr, NoMbr
<1>3. Mbr(z).primary # NoMbr.primary
  BY <1>2
<1>. QED  BY <1>1, <1>3, Zenon

(* From one record to the next.                                            *)
StepFrom(s) ==
    IF s \in DOMAIN records /\ records[s].link # << >> THEN mbr.extended.first + records[s].link.off ELSE -1

LEMMA PlacesAre == 1 \in Places /\ 2 \in Places /\ 3 \in Places /\ 4 \in Places /\ \A k \in Places : k # 1 => k - 1 \in Places
  BY GeometryAssumption DEF Places

LEMMA PlaceIs ==
    ASSUME NEW b, NEW x, NEW y, mbr.extended.first = b, StepFrom(b) = x, StepFrom(x) = y,
           StepFrom(y) = -1, StepFrom(-1) = -1
    PROVE  Place[1] = b /\ Place[2] = x /\ Place[3] = y /\ Place[4] = -1
<1>. DEFINE g == [k \in Places |-> IF k = 1 THEN b ELSE IF k = 2 THEN x ELSE IF k = 3 THEN y ELSE -1]
<1>1. ASSUME NEW k \in Places PROVE g[k] = IF k = 1 THEN mbr.extended.first ELSE StepFrom(g[k - 1])
  <2>0. Places \subseteq Nat
    BY GeometryAssumption DEF Places
  <2>1. CASE k = 1
    BY <2>1
  <2>2. CASE k = 2
    <3>1. k - 1 = 1 /\ g[1] = b /\ g[2] = x
      BY <2>2, PlacesAre
    <3>. QED  BY <2>2, <3>1
  <2>3. CASE k = 3
    <3>1. k - 1 = 2 /\ g[2] = x /\ g[3] = y
      BY <2>3, PlacesAre
    <3>. QED  BY <2>3, <3>1
  <2>4. CASE k = 4
    <3>1. k - 1 = 3 /\ g[3] = y /\ g[4] = -1
      BY <2>4, PlacesAre
    <3>. QED  BY <2>4, <3>1
  <2>5. CASE k \notin {1, 2, 3, 4}
    <3>1. k - 1 \in Places /\ k - 1 \notin {1, 2, 3} /\ k # 1
      BY <2>0, <2>5, PlacesAre
    <3>2. g[k - 1] = -1 /\ g[k] = -1
      BY <2>5, <3>1
    <3>. QED  BY <3>1, <3>2
  <2>. QED  BY <2>1, <2>2, <2>3, <2>4, <2>5
<1>2. g = [k \in Places |-> g[k]]
  OBVIOUS
<1>3. g[1] = b /\ g[2] = x /\ g[3] = y /\ g[4] = -1
  BY PlacesAre
<1>. HIDE DEF g
<1>4. g = [k \in Places |-> IF k = 1 THEN mbr.extended.first ELSE StepFrom(g[k - 1])]
  BY <1>1, <1>2
<1>5. g = [k \in Places |->
             IF k = 1 THEN mbr.extended.first
             ELSE LET s == g[k - 1]
                  IN  IF s \in DOMAIN records /\ records[s].link # << >>
                      THEN mbr.extended.first + records[s].link.off ELSE -1]
  BY <1>4 DEF StepFrom
<1>6. Place = [k \in Places |->
             IF k = 1 THEN mbr.extended.first
             ELSE LET s == Place[k - 1]
                  IN  IF s \in DOMAIN records /\ records[s].link # << >>
                      THEN mbr.extended.first + records[s].link.off ELSE -1]
  BY <1>5 DEF Place
<1>7. \A k \in Places : Place[k] = IF k = 1 THEN mbr.extended.first ELSE StepFrom(Place[k - 1])
  BY <1>6 DEF StepFrom
<1>8. Place[1] = b
  BY <1>7, PlacesAre
<1>9. Place[2] = x
  <2>1. 2 - 1 = 1 /\ 2 # 1
    OBVIOUS
  <2>2. Place[2] = StepFrom(Place[2 - 1])
    BY <1>7, <2>1, PlacesAre
  <2>. QED  BY <1>8, <2>1, <2>2
<1>10. Place[3] = y
  <2>1. 3 - 1 = 2 /\ 3 # 1
    OBVIOUS
  <2>2. Place[3] = StepFrom(Place[3 - 1])
    BY <1>7, <2>1, PlacesAre
  <2>. QED  BY <1>9, <2>1, <2>2
<1>11. Place[4] = -1
  <2>1. 4 - 1 = 3 /\ 4 # 1
    OBVIOUS
  <2>2. Place[4] = StepFrom(Place[4 - 1])
    BY <1>7, <2>1, PlacesAre
  <2>. QED  BY <1>10, <2>1, <2>2
<1>. QED  BY <1>8, <1>9, <1>10, <1>11

LEMMA LengthIs ==
    ASSUME NEW m \in 0..3, \A k \in 1..m : Place[k] # -1, Place[m + 1] = -1
    PROVE  ChainLength = m
<1>1. m \in {0} \cup Places /\ m + 1 \in Places /\ EndsAfter(m) /\ {0} \cup Places \subseteq Nat
  BY GeometryAssumption DEF Places, EndsAfter
<1>2. ASSUME NEW n \in {0} \cup Places, EndsAfter(n) PROVE n = m
  <2>0. n \in Nat
    BY <1>1
  <2>1. CASE n < m
    <3>1. n + 1 \in 1..m /\ n + 1 \in Places
      BY <2>0, <2>1, GeometryAssumption DEF Places
    <3>. QED  BY <1>2, <3>1 DEF EndsAfter
  <2>2. CASE m < n
    <3>1. m + 1 \in 1..n
      BY <2>0, <2>2
    <3>. QED  BY <1>2, <3>1 DEF EndsAfter
  <2>. QED  BY <2>0, <2>1, <2>2
<1>3. ChainLength \in {0} \cup Places /\ EndsAfter(ChainLength)
  BY <1>1, Zenon DEF ChainLength
<1>. QED  BY <1>2, <1>3

LEMMA LinkOf ==
    ASSUME NEW z \in Layouts, NEW k \in 1..3, NEW s, s \in DOMAIN records, Holds(s, z, k)
    PROVE  StepFrom(s) = IF k = 3 THEN -1 ELSE mbr.extended.first + (Placed(z)[k + 1].at - ExtStart(z))
<1>1. records[s] = RecordFor(z, k)
  BY DEF Holds
<1>2. CASE k = 3
  <2>1. records[s].link = << >>
    BY <1>1, <1>2 DEF RecordFor
  <2>. QED  BY <1>2, <2>1 DEF StepFrom
<1>3. CASE k # 3
  <2>. DEFINE q == Placed(z)[k + 1]
  <2>1. records[s].link = [off |-> q.at - ExtStart(z), len |-> q.last - q.at + 1]
    BY <1>1, <1>3 DEF RecordFor
  <2>. HIDE DEF q
  <2>2. "off" \in DOMAIN records[s].link /\ records[s].link.off = q.at - ExtStart(z)
    BY <2>1
  <2>3. records[s].link # << >>
    <3>1. DOMAIN << >> = {}
      OBVIOUS
    <3>. QED  BY <2>2, <3>1
  <2>. QED  BY <1>3, <2>2, <2>3 DEF StepFrom, q
<1>. QED  BY <1>2, <1>3

LEMMA PlacedAt ==
    ASSUME NEW z \in Layouts
    PROVE  /\ Placed(z)[1].at = ExtStart(z) /\ Placed(z)[3].at = ExtStart(z) + 1
           /\ ExtStart(z) \in Nat /\ Placed(z)[2].at \in Nat /\ Placed(z)[3].at \in Nat
<1>1. Placed(z)[1].at = ExtStart(z) /\ Placed(z)[3].at = ExtStart(z) + 1
  BY DEF Placed
<1>2. 1 \in 1..3 /\ 2 \in 1..3 /\ 3 \in 1..3
  OBVIOUS
<1>. QED  BY <1>1, <1>2, PlacesNat

(* A reader comes to at most three sectors, the k-th where some run was to *)
(* put its k-th record.  All but perhaps the last hold such a record, and  *)
(* when those of this run are on the device, it finds just them.           *)
Walked(m, n) ==
    /\ ChainLength = m
    /\ \A k \in 1..n : Place[k] \in DOMAIN records /\ \E z \in used : Holds(Place[k], z, k)
    /\ n < m => Place[m] \notin DOMAIN records
    /\ \A k \in 1..m : \E z \in used : Place[k] = Placed(z)[k].at
    /\ (\A k \in 1..3 : OnDevice(layout, k)) => n = 3 /\ m = 3 /\ \A k \in 1..3 : Place[k] = Placed(layout)[k].at

LEMMA Walk ==
    ASSUME DeviceInv, layout \in used, mbr = Mbr(layout)
    PROVE  \E m \in 1..3, n \in 0..3 : (n = m \/ n = m - 1) /\ Walked(m, n)
<1>0. PICK v \in Layouts : v = layout
  BY DEF DeviceInv
<1>a. used \subseteq Layouts /\ 1 \in 1..3 /\ 2 \in 1..3 /\ 3 \in 1..3
  BY DEF DeviceInv
<1>1. PICK b \in Nat : b = ExtStart(v) /\ mbr.extended.first = b
  BY <1>0, MbrIs, PlacedAt
<1>2. ASSUME NEW s \in DOMAIN records PROVE s \in Nat /\ \E z \in used, k \in 1..3 : Holds(s, z, k)
  <2>1. PICK z \in used, k \in 1..3 : Holds(s, z, k)
    BY DEF DeviceInv
  <2>. QED  BY <1>a, <2>1, PlacesNat DEF Holds
<1>3. StepFrom(-1) = -1 /\ -1 \notin DOMAIN records
  <2>1. -1 \notin DOMAIN records
    BY <1>2
  <2>. QED  BY <2>1 DEF StepFrom
<1>4. ASSUME NEW y \in Layouts, NEW j \in 1..3, Placed(y)[j].at \in DOMAIN records
      PROVE  \E z \in used : Holds(Placed(y)[j].at, z, j)
  <2>1. PICK z \in used, k \in 1..3 : Holds(Placed(y)[j].at, z, k)
    BY <1>2, <1>4
  <2>2. Placed(y)[j].at = Placed(z)[k].at
    BY <2>1 DEF Holds
  <2>3. j = k
    BY <1>a, <2>2, SameKind
  <2>. QED  BY <2>1, <2>3
<1>5. PICK x : x = StepFrom(b)
  OBVIOUS
<1>6. PICK y : y = StepFrom(x)
  OBVIOUS
<1>7. b \in DOMAIN records => \E z \in used : Holds(b, z, 1)
  BY <1>1, <1>4, <1>a, PlacedAt
<1>8. x = -1 \/ (b \in DOMAIN records /\ \E z \in used : x = Placed(z)[2].at)
  <2>1. CASE b \notin DOMAIN records
    BY <1>5, <2>1 DEF StepFrom
  <2>2. CASE b \in DOMAIN records
    <3>1. PICK z \in used : Holds(b, z, 1)
      BY <1>7, <2>2
    <3>2. b = ExtStart(z) /\ z \in Layouts
      BY <1>a, <3>1, PlacedAt DEF Holds
    <3>3. 1 + 1 = 2 /\ 1 # 3
      OBVIOUS
    <3>4. x = b + (Placed(z)[2].at - ExtStart(z))
      BY <1>1, <1>5, <1>a, <2>2, <3>1, <3>2, <3>3, LinkOf
    <3>5. x = Placed(z)[2].at
      BY <3>2, <3>4, PlacedAt
    <3>. QED  BY <2>2, <3>5
  <2>. QED  BY <2>1, <2>2
<1>9. x \in DOMAIN records => b \in DOMAIN records /\ \E z \in used : Holds(x, z, 2)
  BY <1>3, <1>4, <1>8, <1>a
<1>10. y = -1 \/ (x \in DOMAIN records /\ y = Placed(v)[3].at)
  <2>1. CASE x \notin DOMAIN records
    BY <1>6, <2>1 DEF StepFrom
  <2>2. CASE x \in DOMAIN records
    <3>1. PICK z \in used : Holds(x, z, 2)
      BY <1>9, <2>2
    <3>3. 2 + 1 = 3 /\ 2 # 3 /\ z \in Layouts
      BY <1>a
    <3>4. y = b + (Placed(z)[3].at - ExtStart(z))
      BY <1>1, <1>6, <1>a, <2>2, <3>1, <3>3, LinkOf
    <3>5. y = b + 1
      BY <3>3, <3>4, PlacedAt
    <3>. QED  BY <1>1, <2>2, <3>5, PlacedAt
  <2>. QED  BY <2>1, <2>2
<1>11. y \in DOMAIN records => x \in DOMAIN records /\ \E z \in used : Holds(y, z, 3)
  BY <1>3, <1>4, <1>10, <1>a
<1>12. StepFrom(y) = -1
  <2>1. CASE y \notin DOMAIN records
    BY <2>1 DEF StepFrom
  <2>2. CASE y \in DOMAIN records
    <3>1. PICK z \in used : Holds(y, z, 3)
      BY <1>11, <2>2
    <3>. QED  BY <1>a, <2>2, <3>1, LinkOf
  <2>. QED  BY <2>1, <2>2
<1>13. Place[1] = b /\ Place[2] = x /\ Place[3] = y /\ Place[4] = -1
  BY <1>1, <1>3, <1>5, <1>6, <1>12, PlaceIs
<1>14. ASSUME \A k \in 1..3 : OnDevice(layout, k)
       PROVE  /\ b \in DOMAIN records /\ x \in DOMAIN records /\ y \in DOMAIN records
              /\ b = Placed(v)[1].at /\ x = Placed(v)[2].at /\ y = Placed(v)[3].at
  <2>1. b = Placed(v)[1].at /\ b \in DOMAIN records /\ Holds(b, v, 1)
    BY <1>0, <1>1, <1>14, <1>a, PlacedAt DEF OnDevice, Holds
  <2>2. x = Placed(v)[2].at
    <3>1. 1 + 1 = 2 /\ 1 # 3
      OBVIOUS
    <3>2. x = b + (Placed(v)[2].at - ExtStart(v))
      BY <1>1, <1>5, <1>a, <2>1, <3>1, LinkOf
    <3>. QED  BY <1>1, <3>2, PlacedAt
  <2>3. x \in DOMAIN records
    BY <1>0, <1>14, <1>a, <2>2 DEF OnDevice
  <2>4. y = Placed(v)[3].at
    BY <1>3, <1>6, <1>9, <1>10, <2>3, <1>a, <1>0, <1>1, LinkOf, PlacedAt
  <2>5. y \in DOMAIN records
    BY <1>0, <1>14, <1>a, <2>4 DEF OnDevice
  <2>. QED  BY <2>1, <2>2, <2>3, <2>4, <2>5
<1>15. b # -1 /\ (x # -1 => b \in DOMAIN records) /\ (y # -1 => x \in DOMAIN records)
  BY <1>1, <1>8, <1>10
<1>16. /\ b \in DOMAIN records => \E z \in used : Holds(Place[1], z, 1)
       /\ x \in DOMAIN records => \E z \in used : Holds(Place[2], z, 2)
       /\ y \in DOMAIN records => \E z \in used : Holds(Place[3], z, 3)
  BY <1>7, <1>9, <1>11, <1>13
<1>17. /\ \E z \in used : Place[1] = Placed(z)[1].at
       /\ x # -1 => \E z \in used : Place[2] = Placed(z)[2].at
       /\ y # -1 => \E z \in used : Place[3] = Placed(z)[3].at
  BY <1>0, <1>1, <1>8, <1>10, <1>13, PlacedAt
<1>. DEFINE m == IF x = -1 THEN 1 ELSE IF y = -1 THEN 2 ELSE 3
            n == IF Place[m] \in DOMAIN records THEN m ELSE m - 1
<1>18. ChainLength = m
  <2>1. m \in 0..3 /\ (m = 1 \/ m = 2 \/ m = 3) /\ 1 + 1 = 2 /\ 2 + 1 = 3 /\ 3 + 1 = 4
    OBVIOUS
  <2>2. \A k \in 1..m : k = 1 \/ (k = 2 /\ m # 1) \/ (k = 3 /\ m = 3)
    BY <2>1
  <2>3. \A k \in 1..m : Place[k] # -1
    BY <1>3, <1>13, <1>15, <2>1, <2>2
  <2>4. Place[m + 1] = -1
    BY <1>13, <2>1
  <2>. HIDE DEF m
  <2>. QED  BY <2>1, <2>3, <2>4, LengthIs
<1>19. ASSUME NEW k \in 1..n PROVE Place[k] \in DOMAIN records /\ \E z \in used : Holds(Place[k], z, k)
  <2>1. /\ k = 1 \/ (k = 2 /\ x # -1) \/ (k = 3 /\ x # -1 /\ y # -1)
        /\ k = m => Place[m] \in DOMAIN records
        /\ k # m => k < m
    OBVIOUS
  <2>2. CASE k = m
    BY <1>13, <1>16, <2>1, <2>2
  <2>3. CASE k < m
    <3>1. (k = 1 /\ x # -1) \/ (k = 2 /\ y # -1)
      BY <2>1, <2>3
    <3>. QED  BY <1>13, <1>15, <1>16, <3>1
  <2>. QED  BY <2>1, <2>2, <2>3
<1>20. n < m => Place[m] \notin DOMAIN records
  OBVIOUS
<1>21. ASSUME NEW k \in 1..m PROVE \E z \in used : Place[k] = Placed(z)[k].at
  <2>1. k = 1 \/ (k = 2 /\ x # -1) \/ (k = 3 /\ x # -1 /\ y # -1)
    OBVIOUS
  <2>. QED  BY <1>17, <2>1
<1>22. ASSUME \A k \in 1..3 : OnDevice(layout, k)
       PROVE  n = 3 /\ m = 3 /\ \A k \in 1..3 : Place[k] = Placed(layout)[k].at
  <2>1. x # -1 /\ y # -1
    BY <1>3, <1>14, <1>22
  <2>2. m = 3 /\ n = 3
    BY <1>13, <1>14, <1>22, <2>1
  <2>3. ASSUME NEW k \in 1..3 PROVE Place[k] = Placed(layout)[k].at
    <3>1. k = 1 \/ k = 2 \/ k = 3
      OBVIOUS
    <3>. QED  BY <1>0, <1>13, <1>14, <1>22, <3>1
  <2>. QED  BY <2>2, <2>3
<1>23. m \in 1..3 /\ n \in 0..3 /\ (n = m \/ n = m - 1)
  OBVIOUS
<1>. HIDE DEF m, n
<1>24. Walked(m, n)
  BY <1>18, <1>19, <1>20, <1>21, <1>22, Zenon DEF Walked
<1>. QED  BY <1>23, <1>24

-----------------------------------------------------------------------------
(* What the records say of the partitions.                                 *)
LEMMA LogicalPlanIs ==
    ASSUME NEW z \in Layouts
    PROVE  /\ LogicalPlan(z) = [k \in 1..3 |-> LogicalPlan(z)[k]]
           /\ \A k \in 1..3 : LogicalPlan(z)[k] = [first |-> Placed(z)[k].first, last |-> Placed(z)[k].last]
<1>1. PICK S, W, C, E, t \in Nat :
        /\ Spaced(S, W, C, E, t) /\ Numbers(z, S, W, C, E, t)
        /\ DOMAIN Placed(z) = 1..3 /\ Len(Placed(z)) = 3
        /\ Placed(z)[1].at = S /\ Placed(z)[1].first = C /\ Placed(z)[1].last = E - 1
        /\ Placed(z)[2].at = W - t /\ Placed(z)[2].first = W /\ Placed(z)[2].last = C - 1
        /\ Placed(z)[3].at = S + 1 /\ Placed(z)[3].first = S + t /\ Placed(z)[3].last = (W - t) - 1
  BY PlacedIs
<1>2. LogicalPlan(z) = << [first |-> C, last |-> E - 1], [first |-> W, last |-> C - 1],
                          [first |-> S + t, last |-> (W - t) - 1] >>
  <2>1. /\ Area(Plan(z).p3) = [first |-> S, last |-> E - 1] /\ Area(Plan(z).p5) = [first |-> C, last |-> E - 1]
        /\ Area(Plan(z).p6) = [first |-> W, last |-> C - 1] /\ t = Track
    BY <1>1 DEF Numbers
  <2>2. FirstOf(Plan(z).p6) = W
    BY <2>1 DEF Area
  <2>. QED  BY <2>1, <2>2 DEF LogicalPlan
<1>3. LogicalPlan(z) = [k \in 1..3 |-> LogicalPlan(z)[k]]
  BY <1>2
<1>4. ASSUME NEW k \in 1..3
      PROVE  LogicalPlan(z)[k] = [first |-> Placed(z)[k].first, last |-> Placed(z)[k].last]
  <2>1. k = 1 \/ k = 2 \/ k = 3
    OBVIOUS
  <2>. QED  BY <1>1, <1>2, <2>1
<1>. QED  BY <1>3, <1>4

(* The partition a reader takes from the record in sector s.               *)
ReadAt(s) ==
    LET p == records[s].part
    IN  [first |-> s + p.off, last |-> s + p.off + p.len - 1]

LEMMA ReadAs ==
    ASSUME NEW z \in Layouts, NEW k \in 1..3, NEW s, Holds(s, z, k)
    PROVE  ReadAt(s) = LogicalPlan(z)[k]
<1>1. PICK S, W, C, E, t \in Nat :
        /\ Spaced(S, W, C, E, t) /\ Numbers(z, S, W, C, E, t)
        /\ DOMAIN Placed(z) = 1..3 /\ Len(Placed(z)) = 3
        /\ Placed(z)[1].at = S /\ Placed(z)[1].first = C /\ Placed(z)[1].last = E - 1
        /\ Placed(z)[2].at = W - t /\ Placed(z)[2].first = W /\ Placed(z)[2].last = C - 1
        /\ Placed(z)[3].at = S + 1 /\ Placed(z)[3].first = S + t /\ Placed(z)[3].last = (W - t) - 1
  BY PlacedIs
<1>2. PICK a, f, l \in Int : a = Placed(z)[k].at /\ f = Placed(z)[k].first /\ l = Placed(z)[k].last
  <2>1. k = 1 \/ k = 2 \/ k = 3
    OBVIOUS
  <2>2. Placed(z)[k].at \in Int /\ Placed(z)[k].first \in Int /\ Placed(z)[k].last \in Int
    BY <1>1, <2>1
  <2>. QED  BY <2>2
<1>3. s = a /\ records[s].part = [off |-> f - a, len |-> (l - f) + 1]
  BY <1>2 DEF Holds, RecordFor
<1>4. a + (f - a) = f /\ ((a + (f - a)) + ((l - f) + 1)) - 1 = l
  BY <1>2
<1>5. ReadAt(s) = [first |-> f, last |-> l]
  BY <1>3, <1>4 DEF ReadAt
<1>. QED  BY <1>2, <1>5, LogicalPlanIs

LEMMA RecordPlanIs ==
    ASSUME NEW z \in Layouts, NEW k \in 1..3
    PROVE  RecordPlan(z)[k] = Placed(z)[k].at
<1>1. PICK S, W, C, E, t \in Nat : Numbers(z, S, W, C, E, t)
  BY NumbersAre
<1>2. Area(Plan(z).p3).first = S /\ FirstOf(Plan(z).p6) = W /\ t = Track
  BY <1>1 DEF Numbers, Area
<1>3. RecordPlan(z) = <<S, W - t, S + 1>>
  BY <1>2 DEF RecordPlan
<1>4. Placed(z)[1].at = S /\ Placed(z)[2].at = W - t /\ Placed(z)[3].at = S + 1
  BY <1>1 DEF Numbers
<1>5. k = 1 \/ k = 2 \/ k = 3
  OBVIOUS
<1>. QED  BY <1>3, <1>4, <1>5

(* The partitions a reader finds in records, and where it leaves them.     *)
Read(m, n) ==
    /\ Chain = [k \in 1..m |-> Place[k]]
    /\ Logicals = [k \in 1..n |-> ReadAt(Place[k])]
    /\ \A k \in 1..n : \E z \in used : ReadAt(Place[k]) = LogicalPlan(z)[k]
    /\ Astray => n = m - 1
    /\ \E z \in used : Place[m] = RecordPlan(z)[m]
    /\ (\A k \in 1..3 : OnDevice(layout, k)) => Logicals = LogicalPlan(layout) /\ ~Astray

LEMMA LogicalsAre ==
    ASSUME DeviceInv, layout \in used, mbr = Mbr(layout)
    PROVE  \E m \in 1..3, n \in 0..3 : (n = m \/ n = m - 1) /\ Read(m, n)
<1>1. PICK m \in 1..3, n \in 0..3 : (n = m \/ n = m - 1) /\ Walked(m, n)
  BY Walk
<1>a. /\ ChainLength = m
      /\ \A k \in 1..n : Place[k] \in DOMAIN records /\ \E z \in used : Holds(Place[k], z, k)
      /\ n < m => Place[m] \notin DOMAIN records
      /\ \A k \in 1..m : \E z \in used : Place[k] = Placed(z)[k].at
  BY <1>1, Zenon DEF Walked
<1>b. (\A k \in 1..3 : OnDevice(layout, k)) => n = 3 /\ m = 3 /\ \A k \in 1..3 : Place[k] = Placed(layout)[k].at
  BY <1>1, Zenon DEF Walked
<1>2. used \subseteq Layouts /\ layout \in Layouts
  BY DEF DeviceInv
<1>3. mbr # NoMbr
  BY <1>2, MbrIs
<1>4. Chain = [k \in 1..m |-> Place[k]] /\ DOMAIN Chain = 1..m /\ \A k \in 1..m : Chain[k] = Place[k]
  BY <1>a, <1>3 DEF Chain
<1>c. {k \in DOMAIN Chain : Chain[k] \in DOMAIN records} = 1..n
  <2>1. \A k \in 1..m : (k \in 1..n) \/ (k = m /\ n < m)
    BY <1>1
  <2>2. 1..n \subseteq 1..m
    BY <1>1
  <2>. QED  BY <1>a, <1>4, <2>1, <2>2
<1>d. Astray => n = m - 1
  <2>1. SUFFICES ASSUME Astray, n = m PROVE FALSE
    BY <1>1
  <2>2. \A k \in DOMAIN Chain : Chain[k] \in DOMAIN records
    BY <1>4, <1>a, <2>1
  <2>. QED  BY <2>1, <2>2 DEF Astray
<1>5. Logicals = [k \in 1..n |-> ReadAt(Place[k])]
  <2>1. Logicals = [k \in {k \in DOMAIN Chain : Chain[k] \in DOMAIN records} |-> ReadAt(Chain[k])]
    BY DEF Logicals, ReadAt
  <2>2. Logicals = [k \in 1..n |-> ReadAt(Chain[k])]
    BY <1>c, <2>1
  <2>3. \A k \in 1..n : Chain[k] = Place[k]
    BY <1>1, <1>4
  <2>. QED  BY <2>2, <2>3
<1>6. ASSUME NEW k \in 1..n PROVE \E z \in used : ReadAt(Place[k]) = LogicalPlan(z)[k]
  <2>1. PICK z \in used : Holds(Place[k], z, k)
    BY <1>a
  <2>2. k \in 1..3
    OBVIOUS
  <2>. QED  BY <1>2, <2>1, <2>2, ReadAs
<1>7. ASSUME \A k \in 1..3 : OnDevice(layout, k) PROVE Logicals = LogicalPlan(layout) /\ ~Astray
  <2>1. n = 3 /\ m = 3 /\ \A k \in 1..3 : Place[k] = Placed(layout)[k].at
    BY <1>b, <1>7
  <2>2. ASSUME NEW k \in 1..3 PROVE ReadAt(Place[k]) = LogicalPlan(layout)[k]
    <3>1. Holds(Place[k], layout, k)
      BY <1>7, <2>1 DEF OnDevice, Holds
    <3>. QED  BY <1>2, <3>1, ReadAs
  <2>3. Logicals = LogicalPlan(layout)
    BY <1>2, <1>5, <2>1, <2>2, LogicalPlanIs
  <2>4. ~Astray
    BY <1>d, <2>1
  <2>. QED  BY <2>3, <2>4
<1>8. \E z \in used : Place[m] = RecordPlan(z)[m]
  <2>1. PICK z \in used : Place[m] = Placed(z)[m].at
    BY <1>a
  <2>. QED  BY <1>2, <2>1, RecordPlanIs
<1>9. Read(m, n)
  BY <1>4, <1>5, <1>6, <1>7, <1>8, <1>d, Zenon DEF Read
<1>. QED  BY <1>1, <1>9

-----------------------------------------------------------------------------
(* What a set of writes makes of the device.                               *)
LEMMA RecordIs ==
    ASSUME layout \in Layouts, ptes = Placed(layout), NEW k \in 1..3
    PROVE  Record(k) = RecordFor(layout, k)
<1>1. PICK z \in Layouts : z = layout
  OBVIOUS
<1>2. Len(ptes) = 3
  BY Lengths
<1>3. Extended = [first |-> ExtStart(z), last |-> ExtStop(z) - 1]
  BY <1>1, LayoutIs DEF Extended
<1>. QED  BY <1>1, <1>2, <1>3 DEF Record, RecordFor

LEMMA Applied ==
    ASSUME layout \in Layouts, NEW w \in SUBSET (0..3), w = {} \/ ptes = Placed(layout), Apply(w)
    PROVE  /\ mbr' = IF 0 \in w THEN Mbr(layout) ELSE mbr
           /\ \A s \in DOMAIN records' :
                 \/ s \in DOMAIN records /\ records'[s] = records[s]
                 \/ \E k \in 1..3 : s = Placed(layout)[k].at /\ records'[s] = RecordFor(layout, k)
           /\ DOMAIN records \subseteq DOMAIN records'
           /\ \A k \in w \ {0} : /\ Placed(layout)[k].at \in DOMAIN records'
                                  /\ records'[Placed(layout)[k].at] = RecordFor(layout, k)
<1>. DEFINE At == {ptes[k].at : k \in w \ {0}}
            Last(s) == CHOOSE k \in w \ {0} : ptes[k].at = s /\ \A j \in w \ {0} : ptes[j].at = s => j <= k
<1>1. records' = [s \in DOMAIN records \cup At |-> IF s \in At THEN Record(Last(s)) ELSE records[s]]
  BY Zenon DEF Apply
<1>2. ASSUME NEW k \in w \ {0} PROVE /\ ptes[k].at = Placed(layout)[k].at /\ k \in 1..3
                                     /\ Last(ptes[k].at) = k /\ Record(k) = RecordFor(layout, k)
  <2>1. ptes = Placed(layout) /\ k \in 1..3 /\ w \ {0} \subseteq 1..3
    OBVIOUS
  <2>2. \A j \in w \ {0} : ptes[j].at = ptes[k].at => j = k
    BY <2>1, SameKind
  <2>. DEFINE P(i) == ptes[i].at = ptes[k].at /\ \A j \in w \ {0} : ptes[j].at = ptes[k].at => j <= i
  <2>3. P(k) /\ \A i \in w \ {0} : P(i) => i = k
    BY <2>1, <2>2
  <2>. HIDE DEF P
  <2>4. (CHOOSE i \in w \ {0} : P(i)) = k
    BY <2>3, Zenon
  <2>. QED  BY <2>1, <2>4, RecordIs DEF P
<1>3. \A s \in At : \E k \in w \ {0} : s = ptes[k].at
  OBVIOUS
<1>4. \A k \in w \ {0} : ptes[k].at \in At
  OBVIOUS
<1>5. mbr' = IF 0 \in w THEN Mbr(layout) ELSE mbr
  BY DEF Apply
<1>. HIDE DEF At, Last
<1>6. DOMAIN records' = DOMAIN records \cup At /\ \A s \in DOMAIN records' :
        records'[s] = IF s \in At THEN Record(Last(s)) ELSE records[s]
  BY <1>1
<1>7. ASSUME NEW k \in w \ {0} PROVE /\ Placed(layout)[k].at \in DOMAIN records'
                                     /\ records'[Placed(layout)[k].at] = RecordFor(layout, k)
  BY <1>2, <1>4, <1>6
<1>8. ASSUME NEW s \in DOMAIN records'
      PROVE  \/ s \in DOMAIN records /\ records'[s] = records[s]
             \/ \E k \in 1..3 : s = Placed(layout)[k].at /\ records'[s] = RecordFor(layout, k)
  <2>1. CASE s \in At
    BY <1>2, <1>3, <1>6, <2>1
  <2>2. CASE s \notin At
    BY <1>6, <2>2
  <2>. QED  BY <2>1, <2>2
<1>. QED  BY <1>5, <1>6, <1>7, <1>8

-----------------------------------------------------------------------------
(* No record of a layout lies in a partition of it.                        *)
LEMMA PrimariesOut ==
    ASSUME NEW z \in Layouts, NEW i \in DOMAIN Mbr(z).primary, NEW s \in ExtStart(z) .. ExtStop(z) - 1
    PROVE  s \notin Mbr(z).primary[i].first .. Mbr(z).primary[i].last
<1>1. PICK b, e, x, r, c, u \in Int :
        /\ b = BootEnd(z) /\ e = SystemEnd(z) /\ x = ExtEnd(z) /\ r = RecoveryEnd(z) /\ c = Cyls /\ u = Unit
        /\ x = DataEnd(z) /\ x <= r /\ u \in Nat
  <2>1. z \in [Spaces -> Nat] /\ Fits(z, Cyls) /\ Cyls \in Nat
    BY GeometryAssumption
  <2>2. PICK k, y, d, h, v, o \in Nat : /\ k = z["boot"] /\ y = z["system"] /\ d = z["data"] /\ h = z["cache"]
                                        /\ v = z["wowconfig"] /\ o = z["recovery"]
    BY <2>1 DEF Spaces
  <2>3. /\ BootEnd(z) = k - 1 /\ SystemEnd(z) = (k - 1) + y /\ ExtEnd(z) = (((k - 1) + y) + v) + d + h
        /\ DataEnd(z) = ((((k - 1) + y) + v) + h) + d /\ RecoveryEnd(z) = ((((k - 1) + y) + v) + d + h) + o
    BY <2>2 DEF BootEnd, SystemEnd, WowconfigEnd, CacheEnd, DataEnd, ExtEnd, RecoveryEnd
  <2>4. /\ BootEnd(z) \in Int /\ SystemEnd(z) \in Int /\ ExtEnd(z) \in Int /\ RecoveryEnd(z) \in Int
        /\ ExtEnd(z) = DataEnd(z) /\ ExtEnd(z) <= RecoveryEnd(z)
    BY <2>2, <2>3
  <2>. QED  BY <2>1, <2>4, UnitIs
<1>2. /\ e * u \in Int /\ x * u \in Int /\ r * u \in Int /\ c * u \in Int /\ (b - 1) * u \in Int
      /\ x * u <= r * u
  BY <1>1, Times
<1>3. ExtStart(z) = e * u /\ ExtStop(z) = x * u
  BY <1>1 DEF ExtStart, ExtStop
<1>4. /\ Plan(z).p1 = [first |-> r + 1, last |-> c] /\ Plan(z).p2 = [first |-> b, last |-> e]
      /\ Plan(z).p4 = [first |-> x + 1, last |-> r]
  BY <1>1 DEF Plan, CylinderPlan
<1>5. ASSUME NEW f \in Int, NEW l \in Int
      PROVE  Area([first |-> f, last |-> l]) = [first |-> (f - 1) * u, last |-> l * u - 1]
  BY <1>1 DEF Area, FirstOf, LastOf
<1>6. (r + 1) - 1 = r /\ (x + 1) - 1 = x
  OBVIOUS
<1>7. Mbr(z).primary = << [first |-> r * u, last |-> c * u - 1], [first |-> (b - 1) * u, last |-> e * u - 1],
                          [first |-> x * u, last |-> r * u - 1] >>
  BY <1>4, <1>5, <1>6 DEF Mbr
<1>8. i = 1 \/ i = 2 \/ i = 3
  BY <1>7
<1>9. e * u <= s /\ s < x * u /\ s \in Int
  BY <1>2, <1>3
<1>. QED  BY <1>2, <1>7, <1>8, <1>9

LEMMA LogicalsOut ==
    ASSUME NEW z \in Layouts, NEW j \in 1..3, NEW k \in 1..3
    PROVE  /\ Placed(z)[j].at \in ExtStart(z) .. ExtStop(z) - 1
           /\ Placed(z)[j].at \notin LogicalPlan(z)[k].first .. LogicalPlan(z)[k].last
<1>1. PICK S, W, C, E, t \in Nat :
        /\ Spaced(S, W, C, E, t) /\ Numbers(z, S, W, C, E, t)
        /\ DOMAIN Placed(z) = 1..3 /\ Len(Placed(z)) = 3
        /\ Placed(z)[1].at = S /\ Placed(z)[1].first = C /\ Placed(z)[1].last = E - 1
        /\ Placed(z)[2].at = W - t /\ Placed(z)[2].first = W /\ Placed(z)[2].last = C - 1
        /\ Placed(z)[3].at = S + 1 /\ Placed(z)[3].first = S + t /\ Placed(z)[3].last = (W - t) - 1
  BY PlacedIs
<1>2. S = ExtStart(z) /\ E = ExtStop(z)
  BY <1>1 DEF Numbers
<1>3. (j = 1 \/ j = 2 \/ j = 3) /\ (k = 1 \/ k = 2 \/ k = 3)
  OBVIOUS
<1>4. Placed(z)[j].at \in S .. E - 1
  BY <1>1, <1>3 DEF Spaced
<1>5. Placed(z)[j].at \notin Placed(z)[k].first .. Placed(z)[k].last
  BY <1>1, <1>3 DEF Spaced
<1>6. LogicalPlan(z)[k].first = Placed(z)[k].first /\ LogicalPlan(z)[k].last = Placed(z)[k].last
  <2>1. LogicalPlan(z)[k] = [first |-> Placed(z)[k].first, last |-> Placed(z)[k].last]
    BY LogicalPlanIs
  <2>. QED  BY <2>1
<1>. QED  BY <1>2, <1>4, <1>5, <1>6

(* Writing into the partitions takes no record of a complete table.        *)
LEMMA UseKeeps ==
    ASSUME DeviceInv, layout \in used, Use, mbr = Mbr(layout), \A k \in 1..3 : OnDevice(layout, k)
    PROVE  \A k \in 1..3 : OnDevice(layout, k)'
<1>1. PICK z \in Layouts : z = layout
  BY DEF DeviceInv
<1>2. Logicals = LogicalPlan(z) /\ DOMAIN Logicals = 1..3 /\ ~Astray
  <2>1. PICK m \in 1..3, n \in 0..3 : Read(m, n)
    BY LogicalsAre
  <2>2. Logicals = LogicalPlan(layout) /\ ~Astray
    BY <2>1 DEF Read
  <2>. QED  BY <1>1, <2>2, LogicalPlanIs
<1>. DEFINE areas  == {mbr.primary[k] : k \in DOMAIN mbr.primary} \cup {Logicals[k] : k \in DOMAIN Logicals}
            inside == {s \in DOMAIN records : Astray \/ \E a \in areas : s \in a.first .. a.last}
<1>3. PICK gone \in SUBSET inside : records' = [s \in DOMAIN records \ gone |-> records[s]]
  BY DEF Use
<1>4. ASSUME NEW k \in 1..3 PROVE Placed(z)[k].at \notin inside
  <2>1. ASSUME NEW i \in DOMAIN mbr.primary
        PROVE  Placed(z)[k].at \notin mbr.primary[i].first .. mbr.primary[i].last
    BY <1>1, PrimariesOut, LogicalsOut
  <2>2. ASSUME NEW i \in DOMAIN Logicals
        PROVE  Placed(z)[k].at \notin Logicals[i].first .. Logicals[i].last
    BY <1>2, LogicalsOut
  <2>. QED  BY <1>2, <2>1, <2>2
<1>. HIDE DEF areas, inside
<1>5. layout' = z
  BY <1>1 DEF Use
<1>6. ASSUME NEW k \in 1..3
      PROVE  Placed(z)[k].at \in DOMAIN records' /\ records'[Placed(z)[k].at] = RecordFor(z, k)
  BY <1>1, <1>3, <1>4 DEF OnDevice
<1>. QED  BY <1>5, <1>6 DEF OnDevice

-----------------------------------------------------------------------------
LEMMA WritesKeep ==
    ASSUME AddedInv, DeviceInv, layout \in used, layout' = layout, used' = used,
           NEW w \in SUBSET (0..3), w = {} \/ ptes = Placed(layout), Apply(w)
    PROVE  /\ (mbr \in {NoMbr, Mbr(layout)})'
           /\ \A s \in DOMAIN records' : \E z \in used', k \in 1..3 : Holds(s, z, k)'
           /\ w = 0..3 => mbr' = Mbr(layout) /\ \A k \in 1..3 : OnDevice(layout, k)'
           /\ (\A k \in 1..3 : OnDevice(layout, k)) => \A k \in 1..3 : OnDevice(layout, k)'
<1>1. PICK y \in Layouts : y = layout /\ y = layout' /\ y \in used
  BY DEF AddedInv
<1>2. /\ mbr' = IF 0 \in w THEN Mbr(y) ELSE mbr
      /\ \A s \in DOMAIN records' :
            \/ s \in DOMAIN records /\ records'[s] = records[s]
            \/ \E k \in 1..3 : s = Placed(y)[k].at /\ records'[s] = RecordFor(y, k)
      /\ DOMAIN records \subseteq DOMAIN records'
      /\ \A k \in w \ {0} : /\ Placed(y)[k].at \in DOMAIN records'
                             /\ records'[Placed(y)[k].at] = RecordFor(y, k)
  BY <1>1, Applied
<1>3. mbr \in {NoMbr, Mbr(y)}
  BY <1>1 DEF DeviceInv
<1>4. (mbr \in {NoMbr, Mbr(layout)})'
  BY <1>1, <1>2, <1>3
<1>5. ASSUME NEW s \in DOMAIN records' PROVE \E z \in used', k \in 1..3 : Holds(s, z, k)'
  <2>1. CASE s \in DOMAIN records /\ records'[s] = records[s]
    <3>1. PICK z \in used, k \in 1..3 : Holds(s, z, k)
      BY <2>1 DEF DeviceInv
    <3>2. Holds(s, z, k)'
      BY <2>1, <3>1 DEF Holds
    <3>. QED  BY <3>2
  <2>2. CASE \E k \in 1..3 : s = Placed(y)[k].at /\ records'[s] = RecordFor(y, k)
    <3>1. PICK k \in 1..3 : s = Placed(y)[k].at /\ records'[s] = RecordFor(y, k)
      BY <2>2
    <3>2. Holds(s, y, k)'
      BY <3>1 DEF Holds
    <3>. QED  BY <1>1, <3>2
  <2>. QED  BY <1>2, <2>1, <2>2
<1>6. ASSUME w = 0..3 PROVE mbr' = Mbr(layout) /\ \A k \in 1..3 : OnDevice(layout, k)'
  <2>1. 0 \in w /\ \A k \in 1..3 : k \in w \ {0}
    BY <1>6
  <2>2. ASSUME NEW k \in 1..3 PROVE OnDevice(y, k)'
    BY <1>2, <2>1 DEF OnDevice
  <2>. QED  BY <1>1, <1>2, <2>1, <2>2 DEF OnDevice
<1>7. ASSUME \A k \in 1..3 : OnDevice(layout, k) PROVE \A k \in 1..3 : OnDevice(layout, k)'
  <2>1. ASSUME NEW k \in 1..3 PROVE OnDevice(y, k)'
    <3>1. PICK s : s = Placed(y)[k].at
      OBVIOUS
    <3>2. s \in DOMAIN records /\ records[s] = RecordFor(y, k) /\ s \in DOMAIN records'
      BY <1>1, <1>2, <1>7, <3>1 DEF OnDevice
    <3>3. CASE records'[s] = records[s]
      BY <3>1, <3>2, <3>3 DEF OnDevice
    <3>4. CASE \E j \in 1..3 : s = Placed(y)[j].at /\ records'[s] = RecordFor(y, j)
      <4>1. PICK j \in 1..3 : s = Placed(y)[j].at /\ records'[s] = RecordFor(y, j)
        BY <3>4
      <4>2. j = k
        BY <3>1, <4>1, SameKind
      <4>. QED  BY <3>1, <3>2, <4>1, <4>2 DEF OnDevice
    <3>. QED  BY <1>2, <3>2, <3>3, <3>4
  <2>. QED  BY <1>1, <2>1
<1>. QED  BY <1>4, <1>5, <1>6, <1>7

LEMMA DeviceNext == ASSUME AddedInv, DeviceInv, [Next]_vars PROVE DeviceInv'
<1>0. /\ used \subseteq Layouts /\ whole \subseteq used /\ mbr \in {NoMbr, Mbr(layout)} /\ pc \in {"idle", "add", "write"}
      /\ pc \in {"add", "write"} => layout \in used
  BY DEF DeviceInv
<1>1. CASE Start
  <2>1. /\ layout' \in Layouts /\ used' = used \cup {layout'} /\ mbr' = NoMbr /\ next' = 0 /\ pc' = "add"
        /\ outcome' = "none" /\ records' = records /\ whole' = whole
    BY <1>1 DEF Start
  <2>2. ASSUME NEW s \in DOMAIN records' PROVE \E z \in used', k \in 1..3 : Holds(s, z, k)'
    <3>1. PICK z \in used, k \in 1..3 : Holds(s, z, k)
      BY <2>1 DEF DeviceInv
    <3>2. Holds(s, z, k)' /\ z \in used'
      BY <2>1, <3>1 DEF Holds
    <3>. QED  BY <3>2
  <2>3. ASSUME NEW z \in whole', used' = {z} PROVE \A k \in 1..3 : OnDevice(z, k)'
    <3>1. z \in whole /\ used = {z}
      BY <1>0, <2>1, <2>3
    <3>. QED  BY <2>1, <3>1 DEF DeviceInv, OnDevice
  <2>. QED  BY <1>0, <2>1, <2>2, <2>3 DEF DeviceInv
<1>2. CASE AddLogical \/ WriteSector \/ UNCHANGED vars
  <2>1. /\ mbr' = mbr /\ records' = records /\ layout' = layout /\ used' = used /\ outcome' = outcome
        /\ whole' = whole /\ (pc' = "idle" => pc = "idle")
    BY <1>2 DEF AddLogical, WriteSector, vars
  <2>2. pc' \in {"idle", "add", "write"} /\ (pc' = "add" => next' = 0) /\ (pc' = "write" => next' \in 0..4)
    <3>1. CASE AddLogical
      <4>1. next = 0 /\ next' = next /\ pc' \in {"add", "write"}
        BY <3>1 DEF AddLogical, DeviceInv
      <4>. QED  BY <4>1
    <3>2. CASE WriteSector
      <4>1. Len(ptes) = 3
        BY <3>2, Lengths DEF WriteSector, AddedInv
      <4>2. pc' = "write" /\ next \in 0..4 /\ next <= 3 /\ next' = next + 1
        BY <3>2, <4>1 DEF WriteSector, DeviceInv
      <4>. QED  BY <4>2
    <3>3. CASE UNCHANGED vars
      BY <3>3 DEF vars, DeviceInv
    <3>. QED  BY <1>2, <3>1, <3>2, <3>3
  <2>3. ASSUME NEW s \in DOMAIN records' PROVE \E z \in used', k \in 1..3 : Holds(s, z, k)'
    <3>1. PICK z \in used, k \in 1..3 : Holds(s, z, k)
      BY <2>1 DEF DeviceInv
    <3>2. Holds(s, z, k)'
      BY <2>1, <3>1 DEF Holds
    <3>. QED  BY <2>1, <3>2
  <2>4. ASSUME pc' = "idle", outcome' = "complete"
        PROVE  mbr' = Mbr(layout') /\ \A k \in 1..3 : OnDevice(layout, k)'
    <3>1. mbr = Mbr(layout) /\ \A k \in 1..3 : OnDevice(layout, k)
      BY <2>1, <2>4 DEF DeviceInv
    <3>. QED  BY <2>1, <3>1 DEF OnDevice
  <2>5. layout' \in used' \/ (mbr' = NoMbr /\ pc' = "idle" /\ outcome' = "none")
    <3>1. CASE layout \in used
      BY <2>1, <3>1
    <3>2. CASE layout \notin used
      <4>1. mbr = NoMbr /\ pc = "idle" /\ outcome = "none"
        BY <3>2 DEF DeviceInv
      <4>2. UNCHANGED vars
        BY <1>2, <4>1 DEF AddLogical, WriteSector
      <4>. QED  BY <4>1, <4>2 DEF vars
    <3>. QED  BY <3>1, <3>2
  <2>6. \A z \in whole' : used' = {z} => \A k \in 1..3 : OnDevice(z, k)'
    BY <2>1 DEF DeviceInv, OnDevice
  <2>. QED  BY <1>0, <2>1, <2>2, <2>3, <2>4, <2>5, <2>6 DEF DeviceInv
<1>3. CASE Reread \/ WriteFails \/ PowerLoss
  <2>1. /\ layout' = layout /\ used' = used /\ pc \in {"add", "write"} /\ pc' = "idle"
    BY <1>3 DEF Reread, WriteFails, PowerLoss, Ends
  <2>2. layout \in used /\ layout \in Layouts
    BY <1>0, <2>1 DEF AddedInv
  <2>3. PICK w \in SUBSET (0..3) : /\ Apply(w) /\ (w = {} \/ ptes = Placed(layout))
                                   /\ outcome' = "complete" => w = 0..3
                                   /\ whole' = whole \/ (whole' = whole \cup {layout} /\ w = 0..3)
    <3>1. CASE Reread
      <4>1. Len(ptes) = 3 /\ ptes = Placed(layout)
        BY <3>1, Lengths DEF Reread, AddedInv
      <4>2. next = 4 /\ next - 1 = 3 /\ Apply(0 .. next - 1) /\ whole' = whole \cup {layout}
        BY <3>1, <4>1 DEF Reread
      <4>. QED  BY <4>1, <4>2
    <3>2. CASE WriteFails
      <4>1. Len(ptes) = 3 /\ ptes = Placed(layout)
        BY <3>2, Lengths DEF WriteFails, AddedInv
      <4>2. next \in 0..4 /\ next <= 3 /\ Apply(0 .. next - 1) /\ outcome' = "torn" /\ whole' = whole
        BY <3>2, <4>1 DEF WriteFails, Ends, DeviceInv
      <4>3. 0 .. next - 1 \subseteq 0..3
        BY <4>2
      <4>. QED  BY <4>1, <4>2, <4>3
    <3>3. CASE PowerLoss
      <4>1. PICK w \in SUBSET (0 .. next - 1) : Apply(w)
        BY <3>3 DEF PowerLoss
      <4>2. outcome' = "torn" /\ whole' = whole
        BY <3>3 DEF PowerLoss, Ends
      <4>3. CASE pc = "add"
        <5>1. next = 0
          BY <4>3 DEF DeviceInv
        <5>2. w = {}
          BY <4>1, <5>1
        <5>. QED  BY <4>1, <4>2, <5>2
      <4>4. CASE pc = "write"
        <5>1. next \in 0..4 /\ ptes = Placed(layout)
          BY <4>4 DEF DeviceInv, AddedInv
        <5>2. w \subseteq 0..3
          BY <4>1, <5>1
        <5>. QED  BY <4>1, <4>2, <5>1, <5>2
      <4>. QED  BY <2>1, <4>3, <4>4
    <3>. QED  BY <1>3, <3>1, <3>2, <3>3
  <2>4. /\ (mbr \in {NoMbr, Mbr(layout)})'
        /\ \A s \in DOMAIN records' : \E z \in used', k \in 1..3 : Holds(s, z, k)'
        /\ w = 0..3 => mbr' = Mbr(layout) /\ \A k \in 1..3 : OnDevice(layout, k)'
        /\ (\A k \in 1..3 : OnDevice(layout, k)) => \A k \in 1..3 : OnDevice(layout, k)'
    BY <2>1, <2>2, <2>3, WritesKeep
  <2>5. ASSUME NEW z \in whole', used' = {z} PROVE \A k \in 1..3 : OnDevice(z, k)'
    <3>1. z = layout /\ used = {z}
      BY <2>1, <2>2, <2>5
    <3>2. CASE z \in whole
      <4>1. \A k \in 1..3 : OnDevice(layout, k)
        BY <3>1, <3>2 DEF DeviceInv
      <4>. QED  BY <2>1, <2>4, <3>1, <4>1 DEF OnDevice
    <3>3. CASE z \notin whole
      <4>1. w = 0..3
        BY <2>3, <2>5, <3>3
      <4>. QED  BY <2>1, <2>4, <3>1, <4>1 DEF OnDevice
    <3>. QED  BY <3>2, <3>3
  <2>6. whole' \subseteq used'
    BY <1>0, <2>1, <2>2, <2>3
  <2>. QED  BY <1>0, <2>1, <2>2, <2>3, <2>4, <2>5, <2>6 DEF DeviceInv
<1>4. CASE Use
  <2>1. /\ mbr' = mbr /\ layout' = layout /\ used' = used /\ pc = "idle" /\ pc' = "idle" /\ outcome' = outcome
        /\ mbr # NoMbr /\ whole' = whole
    BY <1>4 DEF Use
  <2>2. layout \in used /\ mbr = Mbr(layout)
    BY <1>0, <2>1 DEF DeviceInv
  <2>3. \A s \in DOMAIN records' : s \in DOMAIN records /\ records'[s] = records[s]
    BY <1>4 DEF Use
  <2>4. ASSUME NEW s \in DOMAIN records' PROVE \E z \in used', k \in 1..3 : Holds(s, z, k)'
    <3>1. PICK z \in used, k \in 1..3 : Holds(s, z, k)
      BY <2>3 DEF DeviceInv
    <3>2. Holds(s, z, k)'
      BY <2>3, <3>1 DEF Holds
    <3>. QED  BY <2>1, <3>2
  <2>5. ASSUME outcome' = "complete" PROVE \A k \in 1..3 : OnDevice(layout, k)'
    <3>1. \A k \in 1..3 : OnDevice(layout, k)
      BY <2>1, <2>5 DEF DeviceInv
    <3>. QED  BY <1>4, <2>2, <3>1, UseKeeps
  <2>6. ASSUME NEW z \in whole', used' = {z} PROVE \A k \in 1..3 : OnDevice(z, k)'
    <3>1. z = layout /\ z = layout' /\ z \in whole /\ used = {z}
      BY <2>1, <2>2, <2>6
    <3>2. \A k \in 1..3 : OnDevice(layout, k)
      BY <3>1 DEF DeviceInv
    <3>3. \A k \in 1..3 : OnDevice(layout, k)'
      BY <1>4, <2>2, <3>2, UseKeeps
    <3>. QED  BY <3>1, <3>3 DEF OnDevice
  <2>. QED  BY <1>0, <2>1, <2>2, <2>4, <2>5, <2>6 DEF DeviceInv
<1>. QED  BY <1>1, <1>2, <1>3, <1>4 DEF Next

LEMMA InitDevice == Init => DeviceInv
  BY DEF Init, DeviceInv, NoRecords

(* What the records on the device amount to for a reader.                  *)
LEMMA DeviceRead == DeviceInv => ReadBack /\ TornFromPlans
<1>. SUFFICES ASSUME DeviceInv PROVE ReadBack /\ TornFromPlans
  OBVIOUS
<1>1. ReadBack
  <2>1. SUFFICES ASSUME pc = "idle", outcome = "complete"
                 PROVE  Logicals = LogicalPlan(layout) /\ mbr = Mbr(layout) /\ ~Astray
    BY DEF ReadBack
  <2>2. layout \in used /\ mbr = Mbr(layout) /\ \A k \in 1..3 : OnDevice(layout, k)
    BY <2>1 DEF DeviceInv
  <2>3. PICK m \in 1..3, n \in 0..3 : Read(m, n)
    BY <2>2, LogicalsAre
  <2>. QED  BY <2>2, <2>3 DEF Read
<1>2. TornFromPlans
  <2>1. SUFFICES ASSUME pc = "idle", outcome = "torn"
                 PROVE  /\ mbr \in {NoMbr, Mbr(layout)}
                        /\ \A k \in DOMAIN Logicals : k <= 3 /\ Logicals[k] \in {LogicalPlan(z)[k] : z \in used}
                        /\ Astray => /\ Len(Chain) = Len(Logicals) + 1 /\ Len(Chain) <= 3
                                     /\ Chain[Len(Chain)] \in {RecordPlan(z)[Len(Chain)] : z \in used}
                        /\ layout \in whole /\ used = {layout} /\ mbr # NoMbr
                             => Logicals = LogicalPlan(layout) /\ ~Astray
    BY DEF TornFromPlans
  <2>2. mbr \in {NoMbr, Mbr(layout)} /\ layout \in used
    BY <2>1 DEF DeviceInv
  <2>3. CASE mbr = NoMbr
    <3>1. Chain = << >>
      BY <2>3 DEF Chain
    <3>2. DOMAIN Logicals = {} /\ ~Astray
      BY <3>1 DEF Logicals, Astray
    <3>. QED  BY <2>2, <2>3, <3>2
  <2>4. CASE mbr = Mbr(layout)
    <3>1. PICK m \in 1..3, n \in 0..3 : Read(m, n)
      BY <2>2, <2>4, LogicalsAre
    <3>2. Len(Logicals) = n /\ DOMAIN Logicals = 1..n /\ Len(Chain) = m /\ Chain[m] = Place[m]
      BY <3>1 DEF Read
    <3>3. \A k \in 1..n : k <= 3 /\ Logicals[k] \in {LogicalPlan(z)[k] : z \in used}
      BY <3>1 DEF Read
    <3>4. Astray => Len(Chain) = Len(Logicals) + 1 /\ Len(Chain) <= 3
      BY <3>1, <3>2 DEF Read
    <3>5. Chain[Len(Chain)] \in {RecordPlan(z)[Len(Chain)] : z \in used}
      BY <3>1, <3>2 DEF Read
    <3>6. ASSUME layout \in whole, used = {layout} PROVE Logicals = LogicalPlan(layout) /\ ~Astray
      <4>1. \A k \in 1..3 : OnDevice(layout, k)
        BY <3>6 DEF DeviceInv
      <4>. QED  BY <3>1, <4>1 DEF Read
    <3>. QED  BY <2>2, <3>2, <3>3, <3>4, <3>5, <3>6
  <2>. QED  BY <2>2, <2>3, <2>4
<1>. QED  BY <1>1, <1>2

LEMMA DeviceHolds == Spec => [](AddedInv /\ DeviceInv)
  BY InitAdded, InitDevice, AddedNext, DeviceNext, PTL DEF Spec

(* For every geometry, any layouts that fit, and any number of runs, cut   *)
(* short or not: once a run has written its whole table, read_extended     *)
(* comes to the three records of this run only and finds p5, p6 and p7     *)
(* where the plan has them, whatever older records the device holds and    *)
(* whatever is written into the partitions afterwards (fdisk.c 1033-1051,  *)
(* 1103-1195).                                                             *)
THEOREM ReadBackHolds == Spec => []ReadBack
  BY DeviceHolds, DeviceRead, PTL

(* After a run that was cut short, whichever of its writes reached the     *)
(* device: what read_extended takes from a record is the partition that    *)
(* this run or an earlier one planned under that number.  It may come to a *)
(* sector that holds none, where some run was to write the next record,    *)
(* and what it makes of that is open; but not when every run had this      *)
(* layout and one of them was completed (fdisk.c 1119-1176, 2495-2505).    *)
THEOREM TornHolds == Spec => []TornFromPlans
  BY DeviceHolds, DeviceRead, PTL
=============================================================================
