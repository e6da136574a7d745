-------------------------- MODULE MkBootfs_proofs ---------------------------
(***************************************************************************)
(* Theorems about module MkBootfs, for all directory trees: the archive is *)
(* complete, readable and in sorted order, and mkbootfs dies for a cause.  *)
(***************************************************************************)
EXTENDS MkBootfs, WellFoundedInduction, SequenceTheorems, FiniteSetTheorems, TLAPS

-----------------------------------------------------------------------------
(* Sequences and numbers.                                                  *)

LEMMA LeastNumber ==
    ASSUME NEW S, S \subseteq Nat, S # {}
    PROVE  \E x \in S : \A y \in S : x <= y
<1>. DEFINE R == {ss \in Nat \X Nat : ss[1] < ss[2]}
<1>1. IsWellFoundedOn(R, Nat)
  BY NatLessThanWellFounded DEF OpToRel
<1>2. \A x, y \in Nat : y < x => <<y, x>> \in R
  OBVIOUS
<1>. HIDE DEF R
<1>3. PICK x \in S : \A y \in S : ~(<<y, x>> \in R)
  BY <1>1, WFMin
<1>4. ASSUME NEW y \in S PROVE x <= y
  <2>1. x \in Nat /\ y \in Nat /\ ~(y < x)
    BY <1>2, <1>3
  <2>. QED  BY <2>1
<1>. QED  BY <1>4

LEMMA CutAppend ==
    ASSUME NEW S, NEW s \in Seq(S), NEW e \in S, NEW k \in 0 .. Len(s)
    PROVE  SubSeq(Append(s, e), 1, k) = SubSeq(s, 1, k)
<1>1. Append(s, e) \in Seq(S) /\ Len(Append(s, e)) = Len(s) + 1 /\ \A j \in 1 .. Len(s) : Append(s, e)[j] = s[j]
  BY AppendProperties
<1>. QED  BY <1>1

LEMMA CutAll ==
    ASSUME NEW S, NEW s \in Seq(S), NEW e \in S
    PROVE  /\ SubSeq(s, 1, Len(s)) = s
           /\ SubSeq(Append(s, e), 1, Len(s)) = s
           /\ Front(Append(s, e)) = s
           /\ SubSeq(Append(s, e), 1, Len(s) + 1) = Append(s, e)
<1>1. SubSeq(s, 1, Len(s)) = s
  BY SubSeqFull
<1>2. SubSeq(Append(s, e), 1, Len(s)) = s
  BY <1>1, CutAppend
<1>3. Append(s, e) \in Seq(S) /\ Len(Append(s, e)) = Len(s) + 1
  BY AppendProperties
<1>4. Front(Append(s, e)) = s
  BY <1>2, <1>3 DEF Front
<1>. QED  BY <1>1, <1>2, <1>3, <1>4, SubSeqFull

LEMMA PadFacts ==
    ASSUME NEW n \in Nat
    PROVE  /\ Pad4(n) \in Nat /\ Pad256(n) \in Nat /\ Pad256(n) % 256 = 0
           /\ Pad4(0) = 0
  BY DEF Pad4, Pad256

LEMMA InodeIs ==
    next_inode \in Nat
  BY SMT DEF next_inode

LEMMA MinOfTwo ==
    ASSUME NEW a \in Nat, NEW b \in Nat
    PROVE  Min({a, b}) = IF a > b THEN b ELSE a
<1>1. \A x : (x \in {a, b} /\ \A y \in {a, b} : x <= y) <=> x = IF a > b THEN b ELSE a
  OBVIOUS
<1>. QED  BY <1>1 DEF Min

-----------------------------------------------------------------------------
(* strlen.  The recursion of StrLen has one solution, which grows with the *)
(* path.                                                                   *)
Step(p, k) == NameLen[p[k]] + (IF k = 1 THEN 0 ELSE 1)
Sums(p, f, m) == f \in [0 .. m -> Nat] /\ f[0] = 0 /\ \A k \in 1 .. m : f[k] = f[k - 1] + Step(p, k)

LEMMA SumsExist ==
    ASSUME NEW p \in Seq(NameSet), NEW m \in 0 .. Len(p)
    PROVE  \E f : Sums(p, f, m)
<1>. DEFINE Bad == {k \in 0 .. Len(p) : ~\E f : Sums(p, f, k)}
<1>0. m \notin Bad => \E f : Sums(p, f, m)
  OBVIOUS
<1>1. SUFFICES ASSUME Bad # {} PROVE FALSE
  BY <1>0, Zenon
<1>a. Bad \subseteq Nat
  OBVIOUS
<1>. HIDE DEF Bad
<1>2. PICK k \in Bad : \A j \in Bad : k <= j
  BY <1>1, <1>a, LeastNumber
<1>. USE DEF Bad
<1>3. \A j \in 1 .. Len(p) : Step(p, j) \in Nat
  BY BootfsAssumption DEF Step
<1>4. CASE k = 0
  <2>1. Sums(p, [j \in 0 .. 0 |-> 0], 0)
    BY DEF Sums
  <2>. QED  BY <1>2, <1>4, <2>1
<1>5. CASE k # 0
  <2>1. k \in 1 .. Len(p) /\ k - 1 \in 0 .. Len(p) /\ k - 1 \notin Bad
    BY <1>2, <1>5
  <2>2. PICK f : Sums(p, f, k - 1)
    BY <2>1
  <2>3. Step(p, k) \in Nat
    BY <1>3, <2>1
  <2>. DEFINE g == [j \in 0 .. k |-> IF j = k THEN f[k - 1] + Step(p, k) ELSE f[j]]
  <2>4. g \in [0 .. k -> Nat] /\ g[0] = 0
    BY <2>1, <2>2, <2>3 DEF Sums
  <2>5. ASSUME NEW j \in 1 .. k PROVE g[j] = g[j - 1] + Step(p, j)
    <3>1. CASE j = k
      BY <2>1, <3>1
    <3>2. CASE j # k
      <4>1. j \in 1 .. k - 1 /\ f[j] = f[j - 1] + Step(p, j)
        BY <2>1, <2>2, <3>2 DEF Sums
      <4>. QED  BY <2>1, <4>1
    <3>. QED  BY <3>1, <3>2
  <2>6. Sums(p, g, k)
    BY <2>4, <2>5 DEF Sums
  <2>. QED  BY <1>2, <2>6
<1>. QED  BY <1>4, <1>5

(* Two solutions agree as far as the paths do.                             *)
LEMMA SumsAgree ==
    ASSUME NEW p, NEW q, NEW f, NEW g, NEW m \in Nat, NEW n \in Nat, m <= n,
           Sums(p, f, m), Sums(q, g, n), \A k \in 1 .. m : p[k] = q[k]
    PROVE  f[m] = g[m]
<1>. DEFINE Bad == {k \in 0 .. m : f[k] # g[k]}
<1>0. m \notin Bad => f[m] = g[m]
  OBVIOUS
<1>1. SUFFICES ASSUME Bad # {} PROVE FALSE
  BY <1>0, Zenon
<1>a. Bad \subseteq Nat
  OBVIOUS
<1>. HIDE DEF Bad
<1>2. PICK k \in Bad : \A j \in Bad : k <= j
  BY <1>1, <1>a, LeastNumber
<1>. USE DEF Bad
<1>3. k # 0
  BY <1>2 DEF Sums
<1>4. k \in 1 .. m /\ k \in 1 .. n /\ k - 1 \in 0 .. m /\ k - 1 \notin Bad
  BY <1>2, <1>3
<1>5. Step(p, k) = Step(q, k)
  BY <1>4 DEF Step
<1>6. f[k] = f[k - 1] + Step(p, k) /\ g[k] = g[k - 1] + Step(q, k)
  BY <1>4 DEF Sums
<1>. QED  BY <1>2, <1>4, <1>5, <1>6

LEMMA StrLenIs ==
    ASSUME NEW p \in Seq(NameSet)
    PROVE  \E f : Sums(p, f, Len(p)) /\ StrLen(p) = f[Len(p)]
<1>. DEFINE L == Len(p)
            F(f) == [k \in 0 .. L |-> IF k = 0 THEN 0 ELSE f[k - 1] + NameLen[p[k]] + (IF k = 1 THEN 0 ELSE 1)]
            upTo == CHOOSE f : f = F(f)
<1>1. \A k \in 1 .. L : NameLen[p[k]] \in Nat
  BY BootfsAssumption
<1>2. PICK g : Sums(p, g, L)
  BY SumsExist
<1>3. g = F(g)
  BY <1>1, <1>2 DEF Sums, Step
<1>4. upTo = F(upTo)
  BY <1>3
<1>5. StrLen(p) = upTo[L]
  BY Zenon DEF StrLen
<1>. HIDE DEF upTo
<1>6. /\ upTo[0] = 0
      /\ \A k \in 1 .. L : upTo[k] = upTo[k - 1] + NameLen[p[k]] + (IF k = 1 THEN 0 ELSE 1)
      /\ DOMAIN upTo = 0 .. L
  BY <1>4
<1>7. ASSUME NEW k \in 0 .. L PROVE upTo[k] = g[k]
  <2>. DEFINE Bad == {j \in 0 .. L : upTo[j] # g[j]}
  <2>0. k \notin Bad => upTo[k] = g[k]
    OBVIOUS
  <2>1. SUFFICES ASSUME Bad # {} PROVE FALSE
    BY <2>0, Zenon
  <2>a. Bad \subseteq Nat
    OBVIOUS
  <2>. HIDE DEF Bad
  <2>2. PICK j \in Bad : \A h \in Bad : j <= h
    BY <2>1, <2>a, LeastNumber
  <2>. USE DEF Bad
  <2>3. j # 0
    BY <1>2, <1>6, <2>2 DEF Sums
  <2>4. j \in 1 .. L /\ j - 1 \in 0 .. L /\ j - 1 \notin Bad
    BY <2>2, <2>3
  <2>5. g[j] = g[j - 1] + (NameLen[p[j]] + (IF j = 1 THEN 0 ELSE 1)) /\ g[j - 1] \in Nat
    BY <1>2, <2>4 DEF Sums, Step
  <2>6. upTo[j - 1] = g[j - 1] /\ NameLen[p[j]] \in Nat
    BY <1>1, <2>4
  <2>7. upTo[j] = upTo[j - 1] + NameLen[p[j]] + (IF j = 1 THEN 0 ELSE 1)
    BY <1>6, <2>4
  <2>8. upTo[j] = g[j]
    BY <2>5, <2>6, <2>7
  <2>. QED  BY <2>2, <2>8
<1>. QED  BY <1>2, <1>5, <1>7

LEMMA StrLenFacts ==
    ASSUME NEW p \in Seq(NameSet)
    PROVE  /\ StrLen(p) \in Nat
           /\ p = << >> <=> StrLen(p) = 0
           /\ \A n \in NameSet : StrLen(Append(p, n)) = PathLen(StrLen(p), n)
<1>1. PICK f : Sums(p, f, Len(p)) /\ StrLen(p) = f[Len(p)]
  BY StrLenIs
<1>2. StrLen(p) \in Nat
  BY <1>1 DEF Sums
<1>3. p = << >> => StrLen(p) = 0
  BY <1>1 DEF Sums
<1>4. ASSUME p # << >> PROVE StrLen(p) > 0
  <2>1. Len(p) \in 1 .. Len(p) /\ NameLen[p[Len(p)]] \in Nat \ {0}
    BY <1>4, BootfsAssumption
  <2>2. f[Len(p)] = f[Len(p) - 1] + Step(p, Len(p)) /\ f[Len(p) - 1] \in Nat
    BY <1>1, <2>1 DEF Sums
  <2>. QED  BY <1>1, <2>1, <2>2 DEF Step
<1>5. ASSUME NEW n \in NameSet PROVE StrLen(Append(p, n)) = PathLen(StrLen(p), n)
  <2>. DEFINE q == Append(p, n)
  <2>1. q \in Seq(NameSet) /\ Len(q) = Len(p) + 1 /\ q[Len(p) + 1] = n /\ \A k \in 1 .. Len(p) : q[k] = p[k]
    BY AppendProperties
  <2>. HIDE DEF q
  <2>2. PICK g : Sums(q, g, Len(q)) /\ StrLen(q) = g[Len(q)]
    BY <2>1, StrLenIs
  <2>3. f[Len(p)] = g[Len(p)]
    <3>1. Len(p) \in Nat /\ Len(q) \in Nat /\ Len(p) <= Len(q) /\ \A k \in 1 .. Len(p) : p[k] = q[k]
      BY <2>1
    <3>2. PICK m \in Nat : m = Len(p)
      BY <3>1
    <3>3. PICK r \in Nat : r = Len(q)
      BY <3>1
    <3>4. m <= r /\ Sums(p, f, m) /\ Sums(q, g, r) /\ \A k \in 1 .. m : p[k] = q[k]
      BY <1>1, <2>2, <3>1, <3>2, <3>3
    <3>5. f[m] = g[m]
      BY <3>4, SumsAgree
    <3>. QED  BY <3>2, <3>5
  <2>4. g[Len(p) + 1] = g[Len(p)] + Step(q, Len(p) + 1)
    BY <2>1, <2>2 DEF Sums
  <2>5. StrLen(q) = StrLen(p) + (NameLen[n] + (IF Len(p) = 0 THEN 0 ELSE 1))
    BY <1>1, <2>1, <2>2, <2>3, <2>4 DEF Step
  <2>6. NameLen[n] \in Nat
    BY BootfsAssumption
  <2>7. CASE p = << >>
    BY <1>2, <1>3, <2>5, <2>6, <2>7 DEF PathLen, q
  <2>8. CASE p # << >>
    BY <1>2, <1>4, <2>5, <2>6, <2>8 DEF PathLen, q
  <2>. QED  BY <2>7, <2>8
<1>. QED  BY <1>2, <1>3, <1>4, <1>5

-----------------------------------------------------------------------------
(* The walk.                                                               *)
Visible    == NameSet \ (Dotfiles \cup {"root"})
Tree       == args[arg].tree
Prefix     == args[arg].prefix
Size(node) == CASE node.kind = "dir" -> 0
                [] node.kind = "link" /\ node.size > 1024 -> 1024
                [] OTHER -> node.size

Frame == [names : SUBSET Visible, ilen : Nat, olen : Nat, len : Nat]
Entry == [path : Seq(NameSet \cup {"TRAILER!!!"}), kind : Kinds \cup {"trailer"},
          size : Nat, at : Nat, inode : Nat]
Shape ==
    /\ args \in Arguments /\ arg \in 0 .. Len(args)
    /\ stack \in Seq(Frame) /\ inp \in Seq(Visible) /\ out \in Seq(NameSet)
    /\ archive \in Seq(Entry) /\ total \in Nat
    /\ opened \in 0 .. MaxFiles /\ faults \in 0 .. MaxFaults
    /\ status \in {"walking", "done", "died"}

(* The buffers hold the path of the innermost directory; each frame knows  *)
(* the lengths up to its own directory, and its names are in there.        *)
Buffers ==
    stack # << >> =>
      /\ arg >= 1 /\ Len(inp) = Len(stack) - 1 /\ out = Prefix \o inp
      /\ \A j \in DOMAIN stack :
           /\ stack[j].ilen = j - 1 /\ stack[j].olen = Len(Prefix) + j - 1
           /\ stack[j].len = StrLen(Prefix \o SubSeq(inp, 1, j - 1))
           /\ \A m \in stack[j].names : Append(SubSeq(inp, 1, j - 1), m) \in DOMAIN Tree

(* The directories being visited are in the archive; what their frames     *)
(* still hold comes after them.                                            *)
Descent ==
    stack # << >> => \A j \in DOMAIN inp :
      /\ \A m \in stack[j].names : Before(inp[j], m)
      /\ \E k \in DOMAIN archive : archive[k].path = Prefix \o SubSeq(inp, 1, j) /\ archive[k].kind = "dir"

(* What is left to visit: the other arguments, and what is at or below a   *)
(* name that some frame holds.                                             *)
Held(p) == \E j \in DOMAIN stack :
    Len(p) >= j /\ (\A h \in 1 .. j - 1 : p[h] = inp[h]) /\ p[j] \in stack[j].names
Left    == {x \in AllWanted : x[1] > arg \/ (x[1] = arg /\ Held(x[2]))}

(* What readdir did not return, with all that is below, is never visited.  *)
Missed(x, U) == \E y \in U : y[1] = x[1] /\ IsPrefix(y[2], x[2])
Gone         == {x \in AllWanted : Missed(x, unread)}
Visited      == AllWanted \ (Left \cup Gone)
NotRead(a, d, names) == {<<a, Append(d, m)>> : m \in Entries(args[a].tree, d) \ names}

Node(x)       == args[x[1]].tree[x[2]]
Full(x)       == args[x[1]].prefix \o x[2]
Records(e, x) == e.path = Full(x) /\ e.kind = Node(x).kind /\ e.size = Size(Node(x))

(* What is visited is in the archive, once; no directory was closed.       *)
OfKind(S, kind) == {x \in S : Node(x).kind = kind}
Coverage ==
    status = "walking" =>
      /\ Left \cap Gone = {}
      /\ Len(archive) = Cardinality(Visited)
      /\ \A x \in Visited : \E k \in DOMAIN archive : Records(archive[k], x)
      /\ opened = Cardinality(OfKind(Visited, "dir")) + arg

(* What is in the archive comes before what is left.                       *)
Order ==
    status = "walking" /\ Len(args) = 1 =>
      \A j \in DOMAIN archive : \A x \in Left : Precedes(archive[j].path, Full(x))

(* The running total is where the last entry ends.                         *)
EndOf(e) == Pad4(e.at + 110 + StrLen(e.path) + 1) + e.size
Ends ==
    status = "walking" =>
      /\ archive = << >> => total = 0
      /\ archive # << >> => total = EndOf(archive[Len(archive)])

(* mkimg.sh.                                                               *)
Script ==
    /\ stage # "pack" => status # "walking"
    /\ stage = "mkimage" => /\ ramdisk # "none" /\ (ramdisk = "done" => status = "done" /\ ~lost)
                            /\ faults = MaxFaults => ramdisk = status
    /\ stage \in {"pack", "mkimage"} => uramdisk = "old"
    /\ uramdisk = "done" => status = "done" /\ ~lost
    /\ stage = "exit 0" /\ faults = MaxFaults => uramdisk = status
    /\ stage = "exit 1" \/ unread # {} \/ lost => faults < MaxFaults

-----------------------------------------------------------------------------
(* The actions as they are when the buffers are in order.                  *)
NewEntry(i) == [path |-> Prefix \o i, kind |-> Tree[i].kind, size |-> Size(Tree[i]),
                at |-> Pad4(total), inode |-> next_inode + Len(archive)]
Prints(i)   == /\ archive' = Append(archive, NewEntry(i))
               /\ total' = EndOf(NewEntry(i))
Without(n)  == LET f == stack[Len(stack)]
               IN  [stack EXCEPT ![Len(stack)] = [f EXCEPT !.names = f.names \ {n}]]
FrameOf(i, names) == [names |-> names, ilen |-> Len(i), olen |-> Len(Prefix \o i),
                      len |-> StrLen(Prefix \o i)]

Leaf(n) ==
    LET i == Append(inp, n)
    IN  /\ Tree[i].kind \in {"file", "link"} /\ Prints(i)
        /\ stack' = Without(n) /\ inp' = inp /\ out' = out
        /\ UNCHANGED <<status, faults, opened, unread>>
Enter(n) ==
    LET i == Append(inp, n)
    IN  /\ Tree[i].kind = "dir" /\ Prints(i)
        /\ \E names \in SUBSET Entries(Tree, i) :
             ReadDir(names, arg, i) /\ stack' = Append(Without(n), FrameOf(i, names))
        /\ inp' = i /\ out' = Prefix \o i
        /\ opened < MaxFiles /\ opened' = opened + 1
        /\ UNCHANGED status
Fail(n) ==
    LET i == Append(inp, n)
    IN  /\ stack' = << >> /\ status' = "died" /\ UNCHANGED <<inp, out, opened, unread>>
        /\ Prints(i) \/ UNCHANGED <<archive, total>>
        /\ \/ Fault
           \/ faults' = faults /\ Tree[i].kind = "special"
           \/ faults' = faults /\ opened = MaxFiles /\ Tree[i].kind \in {"dir", "file"}

Taken(n) ==
    /\ status = "walking" /\ stack # << >> /\ UNCHANGED <<args, arg>>
    /\ Least(n, stack[Len(stack)].names) /\ Append(inp, n) \in DOMAIN Tree
    /\ Leaf(n) \/ Enter(n) \/ Fail(n)

LEMMA SeqOfVisible ==
    ASSUME NEW s \in Seq(Visible)
    PROVE  s \in Seq(NameSet)
  BY DEF Visible

LEMMA ArgFacts ==
    ASSUME args \in Arguments
    PROVE  /\ Len(args) \in Nat \ {0} /\ DOMAIN args = 1 .. Len(args)
           /\ \A k \in DOMAIN args : IsTree(args[k].tree) /\ args[k].prefix \in Seq(NameSet)
  BY BootfsAssumption

LinkSize(node) == Min({node.size, 1024})

LEMMA SizeIs ==
    ASSUME NEW node, node.kind \in Kinds, node.size \in Nat
    PROVE  /\ Size(node) \in Nat
           /\ node.kind = "dir" => Size(node) = 0
           /\ node.kind = "link" => Size(node) = LinkSize(node)
           /\ node.kind = "file" => Size(node) = node.size
<1>1. LinkSize(node) = IF node.size > 1024 THEN 1024 ELSE node.size
  BY MinOfTwo DEF LinkSize
<1>2. CASE node.kind = "dir"
  BY <1>2 DEF Size
<1>3. CASE node.kind = "link"
  BY <1>1, <1>3 DEF Size
<1>4. CASE node.kind \notin {"dir", "link"}
  BY <1>4 DEF Size
<1>. QED  BY <1>2, <1>3, <1>4

LEMMA ConcatAppend ==
    ASSUME NEW s \in Seq(NameSet), NEW t \in Seq(NameSet), NEW e \in NameSet
    PROVE  Append(s \o t, e) = s \o Append(t, e)
<1>1. Append(t, e) = t \o <<e>> /\ Append(s \o t, e) = (s \o t) \o <<e>>
  BY AppendIsConcat, ConcatProperties
<1>. QED  BY <1>1, ConcatAssociative

LEMMA ChangeLast ==
    ASSUME NEW S, NEW s \in Seq(S), s # << >>, NEW e \in S
    PROVE  Append(Front(s), e) = [s EXCEPT ![Len(s)] = e]
<1>. DEFINE t == Front(s)
<1>1. t \in Seq(S) /\ Len(t) = Len(s) - 1 /\ \A k \in 1 .. Len(s) - 1 : t[k] = s[k]
  <2>1. Len(s) \in Nat \ {0} /\ \A k \in 1 .. Len(s) - 1 : s[k] \in S
    OBVIOUS
  <2>2. Len(s) - 1 \in Int /\ t = SubSeq(s, 1, Len(s) - 1)
    BY <2>1 DEF Front
  <2>. HIDE DEF t
  <2>3. t \in Seq(S) /\ Len(t) = IF 1 <= Len(s) - 1 THEN Len(s) - 1 - 1 + 1 ELSE 0
    BY <2>1, <2>2, SubSeqProperties
  <2>4. \A k \in 1 .. Len(s) - 1 - 1 + 1 : t[k] = s[1 + k - 1]
    BY <2>1, <2>2, SubSeqProperties
  <2>5. PICK n \in Nat \ {0} : n = Len(s)
    BY <2>1
  <2>6. \A k \in 1 .. n - 1 : k \in 1 .. n - 1 - 1 + 1 /\ 1 + k - 1 = k
    BY <2>5
  <2>7. \A k \in 1 .. n - 1 : t[k] = s[k]
    BY <2>4, <2>5, <2>6
  <2>8. Len(t) = n - 1
    BY <2>3, <2>5
  <2>. QED  BY <2>3, <2>5, <2>7, <2>8
<1>. HIDE DEF t
<1>2. /\ Append(t, e) \in Seq(S) /\ Len(Append(t, e)) = Len(s) /\ Append(t, e)[Len(s)] = e
      /\ \A k \in 1 .. Len(s) - 1 : Append(t, e)[k] = s[k]
  <2>1. Len(s) \in Nat \ {0}
    OBVIOUS
  <2>. QED  BY <1>1, <2>1, AppendProperties
<1>3. PICK a : a = Append(t, e)
  OBVIOUS
<1>4. PICK b : b = [s EXCEPT ![Len(s)] = e]
  OBVIOUS
<1>5. b \in Seq(S) /\ Len(b) = Len(s) /\ \A k \in 1 .. Len(s) : b[k] = IF k = Len(s) THEN e ELSE s[k]
  BY <1>4, ExceptSeq
<1>6. Append(t, e) = [s EXCEPT ![Len(s)] = e]
  <2>1. a \in Seq(S) /\ Len(a) = Len(b) /\ \A k \in 1 .. Len(a) : a[k] = b[k]
    BY <1>2, <1>3, <1>5
  <2>2. a = b
    BY <1>5, <2>1, SeqEqual
  <2>. QED  BY <1>3, <1>4, <2>2
<1>. QED  BY <1>6 DEF t

LEMMA EjectIs ==
    ASSUME Shape, NEW o, NEW l \in Nat, NEW kind, NEW size, NEW i, Eject(o, l, kind, size),
           o = Prefix \o i, l = StrLen(o), kind = Tree[i].kind, size = Size(Tree[i])
    PROVE  Prints(i)
<1>1. Pad4(total) \in Nat
  BY PadFacts DEF Shape
<1>2. Pad4(total) + 6 + 8 * 13 + l + 1 = Pad4(total) + 110 + l + 1
  BY <1>1
<1>3. NewEntry(i) = [path |-> o, kind |-> kind, size |-> size, at |-> Pad4(total), inode |-> next_inode + Len(archive)]
  BY DEF NewEntry
<1>4. EndOf(NewEntry(i)) = Pad4(Pad4(total) + 110 + l + 1) + size
  BY <1>3 DEF EndOf
<1>. QED  BY <1>2, <1>3, <1>4 DEF Eject, Prints

LEMMA ArchiveIs ==
    ASSUME Shape, NEW n, NEW f, NEW i, NEW o, NEW l \in Nat, NEW rest, Archive(i, o, l, f, rest),
           i = Append(inp, n), o = Prefix \o i, l = StrLen(o), rest = Without(n),
           Tree[i].kind \in Kinds, Tree[i].size \in Nat,
           SubSeq(i, 1, f.ilen) = inp, SubSeq(o, 1, f.olen) = out
    PROVE  Leaf(n) \/ Enter(n) \/ Fail(n)
<1>. DEFINE node == Tree[i]
            size == IF node.kind = "link" THEN Min({node.size, 1024}) ELSE node.size
<1>1. PICK node2 : node2 = node
  OBVIOUS
<1>2. /\ node.kind = "dir" => Size(node) = 0
      /\ node.kind \in {"file", "link"} => Size(node) = size
  <2>1. node2.kind \in Kinds /\ node2.size \in Nat
    BY <1>1
  <2>2. /\ node2.kind = "dir" => Size(node2) = 0
        /\ node2.kind = "link" => Size(node2) = LinkSize(node2)
        /\ node2.kind = "file" => Size(node2) = node2.size
    BY <2>1, SizeIs, Zenon
  <2>3. LinkSize(node2) = Min({node2.size, 1024})
    BY DEF LinkSize
  <2>. QED  BY <1>1, <2>2, <2>3
<1>3. \/ /\ node.kind \in {"file", "link"} /\ Eject(o, l, node.kind, size)
         /\ stack' = rest /\ inp' = SubSeq(i, 1, f.ilen) /\ out' = SubSeq(o, 1, f.olen)
         /\ UNCHANGED <<status, faults, opened, unread>>
      \/ /\ node.kind = "dir" /\ Eject(o, l, "dir", 0) /\ OpenDir
         /\ \E names \in SUBSET Entries(Tree, i) :
              /\ ReadDir(names, arg, i)
              /\ stack' = Append(rest, [names |-> names, ilen |-> Len(i), olen |-> Len(o), len |-> l])
         /\ inp' = i /\ out' = o
         /\ UNCHANGED status
      \/ /\ node.kind = "special" \/ (node.kind = "file" /\ opened = MaxFiles)
         /\ Dies /\ UNCHANGED <<inp, out, opened, archive, total, faults, unread>>
      \/ /\ node.kind = "dir" /\ Eject(o, l, "dir", 0)
         /\ Dies /\ (Fault \/ NoMoreFiles) /\ UNCHANGED <<inp, out, opened, unread>>
      \/ /\ Dies /\ Fault /\ UNCHANGED <<inp, out, opened, archive, total, unread>>
  BY Zenon DEF Archive, Tree
<1>. HIDE DEF node, size
<1>n. node = Tree[i]
  BY DEF node
<1>4. CASE /\ node.kind \in {"file", "link"} /\ Eject(o, l, node.kind, size)
           /\ stack' = rest /\ inp' = SubSeq(i, 1, f.ilen) /\ out' = SubSeq(o, 1, f.olen)
           /\ UNCHANGED <<status, faults, opened, unread>>
  <2>1. Prints(i)
    <3>1. size = Size(Tree[i]) /\ node.kind = Tree[i].kind
      BY <1>2, <1>4, <1>n
    <3>. QED  BY <1>4, <3>1, EjectIs, Zenon
  <2>2. Tree[i].kind \in {"file", "link"} /\ stack' = Without(n) /\ inp' = inp /\ out' = out /\ UNCHANGED <<status, faults, opened, unread>>
    BY <1>4, <1>n
  <2>. QED  BY <2>1, <2>2, Zenon DEF Leaf
<1>5. CASE /\ node.kind = "dir" /\ Eject(o, l, "dir", 0) /\ OpenDir
           /\ \E names \in SUBSET Entries(Tree, i) :
                /\ ReadDir(names, arg, i)
                /\ stack' = Append(rest, [names |-> names, ilen |-> Len(i), olen |-> Len(o), len |-> l])
           /\ inp' = i /\ out' = o
           /\ UNCHANGED status
  <2>1. Prints(i)
    <3>1. 0 = Size(Tree[i]) /\ "dir" = Tree[i].kind
      BY <1>2, <1>5, <1>n
    <3>. QED  BY <1>5, <3>1, EjectIs, Zenon
  <2>2. \E names \in SUBSET Entries(Tree, i) :
          ReadDir(names, arg, i) /\ stack' = Append(Without(n), FrameOf(i, names))
    <3>1. PICK names \in SUBSET Entries(Tree, i) :
            /\ ReadDir(names, arg, i)
            /\ stack' = Append(rest, [names |-> names, ilen |-> Len(i), olen |-> Len(o), len |-> l])
      BY <1>5, Zenon
    <3>2. FrameOf(i, names) = [names |-> names, ilen |-> Len(i), olen |-> Len(o), len |-> l]
      BY DEF FrameOf
    <3>. QED  BY <3>1, <3>2, Zenon
  <2>3. /\ Tree[i].kind = "dir" /\ inp' = i /\ out' = Prefix \o i
        /\ opened < MaxFiles /\ opened' = opened + 1 /\ UNCHANGED status
    BY <1>5, <1>n DEF OpenDir
  <2>. QED  BY <2>1, <2>2, <2>3, Zenon DEF Enter
<1>6. CASE /\ node.kind = "special" \/ (node.kind = "file" /\ opened = MaxFiles)
           /\ Dies /\ UNCHANGED <<inp, out, opened, archive, total, faults, unread>>
  BY <1>6, <1>n DEF Fail, Dies
<1>7. CASE /\ node.kind = "dir" /\ Eject(o, l, "dir", 0)
           /\ Dies /\ (Fault \/ NoMoreFiles) /\ UNCHANGED <<inp, out, opened, unread>>
  <2>1. Prints(i)
    <3>1. 0 = Size(Tree[i]) /\ "dir" = Tree[i].kind
      BY <1>2, <1>7, <1>n
    <3>. QED  BY <1>7, <3>1, EjectIs, Zenon
  <2>. QED  BY <1>7, <1>n, <2>1 DEF Fail, Dies, NoMoreFiles
<1>8. CASE Dies /\ Fault /\ UNCHANGED <<inp, out, opened, archive, total, unread>>
  BY <1>8 DEF Fail, Dies
<1>. QED  BY <1>3, <1>4, <1>5, <1>6, <1>7, <1>8, Zenon

LEMMA VisitIs ==
    ASSUME Shape, Buffers, Visit
    PROVE  \E n \in Visible : Taken(n)
<1>1. status = "walking" /\ stack # << >> /\ UNCHANGED <<args, arg>>
  BY Zenon DEF Visit
<1>2. PICK n, f, ii, oo, ll, rr :
         /\ f = Last(stack) /\ n \in f.names /\ Least(n, f.names)
         /\ ii = Append(SubSeq(inp, 1, f.ilen), n) /\ oo = Append(SubSeq(out, 1, f.olen), n)
         /\ ll = PathLen(f.len, n) /\ rr = Append(Front(stack), [f EXCEPT !.names = @ \ {n}])
         /\ Archive(ii, oo, ll, f, rr)
  BY Zenon DEF Visit
<1>3. PICK L \in DOMAIN stack : L = Len(stack) /\ f = stack[L] /\ f \in Frame /\ stack \in Seq(Frame)
  <2>1. stack \in Seq(Frame) /\ f = stack[Len(stack)]
    BY <1>2 DEF Last, Shape
  <2>2. Len(stack) \in DOMAIN stack /\ stack[Len(stack)] \in Frame
    BY <1>1, <2>1
  <2>. QED  BY <2>1, <2>2
<1>4. n \in Visible /\ n \in NameSet
  BY <1>2, <1>3 DEF Frame, Visible
<1>5. /\ arg \in DOMAIN args /\ Prefix \in Seq(NameSet) /\ IsTree(Tree)
      /\ inp \in Seq(Visible) /\ inp \in Seq(NameSet) /\ out \in Seq(NameSet)
  <2>1. args \in Arguments /\ arg \in 0 .. Len(args) /\ arg >= 1 /\ inp \in Seq(Visible) /\ out \in Seq(NameSet)
    BY <1>1 DEF Shape, Buffers
  <2>2. arg \in DOMAIN args
    BY <2>1, ArgFacts
  <2>. QED  BY <2>1, <2>2, ArgFacts, SeqOfVisible DEF Prefix, Tree
<1>6. PICK i, o : i = Append(inp, n) /\ o = Prefix \o i
  OBVIOUS
<1>7. /\ Len(inp) = L - 1 /\ out = Prefix \o inp /\ Len(out) = Len(Prefix) + Len(inp)
      /\ f.ilen = Len(inp) /\ f.olen = Len(out)
  <2>1. Len(inp) = L - 1 /\ out = Prefix \o inp /\ f.ilen = L - 1 /\ f.olen = Len(Prefix) + L - 1
    BY <1>1, <1>3 DEF Buffers
  <2>2. Len(out) = Len(Prefix) + Len(inp) /\ Len(Prefix) \in Nat /\ Len(inp) \in Nat /\ L \in Nat
    BY <1>3, <1>5, <2>1, ConcatProperties
  <2>. QED  BY <2>1, <2>2
<1>8. SubSeq(inp, 1, f.ilen) = inp /\ SubSeq(out, 1, f.olen) = out
  BY <1>5, <1>7, SubSeqFull
<1>9. f.len = StrLen(out) /\ i \in DOMAIN Tree
  BY <1>1, <1>2, <1>3, <1>6, <1>7, <1>8 DEF Buffers
<1>10. ii = i /\ oo = o /\ i \in Seq(NameSet) /\ o \in Seq(NameSet) /\ oo = Append(out, n)
  <2>1. Append(Prefix \o inp, n) = Prefix \o Append(inp, n)
    BY <1>4, <1>5, ConcatAppend
  <2>2. i \in Seq(NameSet)
    BY <1>4, <1>5, <1>6, AppendProperties
  <2>3. o \in Seq(NameSet)
    BY <1>5, <1>6, <2>2, ConcatProperties
  <2>. QED  BY <1>2, <1>6, <1>7, <1>8, <2>1, <2>2, <2>3
<1>11. ll = StrLen(o) /\ ll \in Nat
  <2>1. StrLen(Append(out, n)) = PathLen(StrLen(out), n)
    BY <1>4, <1>5, StrLenFacts
  <2>2. StrLen(o) \in Nat
    BY <1>10, StrLenFacts
  <2>. QED  BY <1>2, <1>9, <1>10, <2>1, <2>2
<1>12. SubSeq(i, 1, f.ilen) = inp /\ SubSeq(o, 1, f.olen) = out
  <2>1. SubSeq(Append(inp, n), 1, Len(inp)) = inp /\ SubSeq(Append(out, n), 1, Len(out)) = out
    BY <1>4, <1>5, CutAll
  <2>. QED  BY <1>6, <1>7, <1>10, <2>1
<1>13. rr = Without(n)
  <2>1. PICK g \in Frame : g = [f EXCEPT !.names = f.names \ {n}]
    BY <1>3 DEF Frame
  <2>2. Append(Front(stack), g) = [stack EXCEPT ![Len(stack)] = g]
    BY <1>1, <1>3, ChangeLast
  <2>3. Without(n) = [stack EXCEPT ![Len(stack)] = g]
    BY <1>3, <2>1 DEF Without
  <2>. QED  BY <1>2, <2>1, <2>2, <2>3
<1>14. Tree[i].kind \in Kinds /\ Tree[i].size \in Nat
  BY <1>5, <1>9 DEF IsTree
<1>15. Archive(i, o, ll, f, rr)
  BY <1>2, <1>10
<1>16. Leaf(n) \/ Enter(n) \/ Fail(n)
  BY <1>6, <1>11, <1>12, <1>13, <1>14, <1>15, ArchiveIs
<1>. QED  BY <1>1, <1>2, <1>3, <1>4, <1>6, <1>9, <1>16 DEF Taken

LEMMA CutCut ==
    ASSUME NEW S, NEW s \in Seq(S), NEW k \in 0 .. Len(s), NEW j \in 0 .. k
    PROVE  /\ SubSeq(s, 1, k) \in Seq(S) /\ Len(SubSeq(s, 1, k)) = k
           /\ \A h \in 1 .. k : SubSeq(s, 1, k)[h] = s[h]
           /\ SubSeq(SubSeq(s, 1, k), 1, j) = SubSeq(s, 1, j)
<1>1. PICK t : t = SubSeq(s, 1, k)
  OBVIOUS
<1>2. t \in Seq(S) /\ Len(t) = k /\ \A h \in 1 .. k : t[h] = s[h]
  BY <1>1
<1>3. SubSeq(t, 1, j) = SubSeq(s, 1, j)
  <2>1. PICK a, b : a = SubSeq(t, 1, j) /\ b = SubSeq(s, 1, j)
    OBVIOUS
  <2>2. a \in Seq(S) /\ Len(a) = j /\ \A h \in 1 .. j : a[h] = t[h]
    BY <1>2, <2>1
  <2>3. b \in Seq(S) /\ Len(b) = j /\ \A h \in 1 .. j : b[h] = s[h]
    BY <2>1
  <2>4. a = b
    BY <1>2, <2>2, <2>3, SeqEqual
  <2>. QED  BY <2>1, <2>4
<1>. QED  BY <1>1, <1>2, <1>3

LEMMA CutConcat ==
    ASSUME NEW s \in Seq(NameSet), NEW t \in Seq(NameSet), NEW k \in 0 .. Len(t)
    PROVE  SubSeq(s \o t, 1, Len(s) + k) = s \o SubSeq(t, 1, k)
<1>1. PICK c : c = s \o t
  OBVIOUS
<1>2. c \in Seq(NameSet) /\ Len(c) = Len(s) + Len(t)
  BY <1>1, ConcatProperties
<1>3. \A h \in 1 .. Len(s) + Len(t) : c[h] = IF h <= Len(s) THEN s[h] ELSE t[h - Len(s)]
  BY <1>1, ConcatProperties
<1>4. PICK d : d = SubSeq(t, 1, k)
  OBVIOUS
<1>5. d \in Seq(NameSet) /\ Len(d) = k /\ \A h \in 1 .. k : d[h] = t[h]
  BY <1>4
<1>6. PICK a, b : a = SubSeq(c, 1, Len(s) + k) /\ b = s \o d
  OBVIOUS
<1>7. a \in Seq(NameSet) /\ Len(a) = Len(s) + k /\ \A h \in 1 .. Len(s) + k : a[h] = c[h]
  BY <1>2, <1>6
<1>8. b \in Seq(NameSet) /\ Len(b) = Len(s) + k
  BY <1>5, <1>6, ConcatProperties
<1>9. \A h \in 1 .. Len(s) + k : b[h] = IF h <= Len(s) THEN s[h] ELSE d[h - Len(s)]
  BY <1>5, <1>6, ConcatProperties
<1>10. ASSUME NEW h \in 1 .. Len(s) + k PROVE a[h] = b[h]
  <2>1. a[h] = IF h <= Len(s) THEN s[h] ELSE t[h - Len(s)]
    <3>1. h \in 1 .. Len(s) + Len(t)
      OBVIOUS
    <3>. QED  BY <1>3, <1>7, <3>1
  <2>2. h > Len(s) => h - Len(s) \in 1 .. k
    OBVIOUS
  <2>. QED  BY <1>5, <1>9, <2>1, <2>2
<1>11. a = b
  BY <1>7, <1>8, <1>10, SeqEqual
<1>. QED  BY <1>1, <1>4, <1>6, <1>11

LEMMA WithoutFacts ==
    ASSUME stack \in Seq(Frame), stack # << >>, NEW n
    PROVE  /\ Without(n) \in Seq(Frame) /\ Len(Without(n)) = Len(stack)
           /\ \A j \in 1 .. Len(stack) :
                /\ Without(n)[j].ilen = stack[j].ilen /\ Without(n)[j].olen = stack[j].olen
                /\ Without(n)[j].len = stack[j].len
                /\ Without(n)[j].names = IF j = Len(stack) THEN stack[j].names \ {n} ELSE stack[j].names
<1>1. PICK L \in 1 .. Len(stack) : L = Len(stack)
  OBVIOUS
<1>2. PICK f \in Frame : f = stack[L]
  BY <1>1
<1>3. PICK g \in Frame : g = [f EXCEPT !.names = f.names \ {n}]
  BY <1>2 DEF Frame
<1>4. g.ilen = f.ilen /\ g.olen = f.olen /\ g.len = f.len /\ g.names = f.names \ {n}
  BY <1>2, <1>3 DEF Frame
<1>5. Without(n) = [stack EXCEPT ![L] = g]
  BY <1>1, <1>2, <1>3 DEF Without
<1>6. /\ Without(n) \in Seq(Frame) /\ Len(Without(n)) = Len(stack)
      /\ \A j \in 1 .. Len(stack) : Without(n)[j] = IF j = L THEN g ELSE stack[j]
  BY <1>1, <1>5, ExceptSeq
<1>. QED  BY <1>1, <1>2, <1>4, <1>6

LEMMA ArgIn ==
    ASSUME Shape, Buffers, stack # << >>
    PROVE  /\ arg \in DOMAIN args /\ Prefix \in Seq(NameSet) /\ IsTree(Tree)
           /\ inp \in Seq(Visible) /\ inp \in Seq(NameSet) /\ out = Prefix \o inp
           /\ Len(inp) = Len(stack) - 1 /\ stack \in Seq(Frame)
<1>1. /\ args \in Arguments /\ arg \in 0 .. Len(args) /\ arg >= 1 /\ inp \in Seq(Visible) /\ out \in Seq(NameSet)
      /\ out = Prefix \o inp /\ Len(inp) = Len(stack) - 1 /\ stack \in Seq(Frame)
  BY DEF Shape, Buffers
<1>2. arg \in DOMAIN args
  BY <1>1, ArgFacts
<1>. QED  BY <1>1, <1>2, ArgFacts, SeqOfVisible DEF Prefix, Tree

(* What a directory entry that is printed looks like.                      *)
LEMMA TakenPath ==
    ASSUME Shape, Buffers, stack # << >>, NEW n \in Visible, Append(inp, n) \in DOMAIN Tree
    PROVE  /\ Append(inp, n) \in Seq(Visible) /\ Append(inp, n) \in Seq(NameSet)
           /\ Len(Append(inp, n)) = Len(stack) /\ Append(inp, n)[Len(stack)] = n
           /\ \A h \in 1 .. Len(stack) - 1 : Append(inp, n)[h] = inp[h]
           /\ Prefix \o Append(inp, n) \in Seq(NameSet)
           /\ Tree[Append(inp, n)].kind \in Kinds /\ Tree[Append(inp, n)].size \in Nat
           /\ StrLen(Prefix \o Append(inp, n)) \in Nat
<1>1. inp \in Seq(Visible) /\ inp \in Seq(NameSet) /\ Len(inp) = Len(stack) - 1 /\ Prefix \in Seq(NameSet) /\ IsTree(Tree) /\ Len(stack) \in Nat
  BY ArgIn DEF Shape
<1>2. PICK i : i = Append(inp, n)
  OBVIOUS
<1>3. i \in Seq(Visible) /\ Len(i) = Len(inp) + 1 /\ i[Len(inp) + 1] = n /\ \A h \in 1 .. Len(inp) : i[h] = inp[h]
  BY <1>1, <1>2, AppendProperties
<1>4. i \in Seq(NameSet) /\ Prefix \o i \in Seq(NameSet)
  BY <1>1, <1>3, SeqOfVisible, ConcatProperties
<1>5. Tree[i].kind \in Kinds /\ Tree[i].size \in Nat
  BY <1>1, <1>2 DEF IsTree
<1>6. StrLen(Prefix \o i) \in Nat
  BY <1>4, StrLenFacts
<1>. QED  BY <1>1, <1>2, <1>3, <1>4, <1>5, <1>6

LEMMA PrintsFacts ==
    ASSUME Shape, Buffers, stack # << >>, NEW n \in Visible, Append(inp, n) \in DOMAIN Tree, Prints(Append(inp, n))
    PROVE  /\ archive' \in Seq(Entry) /\ total' \in Nat /\ Len(archive') = Len(archive) + 1
           /\ archive'[Len(archive) + 1] = NewEntry(Append(inp, n)) /\ NewEntry(Append(inp, n)) \in Entry
           /\ \A k \in 1 .. Len(archive) : archive'[k] = archive[k]
<1>1. PICK i : i = Append(inp, n)
  OBVIOUS
<1>2. Prefix \o i \in Seq(NameSet) /\ Tree[i].kind \in Kinds /\ Tree[i].size \in Nat /\ StrLen(Prefix \o i) \in Nat
  BY <1>1, TakenPath
<1>3. Size(Tree[i]) \in Nat
  <2>1. PICK node : node = Tree[i]
    OBVIOUS
  <2>2. node.kind \in Kinds /\ node.size \in Nat
    BY <1>2, <2>1
  <2>3. Size(node) \in Nat
    BY <2>2, SizeIs, Zenon
  <2>. QED  BY <2>1, <2>3
<1>4. Pad4(total) \in Nat
  BY PadFacts DEF Shape
<1>5. Prefix \o i \in Seq(NameSet \cup {"TRAILER!!!"})
  BY <1>2
<1>6. archive \in Seq(Entry) /\ Len(archive) \in Nat
  BY DEF Shape
<1>7. PICK e : e = NewEntry(i)
  OBVIOUS
<1>8. e \in Entry
  BY <1>2, <1>3, <1>4, <1>5, <1>6, <1>7, InodeIs DEF NewEntry, Entry
<1>9. EndOf(e) \in Nat
  <2>1. e.at = Pad4(total) /\ e.path = Prefix \o i /\ e.size = Size(Tree[i])
    BY <1>7 DEF NewEntry
  <2>2. Pad4(total) + 110 + StrLen(Prefix \o i) + 1 \in Nat
    BY <1>2, <1>4
  <2>3. Pad4(Pad4(total) + 110 + StrLen(Prefix \o i) + 1) \in Nat
    BY <2>2, PadFacts
  <2>. QED  BY <1>3, <2>1, <2>3 DEF EndOf
<1>10. archive' = Append(archive, e) /\ total' = EndOf(e)
  BY <1>1, <1>7 DEF Prints
<1>. QED  BY <1>1, <1>6, <1>7, <1>8, <1>9, <1>10, AppendProperties

(* _archive_dir returns to its caller.                                     *)
LEMMA ReturnIs ==
    ASSUME Shape, Buffers, Return
    PROVE  /\ status = "walking" /\ stack # << >> /\ stack[Len(stack)].names = {}
           /\ UNCHANGED <<args, arg, opened, archive, total, status, faults, unread>>
           /\ stack' \in Seq(Frame) /\ Len(stack') = Len(stack) - 1
           /\ \A j \in 1 .. Len(stack) - 1 : stack'[j] = stack[j]
           /\ inp' \in Seq(Visible) /\ out' \in Seq(NameSet)
           /\ Len(stack) > 1 =>
                /\ Len(inp') = Len(stack) - 2 /\ out' = Prefix \o inp'
                /\ \A h \in 1 .. Len(stack) - 2 : inp'[h] = inp[h]
                /\ \A j \in 0 .. Len(stack) - 2 : SubSeq(inp', 1, j) = SubSeq(inp, 1, j)
<1>1. /\ status = "walking" /\ stack # << >> /\ Last(stack).names = {} /\ stack' = Front(stack)
      /\ inp' = (IF Len(stack) = 1 THEN inp ELSE SubSeq(inp, 1, stack[Len(stack) - 1].ilen))
      /\ out' = (IF Len(stack) = 1 THEN out ELSE SubSeq(out, 1, stack[Len(stack) - 1].olen))
      /\ UNCHANGED <<args, arg, opened, archive, total, status, faults, unread>>
  BY Zenon DEF Return
<1>2. /\ inp \in Seq(Visible) /\ inp \in Seq(NameSet) /\ out = Prefix \o inp /\ Prefix \in Seq(NameSet)
      /\ Len(inp) = Len(stack) - 1 /\ stack \in Seq(Frame)
  BY <1>1, ArgIn
<1>3. PICK L \in Nat \ {0} : L = Len(stack)
  BY <1>1, <1>2
<1>4. stack[L].names = {} /\ out \in Seq(NameSet)
  BY <1>1, <1>3 DEF Last, Shape
<1>5. stack' \in Seq(Frame) /\ Len(stack') = L - 1 /\ \A j \in 1 .. L - 1 : stack'[j] = stack[j]
  <2>1. stack' = SubSeq(stack, 1, L - 1) /\ L - 1 \in 0 .. Len(stack)
    BY <1>1, <1>3 DEF Front
  <2>. QED  BY <1>2, <2>1, CutCut
<1>6. CASE L = 1
  BY <1>1, <1>2, <1>3, <1>4, <1>5, <1>6
<1>7. CASE L > 1
  <2>1. stack[L - 1].ilen = L - 2 /\ stack[L - 1].olen = Len(Prefix) + L - 2
    <3>1. PICK k \in DOMAIN stack : k = L - 1
      BY <1>2, <1>3, <1>7
    <3>2. stack[k].ilen = k - 1 /\ stack[k].olen = Len(Prefix) + k - 1
      BY <1>1 DEF Buffers
    <3>3. Len(Prefix) \in Nat
      BY <1>2
    <3>. QED  BY <3>1, <3>2, <3>3
  <2>2. inp' = SubSeq(inp, 1, L - 2) /\ out' = SubSeq(out, 1, Len(Prefix) + L - 2)
    BY <1>1, <1>3, <1>7, <2>1
  <2>3. L - 2 \in 0 .. Len(inp) /\ Len(inp) = L - 1
    BY <1>2, <1>3, <1>7
  <2>4. /\ inp' \in Seq(Visible) /\ Len(inp') = L - 2 /\ \A h \in 1 .. L - 2 : inp'[h] = inp[h]
    BY <1>2, <2>2, <2>3, CutCut
  <2>5. ASSUME NEW j \in 0 .. L - 2 PROVE SubSeq(inp', 1, j) = SubSeq(inp, 1, j)
    BY <1>2, <2>2, <2>3, CutCut
  <2>6. out' = Prefix \o inp'
    <3>1. SubSeq(Prefix \o inp, 1, Len(Prefix) + (L - 2)) = Prefix \o SubSeq(inp, 1, L - 2)
      BY <1>2, <2>3, CutConcat
    <3>2. Len(Prefix) + (L - 2) = Len(Prefix) + L - 2
      BY <1>2
    <3>. QED  BY <1>2, <2>2, <3>1, <3>2
  <2>7. out' \in Seq(NameSet)
    BY <1>2, <2>4, <2>6, SeqOfVisible, ConcatProperties
  <2>. QED  BY <1>1, <1>3, <1>4, <1>5, <2>4, <2>5, <2>6, <2>7
<1>8. L = 1 \/ L > 1
  BY <1>3
<1>. QED  BY <1>6, <1>7, <1>8, Zenon

(* main opens the directory of the next argument, or dies.                 *)
Opens ==
    /\ opened < MaxFiles /\ opened' = opened + 1 /\ inp' = << >> /\ out' = Prefix'
    /\ \E names \in SUBSET Entries(Tree', << >>) :
         /\ ReadDir(names, arg + 1, << >>)
         /\ stack' = <<[names |-> names, ilen |-> 0, olen |-> Len(Prefix'), len |-> StrLen(Prefix')]>>
    /\ UNCHANGED status
OpensNot ==
    /\ stack' = << >> /\ status' = "died" /\ UNCHANGED <<inp, out, opened, unread>>
    /\ Fault \/ (opened = MaxFiles /\ faults' = faults)

LEMMA NextArgIs ==
    ASSUME Shape, NextArg
    PROVE  /\ status = "walking" /\ stack = << >> /\ arg < Len(args) /\ arg' = arg + 1
           /\ UNCHANGED <<args, archive, total>>
           /\ arg' \in DOMAIN args' /\ IsTree(Tree') /\ Prefix' \in Seq(NameSet)
           /\ Opens \/ OpensNot
<1>1. /\ status = "walking" /\ stack = << >> /\ arg < Len(args) /\ arg' = arg + 1
      /\ UNCHANGED <<args, archive, total>>
  BY Zenon DEF NextArg
<1>2. args \in Arguments /\ arg \in 0 .. Len(args) /\ Len(args) \in Nat
  BY ArgFacts DEF Shape
<1>3. arg + 1 \in DOMAIN args
  BY <1>1, <1>2, ArgFacts
<1>4. IsTree(args[arg + 1].tree) /\ args[arg + 1].prefix \in Seq(NameSet)
  BY <1>2, <1>3, ArgFacts
<1>5. Tree' = args[arg + 1].tree /\ Prefix' = args[arg + 1].prefix
  BY <1>1 DEF Tree, Prefix
<1>6. Opens \/ OpensNot
  BY <1>1, <1>5 DEF NextArg, Opens, OpensNot, OpenDir, Dies, NoMoreFiles
<1>. QED  BY <1>1, <1>3, <1>4, <1>5, <1>6

LEMMA TrailerIs ==
    ASSUME Shape, Trailer
    PROVE  /\ status = "walking" /\ stack = << >> /\ arg = Len(args) /\ status' = "done"
           /\ UNCHANGED <<args, arg, stack, inp, out, opened, faults, unread>>
           /\ archive' \in Seq(Entry) /\ Len(archive') = Len(archive) + 1
           /\ \A k \in 1 .. Len(archive) : archive'[k] = archive[k]
           /\ archive'[Len(archive) + 1].path = <<"TRAILER!!!">>
           /\ archive'[Len(archive) + 1].kind = "trailer"
           /\ archive'[Len(archive) + 1].at = Pad4(total)
           /\ total' \in Nat /\ total' % 256 = 0
<1>. DEFINE e == [path |-> <<"TRAILER!!!">>, kind |-> "trailer", size |-> 0,
                  at |-> Pad4(total), inode |-> next_inode + Len(archive)]
<1>1. /\ status = "walking" /\ stack = << >> /\ arg = Len(args) /\ status' = "done"
      /\ UNCHANGED <<args, arg, stack, inp, out, opened, faults, unread>>
      /\ archive' = Append(archive, e) /\ total' = Pad256(Pad4(Pad4(total) + 6 + 8 * 13 + 10 + 1))
  BY Zenon DEF Trailer
<1>2. Pad4(total) \in Nat /\ archive \in Seq(Entry) /\ Len(archive) \in Nat
  <2>1. archive \in Seq(Entry) /\ total \in Nat
    BY DEF Shape
  <2>2. Pad4(total) \in Nat
    BY <2>1, PadFacts, Zenon
  <2>3. Len(archive) \in Nat
    BY <2>1, LenProperties
  <2>. QED  BY <2>1, <2>2, <2>3
<1>3. e \in Entry
  BY <1>2, InodeIs DEF Entry
<1>4. total' \in Nat /\ total' % 256 = 0
  <2>1. PICK t \in Nat : t = Pad4(total) + 6 + 8 * 13 + 10 + 1
    BY <1>2
  <2>2. PICK u \in Nat : u = Pad4(t)
    BY PadFacts
  <2>3. Pad256(u) \in Nat /\ Pad256(u) % 256 = 0
    BY PadFacts
  <2>. QED  BY <1>1, <2>1, <2>2, <2>3
<1>5. e.path = <<"TRAILER!!!">> /\ e.kind = "trailer" /\ e.at = Pad4(total)
  OBVIOUS
<1>. HIDE DEF e
<1>. QED  BY <1>1, <1>2, <1>3, <1>4, <1>5, AppendProperties

-----------------------------------------------------------------------------
(* Shape, Buffers and Descent are kept by every step of the walk.          *)
WalkStep == NextArg \/ (\E n \in Visible : Taken(n)) \/ Return \/ Trailer

LEMMA FaultFacts ==
    ASSUME Shape
    PROVE  Fault => faults' \in 0 .. MaxFaults /\ faults' < MaxFaults
  BY BootfsAssumption DEF Fault, Shape

(* readdir passes over names only at the price of a fault.                 *)
LEMMA ReadDirFacts ==
    ASSUME Shape, NEW names, NEW a, NEW d, ReadDir(names, a, d)
    PROVE  /\ unread' = unread \cup NotRead(a, d, names)
           /\ faults' \in 0 .. MaxFaults
           /\ (unread' = unread /\ faults' = faults) \/ faults' < MaxFaults
<1>1. unread' = unread \cup NotRead(a, d, names)
  BY DEF ReadDir, NotRead
<1>2. CASE Fault
  BY <1>1, <1>2, FaultFacts
<1>3. CASE names = Entries(args[a].tree, d) /\ faults' = faults
  <2>1. NotRead(a, d, names) = {}
    BY <1>3 DEF NotRead
  <2>. QED  BY <1>1, <1>3, <2>1 DEF Shape
<1>. QED  BY <1>2, <1>3 DEF ReadDir

LEMMA EntriesVisible ==
    ASSUME NEW t, NEW d
    PROVE  Entries(t, d) \in SUBSET Visible
  BY DEF Entries, Visible

LEMMA EntryIn ==
    ASSUME NEW t, NEW d, NEW m \in Entries(t, d)
    PROVE  Append(d, m) \in DOMAIN t
  BY DEF Entries

LEMMA ConcatLen ==
    ASSUME NEW s \in Seq(NameSet), NEW t \in Seq(NameSet)
    PROVE  Len(s \o t) = Len(s) + Len(t) /\ Len(s) \in Nat
  BY ConcatProperties

LEMMA EnterStack ==
    ASSUME Shape, Buffers, NEW n \in Visible, Taken(n), Enter(n)
    PROVE  /\ stack' \in Seq(Frame) /\ Len(stack') = Len(stack) + 1
           /\ \E names \in SUBSET Entries(Tree, Append(inp, n)) :
                /\ ReadDir(names, arg, Append(inp, n))
                /\ stack'[Len(stack) + 1] = FrameOf(Append(inp, n), names)
           /\ \A j \in 1 .. Len(stack) : stack'[j] = Without(n)[j]
<1>0. PICK names \in SUBSET Entries(Tree, Append(inp, n)) :
        /\ ReadDir(names, arg, Append(inp, n))
        /\ stack' = Append(Without(n), FrameOf(Append(inp, n), names))
  BY DEF Enter
<1>1. stack # << >> /\ Append(inp, n) \in DOMAIN Tree
  BY DEF Taken
<1>2. Without(n) \in Seq(Frame) /\ Len(Without(n)) = Len(stack)
  BY <1>1, WithoutFacts DEF Shape
<1>3. FrameOf(Append(inp, n), names) \in Frame
  <2>1. PICK i : i = Append(inp, n)
    OBVIOUS
  <2>2. i \in Seq(NameSet) /\ Prefix \o i \in Seq(NameSet) /\ StrLen(Prefix \o i) \in Nat
    BY <1>1, <2>1, TakenPath
  <2>3. names \in SUBSET Visible /\ Len(i) \in Nat /\ Len(Prefix \o i) \in Nat
    BY <1>0, <2>2, EntriesVisible
  <2>. QED  BY <2>1, <2>2, <2>3 DEF FrameOf, Frame
<1>. QED  BY <1>0, <1>1, <1>2, <1>3, AppendProperties

LEMMA ShapeStep ==
    ASSUME Shape, Buffers, WalkStep
    PROVE  Shape'
<1>. USE DEF Shape
<1>1. CASE NextArg
  <2>1. /\ arg < Len(args) /\ arg' = arg + 1 /\ UNCHANGED <<args, archive, total>>
        /\ Prefix' \in Seq(NameSet) /\ (Opens \/ OpensNot)
    BY <1>1, NextArgIs
  <2>2. arg' \in 0 .. Len(args')
    BY <2>1, ArgFacts
  <2>3. CASE Opens
    <3>0. PICK names \in SUBSET Entries(Tree', << >>) :
            /\ ReadDir(names, arg + 1, << >>)
            /\ stack' = <<[names |-> names, ilen |-> 0, olen |-> Len(Prefix'), len |-> StrLen(Prefix')]>>
      BY <2>3 DEF Opens
    <3>1. PICK f : f = [names |-> names, ilen |-> 0, olen |-> Len(Prefix'), len |-> StrLen(Prefix')]
      OBVIOUS
    <3>2. Len(Prefix') \in Nat /\ StrLen(Prefix') \in Nat /\ names \in SUBSET Visible
      BY <2>1, <3>0, StrLenFacts, EntriesVisible
    <3>3. f \in Frame
      BY <3>1, <3>2 DEF Frame
    <3>4. /\ stack' = <<f>> /\ inp' = << >> /\ out' = Prefix' /\ opened < MaxFiles /\ opened' = opened + 1
          /\ UNCHANGED status /\ faults' \in 0 .. MaxFaults
      BY <2>3, <3>0, <3>1, ReadDirFacts DEF Opens
    <3>5. stack' \in Seq(Frame) /\ inp' \in Seq(Visible) /\ opened' \in 0 .. MaxFiles
      BY <3>3, <3>4, BootfsAssumption
    <3>. QED  BY <2>1, <2>2, <3>4, <3>5
  <2>4. CASE OpensNot
    BY <2>1, <2>2, <2>4, FaultFacts DEF OpensNot
  <2>. QED  BY <2>1, <2>3, <2>4
<1>2. ASSUME NEW n \in Visible, Taken(n) PROVE Shape'
  <2>1. stack # << >> /\ Append(inp, n) \in DOMAIN Tree /\ UNCHANGED <<args, arg>> /\ (Leaf(n) \/ Enter(n) \/ Fail(n))
    BY <1>2 DEF Taken
  <2>2. CASE Leaf(n)
    <3>1. Without(n) \in Seq(Frame)
      BY <2>1, WithoutFacts
    <3>2. archive' \in Seq(Entry) /\ total' \in Nat
      BY <2>1, <2>2, PrintsFacts DEF Leaf
    <3>. QED  BY <2>1, <2>2, <3>1, <3>2 DEF Leaf
  <2>3. CASE Enter(n)
    <3>1. stack' \in Seq(Frame)
      BY <1>2, <2>3, EnterStack
    <3>2. archive' \in Seq(Entry) /\ total' \in Nat
      BY <2>1, <2>3, PrintsFacts DEF Enter
    <3>3. inp' \in Seq(Visible) /\ out' \in Seq(NameSet)
      BY <2>1, <2>3, TakenPath DEF Enter
    <3>4. opened' \in 0 .. MaxFiles /\ UNCHANGED status /\ faults' \in 0 .. MaxFaults
      BY <2>3, BootfsAssumption, ReadDirFacts DEF Enter
    <3>. QED  BY <2>1, <3>1, <3>2, <3>3, <3>4
  <2>4. CASE Fail(n)
    <3>1. archive' \in Seq(Entry) /\ total' \in Nat
      BY <2>1, <2>4, PrintsFacts DEF Fail
    <3>2. faults' \in 0 .. MaxFaults
      BY <2>4, FaultFacts DEF Fail
    <3>. QED  BY <2>1, <2>4, <3>1, <3>2 DEF Fail
  <2>. QED  BY <2>1, <2>2, <2>3, <2>4
<1>3. CASE Return
  <2>1. /\ UNCHANGED <<args, arg, opened, archive, total, status, faults, unread>>
        /\ stack' \in Seq(Frame) /\ inp' \in Seq(Visible) /\ out' \in Seq(NameSet)
    BY <1>3, ReturnIs
  <2>. QED  BY <2>1
<1>4. CASE Trailer
  <2>1. /\ UNCHANGED <<args, arg, stack, inp, out, opened, faults, unread>> /\ status' = "done"
        /\ archive' \in Seq(Entry) /\ total' \in Nat
    BY <1>4, TrailerIs
  <2>. QED  BY <2>1
<1>. QED  BY <1>1, <1>2, <1>3, <1>4 DEF WalkStep

(* Buffers, for the frame at position j.                                   *)
Fits(j) ==
    /\ stack[j].ilen = j - 1 /\ stack[j].olen = Len(Prefix) + j - 1
    /\ stack[j].len = StrLen(Prefix \o SubSeq(inp, 1, j - 1))
    /\ \A m \in stack[j].names : Append(SubSeq(inp, 1, j - 1), m) \in DOMAIN Tree

LEMMA SameArg ==
    ASSUME UNCHANGED <<args, arg>>
    PROVE  Prefix' = Prefix /\ Tree' = Tree
  BY DEF Prefix, Tree

LEMMA BuffersStep ==
    ASSUME Shape, Buffers, WalkStep
    PROVE  Buffers'
<1>0. stack # << >> => \A j \in DOMAIN stack : Fits(j)
  BY DEF Buffers, Fits
<1>a. SUFFICES ASSUME stack' # << >>
      PROVE  /\ arg' >= 1 /\ Len(inp') = Len(stack') - 1 /\ out' = Prefix' \o inp'
             /\ \A j \in DOMAIN stack' : Fits(j)'
  BY DEF Buffers, Fits
<1>1. CASE NextArg
  <2>1. arg' = arg + 1 /\ Prefix' \in Seq(NameSet) /\ arg \in Nat /\ Opens
    BY <1>1, <1>a, NextArgIs, ArgFacts DEF OpensNot, Shape
  <2>0. PICK names \in SUBSET Entries(Tree', << >>) :
          stack' = <<[names |-> names, ilen |-> 0, olen |-> Len(Prefix'), len |-> StrLen(Prefix')]>>
    BY <2>1 DEF Opens
  <2>2. PICK f : f = [names |-> names, ilen |-> 0, olen |-> Len(Prefix'), len |-> StrLen(Prefix')]
    OBVIOUS
  <2>3. stack' = <<f>> /\ inp' = << >> /\ out' = Prefix'
    BY <2>0, <2>1, <2>2 DEF Opens
  <2>4. Prefix' \o << >> = Prefix' /\ SubSeq(inp', 1, 0) = << >>
    BY <2>1, <2>3, ConcatEmptySeq
  <2>5. Fits(1)'
    <3>1. f.ilen = 0 /\ f.olen = Len(Prefix') /\ f.len = StrLen(Prefix') /\ f.names = names /\ stack'[1] = f
      BY <2>2, <2>3
    <3>2. Len(Prefix') + 1 - 1 = Len(Prefix')
      BY <2>1
    <3>3. PICK t : t = Tree'
      OBVIOUS
    <3>4. f.names \subseteq Entries(t, << >>)
      BY <2>0, <3>1, <3>3
    <3>5. \A m \in f.names : Append(<< >>, m) \in DOMAIN t
      BY <3>4, EntryIn, Zenon
    <3>6. SubSeq(inp', 1, 1 - 1) = << >>
      BY <2>4
    <3>7. stack'[1].ilen = 1 - 1 /\ stack'[1].olen = Len(Prefix') + 1 - 1
      BY <3>1, <3>2
    <3>8. stack'[1].len = StrLen(Prefix' \o SubSeq(inp', 1, 1 - 1))
      BY <2>4, <3>1, <3>6
    <3>9. \A m \in stack'[1].names : Append(SubSeq(inp', 1, 1 - 1), m) \in DOMAIN Tree'
      BY <3>1, <3>3, <3>5, <3>6
    <3>. QED  BY <3>7, <3>8, <3>9 DEF Fits
  <2>. QED  BY <2>1, <2>3, <2>4, <2>5
<1>2. ASSUME NEW n \in Visible, Taken(n)
      PROVE  /\ arg' >= 1 /\ Len(inp') = Len(stack') - 1 /\ out' = Prefix' \o inp'
             /\ \A j \in DOMAIN stack' : Fits(j)'
  <2>1. stack # << >> /\ Append(inp, n) \in DOMAIN Tree /\ UNCHANGED <<args, arg>> /\ (Leaf(n) \/ Enter(n))
    BY <1>2, <1>a DEF Taken, Fail
  <2>2. Prefix' = Prefix /\ Tree' = Tree /\ arg >= 1
    BY <2>1, SameArg DEF Buffers
  <2>3. /\ inp \in Seq(Visible) /\ inp \in Seq(NameSet) /\ out = Prefix \o inp /\ Prefix \in Seq(NameSet)
        /\ Len(inp) = Len(stack) - 1 /\ stack \in Seq(Frame)
    BY <2>1, ArgIn
  <2>4. PICK L \in Nat \ {0} : L = Len(stack)
    BY <2>1, <2>3
  <2>5. /\ Without(n) \in Seq(Frame) /\ Len(Without(n)) = L
        /\ \A j \in 1 .. L :
             /\ Without(n)[j].ilen = stack[j].ilen /\ Without(n)[j].olen = stack[j].olen
             /\ Without(n)[j].len = stack[j].len
             /\ Without(n)[j].names \subseteq stack[j].names
    <3>1. /\ Without(n) \in Seq(Frame) /\ Len(Without(n)) = Len(stack)
          /\ \A j \in 1 .. Len(stack) :
               /\ Without(n)[j].ilen = stack[j].ilen /\ Without(n)[j].olen = stack[j].olen
               /\ Without(n)[j].len = stack[j].len
               /\ Without(n)[j].names = IF j = Len(stack) THEN stack[j].names \ {n} ELSE stack[j].names
      BY <2>1, <2>3, WithoutFacts
    <3>. QED  BY <2>4, <3>1
  <2>6. DOMAIN stack = 1 .. L
    BY <2>3, <2>4
  <2>7. CASE Leaf(n)
    <3>1. stack' = Without(n) /\ inp' = inp /\ out' = out
      BY <2>7 DEF Leaf
    <3>2. DOMAIN stack' = 1 .. L /\ Len(stack') = L
      BY <2>5, <3>1
    <3>3. ASSUME NEW j \in 1 .. L PROVE Fits(j)'
      <4>1. Fits(j)
        BY <1>0, <2>1, <2>6
      <4>. QED  BY <2>2, <2>5, <3>1, <4>1 DEF Fits
    <3>. QED  BY <2>1, <2>2, <2>3, <2>4, <3>1, <3>2, <3>3
  <2>8. CASE Enter(n)
    <3>1. PICK i : i = Append(inp, n) /\ inp' = i /\ out' = Prefix \o i
      BY <2>8 DEF Enter
    <3>2. /\ stack' \in Seq(Frame) /\ Len(stack') = L + 1
          /\ \A j \in 1 .. L : stack'[j] = Without(n)[j]
      BY <1>2, <2>4, <2>8, EnterStack
    <3>9. PICK names \in SUBSET Entries(Tree, i) : stack'[L + 1] = FrameOf(i, names)
      BY <1>2, <2>4, <2>8, <3>1, EnterStack
    <3>3. i \in Seq(NameSet) /\ Len(i) = L /\ Len(Prefix \o i) = Len(Prefix) + L /\ Len(Prefix) \in Nat
      <4>1. i \in Seq(NameSet) /\ Len(i) = L
        BY <2>1, <2>4, <3>1, TakenPath
      <4>2. Len(Prefix \o i) = Len(Prefix) + Len(i) /\ Len(Prefix) \in Nat
        BY <2>3, <4>1, ConcatLen
      <4>. QED  BY <4>1, <4>2
    <3>4. ASSUME NEW j \in 1 .. L PROVE Fits(j)'
      <4>1. Fits(j)
        BY <1>0, <2>1, <2>6
      <4>2. SubSeq(i, 1, j - 1) = SubSeq(inp, 1, j - 1)
        <5>1. PICK k \in 0 .. Len(inp) : k = j - 1
          BY <2>3, <2>4
        <5>2. SubSeq(Append(inp, n), 1, k) = SubSeq(inp, 1, k)
          BY <2>3, CutAppend
        <5>. QED  BY <3>1, <5>1, <5>2
      <4>. QED  BY <2>2, <2>5, <3>1, <3>2, <4>1, <4>2 DEF Fits
    <3>5. Fits(L + 1)'
      <4>1. PICK f : f = stack'[L + 1]
        OBVIOUS
      <4>2. f.ilen = L /\ f.olen = Len(Prefix) + L /\ f.len = StrLen(Prefix \o i) /\ f.names \subseteq Entries(Tree, i)
        BY <3>3, <3>9, <4>1 DEF FrameOf
      <4>3. L + 1 - 1 = L /\ Len(Prefix) + (L + 1) - 1 = Len(Prefix) + L /\ SubSeq(i, 1, L) = i
        BY <2>4, <3>3, SubSeqFull
      <4>4. \A m \in f.names : Append(i, m) \in DOMAIN Tree
        BY <4>2 DEF Entries
      <4>5. SubSeq(inp', 1, L + 1 - 1) = i
        BY <3>1, <4>3
      <4>6. stack'[L + 1].ilen = L + 1 - 1 /\ stack'[L + 1].olen = Len(Prefix') + (L + 1) - 1
        BY <2>2, <4>1, <4>2, <4>3
      <4>7. stack'[L + 1].len = StrLen(Prefix' \o SubSeq(inp', 1, L + 1 - 1))
        BY <2>2, <4>1, <4>2, <4>5
      <4>8. \A m \in stack'[L + 1].names : Append(SubSeq(inp', 1, L + 1 - 1), m) \in DOMAIN Tree'
        BY <2>2, <4>1, <4>4, <4>5
      <4>. QED  BY <4>6, <4>7, <4>8 DEF Fits
    <3>6. \A j \in DOMAIN stack' : j \in 1 .. L \/ j = L + 1
      BY <2>4, <3>2
    <3>. QED  BY <2>1, <2>2, <2>4, <3>1, <3>2, <3>3, <3>4, <3>5, <3>6
  <2>. QED  BY <2>1, <2>7, <2>8
<1>3. CASE Return
  <2>1. PICK L \in Nat \ {0} : L = Len(stack) /\ stack \in Seq(Frame) /\ stack # << >>
    BY <1>3, ReturnIs DEF Shape
  <2>2. /\ UNCHANGED <<args, arg>> /\ stack' \in Seq(Frame) /\ Len(stack') = L - 1
        /\ \A j \in 1 .. L - 1 : stack'[j] = stack[j]
    BY <1>3, <2>1, ReturnIs
  <2>3. L > 1 /\ DOMAIN stack' = 1 .. L - 1 /\ DOMAIN stack = 1 .. L
    BY <1>a, <2>1, <2>2
  <2>4. Prefix' = Prefix /\ Tree' = Tree /\ arg >= 1
    BY <2>1, <2>2, SameArg DEF Buffers
  <2>5. Len(inp') = L - 2 /\ out' = Prefix \o inp' /\ \A j \in 0 .. L - 2 : SubSeq(inp', 1, j) = SubSeq(inp, 1, j)
    BY <1>3, <2>1, <2>3, ReturnIs
  <2>6. ASSUME NEW j \in 1 .. L - 1 PROVE Fits(j)'
    <3>1. Fits(j) /\ j - 1 \in 0 .. L - 2
      BY <1>0, <2>1, <2>3
    <3>. QED  BY <2>2, <2>4, <2>5, <3>1 DEF Fits
  <2>. QED  BY <2>1, <2>2, <2>3, <2>4, <2>5, <2>6
<1>4. CASE Trailer
  BY <1>4, <1>a, TrailerIs
<1>. QED  BY <1>1, <1>2, <1>3, <1>4 DEF WalkStep

LEMMA DescentStep ==
    ASSUME Shape, Buffers, Descent, WalkStep
    PROVE  Descent'
<1>. DEFINE Above(j) ==
       /\ \A m \in stack[j].names : Before(inp[j], m)
       /\ \E k \in DOMAIN archive : archive[k].path = Prefix \o SubSeq(inp, 1, j) /\ archive[k].kind = "dir"
<1>0. stack # << >> => \A j \in DOMAIN inp : Above(j)
  BY DEF Descent
<1>a. SUFFICES ASSUME stack' # << >>, NEW j \in DOMAIN inp' PROVE Above(j)'
  BY DEF Descent
<1>b. archive \in Seq(Entry)
  BY DEF Shape
<1>1. CASE NextArg
  <2>1. inp' = << >>
    BY <1>1, <1>a, NextArgIs DEF Opens, OpensNot
  <2>. QED  BY <1>a, <2>1
<1>2. ASSUME NEW n \in Visible, Taken(n) PROVE Above(j)'
  <2>1. stack # << >> /\ Append(inp, n) \in DOMAIN Tree /\ UNCHANGED <<args, arg>> /\ (Leaf(n) \/ Enter(n))
    BY <1>2, <1>a DEF Taken, Fail
  <2>2. Prefix' = Prefix /\ Prints(Append(inp, n))
    BY <2>1, SameArg DEF Leaf, Enter
  <2>3. /\ inp \in Seq(Visible) /\ Len(inp) = Len(stack) - 1 /\ stack \in Seq(Frame)
    BY <2>1, ArgIn
  <2>4. PICK L \in Nat \ {0} : L = Len(stack)
    BY <2>1, <2>3
  <2>5. /\ archive' \in Seq(Entry) /\ Len(archive') = Len(archive) + 1
        /\ archive'[Len(archive) + 1] = NewEntry(Append(inp, n))
        /\ \A k \in 1 .. Len(archive) : archive'[k] = archive[k]
    BY <2>1, <2>2, PrintsFacts
  <2>6. \A k \in DOMAIN archive : k \in DOMAIN archive' /\ archive'[k] = archive[k]
    BY <1>b, <2>5
  <2>7. \A h \in 1 .. L - 1 : Without(n)[h].names = stack[h].names
    <3>1. \A h \in 1 .. Len(stack) : Without(n)[h].names = IF h = Len(stack) THEN stack[h].names \ {n} ELSE stack[h].names
      BY <2>1, <2>3, WithoutFacts
    <3>2. \A h \in 1 .. L - 1 : h \in 1 .. L /\ h # L
      BY <2>4
    <3>. QED  BY <2>4, <3>1, <3>2
  <2>8. DOMAIN inp = 1 .. L - 1
    BY <2>3, <2>4
  <2>9. CASE Leaf(n)
    <3>1. stack' = Without(n) /\ inp' = inp
      BY <2>9 DEF Leaf
    <3>2. Above(j) /\ j \in 1 .. L - 1
      BY <1>0, <1>a, <2>1, <2>8, <3>1
    <3>3. PICK k \in DOMAIN archive : archive[k].path = Prefix \o SubSeq(inp, 1, j) /\ archive[k].kind = "dir"
      BY <3>2
    <3>4. k \in DOMAIN archive' /\ archive'[k].path = Prefix' \o SubSeq(inp', 1, j) /\ archive'[k].kind = "dir"
      BY <2>2, <2>6, <3>1, <3>3
    <3>5. \A m \in stack'[j].names : Before(inp'[j], m)
      BY <2>7, <3>1, <3>2
    <3>. QED  BY <3>4, <3>5
  <2>10. CASE Enter(n)
    <3>1. PICK i : i = Append(inp, n) /\ inp' = i
      BY <2>10 DEF Enter
    <3>2. \A h \in 1 .. L : stack'[h] = Without(n)[h]
      BY <1>2, <2>4, <2>10, EnterStack
    <3>3. i \in Seq(NameSet) /\ Len(i) = L /\ i[L] = n /\ \A h \in 1 .. L - 1 : i[h] = inp[h]
      BY <2>1, <2>4, <3>1, TakenPath
    <3>4. j \in 1 .. L
      BY <1>a, <3>1, <3>3
    <3>5. CASE j \in 1 .. L - 1
      <4>1. Above(j)
        BY <1>0, <2>1, <2>8, <3>5
      <4>2. PICK k \in DOMAIN archive : archive[k].path = Prefix \o SubSeq(inp, 1, j) /\ archive[k].kind = "dir"
        BY <4>1
      <4>3. SubSeq(Append(inp, n), 1, j) = SubSeq(inp, 1, j)
        BY <2>3, <2>4, <3>5, CutAppend
      <4>4. k \in DOMAIN archive' /\ archive'[k].path = Prefix' \o SubSeq(inp', 1, j) /\ archive'[k].kind = "dir"
        BY <2>2, <2>6, <3>1, <4>2, <4>3
      <4>5. \A m \in stack'[j].names : Before(inp'[j], m)
        BY <2>7, <3>1, <3>2, <3>3, <3>4, <3>5, <4>1
      <4>. QED  BY <4>4, <4>5
    <3>6. CASE j = L
      <4>1. SubSeq(i, 1, L) = i
        BY <3>3, SubSeqFull
      <4>2. PICK k \in DOMAIN archive' : k = Len(archive) + 1
        BY <1>b, <2>5
      <4>3. archive'[k].path = Prefix \o i /\ archive'[k].kind = "dir"
        <5>1. archive'[k] = NewEntry(i) /\ Tree[i].kind = "dir"
          BY <2>5, <2>10, <3>1, <4>2 DEF Enter
        <5>2. NewEntry(i).path = Prefix \o i /\ NewEntry(i).kind = Tree[i].kind
          BY DEF NewEntry
        <5>. QED  BY <5>1, <5>2
      <4>4. archive'[k].path = Prefix' \o SubSeq(inp', 1, j) /\ archive'[k].kind = "dir"
        BY <2>2, <3>1, <3>6, <4>1, <4>3
      <4>5. stack'[L].names = stack[L].names \ {n}
        BY <2>1, <2>3, <2>4, <3>2, <3>4, <3>6, WithoutFacts
      <4>6. \A m \in stack[L].names \ {n} : Before(n, m)
        BY <1>2, <2>4 DEF Taken, Least
      <4>7. \A m \in stack'[j].names : Before(inp'[j], m)
        BY <3>1, <3>3, <3>6, <4>5, <4>6
      <4>. QED  BY <4>4, <4>7
    <3>7. j \in 1 .. L - 1 \/ j = L
      BY <2>4, <3>4
    <3>. QED  BY <3>5, <3>6, <3>7
  <2>. QED  BY <2>1, <2>9, <2>10
<1>3. CASE Return
  <2>1. PICK L \in Nat \ {0} : L = Len(stack) /\ stack \in Seq(Frame) /\ stack # << >>
    BY <1>3, ReturnIs DEF Shape
  <2>2. /\ UNCHANGED <<args, arg, archive>> /\ stack' \in Seq(Frame) /\ Len(stack') = L - 1
        /\ (\A h \in 1 .. L - 1 : stack'[h] = stack[h]) /\ inp' \in Seq(Visible)
    BY <1>3, <2>1, ReturnIs
  <2>3. L > 1
    BY <1>a, <2>1, <2>2
  <2>4. Prefix' = Prefix
    BY <2>2, SameArg
  <2>5. /\ Len(inp') = L - 2 /\ \A h \in 0 .. L - 2 : SubSeq(inp', 1, h) = SubSeq(inp, 1, h)
        /\ \A h \in 1 .. L - 2 : inp'[h] = inp[h]
    BY <1>3, <2>1, <2>3, ReturnIs
  <2>6. inp \in Seq(Visible) /\ Len(inp) = L - 1
    BY <2>1, ArgIn
  <2>7. j \in 1 .. L - 2 /\ j \in DOMAIN inp /\ j \in 0 .. L - 2 /\ j \in 1 .. L - 1
    BY <1>a, <2>1, <2>2, <2>5, <2>6
  <2>8. Above(j)
    BY <1>0, <2>1, <2>7
  <2>. QED  BY <2>2, <2>4, <2>5, <2>7, <2>8
<1>4. CASE Trailer
  BY <1>4, <1>a, TrailerIs
<1>. QED  BY <1>1, <1>2, <1>3, <1>4 DEF WalkStep

-----------------------------------------------------------------------------
(* What a step does to the set of paths that are left.                     *)
LEMMA BeforeIrreflexive ==
    ASSUME NEW n
    PROVE  ~Before(n, n)
<1>1. \A j, k \in DOMAIN Names : Names[j] = Names[k] => j = k
  BY BootfsAssumption
<1>2. \A j \in DOMAIN Names : j \in Nat
  BY BootfsAssumption
<1>. QED  BY <1>1, <1>2 DEF Before

LEMMA InAllWanted ==
    ASSUME NEW x
    PROVE  x \in AllWanted <=> \E k \in DOMAIN args : \E p \in Wanted(args[k]) : x = <<k, p>>
  BY DEF AllWanted

LEMMA LastOrBefore ==
    ASSUME NEW q \in Nat, NEW k \in 1 .. q
    PROVE  k \in 1 .. q - 1 \/ k = q
  OBVIOUS

LEMMA WantedFacts ==
    ASSUME NEW a, IsTree(a.tree), NEW p \in Wanted(a)
    PROVE  /\ p \in DOMAIN a.tree /\ p \in Seq(NameSet) /\ Len(p) \in Nat /\ Len(p) >= 1
           /\ \A k \in 1 .. Len(p) : p[k] \in Visible
           /\ \A k \in 1 .. Len(p) : SubSeq(p, 1, k) \in DOMAIN a.tree
           /\ \A k \in 1 .. Len(p) - 1 : a.tree[SubSeq(p, 1, k)].kind = "dir"
<1>1. p \in DOMAIN a.tree /\ \A k \in DOMAIN p : p[k] \notin Dotfiles \cup {"root"}
  BY DEF Wanted
<1>2. p \in Seq(NameSet) /\ p # << >>
  BY <1>1 DEF IsTree, IsPath
<1>3. \A k \in 1 .. Len(p) - 1 : SubSeq(p, 1, k) \in DOMAIN a.tree /\ a.tree[SubSeq(p, 1, k)].kind = "dir"
  BY <1>1 DEF IsTree
<1>4. Len(p) \in Nat /\ Len(p) >= 1 /\ DOMAIN p = 1 .. Len(p)
  BY <1>2
<1>5. \A k \in 1 .. Len(p) : p[k] \in Visible
  BY <1>1, <1>2, <1>4 DEF Visible
<1>6. SubSeq(p, 1, Len(p)) = p
  BY <1>2, SubSeqFull
<1>7. ASSUME NEW k \in 1 .. Len(p) PROVE SubSeq(p, 1, k) \in DOMAIN a.tree
  <2>1. k \in 1 .. Len(p) - 1 \/ k = Len(p)
    BY <1>4, LastOrBefore, Zenon
  <2>2. CASE k \in 1 .. Len(p) - 1
    BY <1>3, <2>2, Zenon
  <2>3. CASE k = Len(p)
    BY <1>1, <1>6, <2>3, Zenon
  <2>. QED  BY <2>1, <2>2, <2>3, Zenon
<1>. QED  BY <1>1, <1>2, <1>3, <1>4, <1>5, <1>7

(* A path that agrees with i as far as i goes begins with it.              *)
LEMMA Begins ==
    ASSUME NEW i \in Seq(NameSet), NEW p \in Seq(NameSet), Len(p) >= Len(i),
           \A h \in 1 .. Len(i) : p[h] = i[h]
    PROVE  /\ SubSeq(p, 1, Len(i)) = i
           /\ Len(p) = Len(i) => p = i
           /\ Len(p) > Len(i) => SubSeq(p, 1, Len(i) + 1) = Append(i, p[Len(i) + 1])
<1>1. PICK L \in Nat : L = Len(i)
  OBVIOUS
<1>2. SubSeq(p, 1, L) = i
  <2>1. PICK a : a = SubSeq(p, 1, L)
    OBVIOUS
  <2>2. L \in 0 .. Len(p)
    BY <1>1
  <2>3. a \in Seq(NameSet) /\ Len(a) = L /\ \A h \in 1 .. L : a[h] = p[h]
    BY <2>1, <2>2, CutCut
  <2>4. a = i
    BY <1>1, <2>3, SeqEqual
  <2>. QED  BY <2>1, <2>4
<1>3. Len(p) = L => p = i
  BY <1>1, SeqEqual
<1>4. ASSUME Len(p) > L PROVE SubSeq(p, 1, L + 1) = Append(i, p[L + 1])
  <2>1. PICK a, b, n : a = SubSeq(p, 1, L + 1) /\ b = Append(i, n) /\ n = p[L + 1]
    OBVIOUS
  <2>2. L + 1 \in 0 .. Len(p) /\ n \in NameSet
    BY <1>1, <1>4, <2>1
  <2>3. a \in Seq(NameSet) /\ Len(a) = L + 1 /\ \A h \in 1 .. L + 1 : a[h] = p[h]
    BY <2>1, <2>2, CutCut
  <2>4. b \in Seq(NameSet) /\ Len(b) = L + 1 /\ b[L + 1] = n /\ \A h \in 1 .. L : b[h] = i[h]
    BY <1>1, <2>1, <2>2, AppendProperties
  <2>5. \A h \in 1 .. L + 1 : a[h] = b[h]
    <3>1. \A h \in 1 .. L + 1 : h \in 1 .. L \/ h = L + 1
      OBVIOUS
    <3>. QED  BY <1>1, <2>1, <2>3, <2>4, <3>1
  <2>6. a = b
    BY <2>3, <2>4, <2>5, SeqEqual
  <2>. QED  BY <2>1, <2>6
<1>. QED  BY <1>1, <1>2, <1>3, <1>4

LEMMA WithoutNames ==
    ASSUME stack \in Seq(Frame), stack # << >>, NEW n
    PROVE  /\ DOMAIN stack = 1 .. Len(stack) /\ DOMAIN Without(n) = 1 .. Len(stack)
           /\ \A j \in 1 .. Len(stack) :
                Without(n)[j].names = IF j = Len(stack) THEN stack[j].names \ {n} ELSE stack[j].names
<1>1. Without(n) \in Seq(Frame) /\ Len(Without(n)) = Len(stack)
  BY WithoutFacts
<1>2. \A j \in 1 .. Len(stack) : Without(n)[j].names = IF j = Len(stack) THEN stack[j].names \ {n} ELSE stack[j].names
  BY WithoutFacts
<1>3. DOMAIN Without(n) = 1 .. Len(stack) /\ DOMAIN stack = 1 .. Len(stack)
  BY <1>1
<1>. QED  BY <1>2, <1>3, Zenon

(* The path a visit takes is wanted and is left.                           *)
LEMMA TakenWanted ==
    ASSUME Shape, Buffers, NEW n \in Visible, Taken(n)
    PROVE  /\ Append(inp, n) \in Wanted(args[arg]) /\ Held(Append(inp, n))
           /\ <<arg, Append(inp, n)>> \in Left
<1>1. stack # << >> /\ Append(inp, n) \in DOMAIN Tree /\ n \in stack[Len(stack)].names
  BY DEF Taken, Least
<1>2. PICK i : i = Append(inp, n)
  OBVIOUS
<1>3. i \in Seq(Visible) /\ Len(i) = Len(stack) /\ i[Len(stack)] = n /\ \A h \in 1 .. Len(stack) - 1 : i[h] = inp[h]
  BY <1>1, <1>2, TakenPath
<1>4. i \in Wanted(args[arg])
  <2>1. \A k \in DOMAIN i : i[k] \in Visible
    BY <1>3
  <2>2. \A k \in DOMAIN i : i[k] \notin Dotfiles \cup {"root"}
    BY <2>1 DEF Visible
  <2>3. i \in DOMAIN args[arg].tree
    BY <1>1, <1>2 DEF Tree
  <2>. QED  BY <2>2, <2>3 DEF Wanted
<1>5. stack \in Seq(Frame) /\ arg \in DOMAIN args /\ arg \in Nat
  BY <1>1, ArgIn, ArgFacts DEF Shape
<1>6. Held(i)
  <2>1. Len(stack) \in DOMAIN stack /\ Len(i) >= Len(stack)
    BY <1>1, <1>3, <1>5
  <2>. QED  BY <1>1, <1>3, <2>1 DEF Held
<1>7. <<arg, i>> \in AllWanted
  BY <1>4, <1>5, InAllWanted
<1>. QED  BY <1>2, <1>4, <1>6, <1>7 DEF Left

(* A path is missed if it runs through a name that readdir passed over.    *)
LEMMA MissedIs ==
    ASSUME NEW a, NEW i \in Seq(NameSet), NEW names, NEW x, x[2] \in Seq(NameSet)
    PROVE  Missed(x, NotRead(a, i, names)) <=>
             /\ x[1] = a /\ Len(x[2]) > Len(i) /\ \A h \in 1 .. Len(i) : x[2][h] = i[h]
             /\ x[2][Len(i) + 1] \in Entries(args[a].tree, i) \ names
<1>1. PICK p \in Seq(NameSet) : p = x[2]
  OBVIOUS
<1>2. PICK L \in Nat : L = Len(i)
  OBVIOUS
<1>3. Len(p) \in Nat
  OBVIOUS
<1>4. Entries(args[a].tree, i) \subseteq NameSet
  BY DEF Entries
<1>5. ASSUME NEW m \in NameSet
      PROVE  IsPrefix(Append(i, m), p) <=> Len(p) > L /\ (\A h \in 1 .. L : p[h] = i[h]) /\ p[L + 1] = m
  <2>1. PICK q : q = Append(i, m)
    OBVIOUS
  <2>2. q \in Seq(NameSet) /\ Len(q) = L + 1 /\ q[L + 1] = m /\ \A h \in 1 .. L : q[h] = i[h]
    BY <1>2, <2>1, AppendProperties
  <2>3. SubSeq(q, 1, Len(q)) = q
    BY <2>2, CutAll, SubSeqFull
  <2>4. IsPrefix(q, p) <=> L + 1 <= Len(p) /\ SubSeq(p, 1, L + 1) = q
    BY <2>2, <2>3 DEF IsPrefix
  <2>5. ASSUME L + 1 <= Len(p), SubSeq(p, 1, L + 1) = q
        PROVE  (\A h \in 1 .. L : p[h] = i[h]) /\ p[L + 1] = m
    <3>1. L + 1 \in 0 .. Len(p)
      BY <1>2, <1>3, <2>5
    <3>2. \A h \in 1 .. L + 1 : q[h] = p[h]
      BY <2>5, <3>1, CutCut
    <3>. QED  BY <1>2, <2>2, <3>2
  <2>6. ASSUME Len(p) > L, \A h \in 1 .. L : p[h] = i[h], p[L + 1] = m
        PROVE  L + 1 <= Len(p) /\ SubSeq(p, 1, L + 1) = q
    BY <1>2, <1>3, <2>1, <2>6, Begins
  <2>. QED  BY <1>2, <1>3, <2>1, <2>4, <2>5, <2>6
<1>6. Missed(x, NotRead(a, i, names)) <=>
        x[1] = a /\ \E m \in Entries(args[a].tree, i) \ names : IsPrefix(Append(i, m), p)
  <2>1. \A m : <<a, Append(i, m)>>[1] = a /\ <<a, Append(i, m)>>[2] = Append(i, m)
    OBVIOUS
  <2>2. Missed(x, NotRead(a, i, names)) <=>
          \E m \in Entries(args[a].tree, i) \ names :
             <<a, Append(i, m)>>[1] = x[1] /\ IsPrefix(<<a, Append(i, m)>>[2], x[2])
    BY Zenon DEF Missed, NotRead
  <2>3. \A m : <<a, Append(i, m)>>[1] = x[1] /\ IsPrefix(<<a, Append(i, m)>>[2], x[2])
                <=> x[1] = a /\ IsPrefix(Append(i, m), p)
    BY <1>1, <2>1
  <2>. QED  BY <2>2, <2>3, Zenon
<1>. QED  BY <1>1, <1>2, <1>4, <1>5, <1>6

LEMMA HeldLeaf ==
    ASSUME Shape, Buffers, Descent, NEW n \in Visible, Taken(n), Leaf(n), NEW p \in Wanted(args[arg])
    PROVE  Held(p)' <=> Held(p) /\ p # Append(inp, n)
<1>1. stack # << >> /\ Append(inp, n) \in DOMAIN Tree /\ n \in stack[Len(stack)].names
  BY DEF Taken, Least
<1>2. /\ stack \in Seq(Frame) /\ inp \in Seq(Visible) /\ Len(inp) = Len(stack) - 1 /\ IsTree(Tree)
  BY <1>1, ArgIn
<1>3. PICK L \in Nat \ {0} : L = Len(stack)
  BY <1>1, <1>2
<1>4. PICK i : i = Append(inp, n)
  OBVIOUS
<1>5. i \in Seq(NameSet) /\ Len(i) = L /\ i[L] = n /\ (\A h \in 1 .. L - 1 : i[h] = inp[h]) /\ Tree[i].kind # "dir"
  <2>1. i \in Seq(NameSet) /\ Len(i) = L /\ i[L] = n /\ \A h \in 1 .. L - 1 : i[h] = inp[h]
    BY <1>1, <1>3, <1>4, TakenPath
  <2>. QED  BY <1>4, <2>1 DEF Leaf
<1>6. /\ p \in Seq(NameSet) /\ Len(p) \in Nat
      /\ \A k \in 1 .. Len(p) - 1 : Tree[SubSeq(p, 1, k)].kind = "dir"
  BY <1>2, WantedFacts DEF Tree
<1>7. /\ stack' = Without(n) /\ inp' = inp /\ DOMAIN stack = 1 .. L /\ DOMAIN stack' = 1 .. L
      /\ \A j \in 1 .. L : stack'[j].names = IF j = L THEN stack[j].names \ {n} ELSE stack[j].names
  <2>1. stack' = Without(n) /\ inp' = inp
    BY DEF Leaf
  <2>2. /\ DOMAIN stack = 1 .. L /\ DOMAIN Without(n) = 1 .. L
        /\ \A j \in 1 .. L : Without(n)[j].names = IF j = L THEN stack[j].names \ {n} ELSE stack[j].names
    <3>1. /\ DOMAIN stack = 1 .. Len(stack) /\ DOMAIN Without(n) = 1 .. Len(stack)
          /\ \A j \in 1 .. Len(stack) :
               Without(n)[j].names = IF j = Len(stack) THEN stack[j].names \ {n} ELSE stack[j].names
      BY <1>1, <1>2, WithoutNames
    <3>. QED  BY <1>3, <3>1
  <2>. QED  BY <2>1, <2>2
<1>8. ASSUME Held(p)' PROVE Held(p) /\ p # i
  <2>1. PICK j \in 1 .. L : Len(p) >= j /\ (\A h \in 1 .. j - 1 : p[h] = inp[h]) /\ p[j] \in stack'[j].names
    BY <1>7, <1>8 DEF Held
  <2>2. p[j] \in stack[j].names /\ (j = L => p[j] # n)
    BY <1>7, <2>1
  <2>3. Held(p)
    BY <1>7, <2>1, <2>2 DEF Held
  <2>4. ASSUME p = i PROVE FALSE
    <3>1. j # L
      BY <1>5, <2>2, <2>4
    <3>2. j \in 1 .. L - 1 /\ j \in DOMAIN inp
      BY <1>2, <1>3, <3>1
    <3>3. inp[j] \in stack[j].names
      BY <1>5, <2>2, <2>4, <3>2
    <3>. QED  BY <1>1, <3>2, <3>3, BeforeIrreflexive DEF Descent
  <2>. QED  BY <2>3, <2>4
<1>9. ASSUME Held(p), p # i PROVE Held(p)'
  <2>1. PICK j \in 1 .. L : Len(p) >= j /\ (\A h \in 1 .. j - 1 : p[h] = inp[h]) /\ p[j] \in stack[j].names
    BY <1>7, <1>9 DEF Held
  <2>2. ~(j = L /\ p[L] = n)
    <3>1. SUFFICES ASSUME j = L, p[L] = n PROVE FALSE
      OBVIOUS
    <3>2. \A h \in 1 .. L : p[h] = i[h]
      <4>1. \A h \in 1 .. L : h \in 1 .. L - 1 \/ h = L
        OBVIOUS
      <4>. QED  BY <1>5, <2>1, <3>1, <4>1
    <3>3. SubSeq(p, 1, L) = i /\ Len(p) # L
      BY <1>5, <1>6, <1>9, <2>1, <3>1, <3>2, Begins
    <3>4. L \in 1 .. Len(p) - 1
      BY <1>6, <2>1, <3>1, <3>3
    <3>. QED  BY <1>5, <1>6, <3>3, <3>4
  <2>3. p[j] \in stack'[j].names
    BY <1>7, <2>1, <2>2
  <2>. QED  BY <1>7, <2>1, <2>3 DEF Held
<1>. QED  BY <1>4, <1>8, <1>9

LEMMA HeldEnter ==
    ASSUME Shape, Buffers, Descent, NEW n \in Visible, Taken(n), Enter(n), NEW p \in Wanted(args[arg]),
           NEW names \in SUBSET Entries(Tree, Append(inp, n)), stack'[Len(stack) + 1] = FrameOf(Append(inp, n), names)
    PROVE  /\ Held(p)' <=> Held(p) /\ p # Append(inp, n) /\ ~Missed(<<arg, p>>, NotRead(arg, Append(inp, n), names))
           /\ Missed(<<arg, p>>, NotRead(arg, Append(inp, n), names)) => Held(p) /\ p # Append(inp, n)
<1>1. stack # << >> /\ Append(inp, n) \in DOMAIN Tree /\ n \in stack[Len(stack)].names
  BY DEF Taken, Least
<1>2. /\ stack \in Seq(Frame) /\ inp \in Seq(Visible) /\ Len(inp) = Len(stack) - 1 /\ IsTree(Tree)
  BY <1>1, ArgIn
<1>3. PICK L \in Nat \ {0} : L = Len(stack)
  BY <1>1, <1>2
<1>4. PICK i : i = Append(inp, n)
  OBVIOUS
<1>5. i \in Seq(NameSet) /\ Len(i) = L /\ i[L] = n /\ \A h \in 1 .. L - 1 : i[h] = inp[h]
  BY <1>1, <1>3, <1>4, TakenPath
<1>6. /\ p \in Seq(NameSet) /\ Len(p) \in Nat /\ \A k \in 1 .. Len(p) : p[k] \in Visible
      /\ \A k \in 1 .. Len(p) : SubSeq(p, 1, k) \in DOMAIN Tree
  BY <1>2, WantedFacts DEF Tree
<1>0. PICK missed \in BOOLEAN : missed <=> Missed(<<arg, p>>, NotRead(arg, i, names))
  BY Zenon
<1>m. missed <=> Len(p) > L /\ (\A h \in 1 .. L : p[h] = i[h]) /\ p[L + 1] \in Entries(Tree, i) \ names
  <2>1. PICK x : x = <<arg, p>>
    OBVIOUS
  <2>2. x[1] = arg /\ x[2] = p
    BY <2>1
  <2>3. Missed(x, NotRead(arg, i, names)) <=>
          /\ x[1] = arg /\ Len(x[2]) > Len(i) /\ \A h \in 1 .. Len(i) : x[2][h] = i[h]
          /\ x[2][Len(i) + 1] \in Entries(args[arg].tree, i) \ names
    <3>1. i \in Seq(NameSet) /\ x[2] \in Seq(NameSet)
      BY <1>5, <1>6, <2>2
    <3>. QED  BY <3>1, MissedIs, Zenon
  <2>. QED  BY <1>0, <1>5, <2>1, <2>2, <2>3 DEF Tree
<1>7. /\ inp' = i /\ DOMAIN stack = 1 .. L /\ DOMAIN stack' = 1 .. L + 1 /\ stack'[L + 1].names = names
      /\ names \subseteq Entries(Tree, i)
      /\ \A j \in 1 .. L : stack'[j].names = IF j = L THEN stack[j].names \ {n} ELSE stack[j].names
  <2>1. inp' = i
    BY <1>4 DEF Enter
  <2>2. /\ DOMAIN stack = 1 .. L
        /\ \A j \in 1 .. L : Without(n)[j].names = IF j = L THEN stack[j].names \ {n} ELSE stack[j].names
    <3>1. /\ DOMAIN stack = 1 .. Len(stack) /\ DOMAIN Without(n) = 1 .. Len(stack)
          /\ \A j \in 1 .. Len(stack) :
               Without(n)[j].names = IF j = Len(stack) THEN stack[j].names \ {n} ELSE stack[j].names
      BY <1>1, <1>2, WithoutNames
    <3>. QED  BY <1>3, <3>1
  <2>3. /\ stack' \in Seq(Frame) /\ Len(stack') = L + 1
        /\ \A j \in 1 .. L : stack'[j] = Without(n)[j]
    BY <1>3, EnterStack
  <2>4. stack'[L + 1].names = names /\ names \subseteq Entries(Tree, i)
    BY <1>3, <1>4 DEF FrameOf
  <2>5. DOMAIN stack' = 1 .. L + 1
    BY <2>3
  <2>6. \A j \in 1 .. L : stack'[j].names = IF j = L THEN stack[j].names \ {n} ELSE stack[j].names
    BY <2>2, <2>3
  <2>. QED  BY <2>1, <2>2, <2>4, <2>5, <2>6
<1>b. (\A h \in 1 .. L : p[h] = i[h]) => \A j \in 1 .. L - 1 : p[j] \notin stack[j].names
  <2>1. SUFFICES ASSUME \A h \in 1 .. L : p[h] = i[h], NEW j \in 1 .. L - 1, p[j] \in stack[j].names PROVE FALSE
    OBVIOUS
  <2>2. j \in DOMAIN inp /\ p[j] = inp[j]
    BY <1>2, <1>3, <1>5, <2>1
  <2>. QED  BY <1>1, <2>1, <2>2, BeforeIrreflexive DEF Descent
<1>8. ASSUME Held(p)' PROVE Held(p) /\ p # i /\ ~missed
  <2>1. PICK j \in 1 .. L + 1 : Len(p) >= j /\ (\A h \in 1 .. j - 1 : p[h] = i[h]) /\ p[j] \in stack'[j].names
    BY <1>7, <1>8 DEF Held
  <2>2. CASE j = L + 1
    <3>1. \A h \in 1 .. L : p[h] = i[h]
      BY <2>1, <2>2
    <3>2. p[L] = n /\ \A h \in 1 .. L - 1 : p[h] = inp[h]
      BY <1>5, <3>1
    <3>3. Len(p) >= L /\ L \in DOMAIN stack /\ p[L] \in stack[L].names /\ p # i
      BY <1>1, <1>3, <1>5, <1>6, <1>7, <2>1, <2>2, <3>2
    <3>4. ~missed
      BY <1>m, <1>7, <2>1, <2>2
    <3>. QED  BY <3>2, <3>3, <3>4 DEF Held
  <2>3. CASE j \in 1 .. L
    <3>1. p[j] \in stack[j].names /\ (j = L => p[j] # n)
      BY <1>7, <2>1, <2>3
    <3>2. \A h \in 1 .. j - 1 : p[h] = inp[h]
      BY <1>5, <2>1, <2>3
    <3>3. Held(p)
      BY <1>7, <2>1, <2>3, <3>1, <3>2 DEF Held
    <3>4. ASSUME \A h \in 1 .. L : p[h] = i[h] PROVE FALSE
      <4>1. j # L
        BY <1>5, <3>1, <3>4
      <4>2. j \in 1 .. L - 1
        BY <1>3, <2>3, <4>1
      <4>. QED  BY <1>b, <3>1, <3>4, <4>2
    <3>5. p # i /\ ~missed
      BY <1>m, <3>4
    <3>. QED  BY <3>3, <3>5
  <2>4. j = L + 1 \/ j \in 1 .. L
    BY <1>3
  <2>. QED  BY <2>2, <2>3, <2>4
<1>9. ASSUME Held(p), p # i, ~missed PROVE Held(p)'
  <2>1. PICK j \in 1 .. L : Len(p) >= j /\ (\A h \in 1 .. j - 1 : p[h] = inp[h]) /\ p[j] \in stack[j].names
    BY <1>7, <1>9 DEF Held
  <2>2. j \in 1 .. L + 1 /\ \A h \in 1 .. j - 1 : p[h] = i[h]
    BY <1>5, <2>1
  <2>3. CASE ~(j = L /\ p[L] = n)
    <3>1. p[j] \in stack'[j].names
      BY <1>7, <2>1, <2>3
    <3>. QED  BY <1>7, <2>1, <2>2, <3>1 DEF Held
  <2>4. CASE j = L /\ p[L] = n
    <3>1. \A h \in 1 .. L : p[h] = i[h]
      <4>1. \A h \in 1 .. L : h \in 1 .. L - 1 \/ h = L
        OBVIOUS
      <4>. QED  BY <1>5, <2>1, <2>4, <4>1
    <3>2. Len(p) # L /\ (Len(p) > L => SubSeq(p, 1, L + 1) = Append(i, p[L + 1]))
      BY <1>5, <1>6, <1>9, <2>1, <2>4, <3>1, Begins
    <3>3. L + 1 \in 1 .. Len(p) /\ L + 1 \in 1 .. L + 1 /\ Len(p) > L
      BY <1>6, <2>1, <2>4, <3>2
    <3>4. Append(i, p[L + 1]) \in DOMAIN Tree /\ p[L + 1] \in Visible
      <4>1. SubSeq(p, 1, L + 1) = Append(i, p[L + 1])
        BY <1>6, <3>2, <3>3
      <4>. QED  BY <1>6, <3>3, <4>1
    <3>5. p[L + 1] \in Entries(Tree, i)
      BY <3>4 DEF Entries, Visible
    <3>6. p[L + 1] \in names
      BY <1>m, <1>9, <3>1, <3>3, <3>5
    <3>7. Len(p) >= L + 1 /\ \A h \in 1 .. (L + 1) - 1 : p[h] = i[h]
      BY <1>6, <3>1, <3>3
    <3>. QED  BY <1>7, <3>3, <3>6, <3>7 DEF Held
  <2>. QED  BY <2>3, <2>4
<1>10. ASSUME missed PROVE Held(p) /\ p # i
  <2>1. Len(p) > L /\ (\A h \in 1 .. L : p[h] = i[h]) /\ p[L] = n /\ \A h \in 1 .. L - 1 : p[h] = inp[h]
    BY <1>m, <1>5, <1>10
  <2>2. Len(p) >= L /\ L \in DOMAIN stack /\ p[L] \in stack[L].names /\ p # i
    BY <1>1, <1>3, <1>5, <1>6, <1>7, <2>1
  <2>. QED  BY <2>1, <2>2 DEF Held
<1>. QED  BY <1>0, <1>4, <1>8, <1>9, <1>10

LEMMA SameWanted ==
    ASSUME UNCHANGED args
    PROVE  AllWanted' = AllWanted
  BY DEF AllWanted

(* What the names that readdir passed over add to the paths that are gone. *)
LEMMA GoneGrows ==
    ASSUME NEW U, unread' = unread \cup U, args' = args
    PROVE  Gone' = Gone \cup {x \in AllWanted : Missed(x, U)}
<1>1. AllWanted' = AllWanted
  BY SameWanted
<1>2. \A x : Missed(x, unread') <=> Missed(x, unread) \/ Missed(x, U)
  BY DEF Missed
<1>3. Gone' = {x \in AllWanted' : Missed(x, unread')}
  BY DEF Gone, Missed
<1>. QED  BY <1>1, <1>2, <1>3 DEF Gone

LEMMA LeftTaken ==
    ASSUME Shape, Buffers, Descent, NEW n \in Visible, Taken(n), Leaf(n) \/ Enter(n), NEW y, y = <<arg, Append(inp, n)>>
    PROVE  \E N \in SUBSET (Left \ {y}) : Gone' = Gone \cup N /\ Left' = (Left \ {y}) \ N
<1>1. AllWanted' = AllWanted /\ args' = args /\ arg' = arg /\ Left' \subseteq AllWanted /\ Left \subseteq AllWanted
  BY SameWanted DEF Taken, Left
<1>. DEFINE Passed(U) ==
       /\ unread' = unread \cup U
       /\ \A x \in U : x[1] = arg
       /\ \A p \in Wanted(args[arg]) : /\ Held(p)' <=> Held(p) /\ p # Append(inp, n) /\ ~Missed(<<arg, p>>, U)
                                       /\ Missed(<<arg, p>>, U) => Held(p) /\ p # Append(inp, n)
<1>2. PICK U : Passed(U)
  <2>1. CASE Leaf(n)
    <3>1. unread' = unread \cup {} /\ \A x : ~Missed(x, {})
      BY <2>1 DEF Leaf, Missed
    <3>2. \A p \in Wanted(args[arg]) : Held(p)' <=> Held(p) /\ p # Append(inp, n)
      BY <2>1, HeldLeaf
    <3>3. Passed({})
      BY <3>1, <3>2
    <3>. QED  BY <3>3, Zenon
  <2>2. CASE Enter(n)
    <3>1. PICK names \in SUBSET Entries(Tree, Append(inp, n)) :
            /\ ReadDir(names, arg, Append(inp, n))
            /\ stack'[Len(stack) + 1] = FrameOf(Append(inp, n), names)
      BY <2>2, EnterStack
    <3>2. PICK U : U = NotRead(arg, Append(inp, n), names)
      OBVIOUS
    <3>3. unread' = unread \cup U /\ \A x \in U : x[1] = arg
      <4>1. unread' = unread \cup U
        BY <3>1, <3>2, ReadDirFacts, Zenon
      <4>2. \A m : <<arg, Append(Append(inp, n), m)>>[1] = arg
        OBVIOUS
      <4>. QED  BY <3>2, <4>1, <4>2 DEF NotRead
    <3>4. Passed(U)
      BY <2>2, <3>1, <3>2, <3>3, HeldEnter
    <3>. QED  BY <3>4, Zenon
  <2>. QED  BY <2>1, <2>2
<1>3. PICK N : N = {x \in AllWanted : Missed(x, U)}
  OBVIOUS
<1>4. Gone' = Gone \cup N
  BY <1>1, <1>2, <1>3, GoneGrows
<1>5. ASSUME NEW x \in AllWanted
      PROVE  (x \in Left' <=> x \in Left /\ x # y /\ x \notin N) /\ (x \in N => x \in Left /\ x # y)
  <2>0. PICK k \in DOMAIN args : \E p \in Wanted(args[k]) : x = <<k, p>>
    BY InAllWanted
  <2>1. PICK p \in Wanted(args[k]) : x = <<k, p>>
    BY <2>0
  <2>2. x[1] = k /\ x[2] = p /\ (x = y <=> k = arg /\ p = Append(inp, n))
    BY <2>1
  <2>3. x \in Left' <=> k > arg \/ (k = arg /\ Held(p)')
    BY <1>1, <2>2 DEF Left
  <2>4. x \in Left <=> k > arg \/ (k = arg /\ Held(p))
    BY <2>2 DEF Left
  <2>5. k \in Nat /\ arg \in Nat
    BY ArgFacts DEF Shape
  <2>6. x \in N => k = arg
    BY <1>2, <1>3, <2>2 DEF Missed
  <2>7. CASE k = arg
    <3>1. x \in N <=> Missed(<<arg, p>>, U)
      BY <1>3, <2>1, <2>7
    <3>2. /\ Held(p)' <=> Held(p) /\ p # Append(inp, n) /\ ~Missed(<<arg, p>>, U)
          /\ Missed(<<arg, p>>, U) => Held(p) /\ p # Append(inp, n)
      BY <1>2, <2>1, <2>7
    <3>. QED  BY <2>2, <2>3, <2>4, <2>5, <2>7, <3>1, <3>2
  <2>8. CASE k # arg
    BY <2>2, <2>3, <2>4, <2>6, <2>8
  <2>. QED  BY <2>7, <2>8
<1>6. N \in SUBSET (Left \ {y}) /\ Left' = (Left \ {y}) \ N
  BY <1>1, <1>3, <1>5
<1>. QED  BY <1>4, <1>6

LEMMA LeftReturn ==
    ASSUME Shape, Buffers, Return
    PROVE  Left' = Left /\ Gone' = Gone
<1>1. PICK L \in Nat \ {0} : L = Len(stack) /\ stack \in Seq(Frame)
  BY ReturnIs DEF Shape
<1>2. /\ UNCHANGED <<args, arg>> /\ stack[L].names = {} /\ stack' \in Seq(Frame) /\ Len(stack') = L - 1
      /\ \A j \in 1 .. L - 1 : stack'[j] = stack[j]
      /\ L > 1 => \A h \in 1 .. L - 2 : inp'[h] = inp[h]
  BY <1>1, ReturnIs
<1>3. DOMAIN stack = 1 .. L /\ DOMAIN stack' = 1 .. L - 1
  BY <1>1, <1>2
<1>4. ASSUME NEW p PROVE Held(p)' <=> Held(p)
  <2>1. ASSUME Held(p)' PROVE Held(p)
    <3>1. PICK j \in 1 .. L - 1 : Len(p) >= j /\ (\A h \in 1 .. j - 1 : p[h] = inp'[h]) /\ p[j] \in stack'[j].names
      BY <1>3, <2>1 DEF Held
    <3>2. j \in 1 .. L /\ p[j] \in stack[j].names /\ \A h \in 1 .. j - 1 : p[h] = inp[h]
      BY <1>2, <3>1
    <3>. QED  BY <1>3, <3>1, <3>2 DEF Held
  <2>2. ASSUME Held(p) PROVE Held(p)'
    <3>1. PICK j \in 1 .. L : Len(p) >= j /\ (\A h \in 1 .. j - 1 : p[h] = inp[h]) /\ p[j] \in stack[j].names
      BY <1>3, <2>2 DEF Held
    <3>2. j # L
      BY <1>2, <3>1
    <3>3. j \in 1 .. L - 1
      BY <3>1, <3>2
    <3>4. p[j] \in stack'[j].names /\ \A h \in 1 .. j - 1 : p[h] = inp'[h]
      BY <1>2, <3>1, <3>3
    <3>. QED  BY <1>3, <3>1, <3>3, <3>4 DEF Held
  <2>. QED  BY <2>1, <2>2
<1>5. AllWanted' = AllWanted /\ unread' = unread
  BY <1>2, SameWanted, ReturnIs
<1>. QED  BY <1>2, <1>4, <1>5 DEF Left, Gone, Missed

LEMMA LeftOpens ==
    ASSUME Shape, NextArg, Opens
    PROVE  \E N \in SUBSET Left : Gone' = Gone \cup N /\ Left' = Left \ N
<1>1. /\ stack = << >> /\ arg' = arg + 1 /\ args' = args /\ IsTree(Tree') /\ arg \in Nat
      /\ args \in Arguments /\ Tree' = args[arg + 1].tree
  BY NextArgIs, ArgFacts DEF Shape, Tree
<1>2. PICK names \in SUBSET Entries(Tree', << >>) :
        ReadDir(names, arg + 1, << >>) /\ stack'[1].names = names /\ DOMAIN stack' = {1}
  BY DEF Opens
<1>3. PICK U : U = NotRead(arg + 1, << >>, names)
  OBVIOUS
<1>4. PICK N : N = {x \in AllWanted : Missed(x, U)}
  OBVIOUS
<1>5. Gone' = Gone \cup N
  BY <1>1, <1>2, <1>3, <1>4, ReadDirFacts, GoneGrows
<1>6. ASSUME NEW p \in Wanted(args[arg + 1]) PROVE Held(p)' <=> ~Missed(<<arg + 1, p>>, U)
  <2>1. PICK a : a = args[arg + 1]
    OBVIOUS
  <2>2. IsTree(a.tree) /\ a.tree = Tree' /\ p \in Wanted(a)
    BY <1>1, <2>1
  <2>3. /\ p \in Seq(NameSet) /\ Len(p) \in Nat /\ Len(p) >= 1 /\ p[1] \in Visible
        /\ SubSeq(p, 1, 1) \in DOMAIN a.tree
    BY <2>2, WantedFacts
  <2>0. << >> \in Seq(NameSet) /\ Len(<< >>) = 0
    OBVIOUS
  <2>4. PICK i \in Seq(NameSet) : i = << >> /\ Len(i) = 0
    BY <2>0
  <2>5. SubSeq(p, 1, 1) = Append(i, p[1])
    <3>1. Len(p) >= Len(i) /\ Len(p) > Len(i) /\ \A h \in 1 .. Len(i) : p[h] = i[h]
      BY <2>3, <2>4
    <3>2. SubSeq(p, 1, Len(i) + 1) = Append(i, p[Len(i) + 1])
      BY <2>3, <3>1, Begins
    <3>3. Len(i) + 1 = 1
      BY <2>4
    <3>. QED  BY <3>2, <3>3
  <2>6. p[1] \in Entries(a.tree, i)
    BY <2>3, <2>5 DEF Entries, Visible
  <2>7. Missed(<<arg + 1, p>>, U) <=> p[1] \notin names
    <3>1. PICK x : x = <<arg + 1, p>>
      OBVIOUS
    <3>2. x[1] = arg + 1 /\ x[2] = p
      BY <3>1
    <3>3. Missed(x, NotRead(arg + 1, i, names)) <=>
            /\ x[1] = arg + 1 /\ Len(x[2]) > Len(i) /\ \A h \in 1 .. Len(i) : x[2][h] = i[h]
            /\ x[2][Len(i) + 1] \in Entries(args[arg + 1].tree, i) \ names
      BY <2>3, <3>2, MissedIs
    <3>. QED  BY <1>3, <2>1, <2>3, <2>4, <2>6, <3>1, <3>2, <3>3
  <2>8. Held(p)' <=> p[1] \in names
    BY <1>2, <2>3 DEF Held
  <2>. QED  BY <2>7, <2>8
<1>7. \A p : ~Held(p)
  BY <1>1 DEF Held
<1>8. AllWanted' = AllWanted /\ Left' \subseteq AllWanted /\ Left \subseteq AllWanted
  BY <1>1, SameWanted DEF Left
<1>9. ASSUME NEW x \in AllWanted PROVE (x \in Left' <=> x \in Left /\ x \notin N) /\ (x \in N => x \in Left)
  <2>0. PICK k \in DOMAIN args : \E p \in Wanted(args[k]) : x = <<k, p>>
    BY InAllWanted
  <2>1. PICK p \in Wanted(args[k]) : x = <<k, p>>
    BY <2>0
  <2>2. x \in Left' <=> k > arg + 1 \/ (k = arg + 1 /\ Held(p)')
    BY <1>1, <1>8, <2>1 DEF Left
  <2>3. x \in Left <=> k > arg
    BY <1>7, <2>1 DEF Left
  <2>4. k \in Nat
    BY <1>1, ArgFacts
  <2>5. x \in N => k = arg + 1
    <3>1. x[1] = k
      BY <2>1
    <3>2. \A z \in U : z[1] = arg + 1
      BY <1>3 DEF NotRead
    <3>. QED  BY <1>4, <3>1, <3>2 DEF Missed
  <2>6. CASE k = arg + 1
    <3>1. x \in N <=> Missed(<<arg + 1, p>>, U)
      BY <1>4, <2>1, <2>6
    <3>2. Held(p)' <=> ~Missed(<<arg + 1, p>>, U)
      BY <1>6, <2>1, <2>6
    <3>. QED  BY <1>1, <2>2, <2>3, <2>6, <3>1, <3>2
  <2>7. CASE k # arg + 1
    BY <1>1, <2>2, <2>3, <2>4, <2>5, <2>7
  <2>. QED  BY <2>6, <2>7
<1>10. N \in SUBSET Left /\ Left' = Left \ N
  BY <1>4, <1>8, <1>9
<1>. QED  BY <1>5, <1>10

-----------------------------------------------------------------------------
(* The headers, and the directory of each entry.                           *)
Chained ==
    \A k \in DOMAIN archive : archive[k].at = IF k = 1 THEN 0 ELSE Pad4(EndOf(archive[k - 1]))
HasParent(k) ==
    Len(archive[k].path) > 1 =>
      \/ \E j \in 1 .. k - 1 : archive[j].path = Front(archive[k].path) /\ archive[j].kind = "dir"
      \/ \E a \in DOMAIN args : args[a].prefix = Front(archive[k].path)
Parented == \A k \in DOMAIN archive : HasParent(k)
Aligned  == status = "done" => total % 256 = 0

LEMMA ReadableIs ==
    Readable <=> Chained /\ Parented /\ Aligned
  BY DEF Readable, Chained, EndOf, Parented, HasParent, Aligned

(* A header that is printed at the aligned total continues the chain.      *)
LEMMA ChainedStep ==
    ASSUME Shape, Ends, Chained, status = "walking", archive' \in Seq(Entry), Len(archive') = Len(archive) + 1,
           \A k \in 1 .. Len(archive) : archive'[k] = archive[k],
           archive'[Len(archive) + 1].at = Pad4(total)
    PROVE  Chained'
<1>1. archive \in Seq(Entry) /\ Len(archive) \in Nat
  BY DEF Shape
<1>2. DOMAIN archive' = 1 .. Len(archive) + 1 /\ DOMAIN archive = 1 .. Len(archive)
  BY <1>1
<1>3. ASSUME NEW k \in 1 .. Len(archive) + 1
      PROVE  archive'[k].at = IF k = 1 THEN 0 ELSE Pad4(EndOf(archive'[k - 1]))
  <2>1. CASE k \in 1 .. Len(archive)
    <3>1. archive'[k] = archive[k] /\ (k # 1 => archive'[k - 1] = archive[k - 1])
      BY <1>1, <2>1
    <3>. QED  BY <1>2, <2>1, <3>1 DEF Chained
  <2>2. CASE k = Len(archive) + 1 /\ archive = << >>
    <3>1. k = 1 /\ total = 0
      BY <2>2 DEF Ends
    <3>2. Pad4(0) = 0
      BY PadFacts
    <3>. QED  BY <2>2, <3>1, <3>2
  <2>3. CASE k = Len(archive) + 1 /\ archive # << >>
    <3>1. k - 1 \in 1 .. Len(archive) /\ k # 1 /\ k - 1 = Len(archive)
      BY <1>1, <2>3
    <3>2. archive'[k - 1] = archive[Len(archive)]
      BY <3>1
    <3>. QED  BY <2>3, <3>1, <3>2 DEF Ends
  <2>. QED  BY <1>1, <2>1, <2>2, <2>3
<1>. QED  BY <1>2, <1>3 DEF Chained

LEMMA ParentedStep ==
    ASSUME Shape, Parented, UNCHANGED args, archive' \in Seq(Entry), Len(archive') = Len(archive) + 1,
           \A k \in 1 .. Len(archive) : archive'[k] = archive[k],
           LET p == archive'[Len(archive) + 1].path
           IN  Len(p) > 1 => \/ \E j \in 1 .. Len(archive) : archive[j].path = Front(p) /\ archive[j].kind = "dir"
                             \/ \E a \in DOMAIN args : args[a].prefix = Front(p)
    PROVE  Parented'
<1>1. archive \in Seq(Entry) /\ Len(archive) \in Nat
  BY DEF Shape
<1>2. DOMAIN archive' = 1 .. Len(archive) + 1 /\ DOMAIN archive = 1 .. Len(archive)
  BY <1>1
<1>3. ASSUME NEW k \in 1 .. Len(archive) + 1 PROVE HasParent(k)'
  <2>1. CASE k \in 1 .. Len(archive)
    <3>1. archive'[k] = archive[k] /\ \A j \in 1 .. k - 1 : archive'[j] = archive[j]
      BY <1>1, <2>1
    <3>2. HasParent(k)
      BY <1>2, <2>1 DEF Parented
    <3>. QED  BY <3>1, <3>2 DEF HasParent
  <2>2. CASE k = Len(archive) + 1
    <3>1. k - 1 = Len(archive)
      BY <1>1, <2>2
    <3>2. \A j \in 1 .. Len(archive) : archive'[j] = archive[j]
      OBVIOUS
    <3>. QED  BY <2>2, <3>1, <3>2 DEF HasParent
  <2>. QED  BY <1>1, <2>1, <2>2
<1>. QED  BY <1>2, <1>3 DEF Parented

(* The directory of a path that is printed is the argument's own or one    *)
(* that the walk has entered.                                              *)
LEMMA ParentPrinted ==
    ASSUME Shape, Buffers, Descent, NEW n \in Visible, Taken(n)
    PROVE  LET p == Prefix \o Append(inp, n)
           IN  \/ \E j \in 1 .. Len(archive) : archive[j].path = Front(p) /\ archive[j].kind = "dir"
               \/ \E a \in DOMAIN args : args[a].prefix = Front(p)
<1>1. stack # << >>
  BY DEF Taken
<1>2. arg \in DOMAIN args /\ Prefix \in Seq(NameSet) /\ inp \in Seq(NameSet) /\ n \in NameSet
  BY <1>1, ArgIn DEF Visible
<1>3. Front(Prefix \o Append(inp, n)) = Prefix \o inp
  <2>1. PICK s : s = Prefix \o inp
    OBVIOUS
  <2>2. s \in Seq(NameSet)
    BY <1>2, <2>1
  <2>3. Append(s, n) = Prefix \o Append(inp, n)
    BY <1>2, <2>1, ConcatAppend
  <2>4. Front(Append(s, n)) = s
    BY <1>2, <2>2, CutAll
  <2>. QED  BY <2>1, <2>3, <2>4
<1>4. CASE inp = << >>
  <2>1. Prefix \o inp = Prefix
    BY <1>2, <1>4
  <2>. QED  BY <1>2, <1>3, <2>1 DEF Prefix
<1>5. CASE inp # << >>
  <2>1. Len(inp) \in DOMAIN inp /\ SubSeq(inp, 1, Len(inp)) = inp
    BY <1>2, <1>5, CutAll
  <2>2. DOMAIN archive = 1 .. Len(archive)
    BY DEF Shape
  <2>. QED  BY <1>1, <1>3, <2>1, <2>2 DEF Descent
<1>. QED  BY <1>4, <1>5

LEMMA ReadableStays ==
    ASSUME Ends, Readable, UNCHANGED <<args, archive, total>>, status = "walking", status' \in {"walking", "died"}
    PROVE  Ends' /\ Readable'
<1>1. Chained' /\ Parented'
  <2>1. Chained /\ Parented
    BY ReadableIs
  <2>. QED  BY <2>1 DEF Chained, Parented, HasParent
<1>2. Aligned' /\ Ends'
  BY DEF Aligned, Ends
<1>3. Readable' <=> Chained' /\ Parented' /\ Aligned'
  BY DEF Readable, Chained, EndOf, Parented, HasParent, Aligned
<1>. QED  BY <1>1, <1>2, <1>3

LEMMA ReadableStep ==
    ASSUME Shape, Buffers, Descent, Ends, Readable, WalkStep
    PROVE  Ends' /\ Readable'
<1>1. Chained /\ Parented
  BY ReadableIs
<1>2. Readable' <=> Chained' /\ Parented' /\ Aligned'
  BY DEF Readable, Chained, EndOf, Parented, HasParent, Aligned
<1>3. CASE NextArg
  <2>1. UNCHANGED <<args, archive, total>> /\ status = "walking" /\ status' \in {"walking", "died"}
    BY <1>3, NextArgIs DEF Opens, OpensNot
  <2>. QED  BY <2>1, ReadableStays
<1>4. ASSUME NEW n \in Visible, Taken(n), Prints(Append(inp, n)) PROVE Ends' /\ Readable'
  <2>1. stack # << >> /\ status = "walking" /\ Append(inp, n) \in DOMAIN Tree /\ UNCHANGED args
    BY <1>4 DEF Taken
  <2>2. PICK e : e = NewEntry(Append(inp, n))
    OBVIOUS
  <2>3. /\ archive' \in Seq(Entry) /\ Len(archive') = Len(archive) + 1 /\ archive'[Len(archive) + 1] = e
        /\ \A k \in 1 .. Len(archive) : archive'[k] = archive[k]
    BY <1>4, <2>1, <2>2, PrintsFacts
  <2>4. e.at = Pad4(total) /\ e.path = Prefix \o Append(inp, n) /\ total' = EndOf(e)
    <3>1. total' = EndOf(e)
      BY <1>4, <2>2, Zenon DEF Prints
    <3>2. e.at = Pad4(total) /\ e.path = Prefix \o Append(inp, n)
      BY <2>2 DEF NewEntry
    <3>. QED  BY <3>1, <3>2
  <2>5. Chained'
    BY <1>1, <2>1, <2>3, <2>4, ChainedStep
  <2>6. Parented'
    <3>1. LET p == archive'[Len(archive) + 1].path
          IN  \/ \E j \in 1 .. Len(archive) : archive[j].path = Front(p) /\ archive[j].kind = "dir"
              \/ \E a \in DOMAIN args : args[a].prefix = Front(p)
      BY <1>4, <2>3, <2>4, ParentPrinted
    <3>. QED  BY <1>1, <2>1, <2>3, <3>1, ParentedStep
  <2>7. Aligned' /\ status' # "done"
    BY <1>4 DEF Taken, Leaf, Enter, Fail, Aligned
  <2>8. Ends'
    <3>1. archive' # << >>
      BY <2>3 DEF Shape
    <3>2. total' = EndOf(archive'[Len(archive')])
      BY <2>3, <2>4
    <3>. QED  BY <3>1, <3>2 DEF Ends
  <2>. QED  BY <1>2, <2>5, <2>6, <2>7, <2>8
<1>5. ASSUME NEW n \in Visible, Taken(n), ~Prints(Append(inp, n)) PROVE Ends' /\ Readable'
  <2>1. UNCHANGED <<args, archive, total>> /\ status = "walking" /\ status' \in {"walking", "died"}
    BY <1>5 DEF Taken, Leaf, Enter, Fail
  <2>. QED  BY <2>1, ReadableStays
<1>6. CASE Return
  <2>1. UNCHANGED <<args, archive, total>> /\ status = "walking" /\ status' \in {"walking", "died"}
    BY <1>6, ReturnIs
  <2>. QED  BY <2>1, ReadableStays
<1>7. CASE Trailer
  <2>1. /\ UNCHANGED args /\ archive' \in Seq(Entry) /\ Len(archive') = Len(archive) + 1
        /\ \A k \in 1 .. Len(archive) : archive'[k] = archive[k]
        /\ archive'[Len(archive) + 1].path = <<"TRAILER!!!">> /\ archive'[Len(archive) + 1].at = Pad4(total)
        /\ total' % 256 = 0 /\ status = "walking" /\ status' = "done"
    BY <1>7, TrailerIs
  <2>2. Chained'
    BY <1>1, <2>1, ChainedStep
  <2>3. Parented'
    <3>1. Len(<<"TRAILER!!!">>) = 1
      OBVIOUS
    <3>2. ~(Len(archive'[Len(archive) + 1].path) > 1)
      BY <2>1, <3>1
    <3>. QED  BY <1>1, <2>1, <3>2, ParentedStep
  <2>4. Aligned' /\ Ends'
    BY <2>1 DEF Aligned, Ends
  <2>. QED  BY <1>2, <2>2, <2>3, <2>4
<1>. QED  BY <1>3, <1>4, <1>5, <1>6, <1>7 DEF WalkStep

-----------------------------------------------------------------------------
(* The order.                                                              *)
LEMMA PrecedesAt ==
    ASSUME NEW s \in Seq(NameSet), NEW i \in Seq(NameSet), NEW p \in Seq(NameSet), NEW j \in 1 .. Len(i),
           j <= Len(p), \A h \in 1 .. j - 1 : p[h] = i[h], Before(i[j], p[j])
    PROVE  Precedes(s \o i, s \o p)
<1>1. Len(s) \in Nat /\ Len(i) \in Nat /\ Len(p) \in Nat /\ j \in Nat
  OBVIOUS
<1>0. PICK k \in Nat : k = Len(s) + j
  BY <1>1
<1>2. PICK a, b : k = Len(s) + j /\ a = s \o i /\ b = s \o p
  BY <1>0
<1>3. a \in Seq(NameSet) /\ b \in Seq(NameSet) /\ Len(a) = Len(s) + Len(i) /\ Len(b) = Len(s) + Len(p)
  BY <1>2
<1>4. k \in DOMAIN a \cap DOMAIN b
  BY <1>1, <1>2, <1>3
<1>5. a[k] = i[j] /\ b[k] = p[j]
  <2>1. a[k] = i[k - Len(s)] /\ b[k] = p[k - Len(s)]
    BY <1>1, <1>2, <1>3, ConcatProperties
  <2>2. k - Len(s) = j
    BY <1>1, <1>2
  <2>. QED  BY <2>1, <2>2
<1>6. SubSeq(i, 1, j - 1) = SubSeq(p, 1, j - 1)
  <2>1. PICK c, d : c = SubSeq(i, 1, j - 1) /\ d = SubSeq(p, 1, j - 1)
    OBVIOUS
  <2>2. j - 1 \in 0 .. Len(i) /\ j - 1 \in 0 .. Len(p) /\ j - 1 \in 0 .. j - 1
    BY <1>1
  <2>3. c \in Seq(NameSet) /\ Len(c) = j - 1 /\ \A h \in 1 .. j - 1 : c[h] = i[h]
    BY <2>1, <2>2, CutCut
  <2>4. d \in Seq(NameSet) /\ Len(d) = j - 1 /\ \A h \in 1 .. j - 1 : d[h] = p[h]
    BY <2>1, <2>2, CutCut
  <2>5. c = d
    BY <2>3, <2>4, SeqEqual
  <2>. QED  BY <2>1, <2>5
<1>7. SubSeq(a, 1, k - 1) = SubSeq(b, 1, k - 1)
  <2>1. j - 1 \in 0 .. Len(i) /\ j - 1 \in 0 .. Len(p) /\ k - 1 = Len(s) + (j - 1)
    BY <1>1, <1>2
  <2>2. SubSeq(a, 1, Len(s) + (j - 1)) = s \o SubSeq(i, 1, j - 1)
    BY <1>2, <2>1, CutConcat
  <2>3. SubSeq(b, 1, Len(s) + (j - 1)) = s \o SubSeq(p, 1, j - 1)
    BY <1>2, <2>1, CutConcat
  <2>. QED  BY <1>6, <2>1, <2>2, <2>3
<1>8. Precedes(a, b)
  BY <1>4, <1>5, <1>7 DEF Precedes
<1>. QED  BY <1>2, <1>8

(* The path that is visited precedes all others that are left.             *)
LEMMA TakenPrecedes ==
    ASSUME Shape, Buffers, Descent, NEW n \in Visible, Taken(n),
           NEW p \in Wanted(args[arg]), Held(p), p # Append(inp, n)
    PROVE  Precedes(Prefix \o Append(inp, n), Prefix \o p)
<1>1. stack # << >> /\ Append(inp, n) \in DOMAIN Tree /\ Least(n, stack[Len(stack)].names)
  BY DEF Taken
<1>2. /\ stack \in Seq(Frame) /\ inp \in Seq(Visible) /\ Len(inp) = Len(stack) - 1 /\ IsTree(Tree)
      /\ Prefix \in Seq(NameSet)
  BY <1>1, ArgIn
<1>3. PICK L \in Nat \ {0} : L = Len(stack)
  BY <1>1, <1>2
<1>4. PICK i, s : i = Append(inp, n) /\ s = Prefix
  OBVIOUS
<1>5. i \in Seq(NameSet) /\ Len(i) = L /\ i[L] = n /\ \A h \in 1 .. L - 1 : i[h] = inp[h]
  BY <1>1, <1>3, <1>4, TakenPath
<1>6. p \in Seq(NameSet) /\ Len(p) \in Nat
  BY <1>2, WantedFacts DEF Tree
<1>7. PICK j \in 1 .. L : Len(p) >= j /\ (\A h \in 1 .. j - 1 : p[h] = inp[h]) /\ p[j] \in stack[j].names
  <2>1. DOMAIN stack = 1 .. L
    BY <1>2, <1>3
  <2>. QED  BY <2>1 DEF Held
<1>8. \A h \in 1 .. j - 1 : p[h] = i[h]
  BY <1>3, <1>5, <1>7
<1>9. s \in Seq(NameSet) /\ j \in 1 .. Len(i) /\ j <= Len(p)
  BY <1>2, <1>4, <1>5, <1>6, <1>7
<1>10. CASE j # L
  <2>1. j \in 1 .. L - 1 /\ j \in DOMAIN inp
    BY <1>2, <1>3, <1>7, <1>10
  <2>2. Before(inp[j], p[j]) /\ i[j] = inp[j]
    BY <1>1, <1>5, <1>7, <2>1 DEF Descent
  <2>3. Before(i[j], p[j])
    BY <2>2
  <2>4. Precedes(s \o i, s \o p)
    BY <1>5, <1>6, <1>8, <1>9, <2>3, PrecedesAt
  <2>. QED  BY <1>4, <2>4
<1>11. CASE j = L /\ p[L] # n
  <2>1. Before(i[j], p[j])
    BY <1>1, <1>3, <1>5, <1>7, <1>11 DEF Least
  <2>2. Precedes(s \o i, s \o p)
    BY <1>5, <1>6, <1>8, <1>9, <2>1, PrecedesAt
  <2>. QED  BY <1>4, <2>2
<1>12. CASE j = L /\ p[L] = n
  <2>1. \A h \in 1 .. L : p[h] = i[h]
    <3>1. \A h \in 1 .. L : h \in 1 .. L - 1 \/ h = L
      BY <1>3
    <3>. QED  BY <1>5, <1>8, <1>12, <3>1
  <2>2. SubSeq(p, 1, L) = i /\ Len(p) # L
    BY <1>4, <1>5, <1>6, <1>7, <1>12, <2>1, Begins
  <2>3. L \in 0 .. Len(p) /\ L < Len(p)
    BY <1>6, <1>7, <1>12, <2>2
  <2>4. PICK a, b : a = s \o i /\ b = s \o p
    OBVIOUS
  <2>5. Len(a) = Len(s) + L /\ Len(b) = Len(s) + Len(p) /\ Len(s) \in Nat
    BY <1>5, <1>6, <1>9, <2>4, ConcatLen
  <2>6. SubSeq(b, 1, Len(s) + L) = a
    BY <1>6, <1>9, <2>2, <2>3, <2>4, CutConcat
  <2>7. Len(a) < Len(b)
    BY <1>6, <2>3, <2>5
  <2>8. Precedes(a, b)
    BY <2>5, <2>6, <2>7 DEF Precedes
  <2>. QED  BY <1>4, <2>4, <2>8
<1>. QED  BY <1>10, <1>11, <1>12

LEMMA OrderStays ==
    ASSUME Order, Reproducible, UNCHANGED <<args, archive>>, status = "walking",
           status' # "walking" \/ Left' \subseteq Left
    PROVE  Order' /\ Reproducible'
<1>1. \A x : Full(x)' = Full(x)
  BY DEF Full
<1>2. Reproducible'
  BY DEF Reproducible
<1>3. Order'
  BY <1>1 DEF Order
<1>. QED  BY <1>2, <1>3

(* Everything printed precedes what is printed now.                        *)
LEMMA ReproduciblePrints ==
    ASSUME Shape, Buffers, Descent, Order, Reproducible, NEW n \in Visible, Taken(n), Prints(Append(inp, n))
    PROVE  Reproducible'
<1>1. stack # << >> /\ status = "walking" /\ Append(inp, n) \in DOMAIN Tree /\ args' = args
  BY DEF Taken
<1>2. PICK e, x : e = NewEntry(Append(inp, n)) /\ x = <<arg, Append(inp, n)>>
  OBVIOUS
<1>3. /\ archive' \in Seq(Entry) /\ Len(archive') = Len(archive) + 1 /\ archive'[Len(archive) + 1] = e
      /\ \A k \in 1 .. Len(archive) : archive'[k] = archive[k]
  BY <1>1, <1>2, PrintsFacts
<1>4. e.path = Full(x) /\ x \in Left
  <2>1. x \in Left
    BY <1>2, TakenWanted
  <2>2. e.path = Prefix \o Append(inp, n)
    <3>1. NewEntry(Append(inp, n)).path = Prefix \o Append(inp, n)
      BY DEF NewEntry
    <3>. QED  BY <1>2, <3>1
  <2>3. x[1] = arg /\ x[2] = Append(inp, n)
    BY <1>2
  <2>4. Full(x) = Prefix \o Append(inp, n)
    BY <2>3 DEF Full, Prefix
  <2>. QED  BY <2>1, <2>2, <2>4
<1>5. archive \in Seq(Entry) /\ Len(archive) \in Nat
  BY DEF Shape
<1>6. DOMAIN archive' = 1 .. Len(archive) + 1 /\ DOMAIN archive = 1 .. Len(archive)
  BY <1>3, <1>5
<1>7. ASSUME Len(args) = 1, NEW j \in 1 .. Len(archive) + 1, NEW k \in 1 .. Len(archive) + 1,
             j < k, archive'[k].kind # "trailer"
      PROVE  Precedes(archive'[j].path, archive'[k].path)
  <2>1. j \in 1 .. Len(archive) /\ archive'[j] = archive[j]
    BY <1>3, <1>5, <1>7
  <2>2. CASE k \in 1 .. Len(archive)
    <3>1. archive'[k] = archive[k]
      BY <1>3, <2>2
    <3>. QED  BY <1>6, <1>7, <2>1, <2>2, <3>1 DEF Reproducible
  <2>3. CASE k = Len(archive) + 1
    <3>1. Precedes(archive[j].path, Full(x))
      BY <1>1, <1>4, <1>6, <1>7, <2>1 DEF Order
    <3>. QED  BY <1>3, <1>4, <2>1, <2>3, <3>1
  <2>. QED  BY <1>5, <2>2, <2>3
<1>. QED  BY <1>1, <1>6, <1>7 DEF Reproducible

LEMMA OrderPrints ==
    ASSUME Shape, Buffers, Descent, Order, NEW n \in Visible, Taken(n), Leaf(n) \/ Enter(n)
    PROVE  Order'
<1>1. stack # << >> /\ status = "walking" /\ Append(inp, n) \in DOMAIN Tree /\ args' = args
  BY DEF Taken
<1>2. PICK e : e = NewEntry(Append(inp, n))
  OBVIOUS
<1>3. Prints(Append(inp, n))
  BY DEF Leaf, Enter
<1>4. /\ archive' \in Seq(Entry) /\ Len(archive') = Len(archive) + 1 /\ archive'[Len(archive) + 1] = e
      /\ \A k \in 1 .. Len(archive) : archive'[k] = archive[k]
  BY <1>1, <1>2, <1>3, PrintsFacts
<1>5. archive \in Seq(Entry) /\ Len(archive) \in Nat
  BY DEF Shape
<1>6. DOMAIN archive' = 1 .. Len(archive) + 1 /\ DOMAIN archive = 1 .. Len(archive)
  BY <1>4, <1>5
<1>7. ASSUME Len(args) = 1, NEW j \in 1 .. Len(archive) + 1, NEW x \in Left'
      PROVE  Precedes(archive'[j].path, Full(x))
  <2>1. x \in Left /\ x # <<arg, Append(inp, n)>>
    BY <1>7, LeftTaken
  <2>2. CASE j \in 1 .. Len(archive)
    <3>1. Precedes(archive[j].path, Full(x))
      BY <1>1, <1>6, <1>7, <2>1, <2>2 DEF Order
    <3>. QED  BY <1>4, <2>2, <3>1
  <2>3. CASE j = Len(archive) + 1
    <3>1. PICK k \in DOMAIN args : \E q \in Wanted(args[k]) : x = <<k, q>>
      BY <2>1, InAllWanted DEF Left
    <3>2. PICK p \in Wanted(args[k]) : x = <<k, p>>
      BY <3>1
    <3>3. x[1] = k /\ x[2] = p
      BY <3>2
    <3>4. k = arg
      <4>1. arg \in DOMAIN args /\ DOMAIN args = 1 .. 1
        BY <1>1, <1>7, ArgIn, ArgFacts DEF Shape
      <4>. QED  BY <4>1
    <3>5. Held(p) /\ p # Append(inp, n) /\ p \in Wanted(args[arg])
      <4>1. ~(arg > arg)
        BY DEF Shape
      <4>2. Held(p)
        BY <2>1, <3>3, <3>4, <4>1 DEF Left
      <4>. QED  BY <2>1, <3>2, <3>4, <4>2
    <3>6. Precedes(Prefix \o Append(inp, n), Prefix \o p)
      BY <3>5, TakenPrecedes
    <3>7. Full(x) = Prefix \o p
      BY <3>3, <3>4 DEF Full, Prefix
    <3>8. archive'[j].path = Prefix \o Append(inp, n)
      <4>1. NewEntry(Append(inp, n)).path = Prefix \o Append(inp, n)
        BY DEF NewEntry
      <4>. QED  BY <1>2, <1>4, <2>3, <4>1
    <3>. QED  BY <3>6, <3>7, <3>8
  <2>. QED  BY <1>5, <2>2, <2>3
<1>8. \A x : Full(x)' = Full(x)
  BY <1>1 DEF Full
<1>. QED  BY <1>1, <1>6, <1>7, <1>8 DEF Order

LEMMA OrderStep ==
    ASSUME Shape, Buffers, Descent, Order, Reproducible, WalkStep
    PROVE  Order' /\ Reproducible'
<1>1. CASE NextArg
  <2>1. UNCHANGED <<args, archive>> /\ status = "walking" /\ (Opens \/ OpensNot)
    BY <1>1, NextArgIs
  <2>2. Opens => Left' \subseteq Left
    BY <1>1, LeftOpens
  <2>3. OpensNot => status' # "walking"
    BY DEF OpensNot
  <2>. QED  BY <2>1, <2>2, <2>3, OrderStays
<1>2. ASSUME NEW n \in Visible, Taken(n), Leaf(n) \/ Enter(n) PROVE Order' /\ Reproducible'
  <2>1. Prints(Append(inp, n))
    BY <1>2 DEF Leaf, Enter
  <2>. QED  BY <1>2, <2>1, OrderPrints, ReproduciblePrints
<1>3. ASSUME NEW n \in Visible, Taken(n), Fail(n) PROVE Order' /\ Reproducible'
  <2>1. status = "walking" /\ status' = "died" /\ args' = args /\ (Prints(Append(inp, n)) \/ UNCHANGED <<archive, total>>)
    BY <1>3 DEF Taken, Fail
  <2>2. CASE Prints(Append(inp, n))
    <3>1. Order'
      BY <2>1 DEF Order
    <3>. QED  BY <1>3, <2>2, <3>1, ReproduciblePrints
  <2>3. CASE UNCHANGED <<archive, total>>
    BY <2>1, <2>3, OrderStays
  <2>. QED  BY <2>1, <2>2, <2>3
<1>4. CASE Return
  <2>1. UNCHANGED <<args, archive>> /\ status = "walking"
    BY <1>4, ReturnIs
  <2>. QED  BY <1>4, <2>1, LeftReturn, OrderStays
<1>5. CASE Trailer
  <2>1. /\ args' = args /\ archive' \in Seq(Entry) /\ Len(archive') = Len(archive) + 1
        /\ \A k \in 1 .. Len(archive) : archive'[k] = archive[k]
        /\ archive'[Len(archive) + 1].kind = "trailer" /\ status' = "done"
    BY <1>5, TrailerIs
  <2>2. archive \in Seq(Entry) /\ Len(archive) \in Nat
    BY DEF Shape
  <2>3. DOMAIN archive' = 1 .. Len(archive) + 1 /\ DOMAIN archive = 1 .. Len(archive)
    BY <2>1, <2>2
  <2>4. ASSUME Len(args) = 1, NEW j \in 1 .. Len(archive) + 1, NEW k \in 1 .. Len(archive) + 1,
               j < k, archive'[k].kind # "trailer"
        PROVE  Precedes(archive'[j].path, archive'[k].path)
    <3>1. j \in 1 .. Len(archive) /\ k \in 1 .. Len(archive)
      BY <2>1, <2>2, <2>4
    <3>2. archive'[j] = archive[j] /\ archive'[k] = archive[k]
      BY <2>1, <3>1
    <3>. QED  BY <2>3, <2>4, <3>1, <3>2 DEF Reproducible
  <2>5. Reproducible'
    BY <2>1, <2>3, <2>4 DEF Reproducible
  <2>6. Order'
    BY <2>1 DEF Order
  <2>. QED  BY <2>5, <2>6
<1>6. \A n \in Visible : Taken(n) => Leaf(n) \/ Enter(n) \/ Fail(n)
  BY DEF Taken
<1>. QED  BY <1>1, <1>2, <1>3, <1>4, <1>5, <1>6 DEF WalkStep

-----------------------------------------------------------------------------
(* The number of entries and of open directories.                          *)
LEMMA WantedFinite ==
    ASSUME args \in Arguments
    PROVE  IsFiniteSet(AllWanted)
<1>1. Len(args) \in Nat /\ DOMAIN args = 1 .. Len(args) /\ \A k \in DOMAIN args : IsTree(args[k].tree)
  BY ArgFacts
<1>. DEFINE S == DOMAIN args
            f == [k \in S |-> DOMAIN args[k].tree]
            D == {f[k] : k \in S}
            U == UNION D
<1>3. IsFiniteSet(S)
  BY <1>1, FS_Interval
<1>4. f \in Surjection(S, D)
  BY DEF Surjection
<1>5. IsFiniteSet(D)
  <2>. HIDE DEF S, D, f
  <2>. QED  BY <1>3, <1>4, FS_Surjection
<1>6. \A d \in D : IsFiniteSet(d)
  BY <1>1 DEF IsTree
<1>7. IsFiniteSet(U)
  <2>. HIDE DEF D
  <2>. QED  BY <1>5, <1>6, FS_UNION
<1>8. IsFiniteSet(S \X U)
  <2>. HIDE DEF S, U
  <2>. QED  BY <1>3, <1>7, FS_Product
<1>9. AllWanted \subseteq S \X U
  BY DEF AllWanted, Wanted
<1>. HIDE DEF S, U
<1>. QED  BY <1>8, <1>9, FS_Subset

LEMMA VisitedFinite ==
    ASSUME Shape
    PROVE  /\ IsFiniteSet(AllWanted) /\ IsFiniteSet(Visited)
           /\ \A kind : IsFiniteSet(OfKind(Visited, kind)) /\ IsFiniteSet(OfKind(AllWanted, kind))
<1>1. IsFiniteSet(AllWanted)
  BY WantedFinite DEF Shape
<1>2. Visited \subseteq AllWanted
  BY DEF Visited
<1>3. IsFiniteSet(Visited)
  BY <1>1, <1>2, FS_Subset
<1>4. ASSUME NEW kind PROVE IsFiniteSet(OfKind(Visited, kind)) /\ IsFiniteSet(OfKind(AllWanted, kind))
  <2>1. OfKind(Visited, kind) \subseteq AllWanted /\ OfKind(AllWanted, kind) \subseteq AllWanted
    BY <1>2 DEF OfKind
  <2>. QED  BY <1>1, <2>1, FS_Subset
<1>. QED  BY <1>1, <1>3, <1>4

(* A path that is printed joins the visited ones.                          *)
LEMMA VisitedTaken ==
    ASSUME Shape, Buffers, Descent, Coverage, NEW n \in Visible, Taken(n), Leaf(n) \/ Enter(n),
           NEW x, x = <<arg, Append(inp, n)>>
    PROVE  /\ Visited' = Visited \cup {x} /\ x \notin Visited /\ Left' \cap Gone' = {}
           /\ Node(x).kind = "dir" => OfKind(Visited, "dir")' = OfKind(Visited, "dir") \cup {x}
           /\ Node(x).kind # "dir" => OfKind(Visited, "dir")' = OfKind(Visited, "dir")
<1>1. x \in Left /\ x \in AllWanted
  BY TakenWanted DEF Left
<1>2. AllWanted' = AllWanted /\ args' = args
  BY SameWanted DEF Taken
<1>3. PICK N \in SUBSET (Left \ {x}) : Gone' = Gone \cup N /\ Left' = (Left \ {x}) \ N
  BY LeftTaken
<1>6. Left \cap Gone = {}
  BY DEF Coverage, Taken
<1>4. Visited' = Visited \cup {x} /\ x \notin Visited /\ Left' \cap Gone' = {}
  BY <1>1, <1>2, <1>3, <1>6 DEF Visited
<1>5. OfKind(Visited, "dir")' = {y \in Visited' : Node(y).kind = "dir"}
  BY <1>2 DEF OfKind, Node
<1>. QED  BY <1>4, <1>5 DEF OfKind

LEMMA NewRecord ==
    ASSUME NEW i, NEW x, x = <<arg, i>>
    PROVE  Records(NewEntry(i), x)
<1>1. x[1] = arg /\ x[2] = i
  OBVIOUS
<1>2. Full(x) = Prefix \o i /\ Node(x) = Tree[i]
  BY <1>1 DEF Full, Prefix, Node, Tree
<1>3. /\ NewEntry(i).path = Prefix \o i /\ NewEntry(i).kind = Tree[i].kind
      /\ NewEntry(i).size = Size(Tree[i])
  BY DEF NewEntry
<1>. QED  BY <1>2, <1>3, Zenon DEF Records

LEMMA CoveragePrints ==
    ASSUME Shape, Buffers, Descent, Coverage, NEW n \in Visible, Taken(n), Leaf(n) \/ Enter(n)
    PROVE  Coverage'
<1>1. stack # << >> /\ status = "walking" /\ Append(inp, n) \in DOMAIN Tree /\ args' = args /\ arg' = arg
  BY DEF Taken
<1>2. PICK i, x : i = Append(inp, n) /\ x = <<arg, i>>
  OBVIOUS
<1>3. Prints(i)
  BY <1>2 DEF Leaf, Enter
<1>4. /\ archive' \in Seq(Entry) /\ Len(archive') = Len(archive) + 1 /\ archive'[Len(archive) + 1] = NewEntry(i)
      /\ \A k \in 1 .. Len(archive) : archive'[k] = archive[k]
  BY <1>1, <1>2, <1>3, PrintsFacts
<1>5. archive \in Seq(Entry) /\ Len(archive) \in Nat
  BY DEF Shape
<1>6. DOMAIN archive' = 1 .. Len(archive) + 1 /\ DOMAIN archive = 1 .. Len(archive)
  BY <1>4, <1>5
<1>7. /\ Visited' = Visited \cup {x} /\ x \notin Visited /\ Left' \cap Gone' = {}
      /\ Node(x).kind = "dir" => OfKind(Visited, "dir")' = OfKind(Visited, "dir") \cup {x}
      /\ Node(x).kind # "dir" => OfKind(Visited, "dir")' = OfKind(Visited, "dir")
  BY <1>2, VisitedTaken
<1>8. /\ Len(archive) = Cardinality(Visited) /\ opened = Cardinality(OfKind(Visited, "dir")) + arg
      /\ \A y \in Visited : \E k \in DOMAIN archive : Records(archive[k], y)
  BY <1>1 DEF Coverage
<1>9. Len(archive') = Cardinality(Visited')
  <2>1. IsFiniteSet(Visited)
    BY VisitedFinite
  <2>2. Cardinality(Visited \cup {x}) = Cardinality(Visited) + 1
    BY <1>7, <2>1, FS_AddElement
  <2>. QED  BY <1>4, <1>7, <1>8, <2>2
<1>10. ASSUME NEW y \in Visited' PROVE \E k \in DOMAIN archive' : Records(archive'[k], y)
  <2>1. CASE y \in Visited
    <3>1. PICK k \in 1 .. Len(archive) : Records(archive[k], y)
      BY <1>6, <1>8, <2>1
    <3>2. k \in 1 .. Len(archive) + 1 /\ archive'[k] = archive[k]
      BY <1>4, <1>5
    <3>. QED  BY <1>6, <3>1, <3>2
  <2>2. CASE y = x
    <3>1. Records(NewEntry(i), y)
      BY <1>2, <2>2, NewRecord
    <3>2. Len(archive) + 1 \in 1 .. Len(archive) + 1
      BY <1>5
    <3>. QED  BY <1>4, <1>6, <3>1, <3>2
  <2>. QED  BY <1>7, <2>1, <2>2
<1>11. \A e, y : Records(e, y)' <=> Records(e', y)
  BY <1>1 DEF Records, Full, Node
<1>12. opened' = Cardinality(OfKind(Visited, "dir")') + arg'
  <2>1. Node(x) = Tree[i]
    <3>1. x[1] = arg /\ x[2] = i
      BY <1>2
    <3>. QED  BY <3>1 DEF Node, Tree
  <2>2. CASE Leaf(n)
    <3>1. Node(x).kind # "dir" /\ opened' = opened
      BY <1>2, <2>1, <2>2 DEF Leaf
    <3>. QED  BY <1>1, <1>7, <1>8, <3>1
  <2>3. CASE Enter(n)
    <3>1. Node(x).kind = "dir" /\ opened' = opened + 1
      BY <1>2, <2>1, <2>3 DEF Enter
    <3>2. PICK S : S = OfKind(Visited, "dir")
      OBVIOUS
    <3>3. IsFiniteSet(S) /\ x \notin S
      BY <1>7, <3>2, VisitedFinite DEF OfKind
    <3>4. Cardinality(S \cup {x}) = Cardinality(S) + 1 /\ Cardinality(S) \in Nat
      BY <3>3, FS_AddElement, FS_CardinalityType
    <3>5. opened = Cardinality(S) + arg /\ OfKind(Visited, "dir")' = S \cup {x} /\ arg \in Nat
      <4>1. arg \in Nat
        BY ArgFacts DEF Shape
      <4>2. opened = Cardinality(S) + arg
        BY <1>8, <3>2
      <4>3. OfKind(Visited, "dir")' = S \cup {x}
        BY <1>7, <3>1, <3>2, Zenon
      <4>. QED  BY <4>1, <4>2, <4>3
    <3>6. Cardinality(OfKind(Visited, "dir")') = Cardinality(S) + 1
      BY <3>4, <3>5
    <3>. QED  BY <1>1, <3>1, <3>4, <3>5, <3>6
  <2>. QED  BY <2>2, <2>3
<1>. QED  BY <1>7, <1>9, <1>10, <1>11, <1>12 DEF Coverage

LEMMA CoverageStays ==
    ASSUME Shape, Coverage, UNCHANGED <<args, archive>>, status = "walking",
           NEW N \in SUBSET Left, Gone' = Gone \cup N, Left' = Left \ N,
           arg' \in {arg, arg + 1}, opened' - opened = arg' - arg, opened' \in Nat
    PROVE  Coverage'
<1>1. Visited' = Visited /\ Left' \cap Gone' = {}
  BY SameWanted DEF Visited, Coverage
<1>2. \A e, y : Records(e, y)' <=> Records(e', y)
  BY DEF Records, Full, Node
<1>3. OfKind(Visited, "dir")' = OfKind(Visited, "dir")
  BY <1>1 DEF OfKind, Node
<1>4. /\ Len(archive) = Cardinality(Visited) /\ opened = Cardinality(OfKind(Visited, "dir")) + arg
      /\ \A y \in Visited : \E k \in DOMAIN archive : Records(archive[k], y)
  BY DEF Coverage
<1>5. opened' = Cardinality(OfKind(Visited, "dir")) + arg'
  <2>1. PICK c : c = Cardinality(OfKind(Visited, "dir"))
    OBVIOUS
  <2>2. IsFiniteSet(OfKind(Visited, "dir"))
    BY VisitedFinite
  <2>3. c \in Nat
    BY <2>1, <2>2, FS_CardinalityType
  <2>4. opened = c + arg /\ arg \in Nat /\ opened \in Nat
    BY <1>4, <2>1, ArgFacts DEF Shape
  <2>. QED  BY <2>1, <2>3, <2>4
<1>. QED  BY <1>1, <1>2, <1>3, <1>4, <1>5 DEF Coverage

LEMMA CoverageStep ==
    ASSUME Shape, Buffers, Descent, Coverage, WalkStep
    PROVE  Coverage'
<1>1. opened \in Nat /\ arg \in Nat
  BY BootfsAssumption, ArgFacts DEF Shape
<1>2. CASE NextArg
  <2>1. UNCHANGED <<args, archive>> /\ status = "walking" /\ arg' = arg + 1 /\ (Opens \/ OpensNot)
    BY <1>2, NextArgIs
  <2>2. CASE Opens
    <3>1. opened' = opened + 1
      BY <2>2 DEF Opens
    <3>2. opened' - opened = arg' - arg /\ opened' \in Nat
      BY <1>1, <2>1, <3>1
    <3>3. PICK N \in SUBSET Left : Gone' = Gone \cup N /\ Left' = Left \ N
      BY <1>2, <2>2, LeftOpens
    <3>. QED  BY <2>1, <3>2, <3>3, CoverageStays
  <2>3. CASE OpensNot
    BY <2>3 DEF OpensNot, Coverage
  <2>. QED  BY <2>1, <2>2, <2>3
<1>3. ASSUME NEW n \in Visible, Taken(n) PROVE Coverage'
  <2>1. CASE Leaf(n) \/ Enter(n)
    BY <1>3, <2>1, CoveragePrints
  <2>2. CASE Fail(n)
    BY <2>2 DEF Fail, Coverage
  <2>. QED  BY <1>3, <2>1, <2>2 DEF Taken
<1>4. CASE Return
  <2>1. UNCHANGED <<args, arg, archive, opened>> /\ status = "walking"
    BY <1>4, ReturnIs
  <2>2. opened' - opened = arg' - arg /\ opened' \in Nat
    BY <1>1, <2>1
  <2>3. {} \in SUBSET Left /\ Gone' = Gone \cup {} /\ Left' = Left \ {}
    BY <1>4, LeftReturn
  <2>. QED  BY <2>1, <2>2, <2>3, CoverageStays
<1>5. CASE Trailer
  <2>1. status' = "done"
    BY <1>5, TrailerIs
  <2>. QED  BY <2>1 DEF Coverage
<1>. QED  BY <1>2, <1>3, <1>4, <1>5 DEF WalkStep

-----------------------------------------------------------------------------
(* The end of the program.                                                 *)
Finished ==
    status = "done" =>
      /\ Len(archive) = Cardinality(AllRead) + 1
      /\ archive[Len(archive)].kind = "trailer"
      /\ \A x \in AllRead : \E k \in DOMAIN archive : Records(archive[k], x)

(* Whatever is missing has cost a fault.                                   *)
LEMMA UnreadStep ==
    ASSUME Shape, WalkStep
    PROVE  faults' < MaxFaults \/ (unread' = unread /\ faults' = faults)
<1>1. CASE NextArg
  BY <1>1, NextArgIs, ReadDirFacts, FaultFacts DEF Opens, OpensNot
<1>2. ASSUME NEW n \in Visible, Taken(n) PROVE faults' < MaxFaults \/ (unread' = unread /\ faults' = faults)
  <2>1. CASE Leaf(n)
    BY <2>1 DEF Leaf
  <2>2. CASE Enter(n)
    BY <2>2, ReadDirFacts DEF Enter
  <2>3. CASE Fail(n)
    BY <2>3, FaultFacts DEF Fail
  <2>. QED  BY <1>2, <2>1, <2>2, <2>3 DEF Taken
<1>3. CASE Return
  BY <1>3 DEF Return
<1>4. CASE Trailer
  BY <1>4 DEF Trailer
<1>. QED  BY <1>1, <1>2, <1>3, <1>4 DEF WalkStep

LEMMA FinishedStep ==
    ASSUME Shape, Buffers, Coverage, WalkStep
    PROVE  Finished'
<1>1. CASE Trailer
  <2>1. /\ args' = args /\ archive' \in Seq(Entry) /\ Len(archive') = Len(archive) + 1
        /\ \A k \in 1 .. Len(archive) : archive'[k] = archive[k]
        /\ archive'[Len(archive) + 1].kind = "trailer" /\ status = "walking" /\ stack = << >> /\ arg = Len(args)
    BY <1>1, TrailerIs
  <2>2. archive \in Seq(Entry) /\ Len(archive) \in Nat
    BY DEF Shape
  <2>3. DOMAIN archive' = 1 .. Len(archive) + 1 /\ DOMAIN archive = 1 .. Len(archive)
    BY <2>1, <2>2
  <2>4. Left = {}
    <3>1. SUFFICES ASSUME NEW x \in Left PROVE FALSE
      OBVIOUS
    <3>2. PICK k \in DOMAIN args : \E q \in Wanted(args[k]) : x = <<k, q>>
      BY InAllWanted DEF Left
    <3>3. x[1] = k
      BY <3>2
    <3>4. k \in 1 .. Len(args) /\ Len(args) \in Nat
      BY ArgFacts DEF Shape
    <3>5. ~Held(x[2])
      BY <2>1 DEF Held
    <3>. QED  BY <2>1, <3>3, <3>4, <3>5 DEF Left
  <2>5. Visited = AllRead /\ AllRead' = AllRead
    <3>1. AllRead = AllWanted \ Gone
      BY DEF AllRead, Gone, Missed
    <3>2. AllWanted' = AllWanted /\ unread' = unread
      BY <1>1, <2>1, SameWanted, TrailerIs
    <3>. QED  BY <2>4, <3>1, <3>2 DEF Visited, AllRead
  <2>6. Len(archive) = Cardinality(AllRead) /\ \A x \in AllRead : \E k \in DOMAIN archive : Records(archive[k], x)
    BY <2>1, <2>5 DEF Coverage
  <2>7. \A x \in AllRead : \E k \in DOMAIN archive' : Records(archive'[k], x)
    <3>1. SUFFICES ASSUME NEW x \in AllRead PROVE \E k \in DOMAIN archive' : Records(archive'[k], x)
      OBVIOUS
    <3>2. PICK k \in 1 .. Len(archive) : Records(archive[k], x)
      BY <2>3, <2>6
    <3>3. k \in 1 .. Len(archive) + 1 /\ archive'[k] = archive[k]
      BY <2>1, <2>2
    <3>. QED  BY <2>3, <3>2, <3>3
  <2>8. \A e, y : Records(e, y)' <=> Records(e', y)
    BY <2>1 DEF Records, Full, Node
  <2>. QED  BY <2>1, <2>5, <2>6, <2>7, <2>8 DEF Finished
<1>2. CASE ~Trailer
  <2>1. status' # "done"
    <3>1. CASE NextArg
      BY <3>1, NextArgIs DEF Opens, OpensNot
    <3>2. ASSUME NEW n \in Visible, Taken(n) PROVE status' # "done"
      BY <3>2 DEF Taken, Leaf, Enter, Fail
    <3>3. CASE Return
      BY <3>3, ReturnIs
    <3>. QED  BY <1>2, <3>1, <3>2, <3>3 DEF WalkStep
  <2>. QED  BY <2>1 DEF Finished
<1>. QED  BY <1>1, <1>2

(* Why mkbootfs dies.                                                      *)
Cause ==
    \/ faults < MaxFaults
    \/ OfKind(AllWanted, "special") # {}
    \/ Cardinality(OfKind(AllWanted, "dir")) + Len(args)
         + (IF OfKind(AllWanted, "file") = {} THEN 0 ELSE 1) > MaxFiles

LEMMA CauseIs ==
    DiesForCause <=> (status = "died" => Cause)
  BY DEF DiesForCause, Cause, OfKind, Node

LEMMA DirsVisited ==
    ASSUME Shape, Coverage, status = "walking"
    PROVE  \E c \in Nat, d \in Nat : /\ c = Cardinality(OfKind(Visited, "dir")) /\ d = Cardinality(OfKind(AllWanted, "dir"))
                                     /\ opened = c + arg /\ c <= d
                                     /\ OfKind(Visited, "dir") # OfKind(AllWanted, "dir") => c < d
<1>1. PICK S, T : S = OfKind(Visited, "dir") /\ T = OfKind(AllWanted, "dir")
  OBVIOUS
<1>2. S \in SUBSET T
  BY <1>1 DEF OfKind, Visited
<1>3. IsFiniteSet(S) /\ IsFiniteSet(T)
  BY <1>1, VisitedFinite
<1>4. Cardinality(S) <= Cardinality(T) /\ (Cardinality(T) = Cardinality(S) => T = S)
  BY <1>2, <1>3, FS_Subset
<1>5. Cardinality(S) \in Nat /\ Cardinality(T) \in Nat
  BY <1>3, FS_CardinalityType
<1>6. opened = Cardinality(S) + arg
  BY <1>1 DEF Coverage
<1>7. S # T => Cardinality(S) < Cardinality(T)
  BY <1>4, <1>5
<1>. QED  BY <1>1, <1>4, <1>5, <1>6, <1>7

LEMMA DiesStep ==
    ASSUME Shape, Buffers, Coverage, WalkStep
    PROVE  DiesForCause'
<1>1. Shape' /\ MaxFiles \in Nat /\ MaxFaults \in Nat
  BY ShapeStep, BootfsAssumption
<1>2. SUFFICES ASSUME status' = "died" PROVE Cause'
  <2>1. DiesForCause' <=> (status' = "died" => Cause')
    BY DEF DiesForCause, Cause, OfKind, Node
  <2>. QED  BY <2>1
<1>3. ASSUME args' = args PROVE \A kind : OfKind(AllWanted, kind)' = OfKind(AllWanted, kind)
  BY <1>3, SameWanted DEF OfKind, Node
<1>4. ASSUME Fault PROVE Cause'
  BY <1>4, FaultFacts DEF Cause
<1>5. arg \in Nat /\ Len(args) \in Nat /\ arg <= Len(args)
  BY ArgFacts DEF Shape
<1>6. CASE NextArg
  <2>1. status = "walking" /\ args' = args /\ arg < Len(args) /\ OpensNot
    BY <1>2, <1>6, NextArgIs DEF Opens
  <2>2. CASE opened = MaxFiles
    <3>1. PICK c \in Nat, d \in Nat : /\ d = Cardinality(OfKind(AllWanted, "dir")) /\ opened = c + arg /\ c <= d
      BY <2>1, DirsVisited
    <3>2. PICK l \in {0, 1} : l = IF OfKind(AllWanted, "file") = {} THEN 0 ELSE 1
      OBVIOUS
    <3>3. d + Len(args) + l > MaxFiles
      BY <1>1, <1>5, <2>1, <2>2, <3>1, <3>2
    <3>. QED  BY <1>3, <2>1, <3>1, <3>2, <3>3 DEF Cause
  <2>. QED  BY <1>4, <2>1, <2>2 DEF OpensNot
<1>7. ASSUME NEW n \in Visible, Taken(n) PROVE Cause'
  <2>1. status = "walking" /\ args' = args /\ Fail(n)
    BY <1>2, <1>7 DEF Taken, Leaf, Enter
  <2>2. PICK i, x : i = Append(inp, n) /\ x = <<arg, i>>
    OBVIOUS
  <2>3. x \in AllWanted /\ x \notin Visited
    BY <1>7, <2>2, TakenWanted DEF Left, Visited
  <2>4. Node(x) = Tree[i]
    <3>1. x[1] = arg /\ x[2] = i
      BY <2>2
    <3>. QED  BY <3>1 DEF Node, Tree
  <2>5. CASE Tree[i].kind = "special"
    <3>1. x \in OfKind(AllWanted, "special")
      BY <2>3, <2>4, <2>5 DEF OfKind
    <3>. QED  BY <1>3, <2>1, <3>1 DEF Cause
  <2>6. CASE opened = MaxFiles /\ Tree[i].kind \in {"dir", "file"}
    <3>1. PICK c \in Nat, d \in Nat : /\ d = Cardinality(OfKind(AllWanted, "dir")) /\ opened = c + arg /\ c <= d
                                      /\ OfKind(Visited, "dir") # OfKind(AllWanted, "dir") => c < d
      BY <2>1, DirsVisited
    <3>2. PICK l \in {0, 1} : l = IF OfKind(AllWanted, "file") = {} THEN 0 ELSE 1
      OBVIOUS
    <3>3. c < d \/ l = 1
      <4>1. CASE Tree[i].kind = "dir"
        <5>1. x \in OfKind(AllWanted, "dir") /\ x \notin OfKind(Visited, "dir")
          BY <2>3, <2>4, <4>1 DEF OfKind
        <5>2. c < d
          BY <3>1, <5>1
        <5>. QED  BY <5>2
      <4>2. CASE Tree[i].kind = "file"
        <5>1. x \in OfKind(AllWanted, "file")
          BY <2>3, <2>4, <4>2 DEF OfKind
        <5>. QED  BY <3>2, <5>1
      <4>. QED  BY <2>6, <4>1, <4>2
    <3>4. d + Len(args) + l > MaxFiles
      BY <1>1, <1>5, <2>6, <3>1, <3>2, <3>3
    <3>. QED  BY <1>3, <2>1, <3>1, <3>2, <3>4 DEF Cause
  <2>. QED  BY <1>4, <2>1, <2>2, <2>5, <2>6 DEF Fail
<1>8. ~Return /\ ~Trailer
  BY <1>2, ReturnIs, TrailerIs
<1>. QED  BY <1>6, <1>7, <1>8 DEF WalkStep

-----------------------------------------------------------------------------
(* The specification.                                                      *)
Types ==
    /\ stage \in {"pack", "mkimage", "exit 0", "exit 1"}
    /\ ramdisk \in {"none", "partial", "done", "died"} /\ uramdisk \in {"old", "partial", "done", "died"}
    /\ lost \in BOOLEAN

Inv ==
    /\ Shape /\ Types /\ Buffers /\ Descent /\ Coverage /\ Order /\ Ends /\ Script
    /\ Readable /\ Reproducible /\ Finished /\ DiesForCause

LEMMA InitInv ==
    Init => Inv
<1>1. SUFFICES ASSUME Init PROVE Inv
  OBVIOUS
<1>2. args \in Arguments /\ Len(args) \in Nat /\ DOMAIN args = 1 .. Len(args) /\ MaxFaults \in Nat /\ MaxFiles \in Nat
  BY <1>1, ArgFacts, BootfsAssumption DEF Init
<1>3. Shape
  BY <1>1, <1>2 DEF Init, Shape
<1>4. Types /\ Script
  BY <1>1 DEF Init, Types, Script
<1>5. Buffers /\ Descent
  BY <1>1 DEF Init, Buffers, Descent
<1>6. archive = << >> /\ DOMAIN archive = {} /\ Len(archive) = 0
  BY <1>1 DEF Init
<1>7. Coverage
  <2>1. AllWanted \subseteq Left /\ Gone = {}
    <3>0. Gone = {}
      BY <1>1 DEF Init, Gone, Missed
    <3>1. SUFFICES ASSUME NEW x \in AllWanted PROVE x \in Left
      BY <3>0
    <3>2. PICK k \in DOMAIN args : \E p \in Wanted(args[k]) : x = <<k, p>>
      BY InAllWanted
    <3>3. x[1] = k /\ k > 0
      BY <1>2, <3>2
    <3>. QED  BY <1>1, <3>0, <3>3 DEF Init, Left
  <2>2. Visited = {} /\ OfKind(Visited, "dir") = {}
    BY <2>1 DEF Visited, OfKind
  <2>3. opened = 0 /\ arg = 0
    BY <1>1 DEF Init
  <2>4. Len(archive) = Cardinality(Visited) /\ opened = Cardinality(OfKind(Visited, "dir")) + arg
    BY <1>6, <2>2, <2>3, FS_EmptySet
  <2>. QED  BY <2>1, <2>2, <2>4 DEF Coverage
<1>8. Order /\ Reproducible
  BY <1>6 DEF Order, Reproducible
<1>9. Ends /\ Readable
  <2>1. Ends
    BY <1>1, <1>6 DEF Init, Ends
  <2>2. Chained /\ Parented /\ Aligned
    BY <1>1, <1>6 DEF Init, Chained, Parented, Aligned
  <2>. QED  BY <2>1, <2>2, ReadableIs
<1>10. Finished /\ DiesForCause
  BY <1>1 DEF Init, Finished, DiesForCause
<1>. QED  BY <1>3, <1>4, <1>5, <1>7, <1>8, <1>9, <1>10 DEF Inv

(* mkimg.sh's own commands leave mkbootfs alone.                           *)
LEMMA WalkStays ==
    ASSUME Inv, UNCHANGED walk, faults' = faults \/ Fault
    PROVE  /\ Shape' /\ Buffers' /\ Descent' /\ Coverage' /\ Order' /\ Ends'
           /\ Readable' /\ Reproducible' /\ Finished' /\ DiesForCause'
<1>1. /\ args' = args /\ arg' = arg /\ stack' = stack /\ inp' = inp /\ out' = out /\ opened' = opened
      /\ archive' = archive /\ total' = total /\ status' = status /\ unread' = unread
  BY DEF walk
<1>2. Shape'
  BY <1>1, FaultFacts DEF Inv, Shape
<1>3. Prefix' = Prefix /\ Tree' = Tree
  BY <1>1, SameArg
<1>4. Buffers' /\ Descent'
  BY <1>1, <1>3 DEF Inv, Buffers, Descent
<1>5. AllWanted' = AllWanted /\ Left' = Left /\ Gone' = Gone /\ Visited' = Visited /\ AllRead' = AllRead
  <2>1. AllWanted' = AllWanted
    BY <1>1, SameWanted
  <2>2. \A p : Held(p)' <=> Held(p)
    BY <1>1 DEF Held
  <2>3. Left' = Left
    BY <1>1, <2>1, <2>2 DEF Left
  <2>4. Gone' = Gone /\ AllRead' = AllRead
    BY <1>1, <2>1 DEF Gone, AllRead, Missed
  <2>. QED  BY <2>1, <2>3, <2>4 DEF Visited
<1>6. (\A x : Full(x)' = Full(x) /\ Node(x)' = Node(x)) /\ \A e, x : Records(e, x)' <=> Records(e', x)
  BY <1>1 DEF Full, Node, Records
<1>7. \A kind : OfKind(AllWanted, kind)' = OfKind(AllWanted, kind) /\ OfKind(Visited, kind)' = OfKind(Visited, kind)
  BY <1>5, <1>6 DEF OfKind
<1>8. Coverage' /\ Finished'
  BY <1>1, <1>5, <1>6, <1>7 DEF Inv, Coverage, Finished
<1>9. Order' /\ Reproducible'
  BY <1>1, <1>5, <1>6 DEF Inv, Order, Reproducible
<1>10. Ends' /\ Readable'
  <2>1. Ends'
    BY <1>1 DEF Inv, Ends
  <2>2. Chained /\ Parented /\ Aligned
    BY ReadableIs DEF Inv
  <2>3. Chained' /\ Parented' /\ Aligned'
    BY <1>1, <2>2 DEF Chained, Parented, HasParent, Aligned
  <2>4. Readable' <=> Chained' /\ Parented' /\ Aligned'
    BY DEF Readable, Chained, EndOf, Parented, HasParent, Aligned
  <2>. QED  BY <2>1, <2>3, <2>4
<1>11. DiesForCause'
  <2>1. status = "died" => Cause
    BY CauseIs DEF Inv
  <2>2. DiesForCause' <=> (status' = "died" => Cause')
    BY DEF DiesForCause, Cause, OfKind, Node
  <2>3. Cause => Cause'
    <3>1. CASE Fault
      BY <3>1, FaultFacts DEF Inv, Cause
    <3>2. CASE faults' = faults
      BY <1>1, <1>7, <3>2 DEF Cause
    <3>. QED  BY <3>1, <3>2
  <2>. QED  BY <1>1, <2>1, <2>2, <2>3
<1>. QED  BY <1>2, <1>4, <1>8, <1>9, <1>10, <1>11

LEMMA StepInv ==
    Inv /\ [Next]_vars => Inv'
<1>1. SUFFICES ASSUME Inv, [Next]_vars PROVE Inv'
  OBVIOUS
<1>2. CASE Walk
  <2>1. Shape /\ Buffers /\ Descent /\ Coverage /\ Order /\ Ends /\ Readable /\ Reproducible
    BY <1>1 DEF Inv
  <2>2. NextArg \/ Visit \/ Return \/ Trailer
    BY <1>2 DEF Walk
  <2>3. WalkStep
    BY <2>1, <2>2, VisitIs DEF WalkStep
  <2>4. Shape' /\ Buffers' /\ Descent' /\ Coverage'
    BY <2>1, <2>3, ShapeStep, BuffersStep, DescentStep, CoverageStep
  <2>5. Order' /\ Reproducible' /\ Ends' /\ Readable'
    BY <2>1, <2>3, OrderStep, ReadableStep
  <2>6. Finished' /\ DiesForCause'
    BY <2>1, <2>3, FinishedStep, DiesStep
  <2>7. faults' < MaxFaults \/ (unread' = unread /\ faults' = faults)
    BY <2>1, <2>3, UnreadStep
  <2>8. stage = "pack" /\ UNCHANGED <<lost, stage, ramdisk, uramdisk>>
    BY <1>2 DEF Walk
  <2>9. Types' /\ Script'
    BY <1>1, <2>7, <2>8 DEF Inv, Types, Script
  <2>. QED  BY <2>4, <2>5, <2>6, <2>9 DEF Inv
<1>3. CASE WriteFails
  <2>1. /\ UNCHANGED walk /\ Fault /\ stage = "pack" /\ lost' = TRUE /\ UNCHANGED <<stage, ramdisk, uramdisk>>
        /\ faults' < MaxFaults
    BY <1>1, <1>3, FaultFacts DEF WriteFails, Inv
  <2>2. Types' /\ Script'
    BY <1>1, <2>1 DEF Inv, Types, Script
  <2>. QED  BY <1>1, <2>1, <2>2, WalkStays DEF Inv
<1>a. Shape /\ Types /\ Script
  BY <1>1 DEF Inv
<1>b. faults \in Nat /\ MaxFaults \in Nat /\ status \in {"walking", "done", "died"}
  BY <1>a, BootfsAssumption DEF Shape
<1>c. Fault => faults' < MaxFaults /\ faults' # MaxFaults
  <2>1. Fault => faults' \in 0 .. MaxFaults /\ faults' < MaxFaults
    BY <1>a, FaultFacts
  <2>. QED  BY <1>b, <2>1
<1>4. CASE Gzip
  <2>1. /\ UNCHANGED walk /\ (faults' = faults \/ Fault) /\ stage = "pack" /\ status # "walking" /\ lost' = lost
        /\ uramdisk' = uramdisk /\ status' = status /\ unread' = unread
    BY <1>4 DEF Gzip, walk
  <2>2. status \in {"done", "died"} /\ uramdisk = "old" /\ (unread # {} \/ lost => faults < MaxFaults)
    BY <1>a, <1>b, <2>1 DEF Script
  <2>3. CASE ramdisk' = (IF lost THEN "partial" ELSE status) /\ stage' = "mkimage" /\ faults' = faults
    <3>1. ramdisk' \in {"partial", "done", "died"} /\ (ramdisk' = "done" => status = "done" /\ ~lost)
      BY <2>2, <2>3
    <3>2. faults' = MaxFaults => ramdisk' = status
      BY <1>b, <2>2, <2>3
    <3>3. Types' /\ Script'
      BY <1>a, <2>1, <2>2, <2>3, <3>1, <3>2 DEF Types, Script
    <3>. QED  BY <1>1, <2>1, <3>3, WalkStays DEF Inv
  <2>4. CASE ramdisk' = "partial" /\ stage' = "exit 0" /\ Fault
    <3>1. Types' /\ Script'
      BY <1>a, <1>c, <2>1, <2>2, <2>4 DEF Types, Script
    <3>. QED  BY <1>1, <2>1, <3>1, WalkStays DEF Inv
  <2>. QED  BY <1>4, <2>3, <2>4 DEF Gzip
<1>5. CASE MkImage
  <2>1. /\ UNCHANGED walk /\ (faults' = faults \/ Fault) /\ stage = "mkimage" /\ lost' = lost
        /\ status' = status /\ unread' = unread
    BY <1>5 DEF MkImage, walk
  <2>2. /\ uramdisk = "old" /\ (unread # {} \/ lost => faults < MaxFaults) /\ status # "walking"
        /\ (ramdisk = "done" => status = "done" /\ ~lost) /\ (faults = MaxFaults => ramdisk = status)
        /\ ramdisk \in {"partial", "done", "died"}
    <3>1. ramdisk \in {"partial", "done", "died"}
      BY <1>a, <2>1 DEF Types, Script
    <3>2. uramdisk = "old" /\ (unread # {} \/ lost => faults < MaxFaults) /\ status # "walking"
      BY <1>a, <2>1 DEF Script
    <3>3. (ramdisk = "done" => status = "done" /\ ~lost) /\ (faults = MaxFaults => ramdisk = status)
      BY <1>a, <2>1 DEF Script
    <3>. QED  BY <3>1, <3>2, <3>3
  <2>3. CASE uramdisk' = ramdisk /\ ramdisk' = "none" /\ stage' = "exit 0" /\ faults' = faults
    <3>1. Types'
      BY <1>a, <2>1, <2>2, <2>3 DEF Types
    <3>2. Script'
      BY <2>1, <2>2, <2>3 DEF Script
    <3>. QED  BY <1>1, <2>1, <3>1, <3>2, WalkStays DEF Inv
  <2>4. CASE uramdisk' \in {ramdisk, uramdisk, "partial"} /\ ramdisk' = ramdisk /\ stage' = "exit 1" /\ Fault
    <3>1. Types'
      BY <1>a, <2>1, <2>2, <2>4 DEF Types
    <3>2. uramdisk' = "done" => status = "done" /\ ~lost
      BY <2>2, <2>4
    <3>3. Script'
      BY <1>c, <2>1, <2>2, <2>4, <3>2 DEF Script
    <3>. QED  BY <1>1, <2>1, <3>1, <3>3, WalkStays DEF Inv
  <2>. QED  BY <1>5, <2>3, <2>4 DEF MkImage
<1>6. CASE UNCHANGED vars
  <2>1. /\ UNCHANGED walk /\ faults' = faults /\ UNCHANGED <<lost, stage, ramdisk, uramdisk>> /\ status' = status
        /\ unread' = unread
    BY <1>6 DEF vars, walk
  <2>2. Types' /\ Script'
    BY <1>1, <2>1 DEF Inv, Types, Script
  <2>. QED  BY <1>1, <2>1, <2>2, WalkStays DEF Inv
<1>. QED  BY <1>1, <1>2, <1>3, <1>4, <1>5, <1>6 DEF Next

LEMMA InvTyped ==
    Inv => TypeOK
  BY DEF Inv, Shape, Types, TypeOK

LEMMA InvComplete ==
    Inv => Complete
<1>1. SUFFICES ASSUME Inv PROVE Complete
  OBVIOUS
<1>2. status \in {"walking", "done", "died"} /\ Script /\ Finished
  BY <1>1 DEF Inv, Shape
<1>3. /\ stage = "exit 0" /\ faults = MaxFaults => uramdisk = status
      /\ stage = "exit 1" \/ unread # {} \/ lost => faults < MaxFaults
      /\ uramdisk = "done" => status = "done" /\ ~lost
  BY <1>2 DEF Script
<1>. QED  BY <1>2, <1>3 DEF Complete, Finished, Records, Full, Node, Size

(* The walk never leaves the command line or the limit on open files.      *)
THEOREM TypeCorrect ==
    Spec => []TypeOK
  BY InitInv, StepInv, InvTyped, PTL DEF Spec

(* For every directory tree and every command line, a finished archive has *)
(* one entry for each file, link and directory that belongs in it, with    *)
(* its kind and size, and ends with the trailer: the buffers that          *)
(* _archive_dir cuts back and its recursion lose nothing and add nothing.  *)
THEOREM ArchiveComplete ==
    Spec => []Complete
  BY InitInv, StepInv, InvComplete, PTL DEF Spec

(* For every tree a reader that pads names and data finds every header,    *)
(* and every directory before what is in it.                               *)
THEOREM ArchiveReadable ==
    Spec => []Readable
<1>1. Inv => Readable
  BY DEF Inv
<1>. QED  BY <1>1, InitInv, StepInv, PTL DEF Spec

(* For every tree the archive is in depth-first order of sorted names,     *)
(* whatever order readdir returns them in.                                 *)
THEOREM ArchiveReproducible ==
    Spec => []Reproducible
<1>1. Inv => Reproducible
  BY DEF Inv
<1>. QED  BY <1>1, InitInv, StepInv, PTL DEF Spec

(* For every tree and every limit on open files mkbootfs dies only of an   *)
(* I/O error, a special file or too many directories, never of its own     *)
(* check of path lengths.                                                  *)
THEOREM DeathHasCause ==
    Spec => []DiesForCause
<1>1. Inv => DiesForCause
  BY DEF Inv
<1>. QED  BY <1>1, InitInv, StepInv, PTL DEF Spec
=============================================================================
