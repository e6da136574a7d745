------------------------------ MODULE MCBootfs -------------------------------
(* Small directory trees: nested and empty directories, names that begin   *)
(* like others, skipped names, links, special files, two arguments.        *)
EXTENDS MkBootfs

NameSeq == <<".git", "bin", "etc", "init", "init.d", "root", "sh">>
Lengths == [n \in NameSet |-> CASE n = "bin" -> 3 [] n = "etc" -> 3 [] n = "init" -> 4 [] n = "init.d" -> 6
                                [] n = "sh" -> 2 [] OTHER -> 4]
F(n) == [kind |-> "file", size |-> n]
D    == [kind |-> "dir", size |-> 0]
K(n) == [kind |-> "link", size |-> n]
S    == [kind |-> "special", size |-> 0]

Nodes == {<<"bin">>, <<"bin", "sh">>, <<"etc">>, <<"etc", "init">>, <<"etc", "init.d">>,
          <<"etc", "init.d", "sh">>, <<"etc", "init.d", "root">>, <<"etc", ".git">>, <<"init">>, <<"init.d">>}
Full(p) == CASE p \in {<<"bin">>, <<"etc">>, <<"etc", "init.d">>, <<"etc", ".git">>} -> D
             [] p = <<"bin", "sh">> -> K(7) [] p = <<"init.d">> -> K(2000)
             [] p = <<"etc", "init.d", "root">> -> D
             [] OTHER -> F(5)
Closed(N) == \A p \in N : Len(p) > 1 => Front(p) \in N
(* All parts of that tree that are trees, and with the last path special.  *)
SomeTrees == {[p \in N |-> Full(p)] : N \in {N \in SUBSET Nodes : Closed(N) /\ Cardinality(N) \in 4..10}}
SpecialTree == [p \in Nodes |-> IF p = <<"etc", "init.d", "sh">> THEN S ELSE Full(p)]
SmallTree == [p \in {<<"bin">>, <<"sh">>} |-> IF p = <<"bin">> THEN D ELSE F(3)]

Arg(t, x) == [tree |-> t, prefix |-> x]
Packings == {<<Arg(t, << >>)>> : t \in SomeTrees \cup {SpecialTree}}
              \cup {<<Arg(SmallTree, << >>), Arg(t, <<"sh">>)>> : t \in {t \in SomeTrees : <<"bin">> \notin DOMAIN t}}
=============================================================================
