------------------------------ MODULE MCRelease ------------------------------
(* Two runs for one output directory, and one run with rebuilds.           *)
EXTENDS Release

TwoRuns == [r \in {"r1", "r2"} |-> [good |-> TRUE, ln |-> r = "r2", init |-> r = "r1"]]
AllSources == {Needed, Needed \cup {"md5sum.txt"}, Needed \ {"system.img"}}
=============================================================================
