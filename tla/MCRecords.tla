------------------------------ MODULE MCRecords ------------------------------
(* Layouts that differ in one size each: those that move the extended      *)
(* partition, those that keep its start and those that move only its end.  *)
EXTENDS BootRecords

Base == [s \in Spaces |-> CASE s = "boot" -> 3 [] s = "cache" -> 2 [] OTHER -> 1]
Variants == {Base, [Base EXCEPT !["cache"] = 1], [Base EXCEPT !["data"] = 2],
             [Base EXCEPT !["wowconfig"] = 2], [Base EXCEPT !["system"] = 2]}
=============================================================================
