------------------------------- MODULE MCMemory -------------------------------
(* Module Memory on a small machine: two usable regions with a hole, so    *)
(* that a run may have to skip the end of the first one.                   *)
EXTENDS Memory

TwoRegions == <<[start |-> 0, end |-> 2], [start |-> 3, end |-> 6]>>
=============================================================================
