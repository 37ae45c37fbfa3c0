-------------------------------- MODULE MCBoot --------------------------------
(* Values for the parameters of Kernel that its programs here do not vary. *)
EXTENDS Boot

NoArgs == {}
AllBits == 0 .. 3
=============================================================================
