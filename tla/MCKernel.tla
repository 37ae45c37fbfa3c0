------------------------------- MODULE MCKernel -------------------------------
(***************************************************************************)
(* Kernel, instantiated for TLC.  Slot 6 is the one slot that is free in   *)
(* every table, so that the handles and the delegated capabilities of a    *)
(* process compete for it; slot 2 is the root task's Untyped capability.   *)
(***************************************************************************)
EXTENDS Kernel

(* Destinations a program passes: the free slot, or u64::MAX.              *)
Dst == {6, MAX}

(* What two states have in common that no step can tell apart: the reason  *)
(* is part of the Blocked state in the code and means nothing elsewhere,   *)
(* and an ended process that is off the CPU never resumes anywhere.        *)
Parked(p) == IF state[p] = "Blocked" THEN reason[p] ELSE OnEndpoint(0)
Resumes(p) == IF state[p] = "Done" /\ p # current THEN UserMode ELSE kont[p]
View == <<state, [p \in Pid |-> Parked(p)], [p \in Pid |-> Resumes(p)], exit_code,
          caps, current, next_pid, halted, queue, word, handleless>>
=============================================================================
