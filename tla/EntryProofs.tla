------------------------------ MODULE EntryProofs ------------------------------
(***************************************************************************)
(* The swapgs discipline and the ownership of kernel stacks hold for any   *)
(* set of processes.  GsBalanced is inductive once the types are known;    *)
(* OwnStacks is not: a parked process comes back on the stack, and with    *)
(* the user rsp, that were saved when it was parked, so both must be its   *)
(* own all the time (Inv).                                                 *)
(***************************************************************************)
EXTENDS Entry, TLAPS

(* The strengthening of OwnStacks: the CPU's stack registers name the      *)
(* running process in every mode but the last, every saved context lies on *)
(* the process's own stack, and whoever is in the kernel entered it.       *)
ParkedOnOwnStack ==
    /\ mode # "Halted" => kernel_rsp = cur /\ rsp0 = cur
    /\ \A p \in Procs : ksp[p] = p
    /\ \A p \in Procs : saved[p] = p

Inv == TypeOK /\ GsBalanced /\ OwnStacks /\ ParkedOnOwnStack

(* The initial state satisfies the inductive invariant. *)
LEMMA InitInv == Init => Inv
  BY EntryAssumption
     DEF Init, Inv, TypeOK, GsBalanced, OwnStacks, ParkedOnOwnStack, Context

(* Handing the CPU to q (activate and switch_context) keeps the invariant  *)
(* whenever the GS pair it is given is the in-kernel one.                  *)
LEMMA SwitchKeeps ==
  ASSUME Inv, NEW q \in Procs, switch_to(q, "percpu", "user"),
         ctx' \in [Procs -> Context], ksp' = ksp
  PROVE  Inv'
<1> USE DEF Inv, switch_to
<1>1. GsBalanced'
  BY DEF GsBalanced, enter_user
<1>2. OwnStacks' /\ ParkedOnOwnStack'
  BY DEF TypeOK, OwnStacks, ParkedOnOwnStack, enter_user
<1>3. masked' \in BOOLEAN
  OBVIOUS
<1>4. crashed' \in BOOLEAN
  BY DEF TypeOK
<1>5. TypeOK'
  BY <1>3, <1>4 DEF TypeOK, enter_user
<1> QED
  BY <1>1, <1>2, <1>5

(* Every step preserves the inductive invariant: one case per action. *)
LEMMA StepInv == Inv /\ [Next]_vars => Inv'
<1> SUFFICES ASSUME Inv, [Next]_vars PROVE Inv'
  OBVIOUS
<1> USE DEF Inv
<1>1. CASE syscall_entry
  BY <1>1 DEF syscall_entry, swapgs, TypeOK, GsBalanced, OwnStacks,
              ParkedOnOwnStack, Context
<1>2. CASE timer_isr
  BY <1>2 DEF timer_isr, swapgs, TypeOK, GsBalanced, OwnStacks,
              ParkedOnOwnStack, Context
<1>3. ASSUME NEW q \in Others, switch_context(q) PROVE Inv'
  <2>1. q \in Procs /\ switch_to(q, "percpu", "user")
    BY <1>3 DEF switch_context, Others, GsBalanced
  <2>2. ksp' = ksp
    BY <1>3 DEF switch_context, OwnStacks, ParkedOnOwnStack, TypeOK
  <2>3. ctx' \in [Procs -> Context]
    BY <1>3 DEF switch_context, TypeOK
  <2> QED
    BY <2>1, <2>2, <2>3, SwitchKeeps
<1>4. ASSUME NEW q \in Others, exit_inner(q) PROVE Inv'
  <2>1. q \in Procs /\ switch_to(q, "percpu", "user")
    BY <1>4 DEF exit_inner, Others, GsBalanced
  <2>2. ksp' = ksp /\ ctx' \in [Procs -> Context]
    BY <1>4 DEF exit_inner, TypeOK, Context
  <2> QED
    BY <2>1, <2>2, SwitchKeeps
<1>5. ASSUME NEW q \in Others, fatal(q) PROVE Inv'
  <2>1. q \in Procs /\ switch_to(q, "percpu", "user")
    BY <1>5 DEF fatal, Others
  <2>2. ksp' = ksp /\ ctx' \in [Procs -> Context]
    BY <1>5 DEF fatal, TypeOK, Context
  <2> QED
    BY <2>1, <2>2, SwitchKeeps
<1>6. CASE halt_forever
  BY <1>6 DEF halt_forever, TypeOK, GsBalanced, OwnStacks, ParkedOnOwnStack
<1>7. CASE enable_and_hlt
  BY <1>7 DEF enable_and_hlt, TypeOK, GsBalanced, OwnStacks, ParkedOnOwnStack
<1>8. CASE restore_user_rsp
  BY <1>8 DEF restore_user_rsp, TypeOK, GsBalanced, OwnStacks, ParkedOnOwnStack
<1>9. CASE sysretq
  BY <1>9 DEF sysretq, swapgs, TypeOK, GsBalanced, OwnStacks, ParkedOnOwnStack
<1>10. CASE iretq
  BY <1>10 DEF iretq, swapgs, TypeOK, GsBalanced, OwnStacks, ParkedOnOwnStack
<1>11. CASE UNCHANGED vars
  BY <1>11 DEF vars, TypeOK, GsBalanced, OwnStacks, ParkedOnOwnStack
<1> QED
  BY <1>1, <1>2, <1>3, <1>4, <1>5, <1>6, <1>7, <1>8, <1>9, <1>10, <1>11
     DEF Next

(* The variables keep their types on every path between the rings. *)
THEOREM EntryTypes == Spec => []TypeOK
  BY InitInv, StepInv, PTL DEF Spec, Inv

(* Whatever path parks, resumes, ends or faults a process, ring 3 and ring *)
(* 0 each run with their own GS pair, and the entry stub finds the per-CPU *)
(* area (syscall_entry, enter_user, gs_force_kernel).                      *)
THEOREM SwapgsDiscipline == Spec => []GsBalanced
  BY InitInv, StepInv, PTL DEF Spec, Inv

(* Every process uses its own kernel stack and gets its own user rsp back  *)
(* (syscall_entry, set_kernel_stack, set_rsp0, switch).                    *)
THEOREM StacksArePrivate == Spec => []OwnStacks
  BY InitInv, StepInv, PTL DEF Spec, Inv
=============================================================================
