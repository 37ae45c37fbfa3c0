--------------------------------- MODULE Entry ---------------------------------
(***************************************************************************)
(* Crossing between ring 3 and ring 0 on x86_64 (arch/x86_64/syscall.rs,   *)
(* apic.rs, idt.rs, gdt.rs, context.rs): the GS-base pair, the per-CPU     *)
(* scratch, the kernel stacks and the interrupt flag, as processes enter   *)
(* the kernel, are parked in it, resume, end and fault.                    *)
(*                                                                         *)
(* A stack pointer is named by the process whose stack it points into.     *)
(* Which process runs next is the scheduler's choice (module Kernel); here *)
(* it is any process that has not ended.                                   *)
(***************************************************************************)
CONSTANTS Procs,   \* the processes
          Root     \* the one the kernel starts

ASSUME EntryAssumption == Root \in Procs

VARIABLES
    mode,        \* "User", "Kernel", "Return" (ring 0, user stack), "Halted"
    cur,         \* the running process
    gs, kgs,     \* GS.base and KERNEL_GS_BASE: "user" (0) or "percpu"
    kernel_rsp,  \* PERCPU.kernel_rsp
    user_rsp,    \* PERCPU.user_rsp, the transient scratch
    rsp0,        \* TSS.RSP0
    rsp,         \* the user stack pointer, in modes User and Return
    stack,       \* the kernel stack in use, in mode Kernel
    ctx,         \* how a process last entered the kernel
    ksp,         \* Process.ksp: the stack a parked process resumes on
    saved,       \* the user rsp kept on a kernel stack
    masked,      \* the interrupt flag is clear
    crashed      \* ring 0 used GS-relative memory with GS.base = 0

vars == <<mode, cur, gs, kgs, kernel_rsp, user_rsp, rsp0, rsp, stack, ctx,
          ksp, saved, masked, crashed>>

Context == {"Fresh", "Syscall", "Timer", "Ended"}

(* process::run has activated the root and entered user space.             *)
Init ==
    /\ mode = "User" /\ cur = Root
    /\ gs = "user" /\ kgs = "percpu"
    /\ kernel_rsp = Root /\ rsp0 = Root
    /\ user_rsp = Root /\ rsp = Root /\ stack = Root
    /\ ctx = [p \in Procs |-> "Fresh"]
    /\ ksp = [p \in Procs |-> p]
    /\ saved = [p \in Procs |-> p]
    /\ masked = FALSE
    /\ crashed = FALSE

swapgs == gs' = kgs /\ kgs' = gs

(* syscall_entry: swap GS, switch to the process's kernel stack through    *)
(* the per-CPU area, and keep the user rsp on that stack.                  *)
syscall_entry ==
    /\ mode = "User"
    /\ swapgs
    /\ masked' = TRUE
    /\ IF kgs = "percpu"
         THEN /\ mode' = "Kernel"
              /\ user_rsp' = rsp
              /\ stack' = kernel_rsp
              /\ saved' = [saved EXCEPT ![kernel_rsp] = rsp]
              /\ ctx' = [ctx EXCEPT ![cur] = "Syscall"]
              /\ UNCHANGED crashed
         ELSE /\ crashed' = TRUE
              /\ mode' = "Halted"
              /\ UNCHANGED <<user_rsp, stack, saved, ctx>>
    /\ UNCHANGED <<cur, kernel_rsp, rsp0, rsp, ksp>>

(* timer_isr from ring 3: the CPU pushes the user rsp on the RSP0 stack.   *)
timer_isr ==
    /\ mode = "User" /\ ~masked
    /\ swapgs
    /\ masked' = TRUE
    /\ mode' = "Kernel"
    /\ stack' = rsp0
    /\ saved' = [saved EXCEPT ![rsp0] = rsp]
    /\ ctx' = [ctx EXCEPT ![cur] = "Timer"]
    /\ UNCHANGED <<cur, kernel_rsp, user_rsp, rsp0, rsp, ksp, crashed>>

(* How the GS pair is left when a fresh process enters user space: forced  *)
(* to its ring-3 state, whatever the path that led here left (g, k).       *)
enter_user(g, k) == mode' = "User" /\ gs' = "user" /\ kgs' = "percpu"

(* activate(q) and switch_context: q runs on the stack it was parked on.   *)
(* A fresh process goes through the trampoline into user space; any other  *)
(* resumes in the kernel with the GS pair (g, k) of the one it follows.    *)
switch_to(q, g, k) ==
    /\ cur' = q
    /\ kernel_rsp' = q
    /\ rsp0' = q
    /\ stack' = ksp[q]
    /\ IF ctx[q] = "Fresh"
         THEN /\ enter_user(g, k)
              /\ rsp' = q
              /\ masked' = FALSE
         ELSE /\ mode' = "Kernel"
              /\ gs' = g /\ kgs' = k
              /\ masked' = TRUE
              /\ UNCHANGED rsp
    /\ UNCHANGED <<user_rsp, saved, crashed>>

(* The processes the scheduler may hand the CPU to.                        *)
Others == {q \in Procs \ {cur} : ctx[q] # "Ended"}

(* yield_now or block_on, from a system call or from the timer.  READ, the *)
(* one call that enables interrupts, hands the CPU to nobody.              *)
switch_context(q) ==
    /\ mode = "Kernel" /\ masked
    /\ ksp' = [ksp EXCEPT ![cur] = stack]
    /\ switch_to(q, gs, kgs)
    /\ UNCHANGED ctx

(* exit_inner from a system call: the dying context is not saved, and its  *)
(* closing swapgs never runs.                                              *)
exit_inner(q) ==
    /\ mode = "Kernel" /\ ctx[cur] = "Syscall" /\ masked
    /\ ctx' = [ctx EXCEPT ![cur] = "Ended"]
    /\ switch_to(q, gs, kgs)
    /\ UNCHANGED ksp

(* Seeded fault: an exception handler leaves the ring-3 GS pair in place.  *)
fatal_unbalanced(q) ==
    /\ mode = "User"
    /\ ctx' = [ctx EXCEPT ![cur] = "Ended"]
    /\ switch_to(q, gs, kgs)
    /\ UNCHANGED ksp

(* fatal and page_fault in ring 3: the handler forces the GS pair to its   *)
(* in-kernel state (gs_force_kernel) and ends the process.                 *)
fatal(q) ==
    /\ mode = "User"
    /\ ctx' = [ctx EXCEPT ![cur] = "Ended"]
    /\ switch_to(q, "percpu", "user")
    /\ UNCHANGED ksp

(* exit_inner with nobody to run.                                          *)
halt_forever ==
    /\ mode = "User" \/ (mode = "Kernel" /\ ctx[cur] = "Syscall" /\ masked)
    /\ mode' = "Halted"
    /\ UNCHANGED <<cur, gs, kgs, kernel_rsp, user_rsp, rsp0, rsp, stack, ctx,
                   ksp, saved, masked, crashed>>

(* READ with no key buffered: keyboard::read enables interrupts and halts  *)
(* until one comes; the flag stays set when the call returns.              *)
enable_and_hlt ==
    /\ mode = "Kernel" /\ ctx[cur] = "Syscall"
    /\ masked' = FALSE
    /\ UNCHANGED <<mode, cur, gs, kgs, kernel_rsp, user_rsp, rsp0, rsp, stack,
                   ctx, ksp, saved, crashed>>

(* Seeded fault: the user rsp is taken back from the shared scratch.       *)
restore_user_rsp_shared ==
    /\ mode = "Kernel" /\ ctx[cur] = "Syscall"
    /\ mode' = "Return"
    /\ rsp' = user_rsp
    /\ UNCHANGED <<cur, gs, kgs, kernel_rsp, user_rsp, rsp0, stack, ctx, ksp,
                   saved, masked, crashed>>

(* The end of syscall_entry, up to `mov rsp, [rsp]`.                       *)
restore_user_rsp ==
    /\ mode = "Kernel" /\ ctx[cur] = "Syscall"
    /\ mode' = "Return"
    /\ rsp' = saved[stack]
    /\ UNCHANGED <<cur, gs, kgs, kernel_rsp, user_rsp, rsp0, stack, ctx, ksp,
                   saved, masked, crashed>>

(* The closing swapgs and sysretq, which sets the interrupt flag again.    *)
sysretq ==
    /\ mode = "Return"
    /\ swapgs
    /\ mode' = "User"
    /\ masked' = FALSE
    /\ UNCHANGED <<cur, kernel_rsp, user_rsp, rsp0, rsp, stack, ctx, ksp,
                   saved, crashed>>

(* The end of timer_isr: swapgs and iretq.                                 *)
iretq ==
    /\ mode = "Kernel" /\ ctx[cur] = "Timer"
    /\ swapgs
    /\ mode' = "User"
    /\ rsp' = saved[stack]
    /\ masked' = FALSE
    /\ UNCHANGED <<cur, kernel_rsp, user_rsp, rsp0, stack, ctx, ksp, saved,
                   crashed>>

Next ==
    \/ syscall_entry
    \/ timer_isr
    \/ \E q \in Others : switch_context(q)
    \/ \E q \in Others : exit_inner(q)
    \/ \E q \in Others : fatal(q)
    \/ halt_forever
    \/ enable_and_hlt
    \/ restore_user_rsp
    \/ sysretq
    \/ iretq

Spec == Init /\ [][Next]_vars
-----------------------------------------------------------------------------
TypeOK ==
    /\ mode \in {"User", "Kernel", "Return", "Halted"}
    /\ cur \in Procs /\ rsp \in Procs /\ stack \in Procs
    /\ kernel_rsp \in Procs /\ user_rsp \in Procs /\ rsp0 \in Procs
    /\ gs \in {"user", "percpu"}
    /\ kgs \in {"user", "percpu"}
    /\ ctx \in [Procs -> Context]
    /\ ksp \in [Procs -> Procs]
    /\ saved \in [Procs -> Procs]
    /\ masked \in BOOLEAN
    /\ crashed \in BOOLEAN

(* Every path into ring 3 and out of it keeps the swapgs discipline: ring  *)
(* 3 runs with GS.base = 0 and the per-CPU pointer behind it, ring 0 the   *)
(* other way round, also when the process that resumes was parked by       *)
(* another path than the one that ended or faulted before it; so the entry *)
(* stub never touches gs:[8] with GS.base = 0 (enter_user's and            *)
(* gs_force_kernel's comments).                                            *)
GsBalanced ==
    /\ ~crashed
    /\ mode = "User" => gs = "user" /\ kgs = "percpu"
    /\ mode \in {"Kernel", "Return"} => gs = "percpu" /\ kgs = "user"

(* A process enters the kernel on its own stack by both paths and resumes  *)
(* on it, and returns to ring 3 with its own stack pointer, however many   *)
(* others used the shared per-CPU scratch while it was parked              *)
(* (syscall_entry's comment).                                              *)
OwnStacks ==
    /\ mode = "User" => kernel_rsp = cur /\ rsp0 = cur
    /\ mode \in {"User", "Return"} => rsp = cur
    /\ mode = "Kernel" => stack = cur
=============================================================================
