-------------------------------- MODULE Kernel --------------------------------
(***************************************************************************)
(* The Xernel process table, scheduler and IPC (process.rs, syscall.rs,    *)
(* endpoint.rs, notification.rs, and the timer path of arch/x86_64).       *)
(*                                                                         *)
(* One CPU.  A system call runs with interrupts masked and a timer tick in *)
(* ring 0 does not preempt, so a call is one step up to the point where it *)
(* hands the CPU over.  The calls that loop (RECV, WAIT, WAIT_PID) keep    *)
(* their place in `kont`, the saved kernel context of the process: the     *)
(* loop body is a step of its own, taken each time the process is running. *)
(* A process is its PID: the table is appended in PID order and never      *)
(* shrinks, so the index of a process is its PID and procs.len() is        *)
(* next_pid.                                                               *)
(*                                                                         *)
(* What user programs do is arbitrary: any process may make any call that  *)
(* changes the state kept here.  The calls that only read (GETPID,         *)
(* GET_STATUS, CAP_IDENTIFY, ...), the calls that return an error without  *)
(* an effect, and those whose effects are all in an address space, a       *)
(* device or the console (SBRK, MAP_FRAME, MAP_MMIO, the port calls,       *)
(* WRITE) leave every variable alone and have no action.  DMA_ALLOC and    *)
(* FRAME_ALLOC are here with what they do to the caller's capabilities:    *)
(* which frames they get, and how they fail, is in module Memory.          *)
(***************************************************************************)
EXTENDS Cap, Sequences

CONSTANTS
    MAX_PROCS,     \* bound: processes ever created (the table is unbounded)
    MAX_QUEUE,     \* bound: messages queued on one endpoint (unbounded)
    NUM_ENDPOINTS, NUM_NOTIFICATIONS,
    Words,         \* message words a program sends
    Bits,          \* bit positions a program signals
    Codes,         \* exit codes and signal numbers a program passes
    ObjArgs,       \* slots a program names an endpoint or notification by
    SrcArgs,       \* slots a program names a Process cap or a cap to copy by
    DstArgs,       \* destination slots a program passes
    Pages,         \* pages a program asks DMA_ALLOC or FRAME_ALLOC for
    Frames         \* frames the allocator may hand out first

ASSUME KernelAssumption ==
    /\ MAX_PROCS \in Nat \ {0}
    /\ MAX_QUEUE \in Nat
    /\ NUM_ENDPOINTS \in Nat /\ NUM_ENDPOINTS > 1
    /\ NUM_NOTIFICATIONS \in Nat \ {0}
    /\ Codes \subseteq Nat
    /\ ObjArgs \subseteq SlotArg
    /\ SrcArgs \subseteq SlotArg
    /\ DstArgs \subseteq SlotArg
    /\ Pages \subseteq Nat \ {0}
    /\ Frames \subseteq Nat

VARIABLES
    state,       \* Process.state, without the block reason
    reason,      \* the BlockReason of a Blocked process
    kont,        \* where a process resumes: user mode or a system-call loop
    exit_code,   \* Process.exit_code
    caps,        \* Process.caps
    current,     \* Scheduler.current
    next_pid,    \* Scheduler.next_pid
    halted,      \* exit_inner found nobody to run and stopped the machine
    queue,       \* ENDPOINTS[id].queue
    word,        \* NOTIFICATIONS[id], as the set of its 1 bits
    handleless   \* history: processes spawned without a Process capability

sched == <<state, reason, current, halted>>
ipc == <<queue, word>>
vars == <<state, reason, kont, exit_code, caps, current, next_pid, halted,
          queue, word, handleless>>

Pid == 0 .. MAX_PROCS - 1
EndpointId == 0 .. NUM_ENDPOINTS - 1
NotificationId == 0 .. NUM_NOTIFICATIONS - 1

BlockReason == [type : {"Endpoint", "Notification"}, object : Nat]
OnEndpoint(id) == [type |-> "Endpoint", object |-> id]
OnNotification(id) == [type |-> "Notification", object |-> id]

State == {"Absent", "Ready", "Blocked", "Done"}

Message == [word : Words, cap : CapEntry]

(* The kernel context a process resumes in.  dst is RECV's dst_slot.       *)
Kont == [op : {"User", "Recv", "Wait", "WaitPid", "Read"},
         id : Nat, dst : SlotArg]
Loop(op, id, dst) == [op |-> op, id |-> id, dst |-> dst]
UserMode == Loop("User", 0, MAX)

EXIT_FAULT == 256

Init ==
    /\ state = [p \in Pid |-> IF p = 0 THEN "Ready" ELSE "Absent"]
    /\ reason = [p \in Pid |-> OnEndpoint(0)]
    /\ kont = [p \in Pid |-> UserMode]
    /\ exit_code = [p \in Pid |-> 0]
    /\ caps = [p \in Pid |-> seed_caps(p)]
    /\ current = 0
    /\ next_pid = 1
    /\ halted = FALSE
    /\ queue = [e \in EndpointId |-> <<>>]
    /\ word = [n \in NotificationId |-> {}]
    /\ handleless = {}
-----------------------------------------------------------------------------
(* The scheduler.                                                          *)

(* Offsets, in round-robin order after the current process, of the ready   *)
(* ones; the current process itself is the last candidate.                 *)
ReadyOffsets(st) ==
    {off \in 1 .. next_pid : st[(current + off) % next_pid] = "Ready"}

(* pick_next returned Some(_).                                             *)
can_pick(st) == ReadyOffsets(st) # {}

(* Seeded faults: the index is not wrapped; the lowest ready PID wins.     *)
pick_next_unwrapped(st) == current + Min(ReadyOffsets(st))
pick_next_lowest(st) == Min({p \in 0 .. next_pid - 1 : st[p] = "Ready"})

pick_next(st) == (current + Min(ReadyOffsets(st))) % next_pid

(* The running process is in ring 3 and may make any system call.          *)
InUser == ~halted /\ kont[current] = UserMode

InLoop(op) == ~halted /\ kont[current].op = op

(* yield_now: nothing happens when nobody else is ready.                   *)
yield_now ==
    /\ current' = IF can_pick(state) THEN pick_next(state) ELSE current
    /\ UNCHANGED <<state, reason, halted>>

(* Seeded fault: the caller stays parked when there is nobody to run.      *)
block_on_parks(r) ==
    LET parked == [state EXCEPT ![current] = "Blocked"]
    IN  /\ state' = parked
        /\ reason' = [reason EXCEPT ![current] = r]
        /\ current' = IF can_pick(parked) THEN pick_next(parked) ELSE current
        /\ UNCHANGED halted

(* block_on: park the caller and switch, or, with nobody to switch to,     *)
(* stay Ready and let the caller look again.                               *)
block_on(r) ==
    LET parked == [state EXCEPT ![current] = "Blocked"]
    IN  /\ IF can_pick(parked)
             THEN /\ state' = parked
                  /\ reason' = [reason EXCEPT ![current] = r]
                  /\ current' = pick_next(parked)
             ELSE /\ state' = [state EXCEPT ![current] = "Ready"]
                  /\ UNCHANGED <<reason, current>>
        /\ UNCHANGED halted

(* Seeded fault: only the processes behind the caller are looked at.       *)
wake_later(r) ==
    /\ state' = [p \in Pid |-> IF p > current /\ state[p] = "Blocked" /\ reason[p] = r
                                 THEN "Ready" ELSE state[p]]
    /\ UNCHANGED <<reason, current, halted>>

(* wake: every process blocked on exactly this reason becomes Ready.       *)
wake(r) ==
    /\ state' = [p \in Pid |-> IF state[p] = "Blocked" /\ reason[p] = r
                                 THEN "Ready" ELSE state[p]]
    /\ UNCHANGED <<reason, current, halted>>

(* exit_inner: the caller is Done, and the next ready process runs.        *)
exit_inner(code) ==
    LET done == [state EXCEPT ![current] = "Done"]
    IN  /\ exit_code' = [exit_code EXCEPT ![current] = code]
        /\ state' = done
        /\ IF can_pick(done)
             THEN current' = pick_next(done) /\ UNCHANGED halted
             ELSE halted' = TRUE /\ UNCHANGED current
        /\ UNCHANGED <<reason, kont, caps, next_pid, ipc, handleless>>
-----------------------------------------------------------------------------
(* Switching, exit and the process operations.                             *)

sys_yield ==
    /\ InUser
    /\ yield_now
    /\ UNCHANGED <<kont, exit_code, caps, next_pid, ipc, handleless>>

(* The timer interrupts ring 3 and preempts.                               *)
timer_preempt ==
    /\ InUser
    /\ yield_now
    /\ UNCHANGED <<kont, exit_code, caps, next_pid, ipc, handleless>>

exit(code) == InUser /\ exit_inner(code)

(* A fatal CPU exception in ring 3.                                        *)
fault_exit == InUser /\ exit_inner(EXIT_FAULT)

(* Seeded fault: the handle is installed before the child is created, and  *)
(* creating the child fails.                                               *)
spawn_handle_first(cap_slot) ==
    /\ InUser
    /\ next_pid < MAX_PROCS
    /\ caps' = [caps EXCEPT ![current] =
                  insert(@, cap_slot, Cap("Process", next_pid))]
    /\ UNCHANGED <<sched, kont, exit_code, next_pid, ipc, handleless>>

(* SPAWN and SPAWN_ENV.  A bad handle slot aborts the spawn.               *)
spawn(cap_slot) ==
    /\ InUser
    /\ next_pid < MAX_PROCS
    /\ cap_slot = MAX \/ insert_ok(caps[current], cap_slot)
    /\ state' = [state EXCEPT ![next_pid] = "Ready"]
    /\ caps' = [caps EXCEPT ![current] =
                  insert(@, cap_slot, Cap("Process", next_pid))]
    /\ next_pid' = next_pid + 1
    /\ handleless' = IF cap_slot = MAX THEN handleless \cup {next_pid}
                                       ELSE handleless
    /\ UNCHANGED <<reason, kont, exit_code, current, halted, ipc>>

(* The process named by the Process capability in a slot of the caller.    *)
process_target(slot) == caps[current][slot].object

(* Seeded faults: the target is a bare PID; an ended target is ended again. *)
kill_by_pid(proc_slot, signal) ==
    /\ InUser
    /\ proc_slot \in 1 .. next_pid - 1
    /\ state[proc_slot] # "Done"
    /\ exit_code' = [exit_code EXCEPT ![proc_slot] = signal]
    /\ state' = [state EXCEPT ![proc_slot] = "Done"]
    /\ UNCHANGED <<reason, kont, caps, current, next_pid, halted, ipc, handleless>>
kill_again(proc_slot, signal) ==
    LET target == process_target(proc_slot)
    IN  /\ InUser
        /\ holds(caps[current], proc_slot, "Process")
        /\ exit_code' = [exit_code EXCEPT ![target] = signal]
        /\ state' = [state EXCEPT ![target] = "Done"]
        /\ UNCHANGED <<reason, kont, caps, current, next_pid, halted, ipc,
                       handleless>>

(* KILL: the root task and an ended target are refused.                    *)
kill(proc_slot, signal) ==
    LET target == process_target(proc_slot)
    IN  /\ InUser
        /\ holds(caps[current], proc_slot, "Process")
        /\ target # 0
        /\ state[target] # "Done"
        /\ exit_code' = [exit_code EXCEPT ![target] = signal]
        /\ state' = [state EXCEPT ![target] = "Done"]
        /\ UNCHANGED <<reason, kont, caps, current, next_pid, halted, ipc,
                       handleless>>

(* WAIT_PID enters its loop; waiting for PID 0 or for itself is refused.   *)
sys_wait_pid(proc_slot) ==
    /\ InUser
    /\ holds(caps[current], proc_slot, "Process")
    /\ process_target(proc_slot) \notin {0, current}
    /\ kont' = [kont EXCEPT ![current] =
                  Loop("WaitPid", process_target(proc_slot), MAX)]
    /\ UNCHANGED <<sched, exit_code, caps, next_pid, ipc, handleless>>

(* The loop of wait_pid: look at the target, yield, look again.            *)
wait_pid ==
    /\ InLoop("WaitPid")
    /\ IF state[kont[current].id] = "Done"
         THEN /\ kont' = [kont EXCEPT ![current] = UserMode]
              /\ UNCHANGED sched
         ELSE yield_now /\ UNCHANGED kont
    /\ UNCHANGED <<exit_code, caps, next_pid, ipc, handleless>>

sys_cap_grant(proc_slot, src_slot, dst_slot) ==
    LET target == process_target(proc_slot)
    IN  /\ InUser
        /\ holds(caps[current], proc_slot, "Process")
        /\ get_ok(caps[current], src_slot)
        /\ insert_ok(caps[target], dst_slot)
        /\ caps' = [caps EXCEPT ![target] =
                      insert(@, dst_slot, caps[current][src_slot])]
        /\ UNCHANGED <<sched, kont, exit_code, next_pid, ipc, handleless>>

(* DMA_ALLOC charges the caller's budget; when the allocation then fails   *)
(* (ok = FALSE), the charge goes back, to the first Untyped capability.    *)
sys_dma_alloc(pages, ok) ==
    LET charged == charge_untyped(caps[current], pages)
    IN  /\ InUser
        /\ charge_ok(caps[current], pages)
        /\ caps' = [caps EXCEPT ![current] =
                      IF ok THEN charged ELSE refund_untyped(charged, pages)]
        /\ UNCHANGED <<sched, kont, exit_code, next_pid, ipc, handleless>>

(* The capability FRAME_ALLOC makes: a run of frames and its length.       *)
frame(phys, pages) == [type |-> "Frame", object |-> phys, badge |-> pages]

(* Seeded fault: the capability is installed before the allocation can     *)
(* fail, and stays when the budget is given back.                          *)
sys_frame_alloc_cap_first(pages, cap_slot, phys, ok) ==
    LET charged == charge_untyped(caps[current], pages)
        made == insert(charged, cap_slot, frame(phys, pages))
    IN  /\ InUser
        /\ charge_ok(caps[current], pages)
        /\ caps' = [caps EXCEPT ![current] =
                      IF ok /\ insert_ok(charged, cap_slot) THEN made
                      ELSE refund_untyped(made, pages)]
        /\ UNCHANGED <<sched, kont, exit_code, next_pid, ipc, handleless>>

(* FRAME_ALLOC charges the budget and installs a capability for the frames *)
(* last; when the allocation fails or the slot is out of range or taken,   *)
(* the charge goes back.                                                   *)
sys_frame_alloc(pages, cap_slot, phys, ok) ==
    LET charged == charge_untyped(caps[current], pages)
    IN  /\ InUser
        /\ charge_ok(caps[current], pages)
        /\ caps' = [caps EXCEPT ![current] =
                      IF ok /\ insert_ok(charged, cap_slot)
                        THEN insert(charged, cap_slot, frame(phys, pages))
                        ELSE refund_untyped(charged, pages)]
        /\ UNCHANGED <<sched, kont, exit_code, next_pid, ipc, handleless>>

(* READ waits for the keyboard inside the kernel, with the CPU halted.     *)
sys_read ==
    /\ InUser
    /\ kont' = [kont EXCEPT ![current] = Loop("Read", 0, MAX)]
    /\ UNCHANGED <<sched, exit_code, caps, next_pid, ipc, handleless>>

(* A byte is in the keyboard buffer: READ returns it.                      *)
read ==
    /\ InLoop("Read")
    /\ kont' = [kont EXCEPT ![current] = UserMode]
    /\ UNCHANGED <<sched, exit_code, caps, next_pid, ipc, handleless>>
-----------------------------------------------------------------------------
(* Endpoints and notifications.                                            *)

sys_send(ep_slot, w, cap_slot) ==
    LET id == caps[current][ep_slot].object
        cap == IF cap_slot = MAX THEN NoCap ELSE caps[current][cap_slot]
    IN  /\ InUser
        /\ holds(caps[current], ep_slot, "Endpoint")
        /\ cap_slot = MAX \/ get_ok(caps[current], cap_slot)
        /\ Len(queue[id]) < MAX_QUEUE
        /\ queue' = [queue EXCEPT ![id] = Append(@, [word |-> w, cap |-> cap])]
        /\ wake(OnEndpoint(id))
        /\ UNCHANGED <<kont, exit_code, caps, next_pid, word, handleless>>

sys_recv(ep_slot, dst_slot) ==
    /\ InUser
    /\ holds(caps[current], ep_slot, "Endpoint")
    /\ kont' = [kont EXCEPT ![current] =
                  Loop("Recv", caps[current][ep_slot].object, dst_slot)]
    /\ UNCHANGED <<sched, exit_code, caps, next_pid, ipc, handleless>>

(* RECV's loop, with a message: it leaves the queue whether or not its     *)
(* capability fits the destination slot.                                   *)
try_recv ==
    LET id == kont[current].id
        cap == Head(queue[id]).cap
    IN  /\ InLoop("Recv")
        /\ queue[id] # <<>>
        /\ queue' = [queue EXCEPT ![id] = Tail(@)]
        /\ caps' = IF cap = NoCap THEN caps
                   ELSE [caps EXCEPT ![current] =
                           insert(@, kont[current].dst, cap)]
        /\ kont' = [kont EXCEPT ![current] = UserMode]
        /\ UNCHANGED <<sched, exit_code, next_pid, word, handleless>>

(* Seeded fault: RECV parks on the notification of the same number.        *)
recv_block_elsewhere ==
    LET id == kont[current].id
    IN  /\ InLoop("Recv")
        /\ queue[id] = <<>>
        /\ block_on(OnNotification(id))
        /\ UNCHANGED <<kont, exit_code, caps, next_pid, ipc, handleless>>

(* RECV's loop, with nothing queued.                                       *)
recv_block ==
    LET id == kont[current].id
    IN  /\ InLoop("Recv")
        /\ queue[id] = <<>>
        /\ block_on(OnEndpoint(id))
        /\ UNCHANGED <<kont, exit_code, caps, next_pid, ipc, handleless>>

sys_signal(notif_slot, bits) ==
    LET id == caps[current][notif_slot].object
    IN  /\ InUser
        /\ holds(caps[current], notif_slot, "Notification")
        /\ word' = [word EXCEPT ![id] = @ \cup bits]
        /\ wake(OnNotification(id))
        /\ UNCHANGED <<kont, exit_code, caps, next_pid, queue, handleless>>

sys_wait(notif_slot) ==
    /\ InUser
    /\ holds(caps[current], notif_slot, "Notification")
    /\ kont' = [kont EXCEPT ![current] =
                  Loop("Wait", caps[current][notif_slot].object, MAX)]
    /\ UNCHANGED <<sched, exit_code, caps, next_pid, ipc, handleless>>

(* WAIT's loop, with bits set: it takes all of them.                       *)
poll_take ==
    LET id == kont[current].id
    IN  /\ InLoop("Wait")
        /\ word[id] # {}
        /\ word' = [word EXCEPT ![id] = {}]
        /\ kont' = [kont EXCEPT ![current] = UserMode]
        /\ UNCHANGED <<sched, exit_code, caps, next_pid, queue, handleless>>

(* WAIT's loop, with no bit set.                                           *)
wait_block ==
    LET id == kont[current].id
    IN  /\ InLoop("Wait")
        /\ word[id] = {}
        /\ block_on(OnNotification(id))
        /\ UNCHANGED <<kont, exit_code, caps, next_pid, ipc, handleless>>
-----------------------------------------------------------------------------
(* The system-call loops of the kernel: what a process does once it is     *)
(* running in one.                                                         *)
KernelStep == wait_pid \/ try_recv \/ recv_block \/ poll_take \/ wait_block

Next ==
    \/ timer_preempt
    \/ sys_yield
    \/ \E code \in Codes : exit(code)
    \/ fault_exit
    \/ \E slot \in DstArgs : spawn(slot)
    \/ \E slot \in SrcArgs, signal \in Codes : kill(slot, signal)
    \/ \E slot \in SrcArgs : sys_wait_pid(slot)
    \/ wait_pid
    \/ \E slot, src \in SrcArgs, dst \in DstArgs : sys_cap_grant(slot, src, dst)
    \/ \E pages \in Pages, ok \in BOOLEAN : sys_dma_alloc(pages, ok)
    \/ \E pages \in Pages, slot \in DstArgs, phys \in Frames, ok \in BOOLEAN :
            sys_frame_alloc(pages, slot, phys, ok)
    \/ sys_read
    \/ read
    \/ \E ep \in ObjArgs, w \in Words, src \in SrcArgs \cup {MAX} :
            sys_send(ep, w, src)
    \/ \E ep \in ObjArgs, dst \in DstArgs : sys_recv(ep, dst)
    \/ try_recv
    \/ recv_block
    \/ \E n \in ObjArgs, bits \in SUBSET Bits : sys_signal(n, bits)
    \/ \E n \in ObjArgs : sys_wait(n)
    \/ poll_take
    \/ wait_block

Spec == Init /\ [][Next]_vars

(* The kernel's own loops run as soon as their process is running.  A      *)
(* timer interrupt that comes while interrupts are masked stays pending,   *)
(* and is taken on the return to ring 3: the preemption of ring 3 cannot   *)
(* be put off for ever by making system calls, hence strong fairness.      *)
(* Nothing is assumed of user programs, nor that a key is ever pressed.    *)
Fairness == WF_vars(KernelStep) /\ SF_vars(timer_preempt)

FairSpec == Spec /\ Fairness
-----------------------------------------------------------------------------
(* Properties.                                                             *)

TypeOK ==
    /\ state \in [Pid -> State]
    /\ reason \in [Pid -> BlockReason]
    /\ kont \in [Pid -> Kont]
    /\ exit_code \in [Pid -> Nat]
    /\ caps \in [Pid -> CNode]
    /\ current \in 0 .. next_pid - 1
    /\ next_pid \in 1 .. MAX_PROCS
    /\ halted \in BOOLEAN
    /\ queue \in [EndpointId -> Seq(Message)]
    /\ word \in [NotificationId -> SUBSET Bits]
    /\ handleless \subseteq Pid

(* No wakeup is lost (syscall.rs, sys_send/sys_recv and sys_signal/        *)
(* sys_wait): a process is parked on an endpoint only while its queue is   *)
(* empty, and on a notification only while its word is zero, however       *)
(* sends, receives, preemptions and kills interleave.                      *)
NoLostWakeup ==
    \A p \in Pid : state[p] = "Blocked" =>
        /\ \A e \in EndpointId : reason[p] = OnEndpoint(e) => queue[e] = <<>>
        /\ \A n \in NotificationId : reason[p] = OnNotification(n) => word[n] = {}

(* A parked process resumes in the loop that parked it and looks at the    *)
(* very object whose wake made it ready (block_on's contract).             *)
ParkedInItsLoop ==
    \A p \in Pid : state[p] = "Blocked" =>
        \/ kont[p].op = "Recv" /\ reason[p] = OnEndpoint(kont[p].id)
        \/ kont[p].op = "Wait" /\ reason[p] = OnNotification(kont[p].id)

(* The CPU is never parked with nobody to wake it (process.rs, block_on):  *)
(* the running process is never Blocked, and the machine stops only when   *)
(* no process is ready.                                                    *)
CpuNeverParked ==
    /\ ~halted => state[current] # "Blocked"
    /\ halted => \A p \in Pid : state[p] # "Ready"

(* Every capability that exists: in a table or in flight in a message.  An *)
(* empty slot, or a message sent with cap_slot = MAX, holds none.          *)
CapsInFlight ==
    UNION {{queue[e][i].cap : i \in DOMAIN queue[e]} : e \in EndpointId}
CapsHeld == {caps[p][i] : p \in Pid, i \in Slot}
AllCaps == (CapsInFlight \cup CapsHeld) \ {NoCap}

(* A Process capability, held or in flight, names a spawned process: SPAWN *)
(* never leaves a handle to a PID that a later SPAWN gives to another.     *)
HandlesNameSpawned ==
    \A c \in AllCaps : c.type = "Process" => c.object \in 1 .. next_pid - 1

(* "a fire-and-forget child it can never touch again" (process.rs,         *)
(* install_process_cap): no Process capability for a child spawned with    *)
(* cap_slot = u64::MAX ever exists anywhere.                               *)
HandlelessUntouchable ==
    \A c \in AllCaps : c.type = "Process" => c.object \notin handleless

(* "no capability, no authority" (process.rs, current_process_pid): a step *)
(* changes another process's table, or ends it, only when the running      *)
(* process holds a Process capability for it.                              *)
NoAmbientAuthority ==
    [][\A p \in Pid \ {current} :
          (caps'[p] # caps[p] \/ (state'[p] = "Done" /\ state[p] # "Done"))
             => \E i \in Slot : /\ caps[current][i].type = "Process"
                               /\ caps[current][i].object = p]_vars

(* The step takes n pages from the budget in slot i of its process.        *)
Spent(i, n) ==
    /\ caps[current][i].type = "Untyped"
    /\ n <= caps[current][i].object
    /\ caps'[current][i] = [caps[current][i] EXCEPT !.object = @ - n]

(* The step gives n pages to the budget in slot i of its process.          *)
Given(i, n) ==
    /\ caps[current][i].type = "Untyped"
    /\ caps'[current][i] = [caps[current][i] EXCEPT !.object = @ + n]

(* Authority is copied and paid for, never forged (cap.rs, syscall.rs).    *)
(* After a step, a capability that did not exist before, in a table or in  *)
(* a message, is the handle of the process the step spawned, a Frame       *)
(* capability the running process paid for with as many pages of its       *)
(* budget, or its Untyped capability with another budget.  A taken slot is *)
(* never overwritten: all that changes is the budget of an Untyped         *)
(* capability of the running process, which shrinks, or grows by no more   *)
(* than another one of its own shrinks in the same step (the refund of a   *)
(* failed call goes to the first Untyped capability, whoever paid).        *)
AuthorityNotForged ==
    [][/\ \A c \in AllCaps' \ AllCaps :
             \/ c = Cap("Process", next_pid) /\ next_pid' = next_pid + 1
             \/ c.type = "Frame" /\ \E i \in Slot : Spent(i, c.badge)
             \/ c.type = "Untyped" /\ \E i \in Slot : caps'[current][i] = c
       /\ \A p \in Pid, i \in Slot : caps[p][i] \in {NoCap, caps'[p][i]} \/
             /\ p = current
             /\ \E n \in Pages :
                   \/ Spent(i, n)
                   \/ Given(i, n) /\ \E j \in Slot \ {i} : Spent(j, n)]_vars

(* A process that ended and is off the CPU stays ended, with the exit code *)
(* WAIT_PID reports, whoever signals, wakes or kills it afterwards.        *)
EndedStaysEnded ==
    [][\A p \in Pid \ {current} : state[p] = "Done" =>
          state'[p] = "Done" /\ exit_code'[p] = exit_code[p]]_vars

(* The CPU is handed out in turn: unless the machine stops or a process    *)
(* sits in READ for ever, a Ready process is eventually the running one or *)
(* was killed first.                                                       *)
InRead == kont[current].op = "Read"
ReadyRuns ==
    []<>~InRead => \A p \in Pid :
        state[p] = "Ready" ~> current = p \/ state[p] = "Done" \/ halted

(* A process in RECV on an endpoint with a message gets one, unless other  *)
(* receivers empty the queue first, it is killed, or the CPU sits in READ. *)
RecvProgress ==
    []<>~InRead => \A p \in Pid, e \in EndpointId :
        (kont[p].op = "Recv" /\ kont[p].id = e /\ state[p] # "Done" /\ queue[e] # <<>>)
            ~> kont[p] = UserMode \/ queue[e] = <<>> \/ state[p] = "Done"

(* WAIT_PID returns once its target has exited and is off the CPU, unless  *)
(* the waiter is killed: the busy loop of yields ends.                     *)
WaitPidReturns ==
    []<>~InRead => \A p \in Pid :
        (kont[p].op = "WaitPid" /\ state[kont[p].id] = "Done" /\ kont[p].id # current)
            ~> kont[p] = UserMode \/ state[p] = "Done"
=============================================================================
