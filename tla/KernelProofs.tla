----------------------------- MODULE KernelProofs -----------------------------
(***************************************************************************)
(* The safety properties of module Kernel, for any number of processes,    *)
(* endpoints, notifications and slots, any queue bound and any arguments.  *)
(*                                                                         *)
(* NoLostWakeup is not inductive by itself.  That a step leaves it true    *)
(* needs that the running process is not Blocked (CpuNeverParked), that it *)
(* parks from the loop it will resume in (ParkedInItsLoop), and that the   *)
(* object of every loop and of every capability, held or in flight,        *)
(* exists; the last in turn needs that a Process capability only ever      *)
(* names a spawned process.  Inv is the conjunction.                       *)
(***************************************************************************)
EXTENDS Kernel, WellFoundedInduction, TLAPS

(* A nonempty set of naturals has a least element, and Min is it. *)
LEMMA MinIsLeast ==
  ASSUME NEW S, S \subseteq Nat, S # {}
  PROVE  Min(S) \in S /\ \A y \in S : Min(S) <= y
<1>1. PICK x \in S : \A y \in S : ~(<<y, x>> \in OpToRel(<, Nat))
  BY NatLessThanWellFounded, WFMin, Zenon
<1>2. \A y \in S : x <= y
  <2> TAKE y \in S
  <2>1. y \in Nat /\ x \in Nat
    OBVIOUS
  <2>2. ~(y < x)
    BY <1>1, <2>1, Zenon DEF OpToRel
  <2> QED
    BY <2>1, <2>2
<1>3. \E z \in S : \A y \in S : z <= y
  BY <1>2
<1> QED
  BY <1>3 DEF Min

(* The remainder of a round-robin index is an index of the table. *)
LEMMA ModRange ==
  ASSUME NEW a \in Nat, NEW n \in Nat \ {0}
  PROVE  a % n \in 0 .. n - 1
  OBVIOUS

(* Every index of the table is reached by one offset of a full turn. *)
LEMMA ModOffset ==
  ASSUME NEW n \in Nat \ {0}, NEW c \in 0 .. n - 1, NEW p \in 0 .. n - 1
  PROVE  \E off \in 1 .. n : (c + off) % n = p
<1>1. CASE p > c
  <2>1. p - c \in 1 .. n /\ c + (p - c) = p /\ p % n = p
    BY <1>1
  <2> QED BY <2>1
<1>2. CASE p <= c
  <2>1. p - c + n \in 1 .. n /\ c + (p - c + n) = p + n
    BY <1>2
  <2>2. (p + n) % n = p
    OBVIOUS
  <2> QED BY <2>1, <2>2
<1> QED BY <1>1, <1>2

(* pick_next returns a Ready process of the table. *)
LEMMA PickIsReady ==
  ASSUME TypeOK, NEW st, can_pick(st)
  PROVE  pick_next(st) \in 0 .. next_pid - 1 /\ st[pick_next(st)] = "Ready"
<1>1. ReadyOffsets(st) \subseteq Nat /\ ReadyOffsets(st) # {}
  BY DEF can_pick, ReadyOffsets
<1>2. Min(ReadyOffsets(st)) \in ReadyOffsets(st)
  BY <1>1, MinIsLeast
<1>3. current \in Nat /\ next_pid \in Nat \ {0}
  BY KernelAssumption DEF TypeOK
<1>4. current + Min(ReadyOffsets(st)) \in Nat
  BY <1>1, <1>2, <1>3
<1> QED
  BY <1>2, <1>3, <1>4, ModRange DEF pick_next, ReadyOffsets

(* pick_next returns None only when no process of the table is Ready. *)
LEMMA PickIsComplete ==
  ASSUME TypeOK, NEW st, ~can_pick(st), NEW p \in 0 .. next_pid - 1
  PROVE  st[p] # "Ready"
<1>1. current \in 0 .. next_pid - 1 /\ next_pid \in Nat \ {0}
  BY KernelAssumption DEF TypeOK
<1>2. \E off \in 1 .. next_pid : (current + off) % next_pid = p
  BY <1>1, ModOffset
<1> QED
  BY <1>2 DEF can_pick, ReadyOffsets

(* What CNode::insert leaves in a table. *)
LEMMA InsertResult ==
  ASSUME NEW cnode \in CNode, NEW index, NEW cap \in CapEntry
  PROVE  /\ insert(cnode, index, cap) \in CNode
         /\ \A i \in Slot : insert(cnode, index, cap)[i] \in {cnode[i], cap}
  BY DEF insert, insert_ok, CNode

(* The table a process starts with. *)
LEMMA SeedCaps ==
  ASSUME NEW pid \in Nat
  PROVE  /\ seed_caps(pid) \in CNode
         /\ \A i \in Slot : LET c == seed_caps(pid)[i] IN
              /\ c.type = "Endpoint" => c.object \in {0, 1}
              /\ c.type = "Notification" => c.object = 0
              /\ c.type # "Process"
  BY CapAssumption, SMTT(30)
     DEF seed_caps, CNode, CapEntry, CapType, Cap, NoCap, Slot, EP_SLOT,
         REPLY_EP_SLOT, NOTIF_SLOT
-----------------------------------------------------------------------------
(* The inductive invariant.                                                *)

(* The table holds exactly the processes created so far. *)
TableInPidOrder == \A p \in Pid : state[p] = "Absent" <=> p >= next_pid

(* A capability names an object that exists, and no Process capability     *)
(* names a child that was spawned without one.                             *)
NamesObject(c) ==
    /\ c.type = "Endpoint" => c.object \in EndpointId
    /\ c.type = "Notification" => c.object \in NotificationId
    /\ c.type = "Process" => c.object \in 1 .. next_pid - 1
    /\ c.type = "Process" => c.object \notin handleless

CapsNameObjects ==
    /\ \A p \in Pid, i \in Slot : NamesObject(caps[p][i])
    /\ \A e \in EndpointId : \A i \in 1 .. Len(queue[e]) :
          NamesObject(queue[e][i].cap)

(* A system call in progress works on an object that exists.               *)
LoopsOnObjects ==
    \A p \in Pid :
        /\ kont[p].op = "Recv" => kont[p].id \in EndpointId
        /\ kont[p].op = "Wait" => kont[p].id \in NotificationId
        /\ kont[p].op = "WaitPid" => kont[p].id \in 1 .. next_pid - 1

HandlelessSpawned == \A p \in handleless : p < next_pid

Inv ==
    /\ TypeOK
    /\ TableInPidOrder
    /\ CapsNameObjects
    /\ LoopsOnObjects
    /\ HandlelessSpawned
    /\ NoLostWakeup
    /\ ParkedInItsLoop
    /\ CpuNeverParked

(* The initial state satisfies the inductive invariant. *)
LEMMA InitInv == Init => Inv
<1> SUFFICES ASSUME Init PROVE Inv
  OBVIOUS
<1>1. 0 \in Pid /\ Pid \subseteq Nat /\ 0 \in EndpointId /\ 1 \in EndpointId /\ 0 \in NotificationId
  BY KernelAssumption DEF Pid, EndpointId, NotificationId
<1>2. \A p \in Pid : seed_caps(p) \in CNode
  BY <1>1, SeedCaps
<1>3. caps \in [Pid -> CNode]
  BY <1>2 DEF Init
<1>4. kont \in [Pid -> Kont]
  BY DEF Init, Kont, UserMode, Loop, SlotArg
<1>5. reason \in [Pid -> BlockReason]
  BY DEF Init, BlockReason, OnEndpoint
<1>6. halted \in BOOLEAN
  BY DEF Init
<1>7. state \in [Pid -> State]
  BY DEF Init, State
<1>8. queue \in [EndpointId -> Seq(Message)]
  BY DEF Init
<1>9. TypeOK
  BY <1>1, <1>3, <1>4, <1>5, <1>6, <1>7, <1>8, KernelAssumption DEF TypeOK, Init
<1>10. TableInPidOrder
  BY <1>1, KernelAssumption DEF Init, TableInPidOrder, Pid
<1>11. CapsNameObjects
  <2>1. \A p \in Pid, i \in Slot : NamesObject(caps[p][i])
    BY <1>1, SeedCaps DEF Init, NamesObject
  <2>2. \A e \in EndpointId : Len(queue[e]) = 0
    BY DEF Init
  <2> QED
    BY <2>1, <2>2 DEF CapsNameObjects
<1>12. LoopsOnObjects /\ HandlelessSpawned
  BY DEF Init, LoopsOnObjects, HandlelessSpawned, UserMode, Loop
<1>13. NoLostWakeup /\ ParkedInItsLoop /\ CpuNeverParked
  BY <1>1 DEF Init, NoLostWakeup, ParkedInItsLoop, CpuNeverParked
<1> QED
  BY <1>9, <1>10, <1>11, <1>12, <1>13 DEF Inv
-----------------------------------------------------------------------------
(* Steps of the same shape.                                                *)

(* The indexes of the table are PIDs. *)
LEMMA CurrentIsPid ==
  ASSUME TypeOK
  PROVE  /\ current \in Pid /\ next_pid \in Nat
         /\ 0 .. next_pid - 1 \subseteq Pid /\ Pid \subseteq Nat
  BY KernelAssumption DEF TypeOK, Pid

(* A step that only changes the running process's continuation, to user    *)
(* mode or to a loop on an object that exists.                             *)
LEMMA ContinueKeeps ==
  ASSUME Inv, ~halted, NEW k \in Kont,
         kont' = [kont EXCEPT ![current] = k],
         k.op = "Recv" => k.id \in EndpointId,
         k.op = "Wait" => k.id \in NotificationId,
         k.op = "WaitPid" => k.id \in 1 .. next_pid - 1,
         UNCHANGED <<sched, exit_code, caps, next_pid, ipc, handleless>>
  PROVE  Inv'
<1> USE DEF Inv, sched, ipc
<1>1. current \in Pid
  BY CurrentIsPid
<1>2. kont' \in [Pid -> Kont]
  BY <1>1 DEF TypeOK
<1>3. halted' \in BOOLEAN
  BY DEF TypeOK
<1>4. TypeOK'
  BY <1>2, <1>3 DEF TypeOK
<1>5. TableInPidOrder' /\ HandlelessSpawned' /\ NoLostWakeup' /\ CpuNeverParked'
  BY DEF TableInPidOrder, HandlelessSpawned, NoLostWakeup, CpuNeverParked
<1>6. CapsNameObjects'
  BY DEF CapsNameObjects, NamesObject
<1>7. LoopsOnObjects'
  BY <1>1 DEF LoopsOnObjects, TypeOK
<1>8. ParkedInItsLoop'
  BY <1>1 DEF ParkedInItsLoop, CpuNeverParked, TypeOK
<1> QED
  BY <1>4, <1>5, <1>6, <1>7, <1>8

(* A step that only moves the CPU to the next Ready process. *)
LEMMA YieldKeeps ==
  ASSUME Inv, ~halted, yield_now,
         UNCHANGED <<kont, exit_code, caps, next_pid, ipc, handleless>>
  PROVE  Inv'
<1> USE DEF Inv, yield_now, ipc
<1>1. current' \in 0 .. next_pid - 1 /\ state[current'] # "Blocked"
  BY PickIsReady DEF TypeOK, CpuNeverParked
<1>3. halted' \in BOOLEAN
  BY DEF TypeOK
<1>4. TypeOK'
  BY <1>1, <1>3 DEF TypeOK
<1>5. TableInPidOrder' /\ HandlelessSpawned' /\ NoLostWakeup' /\ ParkedInItsLoop'
  BY DEF TableInPidOrder, HandlelessSpawned, NoLostWakeup, ParkedInItsLoop
<1>6. CapsNameObjects' /\ LoopsOnObjects'
  BY DEF CapsNameObjects, NamesObject, LoopsOnObjects
<1>7. CpuNeverParked'
  BY <1>1 DEF CpuNeverParked
<1> QED
  BY <1>4, <1>5, <1>6, <1>7

(* exit_inner: when nobody is left to run, nobody is Ready. *)
LEMMA ExitKeeps ==
  ASSUME Inv, ~halted, NEW code \in Nat, exit_inner(code)
  PROVE  Inv'
<1> USE DEF Inv, ipc
<1> DEFINE done == [state EXCEPT ![current] = "Done"]
<1>1. /\ current \in Pid /\ Pid \subseteq Nat /\ next_pid \in Nat
      /\ current \in 0 .. next_pid - 1
  BY CurrentIsPid DEF TypeOK
<1>2. done \in [Pid -> State] /\ \A p \in Pid : done[p] \in {state[p], "Done"}
  BY <1>1 DEF TypeOK, State
<1>3. current' \in 0 .. next_pid - 1 /\ CpuNeverParked'
  <2>1. CASE can_pick(done)
    <3>1. current' = pick_next(done) /\ state' = done /\ halted' = halted
      BY <2>1 DEF exit_inner
    <3>2. current' \in 0 .. next_pid - 1 /\ done[current'] = "Ready"
      BY <2>1, <3>1, PickIsReady
    <3> QED
      BY <3>1, <3>2 DEF CpuNeverParked
  <2>2. CASE ~can_pick(done)
    <3>1. current' = current /\ state' = done /\ halted' = TRUE
      BY <2>2 DEF exit_inner
    <3>2. \A p \in 0 .. next_pid - 1 : done[p] # "Ready"
      BY <2>2, PickIsComplete
    <3>3. \A p \in Pid : p >= next_pid => done[p] # "Ready"
      BY <1>1 DEF TableInPidOrder, TypeOK
    <3>4. \A p \in Pid : p \in 0 .. next_pid - 1 \/ p >= next_pid
      BY <1>1
    <3> QED
      BY <1>1, <3>1, <3>2, <3>3, <3>4 DEF CpuNeverParked
  <2> QED
    BY <2>1, <2>2
<1>4. /\ state' = done
      /\ exit_code' = [exit_code EXCEPT ![current] = code]
      /\ UNCHANGED <<reason, kont, caps, next_pid, queue, word, handleless>>
  BY DEF exit_inner
<1>5. halted' \in BOOLEAN
  BY DEF TypeOK, exit_inner
<1>6. TypeOK'
  BY <1>1, <1>2, <1>3, <1>4, <1>5 DEF TypeOK
<1>7. TableInPidOrder' /\ HandlelessSpawned'
  BY <1>1, <1>4 DEF TableInPidOrder, HandlelessSpawned, TypeOK
<1>8. NoLostWakeup' /\ ParkedInItsLoop'
  BY <1>2, <1>4 DEF NoLostWakeup, ParkedInItsLoop
<1>9. CapsNameObjects' /\ LoopsOnObjects'
  BY <1>4 DEF CapsNameObjects, NamesObject, LoopsOnObjects
<1> QED
  BY <1>3, <1>6, <1>7, <1>8, <1>9

(* block_on, called from the loop of RECV or WAIT with nothing to take. *)
LEMMA BlockKeeps ==
  ASSUME Inv, ~halted, NEW r \in BlockReason, block_on(r),
         \/ /\ kont[current].op = "Recv" /\ r = OnEndpoint(kont[current].id)
            /\ queue[kont[current].id] = <<>>
         \/ /\ kont[current].op = "Wait" /\ r = OnNotification(kont[current].id)
            /\ word[kont[current].id] = {},
         UNCHANGED <<kont, exit_code, caps, next_pid, ipc, handleless>>
  PROVE  Inv'
<1> USE DEF Inv, ipc
<1> DEFINE parked == [state EXCEPT ![current] = "Blocked"]
<1>1. /\ current \in Pid /\ Pid \subseteq Nat /\ next_pid \in Nat
      /\ current \in 0 .. next_pid - 1
  BY CurrentIsPid DEF TypeOK
<1>2. parked \in [Pid -> State]
  BY <1>1 DEF TypeOK, State
<1>3. CASE can_pick(parked)
  <2>1. /\ current' = pick_next(parked) /\ state' = parked /\ halted' = halted
        /\ reason' = [reason EXCEPT ![current] = r]
    BY <1>3 DEF block_on
  <2>2. current' \in 0 .. next_pid - 1 /\ parked[current'] = "Ready"
    BY <1>3, <2>1, PickIsReady
  <2>3. halted' \in BOOLEAN
    BY <2>1 DEF TypeOK
  <2>4. TypeOK'
    BY <1>1, <1>2, <2>1, <2>2, <2>3 DEF TypeOK
  <2>5. CpuNeverParked'
    BY <2>1, <2>2 DEF CpuNeverParked
  <2>6. TableInPidOrder' /\ HandlelessSpawned'
    BY <1>1, <2>1 DEF TableInPidOrder, HandlelessSpawned, TypeOK
  <2>7. ParkedInItsLoop'
    BY <1>1, <2>1 DEF ParkedInItsLoop, TypeOK
  <2>8. NoLostWakeup'
    BY <1>1, <2>1 DEF NoLostWakeup, TypeOK, OnEndpoint, OnNotification
  <2>9. CapsNameObjects' /\ LoopsOnObjects'
    BY <2>1 DEF CapsNameObjects, NamesObject, LoopsOnObjects
  <2> QED
    BY <2>4, <2>5, <2>6, <2>7, <2>8, <2>9
<1>4. CASE ~can_pick(parked)
  <2>1. /\ state' = [state EXCEPT ![current] = "Ready"]
        /\ UNCHANGED <<reason, current, halted>>
    BY <1>4 DEF block_on
  <2>2. state' \in [Pid -> State] /\ \A p \in Pid : state'[p] \in {state[p], "Ready"}
    BY <1>1, <2>1 DEF TypeOK, State
  <2>3. halted' \in BOOLEAN
    BY <2>1 DEF TypeOK
  <2>4. TypeOK'
    BY <2>1, <2>2, <2>3 DEF TypeOK
  <2>5. CpuNeverParked'
    BY <1>1, <2>1 DEF CpuNeverParked, TypeOK
  <2>6. TableInPidOrder' /\ HandlelessSpawned'
    BY <1>1, <2>1 DEF TableInPidOrder, HandlelessSpawned, TypeOK
  <2>7. ParkedInItsLoop' /\ NoLostWakeup'
    BY <2>1, <2>2 DEF ParkedInItsLoop, NoLostWakeup
  <2>8. CapsNameObjects' /\ LoopsOnObjects'
    BY <2>1 DEF CapsNameObjects, NamesObject, LoopsOnObjects
  <2> QED
    BY <2>4, <2>5, <2>6, <2>7, <2>8
<1> QED
  BY <1>3, <1>4

(* wake frees every process parked on r, and touches no other. *)
LEMMA WakeResult ==
  ASSUME Inv, NEW r, wake(r)
  PROVE  /\ state' \in [Pid -> State]
         /\ \A p \in Pid : state'[p] = "Blocked" =>
                state[p] = "Blocked" /\ reason[p] # r
         /\ \A p \in Pid : state'[p] = "Absent" <=> state[p] = "Absent"
         /\ UNCHANGED <<reason, current, halted>>
  BY DEF wake, Inv, TypeOK, State
-----------------------------------------------------------------------------
(* The other actions.                                                      *)

(* A spawn takes the next PID, which no capability names yet. *)
LEMMA SpawnKeeps ==
  ASSUME Inv, NEW slot \in SlotArg, spawn(slot)
  PROVE  Inv'
<1> USE DEF Inv, spawn, ipc
<1>1. /\ current \in Pid /\ Pid \subseteq Nat /\ next_pid \in Nat \ {0}
      /\ current \in 0 .. next_pid - 1 /\ current < next_pid /\ next_pid \in Pid
  BY CurrentIsPid, KernelAssumption DEF TypeOK, Pid
<1>2. next_pid' = next_pid + 1 /\ next_pid' \in 1 .. MAX_PROCS
  BY <1>1, KernelAssumption DEF TypeOK
<1> DEFINE handle == Cap("Process", next_pid)
<1>3. handle \in CapEntry /\ handle.type = "Process" /\ handle.object = next_pid
  BY <1>1 DEF Cap, CapEntry, CapType
<1>4. caps[current] \in CNode
  BY <1>1 DEF TypeOK
<1>5. /\ insert(caps[current], slot, handle) \in CNode
      /\ \A i \in Slot : insert(caps[current], slot, handle)[i]
                            \in {caps[current][i], handle}
  BY <1>3, <1>4, InsertResult
<1>6. caps' \in [Pid -> CNode]
  BY <1>1, <1>5 DEF TypeOK
<1>7. state' \in [Pid -> State]
  BY <1>1 DEF TypeOK, State
<1>8. halted' \in BOOLEAN
  BY DEF TypeOK
<1>9. handleless' \in SUBSET Pid
  BY <1>1 DEF TypeOK
<1>10. current' \in 0 .. next_pid' - 1
  BY <1>1, <1>2
<1>11. TypeOK'
  BY <1>2, <1>6, <1>7, <1>8, <1>9, <1>10 DEF TypeOK
<1>12. TableInPidOrder'
  BY <1>1, <1>2 DEF TableInPidOrder, TypeOK
<1>13. HandlelessSpawned'
  BY <1>1, <1>2 DEF HandlelessSpawned, TypeOK
<1>14. LoopsOnObjects'
  BY <1>1, <1>2 DEF LoopsOnObjects, TypeOK
<1>15. NoLostWakeup' /\ ParkedInItsLoop'
  BY <1>1 DEF NoLostWakeup, ParkedInItsLoop, TypeOK
<1>16. CpuNeverParked'
  BY <1>1 DEF CpuNeverParked, TypeOK, InUser
<1>17. \A c \in CapEntry : NamesObject(c) => NamesObject(c)'
  BY <1>1, <1>2 DEF NamesObject
<1>18. slot # MAX => \A c : c = handle => NamesObject(c)'
  BY <1>1, <1>2, <1>3 DEF NamesObject, HandlelessSpawned
<1>19. \A p \in Pid, i \in Slot : NamesObject(caps[p][i])'
  <2> TAKE p \in Pid, i \in Slot
  <2>1. caps[p][i] \in CapEntry /\ NamesObject(caps[p][i])
    BY DEF TypeOK, CNode, CapsNameObjects
  <2>2. CASE caps'[p][i] = caps[p][i]
    BY <1>17, <2>1, <2>2 DEF NamesObject
  <2>3. CASE caps'[p][i] # caps[p][i]
    <3>1. p = current /\ caps'[p][i] = handle
      BY <1>1, <1>5, <2>3 DEF TypeOK
    <3>2. slot # MAX
      BY <1>1, <2>3, <3>1 DEF TypeOK, insert, insert_ok, Slot, MAX
    <3> QED
      BY <1>18, <3>1, <3>2 DEF NamesObject
  <2> QED
    BY <2>2, <2>3
<1>20. CapsNameObjects'
  <2>1. ASSUME NEW e \in EndpointId, NEW i \in 1 .. Len(queue'[e])
        PROVE  NamesObject(queue[e][i].cap)'
    <3>1. queue' = queue /\ queue[e][i] \in Message
      BY DEF TypeOK
    <3>2. PICK c \in CapEntry : c = queue[e][i].cap
      BY <3>1 DEF Message
    <3>3. NamesObject(c)'
      BY <1>17, <3>1, <3>2 DEF CapsNameObjects
    <3> QED
      BY <3>1, <3>2, <3>3 DEF NamesObject
  <2> QED
    BY <1>19, <2>1 DEF CapsNameObjects
<1> QED
  BY <1>11, <1>12, <1>13, <1>14, <1>15, <1>16, <1>20

(* KILL ends a process of the table; a killed receiver no longer counts as *)
(* parked.                                                                 *)
LEMMA KillKeeps ==
  ASSUME Inv, NEW slot \in SlotArg, NEW signal \in Nat, kill(slot, signal)
  PROVE  Inv'
<1> USE DEF Inv, kill, ipc
<1> DEFINE target == process_target(slot)
<1>1. /\ current \in Pid /\ Pid \subseteq Nat /\ next_pid \in Nat \ {0}
      /\ 0 .. next_pid - 1 \subseteq Pid
  BY CurrentIsPid, KernelAssumption DEF TypeOK
<1>2. target \in Pid /\ target < next_pid
  BY <1>1 DEF holds, process_target, CapsNameObjects, NamesObject
<1>3. /\ state' = [state EXCEPT ![target] = "Done"]
      /\ state' \in [Pid -> State]
      /\ \A p \in Pid : state'[p] \in {state[p], "Done"}
  BY <1>2 DEF TypeOK, State
<1>4. halted' \in BOOLEAN
  BY DEF TypeOK
<1>5. TypeOK'
  BY <1>2, <1>3, <1>4 DEF TypeOK
<1>6. TableInPidOrder' /\ HandlelessSpawned'
  BY <1>1, <1>2 DEF TableInPidOrder, HandlelessSpawned, TypeOK
<1>7. NoLostWakeup' /\ ParkedInItsLoop' /\ CpuNeverParked'
  BY <1>1, <1>3 DEF NoLostWakeup, ParkedInItsLoop, CpuNeverParked
<1>8. CapsNameObjects' /\ LoopsOnObjects'
  BY DEF CapsNameObjects, NamesObject, LoopsOnObjects
<1> QED
  BY <1>5, <1>6, <1>7, <1>8

(* CAP_GRANT copies a capability that already names an object. *)
LEMMA GrantKeeps ==
  ASSUME Inv, NEW slot \in SlotArg, NEW src \in SlotArg, NEW dst \in SlotArg,
         sys_cap_grant(slot, src, dst)
  PROVE  Inv'
<1> USE DEF Inv, sys_cap_grant, ipc, sched
<1> DEFINE target == process_target(slot)
           copy == caps[current][src]
<1>1. current \in Pid /\ 0 .. next_pid - 1 \subseteq Pid /\ next_pid \in Nat
  BY CurrentIsPid
<1>2. target \in Pid
  BY <1>1 DEF holds, process_target, CapsNameObjects, NamesObject
<1>3. caps[target] \in CNode /\ copy \in CapEntry /\ NamesObject(copy)
  BY <1>1, <1>2 DEF TypeOK, CNode, get_ok, CapsNameObjects
<1>4. /\ insert(caps[target], dst, copy) \in CNode
      /\ \A i \in Slot : insert(caps[target], dst, copy)[i] \in {caps[target][i], copy}
  BY <1>3, InsertResult
<1>5. caps' \in [Pid -> CNode]
  BY <1>2, <1>4 DEF TypeOK
<1>6. halted' \in BOOLEAN
  BY DEF TypeOK
<1>7. TypeOK'
  BY <1>5, <1>6 DEF TypeOK
<1>8. TableInPidOrder' /\ HandlelessSpawned' /\ LoopsOnObjects'
  BY DEF TableInPidOrder, HandlelessSpawned, LoopsOnObjects
<1>9. NoLostWakeup' /\ ParkedInItsLoop' /\ CpuNeverParked'
  BY DEF NoLostWakeup, ParkedInItsLoop, CpuNeverParked
<1>10. \A p \in Pid, i \in Slot : caps'[p][i] \in {caps[p][i], copy}
  BY <1>2, <1>4 DEF TypeOK
<1>11. CapsNameObjects'
  BY <1>3, <1>10 DEF CapsNameObjects, NamesObject
<1> QED
  BY <1>7, <1>8, <1>9, <1>11

(* SEND fills the queue and wakes everyone parked on it in the same step. *)
LEMMA SendKeeps ==
  ASSUME Inv, NEW slot \in SlotArg, NEW w \in Words, NEW src \in SlotArg,
         sys_send(slot, w, src)
  PROVE  Inv'
<1> USE DEF Inv
<1> DEFINE id == caps[current][slot].object
           cap == IF src = MAX THEN NoCap ELSE caps[current][src]
           msg == [word |-> w, cap |-> cap]
<1>1. current \in Pid /\ next_pid \in Nat
  BY CurrentIsPid
<1>2. id \in EndpointId
  BY <1>1 DEF sys_send, holds, CapsNameObjects, NamesObject
<1>3. cap \in CapEntry
  BY <1>1 DEF sys_send, get_ok, TypeOK, CNode, NoCap, Cap, CapEntry
<1>4. NamesObject(cap)
  BY <1>1 DEF sys_send, get_ok, CapsNameObjects, NamesObject, NoCap, Cap
<1>5. /\ queue' = [queue EXCEPT ![id] = Append(@, msg)]
      /\ wake(OnEndpoint(id))
      /\ UNCHANGED <<kont, exit_code, caps, next_pid, word, handleless>>
      /\ ~halted
  BY DEF sys_send, InUser
<1>6. msg \in Message
  BY <1>3 DEF Message
<1>7. /\ state' \in [Pid -> State]
      /\ \A p \in Pid : state'[p] = "Blocked" =>
             state[p] = "Blocked" /\ reason[p] # OnEndpoint(id)
      /\ \A p \in Pid : state'[p] = "Absent" <=> state[p] = "Absent"
      /\ UNCHANGED <<reason, current, halted>>
  BY <1>5, WakeResult
<1>8. queue' \in [EndpointId -> Seq(Message)]
  BY <1>2, <1>5, <1>6 DEF TypeOK
<1>9. halted' \in BOOLEAN
  BY <1>7 DEF TypeOK
<1>10. TypeOK'
  BY <1>5, <1>7, <1>8, <1>9 DEF TypeOK
<1>11. TableInPidOrder' /\ HandlelessSpawned' /\ LoopsOnObjects'
  BY <1>5, <1>7 DEF TableInPidOrder, HandlelessSpawned, LoopsOnObjects
<1>12. ParkedInItsLoop' /\ CpuNeverParked'
  BY <1>1, <1>5, <1>7 DEF ParkedInItsLoop, CpuNeverParked
<1>13. NoLostWakeup'
  BY <1>2, <1>5, <1>7 DEF NoLostWakeup, TypeOK
<1>14. \A e \in EndpointId : \A i \in 1 .. Len(queue'[e]) :
          \/ i \in 1 .. Len(queue[e]) /\ queue'[e][i] = queue[e][i]
          \/ queue'[e][i] = msg
  BY <1>2, <1>5, <1>6 DEF TypeOK
<1>15. CapsNameObjects'
  <2>1. UNCHANGED <<next_pid, handleless, caps>>
    BY <1>5
  <2>2. \A p \in Pid, i \in Slot : NamesObject(caps[p][i])'
    BY <2>1 DEF CapsNameObjects, NamesObject
  <2>3. ASSUME NEW e \in EndpointId, NEW i \in 1 .. Len(queue'[e])
        PROVE  NamesObject(queue[e][i].cap)'
    <3>1. \E c : queue'[e][i].cap = c /\ NamesObject(c)
      <4>1. CASE i \in 1 .. Len(queue[e]) /\ queue'[e][i] = queue[e][i]
        BY <4>1 DEF CapsNameObjects
      <4>2. CASE queue'[e][i] = msg
        BY <1>4, <4>2
      <4> QED
        BY <1>14, <4>1, <4>2
    <3> QED
      BY <2>1, <3>1 DEF NamesObject
  <2> QED
    BY <2>2, <2>3 DEF CapsNameObjects
<1> QED
  BY <1>10, <1>11, <1>12, <1>13, <1>15

(* A message is taken from a queue nobody is parked on. *)
LEMMA RecvKeeps == ASSUME Inv, try_recv PROVE Inv'
<1> USE DEF Inv
<1> DEFINE id == kont[current].id
           cap == Head(queue[id]).cap
<1>1. current \in Pid /\ next_pid \in Nat
  BY CurrentIsPid
<1>2. id \in EndpointId /\ queue[id] # <<>> /\ queue[id] \in Seq(Message)
  BY <1>1 DEF try_recv, InLoop, LoopsOnObjects, TypeOK
<1>3. /\ queue' = [queue EXCEPT ![id] = Tail(@)]
      /\ kont' = [kont EXCEPT ![current] = UserMode]
      /\ UNCHANGED <<state, reason, current, halted, exit_code, next_pid, word,
                     handleless>>
      /\ ~halted
  BY DEF try_recv, InLoop, sched
<1>4. Head(queue[id]) \in Message /\ Head(queue[id]) = queue[id][1]
      /\ 1 \in 1 .. Len(queue[id])
  BY <1>2
<1>5. cap \in CapEntry /\ NamesObject(cap)
  BY <1>2, <1>4 DEF Message, CapsNameObjects
<1> DEFINE table == insert(caps[current], kont[current].dst, cap)
<1>6. table \in CNode /\ \A i \in Slot : table[i] \in {caps[current][i], cap}
  BY <1>1, <1>5, InsertResult DEF TypeOK
<1>7. caps' = caps \/ caps' = [caps EXCEPT ![current] = table]
  BY DEF try_recv
<1>8. /\ caps' \in [Pid -> CNode]
      /\ \A p \in Pid, i \in Slot : caps'[p][i] \in {caps[p][i], cap}
  BY <1>1, <1>6, <1>7 DEF TypeOK
<1>9. queue' \in [EndpointId -> Seq(Message)]
  BY <1>2, <1>3 DEF TypeOK
<1>10. kont' \in [Pid -> Kont]
  BY <1>1, <1>3 DEF TypeOK, Kont, UserMode, Loop, SlotArg
<1>11. halted' \in BOOLEAN
  BY <1>3 DEF TypeOK
<1>12. TypeOK'
  BY <1>3, <1>8, <1>9, <1>10, <1>11 DEF TypeOK
<1>13. TableInPidOrder' /\ HandlelessSpawned' /\ CpuNeverParked'
  BY <1>3 DEF TableInPidOrder, HandlelessSpawned, CpuNeverParked
<1>14. LoopsOnObjects'
  BY <1>1, <1>3 DEF LoopsOnObjects, TypeOK, UserMode, Loop
<1>15. ParkedInItsLoop'
  BY <1>1, <1>3 DEF ParkedInItsLoop, CpuNeverParked, TypeOK
<1>16. NoLostWakeup'
  BY <1>2, <1>3 DEF NoLostWakeup, TypeOK
<1>17. \A e \in EndpointId : \A i \in 1 .. Len(queue'[e]) :
          \E j \in 1 .. Len(queue[e]) : queue'[e][i] = queue[e][j]
  <2> TAKE e \in EndpointId
  <2>1. CASE e = id
    <3>1. queue'[e] = Tail(queue[e]) /\ queue[e] \in Seq(Message) /\ queue[e] # <<>>
      BY <1>2, <1>3, <2>1 DEF TypeOK
    <3> TAKE i \in 1 .. Len(queue'[e])
    <3>2. i + 1 \in 1 .. Len(queue[e]) /\ queue'[e][i] = queue[e][i + 1]
      BY <3>1
    <3> QED
      BY <3>2
  <2>2. CASE e # id
    BY <1>2, <1>3, <2>2 DEF TypeOK
  <2> QED
    BY <2>1, <2>2
<1>18. CapsNameObjects'
  <2>1. UNCHANGED <<next_pid, handleless>>
    BY <1>3
  <2>2. \A p \in Pid, i \in Slot : NamesObject(caps[p][i])'
    BY <1>5, <1>8, <2>1 DEF CapsNameObjects, NamesObject
  <2>3. ASSUME NEW e \in EndpointId, NEW i \in 1 .. Len(queue'[e])
        PROVE  NamesObject(queue[e][i].cap)'
    <3>1. PICK j \in 1 .. Len(queue[e]) : queue'[e][i] = queue[e][j]
      BY <1>17
    <3>2. NamesObject(queue[e][j].cap)
      BY DEF CapsNameObjects
    <3> QED
      BY <2>1, <3>1, <3>2 DEF NamesObject
  <2> QED
    BY <2>2, <2>3 DEF CapsNameObjects
<1> QED
  BY <1>12, <1>13, <1>14, <1>15, <1>16, <1>18

(* SIGNAL sets bits and wakes everyone parked on the word. *)
LEMMA SignalKeeps ==
  ASSUME Inv, NEW slot \in SlotArg, NEW bits \in SUBSET Bits,
         sys_signal(slot, bits)
  PROVE  Inv'
<1> USE DEF Inv
<1> DEFINE id == caps[current][slot].object
<1>1. current \in Pid /\ next_pid \in Nat
  BY CurrentIsPid
<1>2. id \in NotificationId
  BY <1>1 DEF sys_signal, holds, CapsNameObjects, NamesObject
<1>3. /\ word' = [word EXCEPT ![id] = @ \cup bits]
      /\ wake(OnNotification(id))
      /\ UNCHANGED <<kont, exit_code, caps, next_pid, queue, handleless>>
      /\ ~halted
  BY DEF sys_signal, InUser
<1>4. /\ state' \in [Pid -> State]
      /\ \A p \in Pid : state'[p] = "Blocked" =>
             state[p] = "Blocked" /\ reason[p] # OnNotification(id)
      /\ \A p \in Pid : state'[p] = "Absent" <=> state[p] = "Absent"
      /\ UNCHANGED <<reason, current, halted>>
  BY <1>3, WakeResult
<1>5. word' \in [NotificationId -> SUBSET Bits]
  BY <1>2, <1>3 DEF TypeOK
<1>6. halted' \in BOOLEAN
  BY <1>4 DEF TypeOK
<1>7. TypeOK'
  BY <1>3, <1>4, <1>5, <1>6 DEF TypeOK
<1>8. TableInPidOrder' /\ HandlelessSpawned' /\ LoopsOnObjects'
  BY <1>3, <1>4 DEF TableInPidOrder, HandlelessSpawned, LoopsOnObjects
<1>9. ParkedInItsLoop' /\ CpuNeverParked'
  BY <1>1, <1>3, <1>4 DEF ParkedInItsLoop, CpuNeverParked
<1>10. NoLostWakeup'
  BY <1>2, <1>3, <1>4 DEF NoLostWakeup, TypeOK
<1>11. CapsNameObjects'
  BY <1>3 DEF CapsNameObjects, NamesObject
<1> QED
  BY <1>7, <1>8, <1>9, <1>10, <1>11

(* WAIT takes all bits of the word. *)
LEMMA TakeKeeps == ASSUME Inv, poll_take PROVE Inv'
<1> USE DEF Inv
<1> DEFINE id == kont[current].id
<1>1. current \in Pid
  BY CurrentIsPid
<1>2. id \in NotificationId
  BY <1>1 DEF poll_take, InLoop, LoopsOnObjects
<1>3. /\ word' = [word EXCEPT ![id] = {}]
      /\ kont' = [kont EXCEPT ![current] = UserMode]
      /\ UNCHANGED <<state, reason, current, halted, exit_code, caps, next_pid,
                     queue, handleless>>
      /\ ~halted
  BY DEF poll_take, InLoop, sched
<1>4. kont' \in [Pid -> Kont]
  BY <1>1, <1>3 DEF TypeOK, Kont, UserMode, Loop, SlotArg
<1>5. word' \in [NotificationId -> SUBSET Bits]
  BY <1>2, <1>3 DEF TypeOK
<1>6. halted' \in BOOLEAN
  BY <1>3 DEF TypeOK
<1>7. TypeOK'
  BY <1>3, <1>4, <1>5, <1>6 DEF TypeOK
<1>8. TableInPidOrder' /\ HandlelessSpawned' /\ CpuNeverParked'
  BY <1>3 DEF TableInPidOrder, HandlelessSpawned, CpuNeverParked
<1>9. LoopsOnObjects'
  BY <1>1, <1>3 DEF LoopsOnObjects, TypeOK, UserMode, Loop
<1>10. ParkedInItsLoop'
  BY <1>1, <1>3 DEF ParkedInItsLoop, CpuNeverParked, TypeOK
<1>11. NoLostWakeup'
  BY <1>2, <1>3 DEF NoLostWakeup, TypeOK
<1>12. CapsNameObjects'
  BY <1>3 DEF CapsNameObjects, NamesObject
<1> QED
  BY <1>7, <1>8, <1>9, <1>10, <1>11, <1>12
(* charge_untyped takes the pages from one Untyped capability that has     *)
(* them, and leaves the rest of the table alone.                           *)
LEMMA ChargeResult ==
  ASSUME NEW cnode \in CNode, NEW n \in Nat, charge_ok(cnode, n)
  PROVE  \E i \in Slot :
            /\ cnode[i].type = "Untyped" /\ n <= cnode[i].object
            /\ charge_untyped(cnode, n)
                  = [cnode EXCEPT ![i] = [cnode[i] EXCEPT !.object = @ - n]]
<1> DEFINE S == {j \in UntypedSlots(cnode) : cnode[j].object >= n}
<1>1. S \subseteq Nat /\ S # {}
  BY DEF charge_ok, UntypedSlots, Slot
<1>2. Min(S) \in S
  BY <1>1, MinIsLeast
<1>3. PICK i \in S : i = Min(S)
  BY <1>2
<1>4. i \in Slot /\ cnode[i].type = "Untyped" /\ cnode[i].object >= n
  BY DEF UntypedSlots
<1>5. charge_untyped(cnode, n) = [cnode EXCEPT ![i] = [cnode[i] EXCEPT !.object = @ - n]]
  BY <1>3, <1>4 DEF charge_untyped, CNode, CapEntry
<1>6. cnode[i].object \in Nat
  BY <1>4 DEF CNode, CapEntry
<1> QED
  BY <1>4, <1>5, <1>6

(* refund_untyped gives the pages to one Untyped capability, if any.       *)
LEMMA RefundResult ==
  ASSUME NEW cnode \in CNode, NEW n \in Nat
  PROVE  \/ UntypedSlots(cnode) = {}
         \/ \E j \in Slot :
              /\ cnode[j].type = "Untyped"
              /\ refund_untyped(cnode, n)
                    = [cnode EXCEPT ![j] = [cnode[j] EXCEPT !.object = @ + n]]
<1> SUFFICES ASSUME UntypedSlots(cnode) # {}
             PROVE  \E j \in Slot :
                      /\ cnode[j].type = "Untyped"
                      /\ refund_untyped(cnode, n)
                            = [cnode EXCEPT ![j] = [cnode[j] EXCEPT !.object = @ + n]]
  OBVIOUS
<1>1. UntypedSlots(cnode) \subseteq Nat
  BY DEF UntypedSlots, Slot
<1>2. PICK j \in UntypedSlots(cnode) : j = Min(UntypedSlots(cnode))
  BY <1>1, MinIsLeast
<1>3. j \in Slot /\ cnode[j].type = "Untyped"
  BY DEF UntypedSlots
<1> QED
  BY <1>2, <1>3 DEF refund_untyped, CNode, CapEntry

(* What DMA_ALLOC and FRAME_ALLOC may do to the table of their caller: one *)
(* Untyped capability pays for what the call got, which is at most a Frame *)
(* capability in a free slot; or the call failed, and the refund undid the *)
(* charge or went to another Untyped capability.                           *)
Paid(old, new, n) ==
    \E i \in Slot :
        /\ old[i].type = "Untyped" /\ n <= old[i].object
        /\ \/ new = [old EXCEPT ![i] = [old[i] EXCEPT !.object = @ - n]]
           \/ \E s \in Slot, phys \in Nat :
                 /\ s # i /\ old[s] = NoCap
                 /\ new = [old EXCEPT ![i] = [old[i] EXCEPT !.object = @ - n],
                                       ![s] = frame(phys, n)]
           \/ new = old
           \/ \E j \in Slot \ {i} :
                 /\ old[j].type = "Untyped"
                 /\ new = [old EXCEPT ![i] = [old[i] EXCEPT !.object = @ - n],
                                       ![j] = [old[j] EXCEPT !.object = @ + n]]

(* A failed call leaves the budget where it was, or in another capability. *)
LEMMA RefundedPays ==
  ASSUME NEW cnode \in CNode, NEW n \in Nat, charge_ok(cnode, n)
  PROVE  Paid(cnode, refund_untyped(charge_untyped(cnode, n), n), n)
<1>1. PICK i \in Slot :
            /\ cnode[i].type = "Untyped" /\ n <= cnode[i].object
            /\ charge_untyped(cnode, n)
                  = [cnode EXCEPT ![i] = [cnode[i] EXCEPT !.object = @ - n]]
  BY ChargeResult
<1>2. cnode[i] \in CapEntry /\ cnode[i].object \in Nat
  BY DEF CNode, CapEntry
<1>3. cnode[i].object - n \in Nat
  BY <1>1, <1>2
<1>4. PICK less : less = [cnode[i] EXCEPT !.object = @ - n]
  OBVIOUS
<1>5. less \in CapEntry /\ less.type = "Untyped"
      /\ [less EXCEPT !.object = @ + n] = cnode[i]
  <2>1. PICK b, m \in Nat : b = cnode[i].badge /\ m = cnode[i].object
    BY <1>2 DEF CapEntry
  <2>2. cnode[i] = [type |-> "Untyped", object |-> m, badge |-> b]
    BY <1>1, <1>2, <2>1 DEF CapEntry
  <2>3. less = [type |-> "Untyped", object |-> m - n, badge |-> b]
    BY <1>4, <2>2
  <2>4. m - n \in Nat /\ (m - n) + n = m
    BY <1>1, <2>1
  <2> QED
    BY <2>2, <2>3, <2>4 DEF CapEntry, CapType
<1>6. PICK charged : charged = [cnode EXCEPT ![i] = less]
  OBVIOUS
<1>7. charged = charge_untyped(cnode, n)
  BY <1>1, <1>4, <1>6
<1>8. /\ charged \in CNode /\ charged[i] = less
      /\ \A j \in Slot \ {i} : charged[j] = cnode[j]
  BY <1>5, <1>6 DEF CNode
<1>9. UntypedSlots(charged) # {}
  BY <1>5, <1>8 DEF UntypedSlots
<1>10. PICK j \in Slot :
          /\ charged[j].type = "Untyped"
          /\ refund_untyped(charged, n)
                = [charged EXCEPT ![j] = [charged[j] EXCEPT !.object = @ + n]]
  BY <1>8, <1>9, RefundResult
<1>11. CASE j = i
  <2>1. refund_untyped(charged, n) = [charged EXCEPT ![i] = cnode[i]]
    BY <1>5, <1>8, <1>10, <1>11
  <2>2. [charged EXCEPT ![i] = cnode[i]] = cnode
    BY <1>6 DEF CNode
  <2> QED
    BY <1>1, <1>7, <2>1, <2>2 DEF Paid
<1>12. CASE j # i
  <2>1. charged[j] = cnode[j]
    BY <1>8, <1>12
  <2>2. refund_untyped(charged, n)
          = [cnode EXCEPT ![i] = less, ![j] = [cnode[j] EXCEPT !.object = @ + n]]
    BY <1>6, <1>10, <2>1
  <2>3. cnode[j].type = "Untyped" /\ j \in Slot \ {i}
    BY <1>10, <1>12, <2>1
  <2> QED
    BY <1>1, <1>4, <1>7, <2>2, <2>3 DEF Paid
<1> QED
  BY <1>11, <1>12

(* DMA_ALLOC and FRAME_ALLOC do no more than that. *)
LEMMA AllocPays ==
  ASSUME Inv, NEW pages \in Nat, NEW slot, NEW phys \in Nat, NEW ok,
         sys_dma_alloc(pages, ok) \/ sys_frame_alloc(pages, slot, phys, ok)
  PROVE  /\ ~halted /\ current \in Pid
         /\ \E new : /\ Paid(caps[current], new, pages)
                     /\ caps' = [caps EXCEPT ![current] = new]
         /\ UNCHANGED <<sched, kont, exit_code, next_pid, ipc, handleless>>
<1>1. current \in Pid /\ caps[current] \in CNode
  BY CurrentIsPid DEF Inv, TypeOK
<1>2. /\ ~halted /\ charge_ok(caps[current], pages)
      /\ UNCHANGED <<sched, kont, exit_code, next_pid, ipc, handleless>>
  BY DEF sys_dma_alloc, sys_frame_alloc, InUser
<1>3. PICK cnode \in CNode : cnode = caps[current]
  BY <1>1
<1>4. PICK charged : charged = charge_untyped(cnode, pages)
  OBVIOUS
<1>5. PICK i \in Slot :
            /\ cnode[i].type = "Untyped" /\ pages <= cnode[i].object
            /\ charged = [cnode EXCEPT ![i] = [cnode[i] EXCEPT !.object = @ - pages]]
  BY <1>2, <1>3, <1>4, ChargeResult
<1>6. Paid(cnode, charged, pages)
  BY <1>5 DEF Paid
<1>7. Paid(cnode, refund_untyped(charged, pages), pages)
  BY <1>2, <1>3, <1>4, RefundedPays
<1>8. insert_ok(charged, slot) => Paid(cnode, insert(charged, slot, frame(phys, pages)), pages)
  <2> SUFFICES ASSUME insert_ok(charged, slot)
               PROVE  Paid(cnode, insert(charged, slot, frame(phys, pages)), pages)
    OBVIOUS
  <2>1. charged[i] # NoCap
    BY <1>5 DEF CNode, CapEntry, NoCap, Cap
  <2>2. slot \in Slot /\ slot # i /\ charged[slot] = NoCap
    BY <2>1 DEF insert_ok
  <2>3. cnode[slot] = NoCap
    BY <1>5, <2>2 DEF CNode
  <2>4. insert(charged, slot, frame(phys, pages))
          = [cnode EXCEPT ![i] = [cnode[i] EXCEPT !.object = @ - pages],
                          ![slot] = frame(phys, pages)]
    BY <1>5 DEF insert
  <2> QED
    BY <1>5, <2>2, <2>3, <2>4 DEF Paid
<1>9. \E new : Paid(cnode, new, pages) /\ caps' = [caps EXCEPT ![current] = new]
  <2>1. CASE sys_dma_alloc(pages, ok)
    <3>1. caps' = [caps EXCEPT ![current] =
                      IF ok THEN charged ELSE refund_untyped(charged, pages)]
      BY <1>3, <1>4, <2>1 DEF sys_dma_alloc
    <3> QED
      BY <1>6, <1>7, <3>1
  <2>2. CASE sys_frame_alloc(pages, slot, phys, ok)
    <3>1. caps' = [caps EXCEPT ![current] =
                      IF ok /\ insert_ok(charged, slot)
                        THEN insert(charged, slot, frame(phys, pages))
                        ELSE refund_untyped(charged, pages)]
      BY <1>3, <1>4, <2>2 DEF sys_frame_alloc
    <3> QED
      BY <1>7, <1>8, <3>1
  <2> QED
    BY <2>1, <2>2
<1> QED
  BY <1>1, <1>2, <1>3, <1>9

(* What such a step takes from, or gives to, the budget in slot i. *)
SpentIn(old, new, i, n) ==
    /\ old[i].type = "Untyped"
    /\ n <= old[i].object
    /\ new[i] = [old[i] EXCEPT !.object = @ - n]
GivenIn(old, new, i, n) ==
    /\ old[i].type = "Untyped"
    /\ new[i] = [old[i] EXCEPT !.object = @ + n]

(* What such a table holds: what it held, an Untyped capability where one  *)
(* was, or a Frame capability in a slot that was free.                     *)
PaidSlot(old, new, n, k) ==
    \/ new[k] = old[k]
    \/ /\ old[k] = NoCap /\ new[k].type = "Frame" /\ new[k].badge = n
       /\ \E i \in Slot : SpentIn(old, new, i, n)
    \/ new[k].type = "Untyped" /\ SpentIn(old, new, k, n)
    \/ /\ new[k].type = "Untyped" /\ GivenIn(old, new, k, n)
       /\ \E j \in Slot \ {k} : SpentIn(old, new, j, n)

(* A memory call leaves a table of such slots. *)
LEMMA PaidTable ==
  ASSUME NEW old \in CNode, NEW new, NEW n \in Nat, Paid(old, new, n)
  PROVE  new \in CNode /\ \A k \in Slot : PaidSlot(old, new, n, k)
<1> DEFINE Goal == new \in CNode /\ \A k \in Slot : PaidSlot(old, new, n, k)
<1>1. PICK i \in Slot :
        /\ old[i].type = "Untyped" /\ n <= old[i].object
        /\ \/ new = [old EXCEPT ![i] = [old[i] EXCEPT !.object = @ - n]]
           \/ \E s \in Slot, phys \in Nat :
                 /\ s # i /\ old[s] = NoCap
                 /\ new = [old EXCEPT ![i] = [old[i] EXCEPT !.object = @ - n],
                                       ![s] = frame(phys, n)]
           \/ new = old
           \/ \E j \in Slot \ {i} :
                 /\ old[j].type = "Untyped"
                 /\ new = [old EXCEPT ![i] = [old[i] EXCEPT !.object = @ - n],
                                       ![j] = [old[j] EXCEPT !.object = @ + n]]
  BY DEF Paid
<1>2. old[i] \in CapEntry /\ old[i].object \in Nat /\ old[i].object - n \in Nat
  BY <1>1 DEF CNode, CapEntry
<1>3. PICK less : less = [old[i] EXCEPT !.object = @ - n]
  OBVIOUS
<1>4. less \in CapEntry /\ less.type = "Untyped"
  BY <1>1, <1>2, <1>3 DEF CapEntry
<1>5. ASSUME new[i] = less PROVE SpentIn(old, new, i, n)
  BY <1>1, <1>3, <1>5 DEF SpentIn
<1>6. CASE new = [old EXCEPT ![i] = less]
  <2>1. new \in CNode /\ new[i] = less /\ \A k \in Slot \ {i} : new[k] = old[k]
    BY <1>4, <1>6 DEF CNode
  <2> QED
    BY <1>4, <1>5, <2>1 DEF PaidSlot
<1>7. ASSUME NEW s \in Slot, NEW phys \in Nat, s # i, old[s] = NoCap,
             new = [old EXCEPT ![i] = less, ![s] = frame(phys, n)]
      PROVE  Goal
  <2>1. /\ frame(phys, n) \in CapEntry /\ frame(phys, n).type = "Frame"
        /\ frame(phys, n).badge = n
    BY DEF frame, CapEntry, CapType
  <2>2. /\ new \in CNode /\ new[i] = less /\ new[s] = frame(phys, n)
        /\ \A k \in Slot \ {i, s} : new[k] = old[k]
    BY <1>4, <1>7, <2>1 DEF CNode
  <2> QED
    BY <1>4, <1>5, <1>7, <2>1, <2>2 DEF PaidSlot
<1>8. ASSUME NEW j \in Slot \ {i}, old[j].type = "Untyped",
             new = [old EXCEPT ![i] = less, ![j] = [old[j] EXCEPT !.object = @ + n]]
      PROVE  Goal
  <2>1. PICK more : more = [old[j] EXCEPT !.object = @ + n]
    OBVIOUS
  <2>2. more \in CapEntry /\ more.type = "Untyped"
    BY <1>8, <2>1 DEF CapEntry, CNode
  <2>3. /\ new \in CNode /\ new[i] = less /\ new[j] = more
        /\ \A k \in Slot \ {i, j} : new[k] = old[k]
    BY <1>4, <1>8, <2>1, <2>2 DEF CNode
  <2>4. GivenIn(old, new, j, n)
    BY <1>8, <2>1, <2>3 DEF GivenIn
  <2>5. i \in Slot \ {j} /\ SpentIn(old, new, i, n)
    BY <1>5, <2>3
  <2>6. PaidSlot(old, new, n, j)
    BY <2>2, <2>3, <2>4, <2>5 DEF PaidSlot
  <2> QED
    BY <1>4, <2>3, <2>5, <2>6 DEF PaidSlot
<1>9. CASE new = old
  BY <1>9 DEF PaidSlot
<1> QED
  BY <1>1, <1>3, <1>6, <1>7, <1>8, <1>9

(* Memory calls change nothing but their caller's table, and no capability *)
(* they leave there names an object.                                       *)
LEMMA AllocKeeps ==
  ASSUME Inv, NEW pages \in Nat, NEW slot, NEW phys \in Nat, NEW ok,
         sys_dma_alloc(pages, ok) \/ sys_frame_alloc(pages, slot, phys, ok)
  PROVE  Inv'
<1> USE DEF Inv, ipc, sched
<1>1. PICK new : /\ ~halted /\ current \in Pid
                 /\ Paid(caps[current], new, pages)
                 /\ caps' = [caps EXCEPT ![current] = new]
                 /\ UNCHANGED <<sched, kont, exit_code, next_pid, ipc, handleless>>
  BY AllocPays
<1>2. caps[current] \in CNode
  BY <1>1 DEF TypeOK
<1>3. new \in CNode /\ \A i \in Slot : PaidSlot(caps[current], new, pages, i)
  BY <1>1, <1>2, PaidTable
<1>4. caps' \in [Pid -> CNode]
  BY <1>1, <1>3 DEF TypeOK
<1>5. halted' \in BOOLEAN
  BY <1>1 DEF TypeOK
<1>6. TypeOK'
  BY <1>1, <1>4, <1>5 DEF TypeOK
<1>7. TableInPidOrder' /\ HandlelessSpawned' /\ LoopsOnObjects'
  BY <1>1 DEF TableInPidOrder, HandlelessSpawned, LoopsOnObjects
<1>8. NoLostWakeup' /\ ParkedInItsLoop' /\ CpuNeverParked'
  BY <1>1 DEF NoLostWakeup, ParkedInItsLoop, CpuNeverParked
<1>9. \A p \in Pid, i \in Slot :
          caps'[p][i] = caps[p][i] \/ caps'[p][i].type \in {"Untyped", "Frame"}
  BY <1>1, <1>3 DEF TypeOK, PaidSlot
<1>10. \A p \in Pid, i \in Slot : NamesObject(caps[p][i])'
  BY <1>1, <1>9 DEF CapsNameObjects, NamesObject
<1>11. CapsNameObjects'
  BY <1>1, <1>10 DEF CapsNameObjects, NamesObject
<1> QED
  BY <1>6, <1>7, <1>8, <1>11
-----------------------------------------------------------------------------
(* The calls that enter a loop: WAIT_PID, RECV and WAIT.                   *)
LEMMA WaitPidCallKeeps ==
  ASSUME Inv, NEW slot \in SlotArg, sys_wait_pid(slot)
  PROVE  Inv'
<1> DEFINE k == Loop("WaitPid", process_target(slot), MAX)
<1>0. current \in Pid /\ MAX \in SlotArg
  BY CurrentIsPid DEF Inv, SlotArg
<1>1. process_target(slot) \in 1 .. next_pid - 1
  BY <1>0 DEF sys_wait_pid, holds, process_target, Inv, CapsNameObjects, NamesObject
<1>2. k \in Kont /\ k.op = "WaitPid" /\ k.id = process_target(slot)
  BY <1>0, <1>1, CurrentIsPid DEF Loop, Kont, Inv
<1> QED
  BY <1>1, <1>2, ContinueKeeps DEF sys_wait_pid, InUser

(* RECV enters its loop. *)
LEMMA RecvCallKeeps ==
  ASSUME Inv, NEW ep \in SlotArg, NEW dst \in SlotArg, sys_recv(ep, dst)
  PROVE  Inv'
<1> DEFINE k == Loop("Recv", caps[current][ep].object, dst)
<1>0. current \in Pid
  BY CurrentIsPid DEF Inv
<1>1. caps[current][ep].object \in EndpointId
  BY <1>0 DEF sys_recv, holds, Inv, CapsNameObjects, NamesObject
<1>2. k \in Kont /\ k.op = "Recv" /\ k.id = caps[current][ep].object
  BY <1>0, <1>1, KernelAssumption DEF Loop, Kont, EndpointId
<1> QED
  BY <1>1, <1>2, ContinueKeeps DEF sys_recv, InUser

(* WAIT enters its loop. *)
LEMMA WaitCallKeeps ==
  ASSUME Inv, NEW n \in SlotArg, sys_wait(n)
  PROVE  Inv'
<1> DEFINE k == Loop("Wait", caps[current][n].object, MAX)
<1>0. current \in Pid /\ MAX \in SlotArg
  BY CurrentIsPid DEF Inv, SlotArg
<1>1. caps[current][n].object \in NotificationId
  BY <1>0 DEF sys_wait, holds, Inv, CapsNameObjects, NamesObject
<1>2. k \in Kont /\ k.op = "Wait" /\ k.id = caps[current][n].object
  BY <1>0, <1>1, KernelAssumption DEF Loop, Kont, NotificationId
<1> QED
  BY <1>1, <1>2, ContinueKeeps DEF sys_wait, InUser

(* The loop of WAIT_PID. *)
LEMMA WaitPidKeeps == ASSUME Inv, wait_pid PROVE Inv'
<1>1. CASE state[kont[current].id] = "Done"
  <2>1. UserMode \in Kont /\ UserMode.op = "User"
    BY DEF UserMode, Loop, Kont, SlotArg
  <2> QED
    BY <1>1, <2>1, ContinueKeeps DEF wait_pid, InLoop
<1>2. CASE state[kont[current].id] # "Done"
  BY <1>2, YieldKeeps DEF wait_pid, InLoop
<1> QED
  BY <1>1, <1>2

(* RECV and WAIT park when there is nothing to take. *)
LEMMA ParkKeeps == ASSUME Inv, recv_block \/ wait_block PROVE Inv'
<1>0. current \in Pid
  BY CurrentIsPid DEF Inv
<1>1. CASE recv_block
  <2> DEFINE r == OnEndpoint(kont[current].id)
  <2>1. r \in BlockReason
    BY <1>0 DEF OnEndpoint, BlockReason, Inv, TypeOK, Kont
  <2> QED
    BY <1>1, <2>1, BlockKeeps DEF recv_block, InLoop
<1>2. CASE wait_block
  <2> DEFINE r == OnNotification(kont[current].id)
  <2>1. r \in BlockReason
    BY <1>0 DEF OnNotification, BlockReason, Inv, TypeOK, Kont
  <2> QED
    BY <1>2, <2>1, BlockKeeps DEF wait_block, InLoop
<1> QED
  BY <1>1, <1>2

(* A step of something else leaves the kernel alone. *)
LEMMA StutterKeeps == ASSUME Inv, UNCHANGED vars PROVE Inv'
  BY DEF vars, Inv, TypeOK, TableInPidOrder, CapsNameObjects, NamesObject,
         LoopsOnObjects, HandlelessSpawned, NoLostWakeup, ParkedInItsLoop,
         CpuNeverParked

(* Every step preserves the inductive invariant: one case per action. *)
LEMMA StepInv == Inv /\ [Next]_vars => Inv'
<1> SUFFICES ASSUME Inv, [Next]_vars PROVE Inv'
  OBVIOUS
<1>0. /\ current \in Pid
      /\ DstArgs \subseteq SlotArg /\ ObjArgs \subseteq SlotArg
      /\ SrcArgs \subseteq SlotArg /\ MAX \in SlotArg /\ Codes \subseteq Nat
      /\ Pages \subseteq Nat /\ Frames \subseteq Nat
  BY CurrentIsPid, KernelAssumption DEF Inv, SlotArg
<1>1. CASE timer_preempt \/ sys_yield
  BY <1>1, YieldKeeps DEF timer_preempt, sys_yield, InUser
<1>2. ASSUME NEW code \in Codes, exit(code) PROVE Inv'
  BY <1>0, <1>2, ExitKeeps DEF exit, InUser
<1>3. CASE fault_exit
  BY <1>3, ExitKeeps DEF fault_exit, InUser, EXIT_FAULT
<1>4. ASSUME NEW slot \in DstArgs, spawn(slot) PROVE Inv'
  BY <1>0, <1>4, SpawnKeeps
<1>5. ASSUME NEW slot \in SrcArgs, NEW signal \in Codes, kill(slot, signal)
      PROVE  Inv'
  BY <1>0, <1>5, KillKeeps
<1>6. ASSUME NEW slot \in SrcArgs, sys_wait_pid(slot) PROVE Inv'
  BY <1>0, <1>6, WaitPidCallKeeps
<1>7. CASE wait_pid
  BY <1>7, WaitPidKeeps
<1>8. ASSUME NEW slot \in SrcArgs, NEW src \in SrcArgs, NEW dst \in DstArgs,
             sys_cap_grant(slot, src, dst)
      PROVE  Inv'
  BY <1>0, <1>8, GrantKeeps
<1>9. CASE sys_read
  <2> DEFINE k == Loop("Read", 0, MAX)
  <2>1. k \in Kont /\ k.op = "Read"
    BY <1>0 DEF Loop, Kont
  <2> QED
    BY <1>9, <2>1, ContinueKeeps DEF sys_read, InUser
<1>10. CASE read
  <2>1. UserMode \in Kont /\ UserMode.op = "User"
    BY <1>0 DEF UserMode, Loop, Kont
  <2> QED
    BY <1>10, <2>1, ContinueKeeps DEF read, InLoop
<1>11. ASSUME NEW ep \in ObjArgs, NEW w \in Words, NEW src \in SrcArgs \cup {MAX},
              sys_send(ep, w, src)
       PROVE  Inv'
  BY <1>0, <1>11, SendKeeps
<1>12. ASSUME NEW ep \in ObjArgs, NEW dst \in DstArgs, sys_recv(ep, dst)
       PROVE  Inv'
  BY <1>0, <1>12, RecvCallKeeps
<1>13. CASE try_recv
  BY <1>13, RecvKeeps
<1>14. CASE recv_block
  BY <1>14, ParkKeeps
<1>15. ASSUME NEW n \in ObjArgs, NEW bits \in SUBSET Bits, sys_signal(n, bits)
       PROVE  Inv'
  BY <1>0, <1>15, SignalKeeps
<1>16. ASSUME NEW n \in ObjArgs, sys_wait(n) PROVE Inv'
  BY <1>0, <1>16, WaitCallKeeps
<1>17. CASE poll_take
  BY <1>17, TakeKeeps
<1>18. CASE wait_block
  BY <1>18, ParkKeeps
<1>19. CASE UNCHANGED vars
  BY <1>19, StutterKeeps
<1>20. ASSUME NEW pages \in Pages, NEW ok \in BOOLEAN, sys_dma_alloc(pages, ok)
       PROVE  Inv'
  BY <1>0, <1>20, AllocKeeps
<1>21. ASSUME NEW pages \in Pages, NEW slot \in DstArgs, NEW phys \in Frames,
              NEW ok \in BOOLEAN, sys_frame_alloc(pages, slot, phys, ok)
       PROVE  Inv'
  BY <1>0, <1>21, AllocKeeps
<1> QED
  BY <1>1, <1>2, <1>3, <1>4, <1>5, <1>6, <1>7, <1>8, <1>9, <1>10, <1>11, <1>12,
     <1>13, <1>14, <1>15, <1>16, <1>17, <1>18, <1>19, <1>20, <1>21 DEF Next

(* The inductive invariant holds in every reachable state. *)
LEMMA SpecInv == Spec => []Inv
  BY InitInv, StepInv, PTL DEF Spec

(* The kernel state is well typed: the running process is always a process *)
(* of the table, whatever pick_next, spawn and kill did.                   *)
THEOREM KernelTypes == Spec => []TypeOK
<1>1. Inv => TypeOK
  BY DEF Inv
<1> QED
  BY <1>1, SpecInv, PTL

(* No wakeup of RECV or WAIT is lost, for any number of processes,         *)
(* endpoints and notifications and any queue length.                       *)
THEOREM WakeupsAreNotLost == Spec => []NoLostWakeup
<1>1. Inv => NoLostWakeup
  BY DEF Inv
<1> QED
  BY <1>1, SpecInv, PTL

(* A parked process resumes in the loop that parked it (block_on). *)
THEOREM ParkedInLoop == Spec => []ParkedInItsLoop
<1>1. Inv => ParkedInItsLoop
  BY DEF Inv
<1> QED
  BY <1>1, SpecInv, PTL

(* block_on and exit_inner never park the CPU while a process is Ready. *)
THEOREM CpuKeepsRunning == Spec => []CpuNeverParked
<1>1. Inv => CpuNeverParked
  BY DEF Inv
<1> QED
  BY <1>1, SpecInv, PTL

(* Every capability in a table or in a message names an object that        *)
(* exists, so AllCaps does.                                                *)
LEMMA AllCapsNameObjects ==
  ASSUME Inv, NEW c \in AllCaps
  PROVE  NamesObject(c)
<1>1. CASE c \in CapsHeld
  BY <1>1 DEF CapsHeld, Inv, CapsNameObjects
<1>2. CASE c \in CapsInFlight
  <2>1. PICK e \in EndpointId : c \in {queue[e][i].cap : i \in DOMAIN queue[e]}
    BY <1>2 DEF CapsInFlight
  <2>2. PICK i \in DOMAIN queue[e] : c = queue[e][i].cap
    BY <2>1
  <2>3. DOMAIN queue[e] = 1 .. Len(queue[e])
    BY DEF Inv, TypeOK
  <2> QED
    BY <2>2, <2>3 DEF Inv, CapsNameObjects
<1> QED
  BY <1>1, <1>2 DEF AllCaps

(* A Process capability, wherever it travelled, names a spawned process. *)
THEOREM HandlesAreValid == Spec => []HandlesNameSpawned
<1>1. Inv => HandlesNameSpawned
  BY AllCapsNameObjects DEF HandlesNameSpawned, NamesObject
<1> QED
  BY <1>1, SpecInv, PTL

(* A child spawned without a handle can never be touched: no delegation    *)
(* over CAP_GRANT, SEND and RECV brings a capability for it into being.    *)
THEOREM FireAndForget == Spec => []HandlelessUntouchable
<1>1. Inv => HandlelessUntouchable
  BY AllCapsNameObjects DEF HandlelessUntouchable, NamesObject
<1> QED
  BY <1>1, SpecInv, PTL
-----------------------------------------------------------------------------
(* Action properties.                                                      *)

(* What EndedStaysEnded and NoAmbientAuthority say of one step. *)
StepKeepsEnded ==
    \A p \in Pid \ {current} : state[p] = "Done" =>
        state'[p] = "Done" /\ exit_code'[p] = exit_code[p]

StepHasAuthority ==
    \A p \in Pid \ {current} :
        (caps'[p] # caps[p] \/ (state'[p] = "Done" /\ state[p] # "Done"))
            => \E i \in Slot : /\ caps[current][i].type = "Process"
                              /\ caps[current][i].object = p

(* A step changes the state and the exit code of the running process, of   *)
(* a Blocked or Absent one, or of the target of a KILL, which is not Done. *)
LEMMA StepEnded == Inv /\ [Next]_vars => StepKeepsEnded
<1> SUFFICES ASSUME Inv, [Next]_vars, NEW p \in Pid, p # current, state[p] = "Done"
             PROVE  state'[p] = "Done" /\ exit_code'[p] = exit_code[p]
  BY DEF StepKeepsEnded
<1>0. current \in Pid /\ state \in [Pid -> State] /\ exit_code \in [Pid -> Nat]
  BY CurrentIsPid DEF Inv, TypeOK
<1>1. CASE timer_preempt \/ sys_yield \/ sys_read \/ read \/ wait_pid \/ try_recv
           \/ poll_take \/ UNCHANGED vars
  BY <1>1 DEF timer_preempt, sys_yield, sys_read, read, wait_pid, try_recv,
              poll_take, yield_now, sched, vars
<1>2. ASSUME NEW code, exit_inner(code)
      PROVE  state'[p] = "Done" /\ exit_code'[p] = exit_code[p]
  BY <1>0, <1>2 DEF exit_inner
<1>3. ASSUME NEW slot, spawn(slot)
      PROVE  state'[p] = "Done" /\ exit_code'[p] = exit_code[p]
  <2>1. p # next_pid
    BY DEF Inv, TableInPidOrder, TypeOK, Pid
  <2> QED
    BY <1>0, <1>3, <2>1 DEF spawn
<1>4. ASSUME NEW slot, NEW signal, kill(slot, signal)
      PROVE  state'[p] = "Done" /\ exit_code'[p] = exit_code[p]
  BY <1>0, <1>4 DEF kill
<1>5. ASSUME NEW r, wake(r) PROVE state'[p] = "Done"
  BY <1>0, <1>5 DEF wake
<1>6. ASSUME NEW r, block_on(r) PROVE state'[p] = "Done"
  BY <1>0, <1>6 DEF block_on
<1>7. ASSUME NEW a, NEW b, NEW c,
             \/ sys_wait_pid(a) \/ sys_cap_grant(a, b, c) \/ sys_recv(a, b)
             \/ sys_wait(a)
      PROVE  state'[p] = "Done" /\ exit_code'[p] = exit_code[p]
  BY <1>7 DEF sys_wait_pid, sys_cap_grant, sys_recv, sys_wait, sched
<1>8. ASSUME NEW a, NEW b, NEW c, sys_send(a, b, c) \/ sys_signal(a, b)
      PROVE  state'[p] = "Done" /\ exit_code'[p] = exit_code[p]
  BY <1>5, <1>8 DEF sys_send, sys_signal
<1>9. CASE recv_block \/ wait_block
  BY <1>6, <1>9 DEF recv_block, wait_block
<1>10. ASSUME NEW a, NEW b, NEW c, NEW d,
              sys_dma_alloc(a, b) \/ sys_frame_alloc(a, b, c, d)
       PROVE  state'[p] = "Done" /\ exit_code'[p] = exit_code[p]
  BY <1>10 DEF sys_dma_alloc, sys_frame_alloc, sched
<1> QED
  BY <1>1, <1>2, <1>3, <1>4, <1>7, <1>8, <1>9, <1>10 DEF Next, exit, fault_exit

(* Only CAP_GRANT writes another process's table, and only KILL ends       *)
(* another process; both name their target by a Process capability.        *)
LEMMA StepAuthority == Inv /\ [Next]_vars => StepHasAuthority
<1> DEFINE Holds(p) == \E i \in Slot : /\ caps[current][i].type = "Process"
                                       /\ caps[current][i].object = p
<1> SUFFICES ASSUME Inv, [Next]_vars, NEW p \in Pid, p # current, ~Holds(p)
             PROVE  caps'[p] = caps[p] /\ (state'[p] = "Done" => state[p] = "Done")
  BY DEF StepHasAuthority
<1>0. current \in Pid /\ state \in [Pid -> State] /\ caps \in [Pid -> CNode]
  BY CurrentIsPid DEF Inv, TypeOK
<1>1. CASE timer_preempt \/ sys_yield \/ sys_read \/ read \/ wait_pid
           \/ poll_take \/ UNCHANGED vars
  BY <1>1 DEF timer_preempt, sys_yield, sys_read, read, wait_pid, poll_take,
              yield_now, sched, vars
<1>2. ASSUME NEW code, exit_inner(code)
      PROVE  caps'[p] = caps[p] /\ (state'[p] = "Done" => state[p] = "Done")
  BY <1>0, <1>2 DEF exit_inner
<1>3. ASSUME NEW slot, spawn(slot)
      PROVE  caps'[p] = caps[p] /\ (state'[p] = "Done" => state[p] = "Done")
  BY <1>0, <1>3 DEF spawn
<1>4. ASSUME NEW slot, NEW signal, kill(slot, signal)
      PROVE  caps'[p] = caps[p] /\ (state'[p] = "Done" => state[p] = "Done")
  BY <1>0, <1>4 DEF kill, holds, process_target
<1>5. ASSUME NEW a, NEW b, NEW c, sys_cap_grant(a, b, c)
      PROVE  caps'[p] = caps[p] /\ (state'[p] = "Done" => state[p] = "Done")
  BY <1>0, <1>5 DEF sys_cap_grant, holds, process_target, sched
<1>6. CASE try_recv
  BY <1>0, <1>6 DEF try_recv, sched
<1>7. ASSUME NEW a, NEW b, sys_wait_pid(a) \/ sys_recv(a, b) \/ sys_wait(a)
      PROVE  caps'[p] = caps[p] /\ (state'[p] = "Done" => state[p] = "Done")
  BY <1>7 DEF sys_wait_pid, sys_recv, sys_wait, sched
<1>8. ASSUME NEW a, NEW b, NEW c, sys_send(a, b, c) \/ sys_signal(a, b)
      PROVE  caps'[p] = caps[p] /\ (state'[p] = "Done" => state[p] = "Done")
  BY <1>0, <1>8 DEF sys_send, sys_signal, wake
<1>9. CASE recv_block \/ wait_block
  BY <1>0, <1>9 DEF recv_block, wait_block, block_on
<1>10. ASSUME NEW a, NEW b, NEW c, NEW d,
              sys_dma_alloc(a, b) \/ sys_frame_alloc(a, b, c, d)
       PROVE  caps'[p] = caps[p] /\ (state'[p] = "Done" => state[p] = "Done")
  BY <1>0, <1>10 DEF sys_dma_alloc, sys_frame_alloc, sched
<1> QED
  BY <1>1, <1>2, <1>3, <1>4, <1>5, <1>6, <1>7, <1>8, <1>9, <1>10
     DEF Next, exit, fault_exit

(* An ended process that left the CPU stays ended, with its exit code. *)
THEOREM EndedIsStable == Spec => EndedStaysEnded
<1>1. Inv /\ [Next]_vars => [StepKeepsEnded]_vars
  BY StepEnded
<1>2. Spec => [][StepKeepsEnded]_vars
  BY <1>1, SpecInv, PTL DEF Spec
<1> QED
  BY <1>2 DEF EndedStaysEnded, StepKeepsEnded

(* "no capability, no authority", for every step of every program. *)
THEOREM AuthorityIsHeld == Spec => NoAmbientAuthority
<1>1. Inv /\ [Next]_vars => [StepHasAuthority]_vars
  BY StepAuthority
<1>2. Spec => [][StepHasAuthority]_vars
  BY <1>1, SpecInv, PTL DEF Spec
<1> QED
  BY <1>2 DEF NoAmbientAuthority, StepHasAuthority

(* What AuthorityNotForged says of one step. *)
NothingForged ==
    \A c \in AllCaps' \ AllCaps :
        \/ c = Cap("Process", next_pid) /\ next_pid' = next_pid + 1
        \/ c.type = "Frame" /\ \E i \in Slot : Spent(i, c.badge)
        \/ c.type = "Untyped" /\ \E i \in Slot : caps'[current][i] = c

NothingOverwritten ==
    \A p \in Pid, i \in Slot : caps[p][i] \in {NoCap, caps'[p][i]} \/
        /\ p = current
        /\ \E n \in Pages :
              \/ Spent(i, n)
              \/ Given(i, n) /\ \E j \in Slot \ {i} : Spent(j, n)

StepForgesNothing ==
    /\ \A c \in AllCaps' \ AllCaps :
          \/ c = Cap("Process", next_pid) /\ next_pid' = next_pid + 1
          \/ c.type = "Frame" /\ \E i \in Slot : Spent(i, c.badge)
          \/ c.type = "Untyped" /\ \E i \in Slot : caps'[current][i] = c
    /\ \A p \in Pid, i \in Slot : caps[p][i] \in {NoCap, caps'[p][i]} \/
          /\ p = current
          /\ \E n \in Pages :
                \/ Spent(i, n)
                \/ Given(i, n) /\ \E j \in Slot \ {i} : Spent(j, n)

(* The capabilities a step may leave in a slot or a message: what existed  *)
(* before it, none, and what the step itself makes.                        *)
Delegable(made) == AllCaps \cup {NoCap} \cup made

(* What is in a table or in a message is delegable. *)
LEMMA HeldIsDelegable ==
  ASSUME Inv, NEW made
  PROVE  /\ \A p \in Pid, i \in Slot : caps[p][i] \in Delegable(made)
         /\ \A e \in EndpointId : \A i \in 1 .. Len(queue[e]) :
                queue[e][i].cap \in Delegable(made)
<1>1. \A p \in Pid, i \in Slot : caps[p][i] \in Delegable(made)
  BY DEF Delegable, AllCaps, CapsHeld
<1>2. ASSUME NEW e \in EndpointId, NEW i \in 1 .. Len(queue[e])
      PROVE  queue[e][i].cap \in Delegable(made)
  <2>1. DOMAIN queue[e] = 1 .. Len(queue[e])
    BY DEF Inv, TypeOK
  <2>2. queue[e][i].cap \in {queue[e][j].cap : j \in DOMAIN queue[e]}
    BY <2>1
  <2>3. queue[e][i].cap \in CapsInFlight
    BY <2>2 DEF CapsInFlight
  <2> QED
    BY <2>3 DEF Delegable, AllCaps
<1> QED
  BY <1>1, <1>2

(* A step that leaves only such capabilities in tables and messages brings *)
(* no other into being.                                                    *)
LEMMA DelegableOnly ==
  ASSUME TypeOK', NEW made,
         \A p \in Pid, i \in Slot : caps'[p][i] \in Delegable(made),
         \A e \in EndpointId : \A i \in 1 .. Len(queue'[e]) :
             queue'[e][i].cap \in Delegable(made)
  PROVE  \A c \in AllCaps' \ AllCaps : c \in made
<1> SUFFICES ASSUME NEW c \in AllCaps' PROVE c \in Delegable(made) \ {NoCap}
  BY DEF Delegable
<1>1. c # NoCap /\ (c \in CapsHeld' \/ c \in CapsInFlight')
  BY DEF AllCaps
<1>2. CASE c \in CapsHeld'
  BY <1>1, <1>2 DEF CapsHeld
<1>3. CASE c \in CapsInFlight'
  <2>1. PICK e \in EndpointId : c \in {queue'[e][i].cap : i \in DOMAIN queue'[e]}
    BY <1>3 DEF CapsInFlight
  <2>2. PICK i \in DOMAIN queue'[e] : c = queue'[e][i].cap
    BY <2>1
  <2>3. DOMAIN queue'[e] = 1 .. Len(queue'[e])
    BY DEF TypeOK
  <2> QED
    BY <1>1, <2>2, <2>3
<1> QED
  BY <1>1, <1>2, <1>3

(* CNode::insert leaves every taken slot alone. *)
LEMMA InsertKeepsTaken ==
  ASSUME NEW cnode \in CNode, NEW index, NEW cap,
         NEW i \in Slot, cnode[i] # NoCap
  PROVE  insert(cnode, index, cap)[i] = cnode[i]
  BY DEF insert, insert_ok, CNode

(* A step that inserts one such capability into one table. *)
LEMMA InsertDelegates ==
  ASSUME Inv, NEW made, NEW p \in Pid, NEW index, NEW cap \in CapEntry,
         cap \in Delegable(made),
         caps' = [caps EXCEPT ![p] = insert(@, index, cap)]
  PROVE  /\ \A q \in Pid, i \in Slot : caps'[q][i] \in Delegable(made)
         /\ \A q \in Pid, i \in Slot : caps[q][i] \in {NoCap, caps'[q][i]}
<1> DEFINE table == insert(caps[p], index, cap)
<1>1. caps \in [Pid -> CNode]
  BY DEF Inv, TypeOK
<1>2. /\ \A i \in Slot : table[i] \in {caps[p][i], cap}
      /\ \A i \in Slot : caps[p][i] # NoCap => table[i] = caps[p][i]
  BY <1>1, InsertResult, InsertKeepsTaken
<1>3. \A q \in Pid : caps'[q] = IF q = p THEN table ELSE caps[q]
  BY <1>1
<1> HIDE DEF table
<1> QED
  BY <1>2, <1>3, HeldIsDelegable

(* DMA_ALLOC and FRAME_ALLOC forge nothing: the caller's budget pays. *)
LEMMA AllocForgesNothing ==
  ASSUME Inv, Inv', NEW pages \in Pages, NEW slot, NEW phys \in Nat, NEW ok,
         sys_dma_alloc(pages, ok) \/ sys_frame_alloc(pages, slot, phys, ok)
  PROVE  NothingForged /\ NothingOverwritten
<1>0. pages \in Nat
  BY KernelAssumption
<1>1. PICK new : /\ current \in Pid
                 /\ Paid(caps[current], new, pages)
                 /\ caps' = [caps EXCEPT ![current] = new]
                 /\ queue' = queue
  BY <1>0, AllocPays DEF ipc
<1>2. caps \in [Pid -> CNode] /\ caps[current] \in CNode
  BY <1>1 DEF Inv, TypeOK
<1>3. \A i \in Slot : PaidSlot(caps[current], new, pages, i)
  BY <1>0, <1>1, <1>2, PaidTable
<1>4. caps'[current] = new /\ \A p \in Pid \ {current} : caps'[p] = caps[p]
  BY <1>1, <1>2
<1>5. \A i \in Slot : SpentIn(caps[current], new, i, pages) => Spent(i, pages)
  BY <1>4 DEF SpentIn, Spent
<1>6. \A i \in Slot : GivenIn(caps[current], new, i, pages) => Given(i, pages)
  BY <1>4 DEF GivenIn, Given
<1>7. NothingOverwritten
  <2> SUFFICES ASSUME NEW p \in Pid, NEW i \in Slot
               PROVE  caps[p][i] \in {NoCap, caps'[p][i]} \/
                        /\ p = current
                        /\ \E n \in Pages :
                              \/ Spent(i, n)
                              \/ Given(i, n) /\ \E j \in Slot \ {i} : Spent(j, n)
    BY DEF NothingOverwritten
  <2>1. CASE p # current
    BY <1>4, <2>1
  <2>2. CASE p = current
    <3>1. PaidSlot(caps[current], new, pages, i)
      BY <1>3
    <3>2. CASE new[i] = caps[current][i] \/ caps[current][i] = NoCap
      BY <1>4, <2>2, <3>2
    <3>3. CASE SpentIn(caps[current], new, i, pages)
      BY <1>5, <2>2, <3>3
    <3>4. CASE /\ GivenIn(caps[current], new, i, pages)
               /\ \E j \in Slot \ {i} : SpentIn(caps[current], new, j, pages)
      BY <1>5, <1>6, <2>2, <3>4
    <3> QED
      BY <3>1, <3>2, <3>3, <3>4 DEF PaidSlot
  <2> QED
    BY <2>1, <2>2
<1>8. NothingForged
  <2> DEFINE made == {caps'[current][i] : i \in Slot}
  <2>1. \A p \in Pid, i \in Slot : caps'[p][i] \in Delegable(made)
    <3> SUFFICES ASSUME NEW p \in Pid, NEW i \in Slot
                 PROVE  caps'[p][i] \in Delegable(made)
      OBVIOUS
    <3>1. CASE p = current
      BY <3>1 DEF Delegable
    <3>2. CASE p # current
      <4>1. caps'[p][i] = caps[p][i] /\ caps[p][i] \in Delegable(made)
        BY <1>4, <3>2, HeldIsDelegable
      <4> QED
        BY <4>1
    <3> QED
      BY <3>1, <3>2
  <2>2. \A e \in EndpointId : \A i \in 1 .. Len(queue'[e]) :
             queue'[e][i].cap \in Delegable(made)
    BY <1>1, HeldIsDelegable
  <2>3. TypeOK'
    BY DEF Inv
  <2>4. \A c \in AllCaps' \ AllCaps : c \in made
    BY <2>1, <2>2, <2>3, DelegableOnly
  <2> SUFFICES ASSUME NEW c \in AllCaps' \ AllCaps
               PROVE  \/ c.type = "Frame" /\ \E i \in Slot : Spent(i, c.badge)
                      \/ c.type = "Untyped" /\ \E i \in Slot : caps'[current][i] = c
    BY DEF NothingForged
  <2>5. PICK i \in Slot : c = caps'[current][i]
    BY <2>4
  <2>6. c = new[i] /\ c # NoCap
    BY <1>4, <2>5 DEF AllCaps
  <2>7. c # caps[current][i]
    BY <1>1, <2>6 DEF AllCaps, CapsHeld
  <2>8. PaidSlot(caps[current], new, pages, i)
    BY <1>3
  <2>9. \/ /\ c.type = "Frame" /\ c.badge = pages
           /\ \E j \in Slot : SpentIn(caps[current], new, j, pages)
        \/ c.type = "Untyped"
    BY <2>6, <2>7, <2>8 DEF PaidSlot
  <2> QED
    BY <1>5, <2>5, <2>9
<1> QED
  BY <1>7, <1>8

(* SPAWN makes the handle of its child; CAP_GRANT, SEND and RECV copy a    *)
(* capability of the caller or the one at the queue's head; DMA_ALLOC and  *)
(* FRAME_ALLOC are paid for; nothing else touches a capability.            *)
LEMMA StepDelegation == Inv /\ [Next]_vars => NothingForged /\ NothingOverwritten
<1> SUFFICES ASSUME Inv, [Next]_vars PROVE NothingForged /\ NothingOverwritten
  OBVIOUS
<1> DEFINE Tables(made) ==
               /\ \A p \in Pid, i \in Slot : caps'[p][i] \in Delegable(made)
               /\ \A p \in Pid, i \in Slot : caps[p][i] \in {NoCap, caps'[p][i]}
           Messages(made) == \A e \in EndpointId : \A i \in 1 .. Len(queue'[e]) :
                                queue'[e][i].cap \in Delegable(made)
           Goal == NothingForged /\ NothingOverwritten
<1>0. current \in Pid /\ next_pid \in Nat /\ caps \in [Pid -> CNode]
  BY CurrentIsPid DEF Inv, TypeOK
<1>1. caps' = caps => Tables({})
  BY HeldIsDelegable
<1>2. ASSUME NEW made, queue' = queue PROVE Messages(made)
  BY <1>2, HeldIsDelegable
<1>i. Inv'
  BY StepInv
<1>3. ASSUME NEW made, Tables(made), Messages(made),
             \A c \in made : c = Cap("Process", next_pid) /\ next_pid' = next_pid + 1
      PROVE  Goal
  <2>1. TypeOK'
    BY <1>i DEF Inv
  <2>2. \A c \in AllCaps' \ AllCaps : c \in made
    BY <1>3, <2>1, DelegableOnly
  <2>3. NothingForged
    BY <1>3, <2>2 DEF NothingForged
  <2>4. NothingOverwritten
    BY <1>3 DEF NothingOverwritten
  <2> QED
    BY <2>3, <2>4
<1> HIDE DEF Tables, Messages, Goal
<1>g. SUFFICES Goal
  BY <1>g DEF Goal
<1>c. ASSUME Tables({}), Messages({}) PROVE Goal
  BY <1>3, <1>c
<1>4. ASSUME NEW slot, spawn(slot) PROVE Goal
  <2>0. PICK handle : handle = Cap("Process", next_pid)
    OBVIOUS
  <2>1. handle \in CapEntry /\ handle \in Delegable({handle})
    BY <1>0, <2>0 DEF Cap, CapEntry, CapType, Delegable
  <2>2. caps' = [caps EXCEPT ![current] = insert(@, slot, handle)]
    BY <1>4, <2>0 DEF spawn
  <2>3. queue' = queue /\ next_pid' = next_pid + 1
    BY <1>4 DEF spawn, ipc
  <2>4. Tables({handle})
    BY <1>0, <2>1, <2>2, InsertDelegates DEF Tables
  <2>5. Messages({handle})
    BY <1>2, <2>3
  <2> QED
    BY <1>3, <2>0, <2>3, <2>4, <2>5
<1>5. ASSUME NEW slot, NEW src, NEW dst, sys_cap_grant(slot, src, dst)
      PROVE  Goal
  <2> DEFINE target == process_target(slot)
             copy == caps[current][src]
  <2>1. target \in Pid
    BY <1>0, <1>5, CurrentIsPid DEF sys_cap_grant, holds, process_target, Inv,
                                    CapsNameObjects, NamesObject
  <2>2. copy \in CapEntry /\ copy \in Delegable({})
    BY <1>0, <1>5, HeldIsDelegable DEF sys_cap_grant, get_ok, CNode
  <2>3. caps' = [caps EXCEPT ![target] = insert(@, dst, copy)]
    BY <1>5 DEF sys_cap_grant
  <2>4. queue' = queue
    BY <1>5 DEF sys_cap_grant, ipc
  <2>5. Tables({})
    BY <2>1, <2>2, <2>3, InsertDelegates DEF Tables
  <2> QED
    BY <1>2, <1>c, <2>4, <2>5
<1>6. ASSUME NEW slot, NEW w \in Words, NEW src, sys_send(slot, w, src)
      PROVE  Goal
  <2> DEFINE id == caps[current][slot].object
             cap == IF src = MAX THEN NoCap ELSE caps[current][src]
             msg == [word |-> w, cap |-> cap]
  <2>1. id \in EndpointId
    BY <1>0, <1>6 DEF sys_send, holds, Inv, CapsNameObjects, NamesObject
  <2>2. cap \in CapEntry
    BY <1>0, <1>6 DEF sys_send, get_ok, CNode, NoCap, Cap, CapEntry
  <2>3. cap \in Delegable({})
    <3>1. CASE src = MAX
      BY <3>1 DEF Delegable
    <3>2. CASE src # MAX
      BY <1>0, <1>6, <3>2, HeldIsDelegable DEF sys_send, get_ok
    <3> QED
      BY <3>1, <3>2
  <2>4. queue' = [queue EXCEPT ![id] = Append(@, msg)] /\ caps' = caps
    BY <1>6 DEF sys_send
  <2>5. msg \in Message /\ msg.cap = cap
    BY <2>2 DEF Message
  <2> HIDE DEF msg, id
  <2>6. \A e \in EndpointId : \A i \in 1 .. Len(queue'[e]) :
           \/ i \in 1 .. Len(queue[e]) /\ queue'[e][i] = queue[e][i]
           \/ queue'[e][i] = msg
    BY <2>1, <2>4, <2>5 DEF Inv, TypeOK
  <2>7. Messages({})
    BY <2>3, <2>5, <2>6, HeldIsDelegable DEF Messages
  <2> QED
    BY <1>1, <1>c, <2>4, <2>7
<1>7. CASE try_recv
  <2> DEFINE id == kont[current].id
             cap == Head(queue[id]).cap
  <2>1. id \in EndpointId /\ queue[id] # <<>> /\ queue[id] \in Seq(Message)
    BY <1>0, <1>7 DEF try_recv, InLoop, Inv, LoopsOnObjects, TypeOK
  <2>2. Head(queue[id]) \in Message /\ Head(queue[id]) = queue[id][1]
        /\ 1 \in 1 .. Len(queue[id])
    BY <2>1
  <2>3. cap \in CapEntry /\ cap \in Delegable({})
    BY <2>1, <2>2, HeldIsDelegable DEF Message
  <2>4. queue' = [queue EXCEPT ![id] = Tail(@)]
    BY <1>7 DEF try_recv
  <2>5. Tables({})
    <3>1. CASE caps' = caps
      BY <1>1, <3>1, SMTT(60)
    <3>2. CASE caps' = [caps EXCEPT ![current] = insert(@, kont[current].dst, cap)]
      BY <1>0, <2>3, <3>2, InsertDelegates DEF Tables
    <3> QED
      BY <1>7, <3>1, <3>2 DEF try_recv
  <2>6. ASSUME NEW e \in EndpointId, NEW i \in 1 .. Len(queue'[e])
        PROVE  queue'[e][i].cap \in Delegable({})
    <3>1. queue[e] \in Seq(Message) /\ queue \in [EndpointId -> Seq(Message)]
      BY DEF Inv, TypeOK
    <3>2. CASE e = id
      <4>1. queue'[e] = Tail(queue[e]) /\ queue[e] # <<>>
        BY <2>1, <2>4, <3>1, <3>2
      <4>2. i + 1 \in 1 .. Len(queue[e]) /\ queue'[e][i] = queue[e][i + 1]
        BY <3>1, <4>1
      <4> QED
        BY <4>2, HeldIsDelegable
    <3>3. CASE e # id
      <4>1. queue'[e] = queue[e]
        BY <2>1, <2>4, <3>1, <3>3
      <4> QED
        BY <4>1, HeldIsDelegable
    <3> QED
      BY <3>2, <3>3
  <2>7. Messages({})
    BY <2>6 DEF Messages
  <2> QED
    BY <1>c, <2>5, <2>7
<1>u. ASSUME UNCHANGED <<caps, queue>> PROVE Goal
  BY <1>1, <1>2, <1>c, <1>u
<1>8. CASE timer_preempt \/ sys_yield \/ sys_read \/ read \/ wait_pid
           \/ poll_take \/ recv_block \/ wait_block \/ UNCHANGED vars
  BY <1>u, <1>8 DEF timer_preempt, sys_yield, sys_read, read, wait_pid,
              poll_take, recv_block, wait_block, ipc, vars
<1>9. ASSUME NEW code, exit_inner(code) PROVE Goal
  BY <1>u, <1>9 DEF exit_inner, ipc
<1>10. ASSUME NEW a, NEW b,
              \/ kill(a, b) \/ sys_wait_pid(a) \/ sys_recv(a, b)
              \/ sys_signal(a, b) \/ sys_wait(a)
       PROVE  Goal
  BY <1>u, <1>10 DEF kill, sys_wait_pid, sys_recv, sys_signal, sys_wait, ipc
<1>11. ASSUME NEW pages \in Pages, NEW ok, sys_dma_alloc(pages, ok)
       PROVE  Goal
  <2>1. 0 \in Nat
    OBVIOUS
  <2> QED
    BY <1>i, <1>11, <2>1, AllocForgesNothing DEF Goal
<1>12. ASSUME NEW pages \in Pages, NEW slot, NEW phys \in Frames, NEW ok,
              sys_frame_alloc(pages, slot, phys, ok)
       PROVE  Goal
  <2>1. phys \in Nat
    BY KernelAssumption
  <2> QED
    BY <1>i, <1>12, <2>1, AllocForgesNothing DEF Goal
<1> QED
  BY <1>4, <1>5, <1>6, <1>7, <1>8, <1>9, <1>10, <1>11, <1>12
     DEF Next, exit, fault_exit

(* Authority is copied and paid for, never forged: a capability that a     *)
(* step brings into being is the new child's handle, a Frame capability    *)
(* paid for in pages of the caller's budget, or that budget itself; and no *)
(* taken slot is overwritten but to charge or refund such a budget.        *)
THEOREM AuthorityIsNotForged == Spec => AuthorityNotForged
<1>1. Inv /\ [Next]_vars => [StepForgesNothing]_vars
  BY StepDelegation DEF NothingForged, NothingOverwritten, StepForgesNothing
<1>2. Spec => [][StepForgesNothing]_vars
  BY <1>1, SpecInv, PTL DEF Spec
<1> QED
  BY <1>2 DEF AuthorityNotForged, StepForgesNothing
=============================================================================
