------------------------------ MODULE BootProofs ------------------------------
(***************************************************************************)
(* The programs of the init image on the kernel, for any number of         *)
(* processes, sockets, file requests, attempts and rounds.                 *)
(*                                                                         *)
(* The announcement is a token: it is raised once, a WAIT takes it off the *)
(* notification, and whoever has it is the client (Token).  As there is    *)
(* one client, there is at most one request between the endpoints, and the *)
(* reply on its way is the reply to it (Conversation).  Processes handle   *)
(* only their own children, which are younger than they are, so nobody     *)
(* ends the running process but itself, and what a child ended with stays  *)
(* (Family, Reaped).                                                       *)
(***************************************************************************)
EXTENDS Boot, KernelProofs, SequenceTheorems

(* Where the programs can be.  Past: the client is past the wait for the   *)
(* services.                                                               *)
Before == {"r_setup", "r_client", "r_frame", "r_child", "r_grant", "r_reap", "r_signal"}
RootLabels == Before \cup {"r_shm", "r_recv", "r_serve", "r_exit", "end"}

AskLabels == {"c_files_r", "c_frame_r", "c_conn_r", "c_send_r", "c_round_r",
              "c_recv_r", "c_close_r"}
DemoLabels == {"c_files", "c_env", "c_log", "c_doomed"}
DoomedLabels == {"c_doomed_y", "c_kill", "c_kill_w", "c_crash"}
NetLabels == {"c_crash_w", "c_frame", "c_mapped", "c_conn", "c_send", "c_round",
              "c_mask", "c_wait", "c_recv", "c_got", "c_close", "c_bye", "c_exit"}
Past == AskLabels \cup DemoLabels \cup DoomedLabels \cup NetLabels
ClientLabels == Waiting \cup Past \cup {"end"}

(* Slot 11 or 12 of a client may hold the handle of its child.             *)
FromCrash == (NetLabels \cup AskLabels \cup {"end"}) \ {"c_files_r"}
FromDoomed == FromCrash \cup DoomedLabels

Role == {"none", "granted", "crash"}
LocalTypes ==
    /\ pc \in [Pid -> RootLabels \cup ClientLabels]
    /\ role \in [Pid -> Role]
    /\ reg \in [Pid -> Words \cup {NoWord}]
    /\ bits \in [Pid -> SUBSET Bits]
    /\ code \in [Pid -> Int]
    /\ cnt \in [Pid -> Nat]
    /\ mask \in [Pid -> SUBSET Socks]
    /\ pending \subseteq Socks

(* PID 0 runs the root task, and every other one the client.  A process    *)
(* that does not exist yet is at the start of it.                          *)
Programs ==
    /\ pc[0] \in RootLabels
    /\ \A p \in Pid \ {0} : pc[p] \in ClientLabels
    /\ \A p \in Pid : state[p] = "Absent" => pc[p] = "start" /\ role[p] = "none"

(* cnt counts sockets where a socket is asked for.                         *)
SockLabels == {"c_frame", "c_frame_r", "c_mapped", "c_conn", "c_conn_r", "c_send",
               "c_send_r", "c_close", "c_close_r"}
ZeroLabels == {"start", "c_ready", "c_env", "c_doomed", "c_kill", "c_kill_w",
               "c_crash", "c_crash_w"}
Counters ==
    \A p \in Pid : /\ pc[p] \in SockLabels => cnt[p] \in Socks
                   /\ pc[p] \in ZeroLabels => cnt[p] = 0

(* The seeded capabilities stay in their slots.                            *)
Seeds ==
    \A p \in Pid : /\ caps[p][EP_SLOT] = Cap("Endpoint", 0)
                   /\ caps[p][REPLY_EP_SLOT] = Cap("Endpoint", 1)
                   /\ caps[p][NOTIF_SLOT] = Cap("Notification", 0)

(* Which system call a program can be in, and on what.                     *)
IsHandle(c) == c.type = "Process"
RecvLabels == {"c_files", "c_mapped", "c_conn", "c_send", "c_round", "c_mask",
               "c_got", "c_close", "c_bye"}
Loops ==
    /\ kont[0].op = "Recv" => kont[0].id = 0 /\ pc[0] = "r_serve"
    /\ kont[0].op = "WaitPid" => pc[0] = "r_signal"
    /\ \A p \in Pid \ {0} : kont[p].op = "Recv" => kont[p].id = 1 /\ pc[p] \in RecvLabels
    /\ \A p \in Pid : kont[p].op = "Wait" =>
          kont[p].id = 0 /\ p # 0 /\ pc[p] \in {"c_ready", "c_recv"}
    /\ \A p \in Pid \ {0} : kont[p].op = "WaitPid" =>
          \/ /\ pc[p] = "c_crash" /\ IsHandle(caps[p][DOOMED_SLOT])
             /\ kont[p].id = caps[p][DOOMED_SLOT].object
          \/ /\ pc[p] = "c_frame" /\ IsHandle(caps[p][CRASH_SLOT])
             /\ kont[p].id = caps[p][CRASH_SLOT].object

Base == Inv /\ LocalTypes /\ Programs /\ Counters /\ Seeds /\ Loops
-----------------------------------------------------------------------------
(* One process has the announcement, and only it is past the wait.         *)
HasToken(p) == READY_BIT \in bits[p]
Token ==
    /\ \A p \in Pid \ {0} : pc[p] \in Past => HasToken(p)
    /\ \A p, q \in Pid : HasToken(p) /\ HasToken(q) => p = q
    /\ READY_BIT \in word[0] => \A p \in Pid : ~HasToken(p)
    /\ pc[0] \in Before => READY_BIT \notin word[0] /\ \A p \in Pid : ~HasToken(p)
-----------------------------------------------------------------------------
(* The client's request is in one place: on its way, at the service, or    *)
(* answered.  When nobody waits for an answer there is at most the BYE of  *)
(* a client that leaves.                                                   *)
Awaiting(p) == pc[p] \in AskLabels \/ kont[p].op = "Recv"

Expected(l) ==
    CASE l \in {"c_frame_r", "c_mapped"} -> "GetFrame"
      [] l \in {"c_round_r", "c_mask"} -> "GetReady"
      [] l \in {"c_recv_r", "c_got"} -> "Recv"
      [] OTHER -> "any"
Fits(p, w) == Expected(pc[p]) \in {w.op, "any"}

Holding(e) == Len(queue[e]) = 1
OnItsWay(p) ==
    /\ Holding(0) /\ queue[0][1].word.kind = "Ask" /\ Fits(p, queue[0][1].word)
    /\ reg[0].kind # "Ask" /\ queue[1] = <<>>
AtService(p) ==
    /\ queue[0] = <<>> /\ queue[1] = <<>>
    /\ reg[0].kind = "Ask" /\ Fits(p, reg[0])
Answered(p) ==
    /\ queue[0] = <<>> /\ reg[0].kind # "Ask"
    /\ Holding(1) /\ queue[1][1].word.kind \in {"Reply", "Refusal"}
    /\ Fits(p, queue[1][1].word)
Leaving ==
    /\ Holding(0) /\ queue[0][1].word.kind = "Bye"
    /\ \E p \in Pid \ {0} : HasToken(p) /\ pc[p] \in {"c_exit", "end"}
Silent == queue[1] = <<>> /\ reg[0].kind # "Ask" /\ (queue[0] = <<>> \/ Leaving)

Conversation ==
    /\ \A p \in Pid \ {0} : Awaiting(p) => OnItsWay(p) \/ AtService(p) \/ Answered(p)
    /\ (\A p \in Pid \ {0} : ~Awaiting(p)) => Silent
    /\ ReplyToAsker
-----------------------------------------------------------------------------
(* Handles name younger processes and do not travel: only frames do.       *)
FramesOnly(c) == c.type \in {"None", "Frame"}
Travelling ==
    /\ \A e \in EndpointId : \A i \in 1 .. Len(queue[e]) : FramesOnly(queue[e][i].cap)
    /\ pc[0] \in {"r_child", "r_grant"} => caps[0][GRANT_SRC_SLOT].type = "Frame"

Handles ==
    /\ \A p \in Pid, i \in Slot : IsHandle(caps[p][i]) => caps[p][i].object > p
    /\ \A p \in Pid \ {0} : IsHandle(caps[p][DOOMED_SLOT]) =>
          pc[p] \in FromDoomed /\ role[caps[p][DOOMED_SLOT].object] = "none"
    /\ \A p \in Pid \ {0} : IsHandle(caps[p][CRASH_SLOT]) =>
          pc[p] \in FromCrash /\ role[caps[p][CRASH_SLOT].object] = "crash"

(* A role decides where a process can be, and the crashing child ends by   *)
(* its fault.                                                              *)
Roles ==
    \A p \in Pid \ {0} :
        /\ role[p] = "none" /\ ~HasToken(p) => pc[p] \in {"start", "c_ready"}
        /\ role[p] = "crash" => /\ pc[p] \in {"start", "crash", "end"}
                                /\ state[p] = "Done" => exit_code[p] = EXIT_FAULT

Family == Travelling /\ Handles /\ Roles /\ (~halted => state[current] # "Done")

(* The child to be killed is alive until then, and stays as it was killed. *)
Reaped ==
    \A p \in Pid \ {0} : LET doomed == caps[p][DOOMED_SLOT] IN
        /\ pc[p] \in {"c_doomed_y", "c_kill"} =>
              IsHandle(doomed) /\ state[doomed.object] # "Done"
        /\ pc[p] = "c_kill_w" \/ (pc[p] = "c_crash" /\ kont[p].op = "WaitPid") =>
              /\ IsHandle(doomed)
              /\ state[doomed.object] = "Done" /\ exit_code[doomed.object] = SIGTERM
        /\ pc[p] = "c_crash" /\ kont[p].op # "WaitPid" /\ IsHandle(doomed) =>
              code[p] = SIGTERM
        /\ pc[p] \in {"c_frame", "c_frame_r", "c_mapped"} /\ kont[p].op # "WaitPid"
              /\ IsHandle(caps[p][CRASH_SLOT]) => code[p] = EXIT_FAULT

BootInv == Base /\ Token /\ Conversation /\ Family /\ Reaped
-----------------------------------------------------------------------------
(* What all steps use.                                                     *)

(* The constants, and the types the other lemmas lean on. *)
LEMMA Ground ==
  ASSUME Base
  PROVE  /\ current \in Pid /\ 0 \in Pid /\ Pid \subseteq Nat /\ next_pid \in Nat
         /\ 0 .. 12 \subseteq Slot /\ Slot \subseteq SlotArg /\ MAX \in SlotArg
         /\ Nat \subseteq SlotArg
         /\ 0 \in EndpointId /\ 1 \in EndpointId /\ 0 \in NotificationId
         /\ caps \in [Pid -> CNode] /\ kont \in [Pid -> Kont]
         /\ state \in [Pid -> State] /\ exit_code \in [Pid -> Nat]
         /\ queue \in [EndpointId -> Seq(Message)]
         /\ word \in [NotificationId -> SUBSET Bits]
<1>1. TypeOK
  BY DEF Base, Inv
<1>2. 0 .. 12 \subseteq Slot /\ Slot \subseteq SlotArg /\ MAX \in SlotArg /\ Nat \subseteq SlotArg
  BY CapAssumption, BootAssumption DEF Slot, SlotArg, CRASH_SLOT, PROC_SLOT_BASE
<1>3. 0 \in EndpointId /\ 1 \in EndpointId /\ 0 \in NotificationId /\ 0 \in Pid
  BY KernelAssumption DEF EndpointId, NotificationId, Pid
<1> QED
  BY <1>1, <1>2, <1>3, CurrentIsPid DEF TypeOK

(* The objects behind the seeded slots. *)
LEMMA SeedObjects ==
  ASSUME Base, NEW p \in Pid
  PROVE  /\ caps[p][EP_SLOT].object = 0 /\ caps[p][EP_SLOT].type = "Endpoint"
         /\ caps[p][REPLY_EP_SLOT].object = 1 /\ caps[p][REPLY_EP_SLOT].type = "Endpoint"
         /\ caps[p][NOTIF_SLOT].object = 0 /\ caps[p][NOTIF_SLOT].type = "Notification"
  BY DEF Base, Seeds, Cap

(* What is sent are words, and what is signalled are bits. *)
LEMMA WordsAndBits ==
  /\ \A op \in Ops : \A socks \in SUBSET Socks :
        \A kind \in {"Ask", "Reply", "Refusal", "Bye"} : Msg(kind, op, socks) \in Words
  /\ \A op \in Ops : \A socks \in SUBSET Socks : Ask(op, socks) \in Words
  /\ Bye \in Words
  /\ Announced \in SUBSET Bits
  /\ \A s \in Socks : {sock_bit(s)} \in SUBSET Bits /\ sock_bit(s) # READY_BIT
<1>1. /\ \A op \in Ops : \A socks \in SUBSET Socks :
            \A kind \in {"Ask", "Reply", "Refusal", "Bye"} : Msg(kind, op, socks) \in Words
      /\ \A op \in Ops : \A socks \in SUBSET Socks : Ask(op, socks) \in Words
      /\ Bye \in Words
  BY BootAssumption DEF BootWords, Msg, Ask, Bye, Ops
<1>2. Announced \in SUBSET Bits /\ \A s \in Socks : {sock_bit(s)} \in SUBSET Bits
  BY BootAssumption
<1>3. \A s \in Socks : sock_bit(s) # READY_BIT
  BY BootAssumption DEF sock_bit, READY_BIT, NET_READY_BIT
<1> QED
  BY <1>1, <1>2, <1>3

(* The slots of the programs are slot arguments. *)
LEMMA SlotNumbers ==
  /\ EP_SLOT = 3 /\ REPLY_EP_SLOT = 4 /\ NOTIF_SLOT = 5 /\ SHM_FRAME_SLOT = 6
  /\ GRANTED_FRAME_SLOT = 6 /\ PROC_SLOT_BASE = 10
  /\ GRANT_PROC_SLOT = 11 /\ DOOMED_SLOT = 11
  /\ GRANT_SRC_SLOT = 12 /\ CRASH_SLOT = 12
  BY DEF EP_SLOT, REPLY_EP_SLOT, NOTIF_SLOT, SHM_FRAME_SLOT, GRANTED_FRAME_SLOT,
         PROC_SLOT_BASE, GRANT_PROC_SLOT, DOOMED_SLOT, GRANT_SRC_SLOT, CRASH_SLOT

(* Where the root task and a client are tells who runs. *)
LEMMA WhoRuns ==
  ASSUME Base
  PROVE  /\ pc[current] \in RootLabels \ {"end"} => current = 0
         /\ pc[current] \in ClientLabels \ {"end"} => current # 0
<1>1. RootLabels \cap ClientLabels = {"end"}
  BY DEF RootLabels, ClientLabels, Before, Waiting, Past, AskLabels, DemoLabels,
         DoomedLabels, NetLabels
<1> QED
  BY <1>1, Ground DEF Base, Programs
-----------------------------------------------------------------------------
(* The kernel's invariant.                                                 *)

(* A Frame capability names no kernel object, so FRAME_ALLOC keeps it. *)
LEMMA FrameKeeps ==
  ASSUME Inv, NEW slot, NEW c \in CapEntry, c.type = "Frame",
         caps' = [caps EXCEPT ![current] = insert(@, slot, c)],
         UNCHANGED <<sched, kont, exit_code, next_pid, ipc, handleless>>
  PROVE  Inv'
<1> USE DEF Inv, sched, ipc
<1> DEFINE table == insert(caps[current], slot, c)
<1>1. current \in Pid /\ caps \in [Pid -> CNode] /\ caps[current] \in CNode
  BY CurrentIsPid DEF TypeOK
<1>2. table \in CNode /\ \A i \in Slot : table[i] \in {caps[current][i], c}
  BY <1>1, InsertResult
<1>3. caps' = [caps EXCEPT ![current] = table]
  OBVIOUS
<1> HIDE DEF table
<1>4. caps' \in [Pid -> CNode] /\ \A p \in Pid, i \in Slot : caps'[p][i] \in {caps[p][i], c}
  BY <1>1, <1>2, <1>3
<1>5. halted' \in BOOLEAN
  BY DEF TypeOK
<1>6. TypeOK'
  BY <1>4, <1>5 DEF TypeOK
<1>7. CapsNameObjects'
  <2>1. NamesObject(c)'
    BY DEF NamesObject
  <2>2. \A p \in Pid, i \in Slot : NamesObject(caps[p][i])'
    BY <1>4, <2>1 DEF CapsNameObjects, NamesObject
  <2> QED
    BY <2>2 DEF CapsNameObjects, NamesObject
<1>8. TableInPidOrder' /\ LoopsOnObjects' /\ HandlelessSpawned' /\ NoLostWakeup'
      /\ ParkedInItsLoop' /\ CpuNeverParked'
  BY DEF TableInPidOrder, LoopsOnObjects, HandlelessSpawned, NoLostWakeup,
         ParkedInItsLoop, CpuNeverParked
<1> QED
  BY <1>6, <1>7, <1>8

(* Every step of a program is a system call with well-typed arguments, and *)
(* preserves the kernel's invariant.                                       *)
LEMMA BootKernel == ASSUME Base, BootNext PROVE Inv'
<1>0. Inv /\ SHM_FRAME_SLOT = 6
  BY DEF Base, SHM_FRAME_SLOT
<1> DEFINE p == current
<1>1. /\ cnt[p] \in Nat /\ reg[p] \in Words \cup {NoWord} /\ mask[p] \in SUBSET Socks
      /\ pending \in SUBSET Socks
      /\ pc[p] \in SockLabels => cnt[p] \in Socks
  BY Ground DEF Base, LocalTypes, Counters
<1>2. \A w \in Words \cup {NoWord} : w.socks \in SUBSET Socks /\ w.op \in Ops
  BY BootAssumption DEF BootWords, NoWord, Msg, Ops
<1>3. reg[p].socks \in SUBSET Socks /\ reg[p].op \in Ops
  BY <1>1, <1>2
<1>local. ASSUME NEW l, NEW m, Local(l, m) PROVE Inv'
  BY <1>0, <1>local, StutterKeeps DEF Local
<1>spawn. ASSUME NEW l, NEW m, NEW slot \in 0 .. 12, NEW r, Spawn(l, m, slot, r) PROVE Inv'
  BY <1>0, <1>spawn, SpawnKeeps, Ground DEF Spawn
<1>reap. ASSUME NEW l, NEW m, NEW slot \in 0 .. 12, Reap(l, m, slot) PROVE Inv'
  BY <1>0, <1>reap, WaitPidCallKeeps, Ground DEF Reap
<1>yield. sys_yield => Inv'
  BY <1>0, YieldKeeps DEF sys_yield, InUser
<1>exit. ASSUME NEW l, NEW c \in Nat, Exit(l, c) PROVE Inv'
  BY <1>0, <1>exit, ExitKeeps DEF Exit, exit, InUser
<1>send. ASSUME NEW slot \in 0 .. 12, NEW w \in Words, NEW src \in SlotArg,
                sys_send(slot, w, src) PROVE Inv'
  BY <1>0, <1>send, SendKeeps, Ground
<1>ask. ASSUME NEW l, NEW m, NEW op \in Ops, NEW socks \in SUBSET Socks,
               Request(l, m, op, socks) PROVE Inv'
  <2>1. sys_send(EP_SLOT, Ask(op, socks), MAX)
    BY <1>ask DEF Request
  <2>2. EP_SLOT \in 0 .. 12 /\ Ask(op, socks) \in Words /\ MAX \in SlotArg
    BY WordsAndBits, SlotNumbers, Ground
  <2> QED
    BY <2>1, <2>2, <1>send
<1>recv. ASSUME NEW slot \in 0 .. 12, NEW dst \in SlotArg, sys_recv(slot, dst) PROVE Inv'
  BY <1>0, <1>recv, RecvCallKeeps, Ground
<1>await. ASSUME NEW l, NEW m, NEW dst \in SlotArg, AwaitReply(l, m, dst) PROVE Inv'
  <2>1. sys_recv(REPLY_EP_SLOT, dst)
    BY <1>await DEF AwaitReply
  <2> QED
    BY <2>1, <1>recv DEF REPLY_EP_SLOT
<1>frame. ASSUME NEW slot \in Nat,
                 caps' = [caps EXCEPT ![current] = insert(@, slot, Cap("Frame", slot))],
                 UNCHANGED <<sched, kont, exit_code, next_pid, ipc, handleless>>
          PROVE  Inv'
  <2>1. Cap("Frame", slot) \in CapEntry /\ Cap("Frame", slot).type = "Frame"
    BY DEF Cap, CapEntry, CapType
  <2> QED
    BY <1>0, <1>frame, <2>1, FrameKeeps
<1>same. UNCHANGED <<sched, kont, exit_code, next_pid, ipc, handleless>> /\ caps' = caps => Inv'
  BY <1>0, StutterKeeps DEF vars, sched, ipc
<1>reply. ASSUME NEW kind \in {"Reply", "Refusal"}, NEW op \in Ops,
                 NEW socks \in SUBSET Socks, NEW cap \in SlotArg,
                 Reply(kind, op, socks, cap) PROVE Inv'
  <2>1. Msg(kind, op, socks) \in Words
    BY WordsAndBits
  <2> QED
    BY <1>reply, <1>send, <2>1 DEF Reply, REPLY_EP_SLOT
<1>each. ASSUME NEW l \in SockLabels, NEW m, NEW op \in Ops, NEW n,
                EachSocket(l, m, op, n) PROVE Inv'
  <2>1. CASE Request(l, m, op, {cnt[current]})
    <3>1. pc[p] = l
      BY <2>1 DEF Request, Step, At
    <3> QED
      BY <1>1, <2>1, <3>1, <1>ask
  <2>2. CASE sys_recv(REPLY_EP_SLOT, MAX)
    BY <2>2, <1>recv, Ground DEF REPLY_EP_SLOT
  <2> QED
    BY <1>each, <2>1, <2>2 DEF EachSocket
<1>4. CASE Root
  <2>1. ASSUME NEW ok \in BOOLEAN, r_setup(ok) PROVE Inv'
    BY <2>1, <1>local DEF r_setup
  <2>2. ASSUME NEW ok \in BOOLEAN, r_frame(ok) PROVE Inv'
    BY <2>2, <1>frame, <1>same DEF r_frame, FrameAlloc, GRANT_SRC_SLOT, PROC_SLOT_BASE
  <2>3. ASSUME NEW ok \in BOOLEAN, r_shm(ok) PROVE Inv'
    <3>1. SHM_FRAME_SLOT + cnt[current] \in Nat
      BY <1>0, <1>1
    <3> QED
      BY <2>3, <3>1, <1>frame, <1>same DEF r_shm
  <2>4. CASE r_client
    BY <2>4, <1>spawn, <1>local DEF r_client, SpawnFails, PROC_SLOT_BASE
  <2>5. CASE r_child
    BY <2>5, <1>spawn, <1>local DEF r_child, SpawnFails, GRANT_PROC_SLOT, PROC_SLOT_BASE
  <2>6. CASE r_grant
    BY <1>0, <2>6, GrantKeeps, Ground, SlotNumbers DEF r_grant
  <2>7. CASE r_reap
    BY <2>7, <1>reap DEF r_reap, GRANT_PROC_SLOT, PROC_SLOT_BASE
  <2>8. CASE r_signal
    BY <1>0, <2>8, SignalKeeps, WordsAndBits, Ground, SlotNumbers DEF r_signal
  <2>9. CASE r_recv
    BY <2>9, <1>recv, Ground DEF r_recv, EP_SLOT
  <2>10. CASE r_get_ready
    BY <1>1, <2>10, <1>reply, Ground DEF r_get_ready, Ops
  <2>11. CASE r_get_frame
    <3>1. PICK s \in reg[current].socks :
             \/ Reply("Reply", "GetFrame", {s}, SHM_FRAME_SLOT + s)
             \/ Reply("Refusal", "GetFrame", {s}, MAX)
      BY <2>11 DEF r_get_frame
    <3>2. {s} \in SUBSET Socks /\ SHM_FRAME_SLOT + s \in SlotArg
      <4>1. s \in Socks /\ s \in Nat
        BY <1>3, BootAssumption
      <4> QED
        BY <1>0, <4>1, Ground
    <3> QED
      BY <3>1, <3>2, <1>reply, Ground DEF Ops
  <2>12. CASE r_net_recv
    BY <1>3, <2>12, <1>reply, Ground DEF r_net_recv, Ops
  <2>13. ASSUME NEW op \in {"File", "Connect", "Send", "Close"}, r_other(op) PROVE Inv'
    BY <1>3, <2>13, <1>reply, Ground DEF r_other, Ops
  <2>14. ASSUME NEW s \in Socks, r_buffer(s) PROVE Inv'
    BY <1>0, <2>14, SignalKeeps, WordsAndBits, Ground, SlotNumbers DEF r_buffer
  <2>15. CASE r_bye
    BY <2>15, <1>local DEF r_bye
  <2>16. CASE r_exit
    BY <2>16, <1>exit DEF r_exit
  <2> QED
    BY <1>4, <2>1, <2>2, <2>3, <2>4, <2>5, <2>6, <2>7, <2>8, <2>9, <2>10, <2>11,
       <2>12, <2>13, <2>14, <2>15, <2>16 DEF Root
<1>5. CASE Client
  <2>1. CASE c_start \/ g_ok \/ g_give_up
    BY <2>1, <1>local, <1>exit DEF c_start, g_ok, g_give_up
  <2>2. CASE crash_child
    BY <1>0, <2>2, ExitKeeps DEF crash_child, fault_exit, InUser, EXIT_FAULT
  <2>3. CASE granted_child
    BY <2>3, <1>local, <1>yield DEF granted_child
  <2>4. CASE c_ready
    <3>1. CASE Local("c_ready", "c_files")
      BY <3>1, <1>local
    <3>2. CASE sys_wait(NOTIF_SLOT)
      BY <1>0, <3>2, WaitCallKeeps, Ground, SlotNumbers
    <3> QED
      BY <2>4, <3>1, <3>2 DEF c_ready
  <2>5. CASE c_files
    <3>1. CASE Request("c_files", "c_files_r", "File", {})
      <4>1. "File" \in Ops /\ {} \in SUBSET Socks
        BY DEF Ops
      <4> QED
        BY <3>1, <4>1, <1>ask
    <3>2. CASE sys_recv(REPLY_EP_SLOT, MAX)
      BY <3>2, <1>recv, Ground, SlotNumbers
    <3>3. CASE Local("c_files", "c_env")
      BY <3>3, <1>local
    <3> QED
      BY <2>5, <3>1, <3>2, <3>3 DEF c_files
  <2>6. CASE c_env
    BY <2>6, <1>spawn, <1>local DEF c_env, SpawnFails, PROC_SLOT_BASE
  <2>7. CASE c_log \/ c_doomed_y
    BY <2>7, <1>yield DEF c_log, c_doomed_y, Yields
  <2>8. CASE c_doomed
    BY <2>8, <1>spawn, <1>local DEF c_doomed, SpawnFails, DOOMED_SLOT, PROC_SLOT_BASE
  <2>9. CASE c_kill
    BY <1>0, <2>9, KillKeeps, Ground, SlotNumbers DEF c_kill, SIGTERM
  <2>10. CASE c_kill_w \/ c_crash_w
    BY <2>10, <1>reap DEF c_kill_w, c_crash_w, DOOMED_SLOT, CRASH_SLOT, PROC_SLOT_BASE
  <2>11. CASE c_crash
    BY <2>11, <1>spawn, <1>local DEF c_crash, SpawnFails, CRASH_SLOT, PROC_SLOT_BASE
  <2>12. CASE c_frame
    <3>1. CASE Request("c_frame", "c_frame_r", "GetFrame", {cnt[current]})
      <4>1. pc[p] = "c_frame"
        BY <3>1 DEF Request, Step, At
      <4> QED
        BY <1>1, <3>1, <4>1, <1>ask DEF Ops, SockLabels
    <3>2. CASE AwaitReply("c_frame_r", "c_mapped", SHM_FRAME_SLOT + cnt[current])
      <4>1. SHM_FRAME_SLOT + cnt[current] \in SlotArg
        BY <1>0, <1>1, Ground, SMTT(60)
      <4> QED
        BY <3>2, <4>1, <1>await
    <3>3. CASE \E m : Local("c_mapped", m)
      BY <3>3, <1>local
    <3> QED
      BY <2>12, <3>1, <3>2, <3>3 DEF c_frame
  <2>13. CASE c_conn \/ c_send \/ c_close
    BY <2>13, <1>each DEF c_conn, c_send, c_close, SockLabels, Ops
  <2>14. CASE c_round
    <3>1. CASE Request("c_round", "c_round_r", "GetReady", {})
      <4>1. "GetReady" \in Ops /\ {} \in SUBSET Socks
        BY DEF Ops
      <4> QED
        BY <3>1, <4>1, <1>ask
    <3>2. CASE AwaitReply("c_round_r", "c_mask", MAX)
      BY <3>2, <1>await, Ground
    <3>3. CASE \E l, m : Local(l, m)
      BY <3>3, <1>local
    <3> QED
      BY <2>14, <3>1, <3>2, <3>3 DEF c_round
  <2>15. CASE c_wait
    BY <1>0, <2>15, WaitCallKeeps, Ground, SlotNumbers DEF c_wait
  <2>16. CASE c_recv
    <3>1. CASE mask[current] # {} /\ Request("c_recv", "c_recv_r", "Recv", {Min(mask[current])})
      <4>1. Min(mask[current]) \in Socks
        BY <1>1, <3>1, MinIsLeast, BootAssumption
      <4>2. {Min(mask[current])} \in SUBSET Socks /\ "Recv" \in Ops
        BY <4>1 DEF Ops
      <4> QED
        BY <3>1, <4>2, <1>ask
    <3>2. CASE AwaitReply("c_recv_r", "c_got", MAX)
      BY <3>2, <1>await, Ground
    <3>3. CASE Local("c_recv", "c_round") \/ Local("c_got", "c_recv")
      BY <3>3, <1>local
    <3> QED
      BY <2>16, <3>1, <3>2, <3>3 DEF c_recv
  <2>17. CASE c_bye
    BY <2>17, <1>send, <1>exit, WordsAndBits, Ground, SlotNumbers DEF c_bye
  <2> QED
    BY <1>5, <2>1, <2>2, <2>3, <2>4, <2>5, <2>6, <2>7, <2>8, <2>9, <2>10, <2>11,
       <2>12, <2>13, <2>14, <2>15, <2>16, <2>17 DEF Client
<1>6. CASE InKernel
  BY <1>0, <1>6, RecvKeeps, TakeKeeps, WaitPidKeeps, ParkKeeps
     DEF InKernel, k_recv, k_wait, k_wait_pid, k_block
<1>7. CASE k_preempt
  BY <1>0, <1>7, YieldKeeps DEF k_preempt, timer_preempt, InUser
<1> QED
  BY <1>4, <1>5, <1>6, <1>7 DEF BootNext
-----------------------------------------------------------------------------
(* The shapes of a client's step: from which label to which, and what it   *)
(* does to the kernel.                                                     *)

Moves(edges) == \E e \in edges : Step(e[1], e[2])

SameLocals == UNCHANGED <<reg, bits, code, pending>>

(* A wake makes Blocked processes Ready and changes no other.              *)
Woken == /\ \A p \in Pid : state'[p] = state[p]
                           \/ (state[p] = "Blocked" /\ state'[p] = "Ready")
         /\ UNCHANGED <<current, halted>>

(* Nothing happens to anybody, but the CPU may go to a Ready process.      *)
QuietEdges ==
    {<<"start", "crash">>, <<"start", "granted">>, <<"start", "c_ready">>,
     <<"granted", "g_ok">>, <<"granted", "granted">>, <<"c_ready", "c_files">>,
     <<"c_files", "c_env">>, <<"c_env", "c_frame">>, <<"c_log", "c_log">>,
     <<"c_log", "c_doomed">>, <<"c_doomed", "c_crash">>,
     <<"c_doomed_y", "c_doomed_y">>, <<"c_doomed_y", "c_kill">>,
     <<"c_crash", "c_frame">>, <<"c_mapped", "c_frame">>, <<"c_mapped", "c_conn">>,
     <<"c_mapped", "c_bye">>, <<"c_round", "c_close">>, <<"c_mask", "c_close">>,
     <<"c_mask", "c_wait">>, <<"c_recv", "c_round">>, <<"c_got", "c_recv">>}
Quiet ==
    /\ Moves(QuietEdges)
    /\ UNCHANGED <<state, kont, exit_code, caps, next_pid, halted, queue, word, role>>
    /\ current' = current \/ state[current'] = "Ready"
    /\ pc[current] = "start" => /\ role[current] = "crash" <=> pc'[current] = "crash"
                                /\ role[current] = "none" => pc'[current] = "c_ready"
    /\ pc[current] = "c_ready" => HasToken(current)

(* A request or the goodbye goes to the request endpoint.                  *)
SendsWord(w) ==
    /\ queue' = [queue EXCEPT ![0] = Append(@, [word |-> w, cap |-> NoCap])]
    /\ Woken
    /\ UNCHANGED <<kont, exit_code, caps, next_pid, word, role>>
AskEdges ==
    {<<"c_files", "c_files_r">>, <<"c_frame", "c_frame_r">>, <<"c_conn", "c_conn_r">>,
     <<"c_send", "c_send_r">>, <<"c_round", "c_round_r">>, <<"c_recv", "c_recv_r">>,
     <<"c_close", "c_close_r">>}
Asks ==
    /\ Moves(AskEdges)
    /\ \E w \in Words : /\ w.kind = "Ask" /\ Expected(pc'[current]) \in {w.op, "any"}
                        /\ SendsWord(w)
Leaves == Step("c_bye", "c_exit") /\ SendsWord(Bye)

(* A call enters its loop.                                                 *)
Enters(k) ==
    /\ kont' = [kont EXCEPT ![current] = k]
    /\ UNCHANGED <<state, exit_code, caps, current, next_pid, halted, queue, word, role>>
ListenEdges ==
    {<<"c_files_r", "c_files">>, <<"c_frame_r", "c_mapped">>, <<"c_conn_r", "c_conn">>,
     <<"c_conn_r", "c_send">>, <<"c_send_r", "c_send">>, <<"c_send_r", "c_round">>,
     <<"c_round_r", "c_mask">>, <<"c_recv_r", "c_got">>, <<"c_close_r", "c_close">>,
     <<"c_close_r", "c_bye">>}
Listens == Moves(ListenEdges) /\ \E dst \in SlotArg : Enters(Loop("Recv", 1, dst))
Waits ==
    /\ Step("c_ready", "c_ready") \/ Step("c_wait", "c_recv")
    /\ Enters(Loop("Wait", 0, MAX))
Reaps ==
    \E slot \in {DOOMED_SLOT, CRASH_SLOT} :
        /\ IF slot = DOOMED_SLOT THEN Step("c_kill_w", "c_crash")
                                 ELSE Step("c_crash_w", "c_frame")
        /\ IsHandle(caps[current][slot])
        /\ Enters(Loop("WaitPid", caps[current][slot].object, MAX))

Spawns ==
    \/ Spawn("c_env", "c_log", PROC_SLOT_BASE, "none")
    \/ Spawn("c_doomed", "c_doomed_y", DOOMED_SLOT, "none")
    \/ Spawn("c_crash", "c_crash_w", CRASH_SLOT, "crash")
Kills == Step("c_kill", "c_kill_w") /\ kill(DOOMED_SLOT, SIGTERM) /\ role' = role
EndEdges == {<<"granted", "end">>, <<"g_ok", "end">>, <<"c_exit", "end">>}
Ends ==
    /\ role' = role
    /\ \/ Step("crash", "end") /\ exit_inner(EXIT_FAULT)
       \/ Moves(EndEdges) /\ \E c \in Nat : exit_inner(c)

(* Every step of a client has one of these shapes. *)
LEMMA ClientShapes ==
  ASSUME Base, Client
  PROVE  /\ current # 0 /\ InUser /\ SameLocals
         /\ Quiet \/ Asks \/ Leaves \/ Listens \/ Waits \/ Reaps \/ Spawns \/ Kills \/ Ends
<1> DEFINE Shape == Quiet \/ Asks \/ Leaves \/ Listens \/ Waits \/ Reaps \/ Spawns \/ Kills \/ Ends
<1>0. current \in Pid /\ TypeOK /\ Inv
  BY Ground DEF Base, Inv
<1>local. ASSUME NEW l, NEW m, Local(l, m)
          PROVE  /\ UNCHANGED <<state, kont, exit_code, caps, next_pid, halted, queue, word>>
                 /\ current' = current /\ Step(l, m)
  BY <1>local DEF Local, vars
<1>yield. ASSUME sys_yield
          PROVE  /\ UNCHANGED <<state, kont, exit_code, caps, next_pid, halted, queue, word>>
                 /\ current' = current \/ state[current'] = "Ready"
  BY <1>0, <1>yield, PickIsReady DEF sys_yield, yield_now, ipc
<1>edge. ASSUME NEW edges, NEW l, NEW m, <<l, m>> \in edges, Step(l, m) PROVE Moves(edges)
  <2>1. <<l, m>>[1] = l /\ <<l, m>>[2] = m
    OBVIOUS
  <2> QED
    BY <1>edge, <2>1 DEF Moves
<1>send. ASSUME NEW w, sys_send(EP_SLOT, w, MAX), role' = role PROVE SendsWord(w)
  BY <1>0, <1>send, SeedObjects, Ground DEF sys_send, SendsWord, wake, Woken
<1>recv. ASSUME NEW dst \in SlotArg, sys_recv(REPLY_EP_SLOT, dst), role' = role
         PROVE  Enters(Loop("Recv", 1, dst))
  BY <1>0, <1>recv, SeedObjects DEF sys_recv, Enters, sched, ipc
<1>wait. ASSUME sys_wait(NOTIF_SLOT), role' = role PROVE Enters(Loop("Wait", 0, MAX))
  BY <1>0, <1>wait, SeedObjects DEF sys_wait, Enters, sched, ipc
<1>who. ASSUME NEW l, NEW m, Step(l, m), l \in ClientLabels \ {"end"}
        PROVE  current # 0 /\ InUser
  BY <1>who, WhoRuns DEF Step, At
<1> DEFINE Goal == current # 0 /\ InUser /\ SameLocals /\ Shape
<1>labels. /\ Waiting \cup Past \subseteq ClientLabels \ {"end"}
           /\ {"start", "c_ready", "granted", "g_ok", "crash"} \subseteq Waiting
           /\ AskLabels \cup DemoLabels \cup DoomedLabels \cup NetLabels \subseteq Past
  BY DEF ClientLabels, Waiting, Past, AskLabels, DemoLabels, DoomedLabels, NetLabels
<1>quiet. ASSUME NEW l \in ClientLabels \ {"end"}, NEW m, <<l, m>> \in QuietEdges, Step(l, m),
                 UNCHANGED <<state, kont, exit_code, caps, next_pid, halted, queue, word, role>>,
                 current' = current \/ state[current'] = "Ready",
                 l = "start" => /\ role[current] = "crash" <=> m = "crash"
                                /\ role[current] = "none" => m = "c_ready",
                 l = "c_ready" => HasToken(current),
                 SameLocals
          PROVE  Goal
  <2>1. pc[current] = l /\ pc'[current] = m
    BY <1>0, <1>quiet DEF Step, At, Base, LocalTypes
  <2>2. Moves(QuietEdges)
    BY <1>quiet, <1>edge
  <2>3. Quiet
    BY <1>quiet, <2>1, <2>2 DEF Quiet
  <2> QED
    BY <1>quiet, <1>who, <2>3
<1>ask. ASSUME NEW l \in ClientLabels \ {"end"}, NEW m, <<l, m>> \in AskEdges,
               NEW op \in Ops, NEW socks \in SUBSET Socks,
               Request(l, m, op, socks), Expected(m) \in {op, "any"}
        PROVE  Goal
  <2>1. Step(l, m) /\ sys_send(EP_SLOT, Ask(op, socks), MAX) /\ UNCHANGED locals
    BY <1>ask DEF Request
  <2>2. pc'[current] = m /\ SameLocals /\ role' = role
    BY <1>0, <2>1 DEF Step, At, Base, LocalTypes, locals, SameLocals
  <2>3. Moves(AskEdges) /\ SendsWord(Ask(op, socks))
    BY <1>ask, <2>1, <2>2, <1>edge, <1>send
  <2>4. Ask(op, socks) \in Words /\ Ask(op, socks).kind = "Ask" /\ Ask(op, socks).op = op
    BY WordsAndBits DEF Ask, Msg
  <2>5. Asks
    BY <1>ask, <2>2, <2>3, <2>4 DEF Asks
  <2> QED
    BY <2>1, <2>2, <2>5, <1>who
<1>listen. ASSUME NEW l \in ClientLabels \ {"end"}, NEW m, <<l, m>> \in ListenEdges,
                  NEW dst \in SlotArg, Step(l, m), sys_recv(REPLY_EP_SLOT, dst),
                  UNCHANGED butCnt
           PROVE  Goal
  <2>1. SameLocals /\ role' = role
    BY <1>listen DEF butCnt, SameLocals
  <2>2. Listens
    BY <1>listen, <2>1, <1>edge, <1>recv DEF Listens
  <2> QED
    BY <1>listen, <2>1, <2>2, <1>who
<1> HIDE DEF Goal
<1>1. SUFFICES Goal
  BY <1>1 DEF Goal
<1>2. \A l \in Waiting \cup Past : l \in ClientLabels \ {"end"}
  BY <1>labels
<1>3. CASE c_start
  <2> DEFINE m == CASE role[current] = "crash" -> "crash"
                    [] role[current] = "granted" -> "granted"
                    [] OTHER -> "c_ready"
  <2>1. Local("start", m) /\ UNCHANGED locals
    BY <1>3 DEF c_start
  <2>2. role[current] \in {"none", "granted", "crash"}
    BY <1>0 DEF Base, LocalTypes, Role
  <2>3. /\ <<"start", m>> \in QuietEdges
        /\ role[current] = "crash" <=> m = "crash"
        /\ role[current] = "none" => m = "c_ready"
    BY <2>2 DEF QuietEdges
  <2>4. SameLocals /\ role' = role /\ "start" \in ClientLabels \ {"end"}
    BY <2>1, <1>2, <1>labels DEF locals, SameLocals
  <2> HIDE DEF m
  <2> QED
    BY <2>1, <2>3, <2>4, <1>local, <1>quiet
<1>4. CASE crash_child
  <2>1. Step("crash", "end") /\ exit_inner(EXIT_FAULT) /\ UNCHANGED locals
    BY <1>4 DEF crash_child, fault_exit
  <2>2. SameLocals /\ role' = role
    BY <2>1 DEF locals, SameLocals
  <2>3. "crash" \in ClientLabels \ {"end"}
    BY <1>2, <1>labels
  <2> QED
    BY <2>1, <2>2, <2>3, <1>who DEF Goal, Ends
<1>end. ASSUME NEW l \in ClientLabels \ {"end"}, NEW c \in Nat, <<l, "end">> \in EndEdges,
               Exit(l, c)
        PROVE  Goal
  <2>1. Step(l, "end") /\ exit_inner(c) /\ UNCHANGED locals
    BY <1>end DEF Exit, exit
  <2>2. SameLocals /\ role' = role
    BY <2>1 DEF locals, SameLocals
  <2> QED
    BY <1>end, <2>1, <2>2, <1>who, <1>edge DEF Goal, Ends
<1>5. CASE g_give_up \/ g_ok
  <2>1. {"granted", "g_ok"} \subseteq ClientLabels \ {"end"} /\ 0 \in Nat /\ 1 \in Nat
        /\ <<"granted", "end">> \in EndEdges /\ <<"g_ok", "end">> \in EndEdges
    BY <1>2, <1>labels DEF EndEdges
  <2> QED
    BY <1>5, <1>end, <2>1 DEF g_give_up, g_ok
<1>6. CASE granted_child
  <2>1. SameLocals /\ role' = role
    BY <1>6 DEF granted_child, locals, butCnt, SameLocals
  <2>2. "granted" \in ClientLabels \ {"end"} /\ <<"granted", "g_ok">> \in QuietEdges
        /\ <<"granted", "granted">> \in QuietEdges
    BY <1>2, <1>labels DEF QuietEdges
  <2>3. CASE Local("granted", "g_ok")
    BY <2>1, <2>2, <2>3, <1>local, <1>quiet
  <2>4. CASE Step("granted", "granted") /\ sys_yield
    BY <2>1, <2>2, <2>4, <1>yield, <1>quiet
  <2> QED
    BY <1>6, <2>3, <2>4 DEF granted_child
<1>7. CASE c_ready
  <2>1. UNCHANGED locals
    BY <1>7 DEF c_ready
  <2>2. SameLocals /\ role' = role
    BY <2>1 DEF locals, SameLocals
  <2>3. "c_ready" \in ClientLabels \ {"end"} /\ <<"c_ready", "c_files">> \in QuietEdges
    BY <1>2, <1>labels DEF QuietEdges
  <2>4. CASE Announced \subseteq bits[current] /\ Local("c_ready", "c_files")
    <3>1. HasToken(current)
      BY <2>4 DEF HasToken, Announced
    <3> QED
      BY <2>2, <2>3, <2>4, <3>1, <1>local, <1>quiet
  <2>5. CASE Step("c_ready", "c_ready") /\ sys_wait(NOTIF_SLOT)
    BY <2>2, <2>3, <2>5, <1>wait, <1>who DEF Goal, Waits
  <2> QED
    BY <1>7, <2>4, <2>5 DEF c_ready
<1>past. /\ \A l \in Past : l \in ClientLabels \ {"end"} /\ l # "start" /\ l # "c_ready"
         /\ {"c_files", "c_env", "c_log", "c_doomed", "c_doomed_y", "c_kill", "c_kill_w",
             "c_crash", "c_crash_w", "c_frame", "c_mapped", "c_conn", "c_send", "c_round",
             "c_mask", "c_wait", "c_recv", "c_got", "c_close", "c_bye", "c_exit"} \subseteq Past
         /\ AskLabels \subseteq Past
  BY DEF ClientLabels, Waiting, Past, AskLabels, DemoLabels, DoomedLabels, NetLabels
<1>qlocal. ASSUME NEW l \in Past, NEW m, <<l, m>> \in QuietEdges, Local(l, m),
                  SameLocals, role' = role
           PROVE  Goal
  BY <1>qlocal, <1>past, <1>local, <1>quiet
<1>qyield. ASSUME NEW l \in Past, NEW m, <<l, m>> \in QuietEdges, Step(l, m), sys_yield,
                  UNCHANGED butCnt
           PROVE  Goal
  <2>1. SameLocals /\ role' = role
    BY <1>qyield DEF butCnt, SameLocals
  <2> QED
    BY <1>qyield, <2>1, <1>past, <1>yield, <1>quiet
<1>fails. ASSUME NEW l \in Past, NEW m, <<l, m>> \in QuietEdges, SpawnFails(l, m) PROVE Goal
  <2>1. Local(l, m) /\ SameLocals /\ role' = role
    BY <1>fails DEF SpawnFails, locals, SameLocals
  <2> QED
    BY <1>fails, <2>1, <1>qlocal
<1>spawns. ASSUME NEW l \in Past, NEW m, NEW slot, NEW r, Spawn(l, m, slot, r), Spawns
           PROVE  Goal
  <2>1. Step(l, m) /\ SameLocals
    BY <1>spawns DEF Spawn, SameLocals
  <2> QED
    BY <1>spawns, <2>1, <1>past, <1>who DEF Goal
<1>but. UNCHANGED butCnt => SameLocals /\ role' = role
  BY DEF butCnt, SameLocals
<1>all. UNCHANGED locals => SameLocals /\ role' = role /\ UNCHANGED butCnt
  BY DEF locals, butCnt, SameLocals
<1>8. CASE c_files
  <2>1. CASE Request("c_files", "c_files_r", "File", {})
    <3>1. /\ <<"c_files", "c_files_r">> \in AskEdges /\ "File" \in Ops /\ {} \in SUBSET Socks
          /\ Expected("c_files_r") = "any"
      BY DEF AskEdges, Ops, Expected
    <3> QED
      BY <2>1, <3>1, <1>past, <1>ask
  <2>2. CASE /\ Step("c_files_r", "c_files") /\ sys_recv(REPLY_EP_SLOT, MAX)
             /\ UNCHANGED butCnt
    <3>1. <<"c_files_r", "c_files">> \in ListenEdges /\ MAX \in SlotArg
          /\ "c_files_r" \in ClientLabels \ {"end"}
      BY Ground, <1>past DEF ListenEdges, AskLabels
    <3> QED
      BY <2>2, <3>1, <1>listen
  <2>3. CASE Local("c_files", "c_env") /\ UNCHANGED butCnt
    <3>1. <<"c_files", "c_env">> \in QuietEdges
      BY DEF QuietEdges
    <3> QED
      BY <2>3, <3>1, <1>but, <1>past, <1>qlocal
  <2> QED
    BY <1>8, <2>1, <2>2, <2>3 DEF c_files
<1>9. CASE c_env
  <2>1. <<"c_env", "c_frame">> \in QuietEdges
    BY DEF QuietEdges
  <2> QED
    BY <1>9, <2>1, <1>past, <1>fails, <1>spawns DEF c_env, Spawns
<1>10. CASE c_log \/ c_doomed_y
  <2>1. {<<"c_log", "c_log">>, <<"c_log", "c_doomed">>, <<"c_doomed_y", "c_doomed_y">>,
         <<"c_doomed_y", "c_kill">>} \subseteq QuietEdges
    BY DEF QuietEdges
  <2>2. ASSUME NEW l \in Past, NEW m, <<l, l>> \in QuietEdges, <<l, m>> \in QuietEdges,
               Yields(l, m)
        PROVE  Goal
    BY <2>2, <1>qyield DEF Yields
  <2> QED
    BY <1>10, <2>1, <2>2, <1>past DEF c_log, c_doomed_y
<1>11. CASE c_doomed
  <2>1. <<"c_doomed", "c_crash">> \in QuietEdges
    BY DEF QuietEdges
  <2> QED
    BY <1>11, <2>1, <1>past, <1>fails, <1>spawns DEF c_doomed, Spawns
<1>12. CASE c_kill
  <2>1. Step("c_kill", "c_kill_w") /\ kill(DOOMED_SLOT, SIGTERM) /\ UNCHANGED locals
    BY <1>12 DEF c_kill
  <2> QED
    BY <2>1, <1>all, <1>past, <1>who DEF Goal, Kills
<1>13. CASE c_kill_w \/ c_crash_w
  <2>1. ASSUME NEW l \in Past, NEW m, NEW slot, Reap(l, m, slot)
        PROVE  /\ Step(l, m) /\ IsHandle(caps[current][slot])
               /\ Enters(Loop("WaitPid", caps[current][slot].object, MAX))
               /\ current # 0 /\ InUser /\ SameLocals
    <3>1. Step(l, m) /\ sys_wait_pid(slot) /\ role' = role /\ SameLocals
      BY <2>1, <1>all DEF Reap
    <3>2. IsHandle(caps[current][slot]) /\ Enters(Loop("WaitPid", caps[current][slot].object, MAX))
      BY <3>1 DEF sys_wait_pid, holds, IsHandle, process_target, Enters, sched, ipc
    <3> QED
      BY <2>1, <3>1, <3>2, <1>past, <1>who
  <2>2. CASE c_kill_w
    BY <2>1, <2>2, <1>past DEF c_kill_w, Goal, Reaps
  <2>3. CASE c_crash_w
    BY <2>1, <2>3, <1>past, SlotNumbers DEF c_crash_w, Goal, Reaps
  <2> QED
    BY <1>13, <2>2, <2>3
<1>14. CASE c_crash
  <2>1. <<"c_crash", "c_frame">> \in QuietEdges
    BY DEF QuietEdges
  <2> QED
    BY <1>14, <2>1, <1>past, <1>fails, <1>spawns DEF c_crash, Spawns
<1>sock. pc[current] \in SockLabels => {cnt[current]} \in SUBSET Socks
  BY <1>0 DEF Base, Counters
<1>each. ASSUME NEW l \in Past, NEW l_r \in AskLabels, NEW op \in Ops, NEW m,
                l \in SockLabels, <<l, l_r>> \in AskEdges, Expected(l_r) = "any",
                <<l_r, l>> \in ListenEdges, <<l_r, m>> \in ListenEdges,
                EachSocket(l, l_r, op, m)
         PROVE  Goal
  <2>1. CASE Request(l, l_r, op, {cnt[current]})
    <3>1. pc[current] = l
      BY <2>1 DEF Request, Step, At
    <3> QED
      BY <1>each, <2>1, <3>1, <1>past, <1>ask, <1>sock
  <2>2. CASE /\ Step(l_r, IF LastSock THEN m ELSE l) /\ sys_recv(REPLY_EP_SLOT, MAX)
             /\ UNCHANGED butCnt
    <3>1. MAX \in SlotArg /\ l_r \in ClientLabels \ {"end"}
      BY Ground, <1>past
    <3> QED
      BY <1>each, <2>2, <3>1, <1>listen
  <2> QED
    BY <1>each, <2>1, <2>2 DEF EachSocket
<1>15. CASE c_conn
  <2>1. /\ "c_conn_r" \in AskLabels /\ "Connect" \in Ops /\ "c_conn" \in SockLabels
        /\ <<"c_conn", "c_conn_r">> \in AskEdges /\ Expected("c_conn_r") = "any"
        /\ <<"c_conn_r", "c_conn">> \in ListenEdges /\ <<"c_conn_r", "c_send">> \in ListenEdges
    BY DEF AskLabels, Ops, SockLabels, AskEdges, Expected, ListenEdges
  <2> QED
    BY <1>15, <2>1, <1>past, <1>each DEF c_conn
<1>16. CASE c_send
  <2>1. /\ "c_send_r" \in AskLabels /\ "Send" \in Ops /\ "c_send" \in SockLabels
        /\ <<"c_send", "c_send_r">> \in AskEdges /\ Expected("c_send_r") = "any"
        /\ <<"c_send_r", "c_send">> \in ListenEdges /\ <<"c_send_r", "c_round">> \in ListenEdges
    BY DEF AskLabels, Ops, SockLabels, AskEdges, Expected, ListenEdges
  <2> QED
    BY <1>16, <2>1, <1>past, <1>each DEF c_send
<1>17. CASE c_close
  <2>1. /\ "c_close_r" \in AskLabels /\ "Close" \in Ops /\ "c_close" \in SockLabels
        /\ <<"c_close", "c_close_r">> \in AskEdges /\ Expected("c_close_r") = "any"
        /\ <<"c_close_r", "c_close">> \in ListenEdges /\ <<"c_close_r", "c_bye">> \in ListenEdges
    BY DEF AskLabels, Ops, SockLabels, AskEdges, Expected, ListenEdges
  <2> QED
    BY <1>17, <2>1, <1>past, <1>each DEF c_close
<1>await. ASSUME NEW l_r \in AskLabels, NEW m, NEW dst \in SlotArg,
                 <<l_r, m>> \in ListenEdges, AwaitReply(l_r, m, dst)
          PROVE  Goal
  <2>1. Step(l_r, m) /\ sys_recv(REPLY_EP_SLOT, dst) /\ UNCHANGED butCnt
    BY <1>await, <1>all DEF AwaitReply
  <2> QED
    BY <1>await, <2>1, <1>past, <1>listen
<1>18. CASE c_frame
  <2>1. CASE Request("c_frame", "c_frame_r", "GetFrame", {cnt[current]})
    <3>1. /\ <<"c_frame", "c_frame_r">> \in AskEdges /\ "GetFrame" \in Ops
          /\ Expected("c_frame_r") = "GetFrame" /\ pc[current] = "c_frame"
          /\ "c_frame" \in SockLabels
      BY <2>1 DEF AskEdges, Ops, Expected, Request, Step, At, SockLabels
    <3> QED
      BY <2>1, <3>1, <1>past, <1>ask, <1>sock
  <2>2. CASE AwaitReply("c_frame_r", "c_mapped", SHM_FRAME_SLOT + cnt[current])
    <3>1. cnt[current] \in Nat
      BY <1>0 DEF Base, LocalTypes
    <3>2. SHM_FRAME_SLOT + cnt[current] \in SlotArg
      BY <3>1, Ground, SMTT(60) DEF SHM_FRAME_SLOT
    <3>3. "c_frame_r" \in AskLabels /\ <<"c_frame_r", "c_mapped">> \in ListenEdges
      BY DEF AskLabels, ListenEdges
    <3> QED
      BY <2>2, <3>2, <3>3, <1>await
  <2>3. CASE /\ \E m \in {"c_frame", "c_conn", "c_bye"} : Local("c_mapped", m)
             /\ UNCHANGED <<role, reg, bits, code, mask, remaining, pending>>
    <3>1. {<<"c_mapped", "c_frame">>, <<"c_mapped", "c_conn">>, <<"c_mapped", "c_bye">>}
             \subseteq QuietEdges
      BY DEF QuietEdges
    <3>2. SameLocals /\ role' = role
      BY <2>3 DEF SameLocals
    <3> QED
      BY <2>3, <3>1, <3>2, <1>past, <1>qlocal
  <2> QED
    BY <1>18, <2>1, <2>2, <2>3 DEF c_frame
<1>19. CASE c_round
  <2>0. {<<"c_round", "c_close">>, <<"c_mask", "c_close">>, <<"c_mask", "c_wait">>}
           \subseteq QuietEdges
    BY DEF QuietEdges
  <2>1. CASE Local("c_round", "c_close") /\ UNCHANGED butCnt
    BY <2>0, <2>1, <1>but, <1>past, <1>qlocal
  <2>2. CASE Request("c_round", "c_round_r", "GetReady", {})
    <3>1. /\ <<"c_round", "c_round_r">> \in AskEdges /\ "GetReady" \in Ops
          /\ {} \in SUBSET Socks /\ Expected("c_round_r") = "GetReady"
      BY DEF AskEdges, Ops, Expected
    <3> QED
      BY <2>2, <3>1, <1>past, <1>ask
  <2>3. CASE AwaitReply("c_round_r", "c_mask", MAX)
    <3>1. "c_round_r" \in AskLabels /\ <<"c_round_r", "c_mask">> \in ListenEdges
      BY DEF AskLabels, ListenEdges
    <3> QED
      BY <2>3, <3>1, <1>await, Ground
  <2>4. CASE /\ \E m \in {"c_close", "c_wait"} : Local("c_mask", m)
             /\ UNCHANGED <<role, reg, bits, code, frames_ok, remaining, pending>>
    <3>1. SameLocals /\ role' = role
      BY <2>4 DEF SameLocals
    <3> QED
      BY <2>0, <2>4, <3>1, <1>past, <1>qlocal
  <2> QED
    BY <1>19, <2>1, <2>2, <2>3, <2>4 DEF c_round
<1>20. CASE c_wait
  <2>1. Step("c_wait", "c_recv") /\ sys_wait(NOTIF_SLOT) /\ UNCHANGED locals
    BY <1>20 DEF c_wait
  <2> QED
    BY <2>1, <1>all, <1>past, <1>wait, <1>who DEF Goal, Waits
<1>21. CASE c_recv
  <2>0. {<<"c_recv", "c_round">>, <<"c_got", "c_recv">>} \subseteq QuietEdges
    BY DEF QuietEdges
  <2>1. CASE Local("c_recv", "c_round") /\ UNCHANGED locals
    BY <2>0, <2>1, <1>all, <1>past, <1>qlocal
  <2>2. CASE mask[current] # {} /\ Request("c_recv", "c_recv_r", "Recv", {Min(mask[current])})
    <3>1. /\ <<"c_recv", "c_recv_r">> \in AskEdges /\ "Recv" \in Ops
          /\ Expected("c_recv_r") = "Recv"
      BY DEF AskEdges, Ops, Expected
    <3>2. mask[current] \subseteq Socks
      BY <1>0 DEF Base, LocalTypes
    <3>3. {Min(mask[current])} \in SUBSET Socks
      BY <2>2, <3>2, MinIsLeast, BootAssumption
    <3> QED
      BY <2>2, <3>1, <3>3, <1>past, <1>ask
  <2>3. CASE AwaitReply("c_recv_r", "c_got", MAX)
    <3>1. "c_recv_r" \in AskLabels /\ <<"c_recv_r", "c_got">> \in ListenEdges
      BY DEF AskLabels, ListenEdges
    <3> QED
      BY <2>3, <3>1, <1>await, Ground
  <2>4. CASE /\ Local("c_got", "c_recv")
             /\ UNCHANGED <<role, reg, bits, code, cnt, frames_ok, pending>>
    <3>1. SameLocals /\ role' = role
      BY <2>4 DEF SameLocals
    <3> QED
      BY <2>0, <2>4, <3>1, <1>past, <1>qlocal
  <2> QED
    BY <1>21, <2>1, <2>2, <2>3, <2>4 DEF c_recv
<1>22. CASE c_bye
  <2>1. CASE Step("c_bye", "c_exit") /\ sys_send(EP_SLOT, Bye, MAX) /\ UNCHANGED locals
    BY <2>1, <1>all, <1>send, <1>past, <1>who DEF Goal, Leaves
  <2>2. CASE Exit("c_exit", 0)
    <3>1. <<"c_exit", "end">> \in EndEdges /\ 0 \in Nat
      BY DEF EndEdges
    <3> QED
      BY <2>2, <3>1, <1>past, <1>end
  <2> QED
    BY <1>22, <2>1, <2>2 DEF c_bye
<1> QED
  BY <1>3, <1>4, <1>5, <1>6, <1>7, <1>8, <1>9, <1>10, <1>11, <1>12, <1>13, <1>14,
     <1>15, <1>16, <1>17, <1>18, <1>19, <1>20, <1>21, <1>22 DEF Client
-----------------------------------------------------------------------------
(* The shapes of a step of the root task.                                  *)

RootEdges ==
    {<<"r_setup", "r_client">>, <<"r_setup", "r_exit">>, <<"r_client", "r_frame">>,
     <<"r_frame", "r_signal">>, <<"r_child", "r_signal">>, <<"r_serve", "r_exit">>,
     <<"r_shm", "r_shm">>, <<"r_shm", "r_recv">>}
RootQuiet ==
    /\ Moves(RootEdges)
    /\ UNCHANGED <<state, kont, exit_code, caps, current, next_pid, halted, queue,
                   word, role>>
    /\ SameLocals

(* FRAME_ALLOC put a Frame capability in a slot.                           *)
FrameEdges ==
    {<<"r_frame", "r_child">>, <<"r_shm", "r_shm">>, <<"r_shm", "r_recv">>}
RootFrames ==
    /\ Moves(FrameEdges)
    /\ \E slot \in Nat :
          /\ caps' = [caps EXCEPT ![current] = insert(@, slot, Cap("Frame", slot))]
          /\ pc[current] = "r_frame" =>
                slot = GRANT_SRC_SLOT /\ insert_ok(caps[current], slot)
    /\ UNCHANGED <<state, kont, exit_code, current, next_pid, halted, queue, word, role>>
    /\ SameLocals

RootSpawns ==
    /\ \/ Spawn("r_client", "r_frame", PROC_SLOT_BASE, "none")
       \/ Spawn("r_child", "r_grant", GRANT_PROC_SLOT, "granted")
    /\ SameLocals
RootGrants ==
    /\ Step("r_grant", "r_reap")
    /\ sys_cap_grant(GRANT_PROC_SLOT, GRANT_SRC_SLOT, GRANTED_FRAME_SLOT)
    /\ role' = role /\ SameLocals
RootReaps ==
    /\ Step("r_reap", "r_signal")
    /\ \E id \in Nat : Enters(Loop("WaitPid", id, MAX))
    /\ SameLocals

(* A bit of a socket is not the announcement.                              *)
RootSignals ==
    /\ \E b \in SUBSET Bits :
          /\ word' = [word EXCEPT ![0] = @ \cup b]
          /\ \/ Step("r_signal", "r_shm")
             \/ Step("r_serve", "r_serve") /\ READY_BIT \notin b
    /\ Woken
    /\ UNCHANGED <<kont, exit_code, caps, next_pid, queue, role, reg, bits, code>>
RootListens == Step("r_recv", "r_serve") /\ Enters(Loop("Recv", 0, MAX)) /\ SameLocals

(* The reply to the request that was asked.                                *)
RootReplies ==
    /\ Step("r_serve", "r_recv")
    /\ reg[current].kind = "Ask"
    /\ \E w \in Words, c \in CapEntry :
          /\ w.kind \in {"Reply", "Refusal"} /\ w.op = reg[current].op
          /\ FramesOnly(c)
          /\ queue' = [queue EXCEPT ![1] = Append(@, [word |-> w, cap |-> c])]
    /\ reg' = [reg EXCEPT ![current] = NoWord]
    /\ Woken
    /\ UNCHANGED <<kont, exit_code, caps, next_pid, word, role, bits, code>>
RootEnds == Step("r_exit", "end") /\ exit_inner(0) /\ role' = role /\ SameLocals

(* Every step of the root task has one of these shapes. *)
LEMMA RootShapes ==
  ASSUME Base, Root
  PROVE  /\ current = 0 /\ InUser
         /\ RootQuiet \/ RootFrames \/ RootSpawns \/ RootGrants \/ RootReaps \/ RootSignals
            \/ RootListens \/ RootReplies \/ RootEnds
<1> DEFINE Shape == RootQuiet \/ RootFrames \/ RootSpawns \/ RootGrants \/ RootReaps
                    \/ RootSignals \/ RootListens \/ RootReplies \/ RootEnds
           Goal == current = 0 /\ InUser /\ Shape
<1>0. current \in Pid /\ TypeOK /\ Inv
  BY Ground DEF Base, Inv
<1>who. ASSUME NEW l, NEW m, Step(l, m), l \in RootLabels \ {"end"}
        PROVE  current = 0 /\ InUser
  BY <1>who, WhoRuns DEF Step, At
<1>labels. Before \cup {"r_shm", "r_recv", "r_serve", "r_exit"} \subseteq RootLabels \ {"end"}
  BY DEF RootLabels, Before
<1>names. {"r_setup", "r_client", "r_frame", "r_child", "r_grant", "r_reap", "r_signal"} = Before
  BY DEF Before
<1>edge. ASSUME NEW edges, NEW l, NEW m, <<l, m>> \in edges, Step(l, m) PROVE Moves(edges)
  <2>1. <<l, m>>[1] = l /\ <<l, m>>[2] = m
    OBVIOUS
  <2> QED
    BY <1>edge, <2>1 DEF Moves
<1>local. ASSUME NEW l \in RootLabels \ {"end"}, NEW m, <<l, m>> \in RootEdges,
                 Local(l, m), UNCHANGED locals
          PROVE  Goal
  <2>1. Step(l, m) /\ SameLocals /\ role' = role
    BY <1>local DEF Local, locals, SameLocals
  <2>2. UNCHANGED <<state, kont, exit_code, caps, current, next_pid, halted, queue, word>>
    BY <1>local DEF Local, vars
  <2> QED
    BY <1>local, <1>who, <1>edge, <2>1, <2>2 DEF RootQuiet
<1>stay. ASSUME NEW l \in RootLabels \ {"end"}, NEW m, <<l, m>> \in RootEdges, Step(l, m),
                UNCHANGED <<sched, kont, exit_code, caps, next_pid, ipc>>,
                role' = role, SameLocals
         PROVE  Goal
  BY <1>stay, <1>who, <1>edge DEF RootQuiet, sched, ipc
<1>spawn. ASSUME NEW l \in RootLabels \ {"end"}, NEW m, NEW slot, NEW r,
                 Spawn(l, m, slot, r), SameLocals => RootSpawns
          PROVE  Goal
  <2>1. Step(l, m) /\ SameLocals
    BY <1>spawn DEF Spawn, SameLocals
  <2> QED
    BY <1>spawn, <1>who, <2>1
<1>reply. ASSUME NEW kind \in {"Reply", "Refusal"}, NEW op, op = reg[current].op, op \in Ops,
                 NEW socks \in SUBSET Socks, NEW cap,
                 cap = MAX \/ holds(caps[current], cap, "Frame"),
                 Reply(kind, op, socks, cap), reg[current].kind = "Ask"
          PROVE  Goal
  <2> DEFINE w == Msg(kind, op, socks)
             c == IF cap = MAX THEN NoCap ELSE caps[current][cap]
  <2>1. w \in Words /\ w.kind \in {"Reply", "Refusal"} /\ w.op = reg[current].op
    BY <1>reply, WordsAndBits DEF Msg
  <2>2. c \in CapEntry /\ FramesOnly(c)
    <3>1. CASE cap = MAX
      BY <3>1 DEF NoCap, Cap, CapEntry, FramesOnly
    <3>2. CASE cap # MAX
      BY <1>0, <1>reply, <3>2, Ground DEF holds, CNode, FramesOnly
    <3> QED
      BY <3>1, <3>2
  <2>3. sys_send(REPLY_EP_SLOT, w, cap) /\ Step("r_serve", "r_recv")
        /\ reg' = [reg EXCEPT ![current] = NoWord] /\ UNCHANGED <<role, bits, code>>
    BY <1>reply DEF Reply
  <2> HIDE DEF w
  <2>4. queue' = [queue EXCEPT ![1] = Append(@, [word |-> w, cap |-> c])] /\ Woken
        /\ UNCHANGED <<kont, exit_code, caps, next_pid, word>>
    BY <1>0, <2>3, SeedObjects, Ground DEF sys_send, wake, Woken
  <2> HIDE DEF c
  <2>5. RootReplies
    BY <1>reply, <2>1, <2>2, <2>3, <2>4 DEF RootReplies
  <2> QED
    BY <1>labels, <1>who, <2>3, <2>5
<1>signal. ASSUME NEW b \in SUBSET Bits, sys_signal(NOTIF_SLOT, b),
                  UNCHANGED <<role, reg, bits, code>>,
                  \/ Step("r_signal", "r_shm")
                  \/ Step("r_serve", "r_serve") /\ READY_BIT \notin b
           PROVE  Goal
  <2>1. word' = [word EXCEPT ![0] = @ \cup b] /\ Woken
        /\ UNCHANGED <<kont, exit_code, caps, next_pid, queue>>
    BY <1>0, <1>signal, SeedObjects, Ground DEF sys_signal, wake, Woken
  <2>2. RootSignals
    BY <1>signal, <2>1 DEF RootSignals
  <2> QED
    BY <1>labels, <1>names, <1>who, <1>signal, <2>2
<1> HIDE DEF Goal
<1>goal. SUFFICES Goal
  BY <1>goal DEF Goal
<1>all. UNCHANGED locals => SameLocals /\ role' = role /\ UNCHANGED <<role, reg, bits, code>>
  BY DEF locals, SameLocals
<1>ops. \A w \in Words : w.op \in Ops /\ w.socks \in SUBSET Socks
  BY BootAssumption DEF BootWords
<1>reg. reg[current].kind = "Ask" => reg[current].op \in Ops /\ reg[current].socks \in SUBSET Socks
  <2>1. reg[current] \in Words \cup {NoWord}
    BY <1>0 DEF Base, LocalTypes
  <2>2. NoWord.kind # "Ask"
    BY DEF NoWord, Msg
  <2> QED
    BY <2>1, <2>2, <1>ops
<1>1. ASSUME NEW ok \in BOOLEAN, r_setup(ok) PROVE Goal
  <2>1. {<<"r_setup", "r_client">>, <<"r_setup", "r_exit">>} \subseteq RootEdges
    BY DEF RootEdges
  <2> QED
    BY <1>1, <1>local, <1>labels, <1>names, <2>1 DEF r_setup
<1>2. ASSUME NEW ok \in BOOLEAN, r_frame(ok) PROVE Goal
  <2>1. FrameAlloc("r_frame", IF ok THEN "r_child" ELSE "r_signal", GRANT_SRC_SLOT, ok)
    BY <1>2 DEF r_frame
  <2>2. SameLocals /\ role' = role
    BY <2>1 DEF FrameAlloc, locals, SameLocals
  <2>3. CASE ok
    <3>1. Step("r_frame", "r_child") /\ insert_ok(caps[current], GRANT_SRC_SLOT)
          /\ caps' = [caps EXCEPT ![current] =
                         insert(@, GRANT_SRC_SLOT, Cap("Frame", GRANT_SRC_SLOT))]
          /\ UNCHANGED <<state, kont, exit_code, current, next_pid, halted, queue, word>>
      BY <2>1, <2>3 DEF FrameAlloc, sched, ipc
    <3>2. <<"r_frame", "r_child">> \in FrameEdges /\ GRANT_SRC_SLOT \in Nat
      BY DEF FrameEdges, GRANT_SRC_SLOT, PROC_SLOT_BASE
    <3>3. RootFrames
      BY <2>2, <3>1, <3>2, <1>edge DEF RootFrames
    <3> QED
      BY <3>1, <3>3, <1>who, <1>labels, <1>names DEF Goal
  <2>4. CASE ~ok
    <3>1. Step("r_frame", "r_signal")
          /\ UNCHANGED <<sched, kont, exit_code, caps, next_pid, ipc>>
      BY <2>1, <2>4 DEF FrameAlloc
    <3>2. <<"r_frame", "r_signal">> \in RootEdges
      BY DEF RootEdges
    <3> QED
      BY <2>2, <3>1, <3>2, <1>stay, <1>labels, <1>names
  <2> QED
    BY <2>3, <2>4
<1>3. ASSUME NEW ok \in BOOLEAN, r_shm(ok) PROVE Goal
  <2>1. SameLocals /\ role' = role
    BY <1>3 DEF r_shm, butCnt, SameLocals
  <2> DEFINE slot == SHM_FRAME_SLOT + cnt[current]
             m == IF LastSock THEN "r_recv" ELSE "r_shm"
  <2>2. Step("r_shm", m) /\ UNCHANGED <<sched, kont, exit_code, next_pid, ipc>>
    BY <1>3 DEF r_shm
  <2>3. cnt[current] \in Nat
    BY <1>0 DEF Base, LocalTypes
  <2>4. slot \in Nat
    BY <2>3 DEF SHM_FRAME_SLOT
  <2>5. <<"r_shm", m>> \in RootEdges /\ <<"r_shm", m>> \in FrameEdges
    BY DEF RootEdges, FrameEdges
  <2>6. pc[current] # "r_frame"
    BY <2>2 DEF Step, At
  <2>7. "r_shm" \in RootLabels \ {"end"}
    BY <1>labels
  <2> HIDE DEF m
  <2>8. CASE ok
    <3>1. caps' = [caps EXCEPT ![current] = insert(@, slot, Cap("Frame", slot))]
      BY <1>3, <2>8 DEF r_shm
    <3> HIDE DEF slot
    <3>2. RootFrames
      BY <2>1, <2>2, <2>4, <2>5, <2>6, <3>1, <1>edge DEF RootFrames, sched, ipc
    <3> QED
      BY <2>2, <2>7, <3>2, <1>who DEF Goal
  <2>9. CASE ~ok
    <3>1. caps' = caps
      BY <1>3, <2>9 DEF r_shm
    <3> QED
      BY <2>1, <2>2, <2>5, <2>7, <3>1, <1>stay
  <2> QED
    BY <2>8, <2>9
<1>4. CASE r_client
  <2>1. <<"r_client", "r_frame">> \in RootEdges /\ "r_client" \in RootLabels \ {"end"}
    BY <1>labels, <1>names DEF RootEdges
  <2>2. CASE Spawn("r_client", "r_frame", PROC_SLOT_BASE, "none")
    BY <2>1, <2>2, <1>spawn DEF RootSpawns
  <2>3. CASE SpawnFails("r_client", "r_frame")
    BY <2>1, <2>3, <1>local DEF SpawnFails
  <2> QED
    BY <1>4, <2>2, <2>3 DEF r_client
<1>5. CASE r_child
  <2>1. <<"r_child", "r_signal">> \in RootEdges /\ "r_child" \in RootLabels \ {"end"}
    BY <1>labels, <1>names DEF RootEdges
  <2>2. CASE Spawn("r_child", "r_grant", GRANT_PROC_SLOT, "granted")
    BY <2>1, <2>2, <1>spawn DEF RootSpawns
  <2>3. CASE SpawnFails("r_child", "r_signal")
    BY <2>1, <2>3, <1>local DEF SpawnFails
  <2> QED
    BY <1>5, <2>2, <2>3 DEF r_child
<1>6. CASE r_grant
  <2>1. RootGrants
    BY <1>6, <1>all DEF r_grant, RootGrants
  <2> QED
    BY <2>1, <1>who, <1>labels, <1>names DEF RootGrants, Goal
<1>7. CASE r_reap
  <2>1. Step("r_reap", "r_signal") /\ sys_wait_pid(GRANT_PROC_SLOT) /\ SameLocals /\ role' = role
    BY <1>7, <1>all DEF r_reap, Reap
  <2>2. process_target(GRANT_PROC_SLOT) \in Nat
    BY <1>0, Ground, SlotNumbers DEF process_target, CNode, CapEntry
  <2>3. Enters(Loop("WaitPid", process_target(GRANT_PROC_SLOT), MAX))
    BY <2>1 DEF sys_wait_pid, Enters, sched, ipc
  <2>4. RootReaps
    BY <2>1, <2>2, <2>3 DEF RootReaps
  <2> QED
    BY <2>1, <2>4, <1>who, <1>labels, <1>names DEF Goal
<1>8. CASE r_signal
  BY <1>8, <1>signal, <1>all, WordsAndBits DEF r_signal
<1>9. CASE r_recv
  <2>1. Step("r_recv", "r_serve") /\ sys_recv(EP_SLOT, MAX) /\ SameLocals /\ role' = role
    BY <1>9, <1>all DEF r_recv
  <2>2. Enters(Loop("Recv", 0, MAX))
    BY <1>0, <2>1, SeedObjects DEF sys_recv, Enters, sched, ipc
  <2> QED
    BY <2>1, <2>2, <1>who, <1>labels DEF Goal, RootListens
<1>10. CASE r_get_ready
  <2>1. reg[current].kind = "Ask" /\ reg[current].op = "GetReady"
        /\ Reply("Reply", "GetReady", pending, MAX)
    BY <1>10 DEF r_get_ready, Asked
  <2>2. pending \in SUBSET Socks
    BY DEF Base, LocalTypes
  <2> QED
    BY <2>1, <2>2, <1>reg, <1>reply
<1>11. CASE r_get_frame
  <2>1. PICK s \in reg[current].socks :
           /\ Asked("GetFrame")
           /\ IF holds(caps[current], SHM_FRAME_SLOT + s, "Frame")
                THEN Reply("Reply", "GetFrame", {s}, SHM_FRAME_SLOT + s)
                ELSE Reply("Refusal", "GetFrame", {s}, MAX)
    BY <1>11 DEF r_get_frame
  <2>2. reg[current].kind = "Ask" /\ reg[current].op = "GetFrame" /\ {s} \in SUBSET Socks
        /\ "GetFrame" \in Ops
    BY <2>1, <1>reg DEF Asked
  <2>3. CASE /\ holds(caps[current], SHM_FRAME_SLOT + s, "Frame")
             /\ Reply("Reply", "GetFrame", {s}, SHM_FRAME_SLOT + s)
    BY <2>2, <2>3, <1>reply
  <2>4. CASE Reply("Refusal", "GetFrame", {s}, MAX)
    BY <2>2, <2>4, <1>reply
  <2> QED
    BY <2>1, <2>3, <2>4
<1>12. CASE r_net_recv
  <2>1. reg[current].kind = "Ask" /\ reg[current].op = "Recv"
        /\ Reply("Reply", "Recv", reg[current].socks, MAX)
    BY <1>12 DEF r_net_recv, Asked
  <2> QED
    BY <2>1, <1>reg, <1>reply
<1>13. ASSUME NEW op \in {"File", "Connect", "Send", "Close"}, r_other(op) PROVE Goal
  <2>1. reg[current].kind = "Ask" /\ reg[current].op = op
        /\ Reply("Reply", op, reg[current].socks, MAX)
    BY <1>13 DEF r_other, Asked
  <2> QED
    BY <2>1, <1>reg, <1>reply
<1>14. ASSUME NEW s \in Socks, r_buffer(s) PROVE Goal
  <2>1. READY_BIT \notin {sock_bit(s)} /\ {sock_bit(s)} \in SUBSET Bits
    BY WordsAndBits
  <2> QED
    BY <1>14, <1>signal, <2>1 DEF r_buffer
<1>15. CASE r_bye
  <2>1. <<"r_serve", "r_exit">> \in RootEdges
    BY DEF RootEdges
  <2> QED
    BY <1>15, <1>local, <1>labels, <2>1 DEF r_bye
<1>16. CASE r_exit
  <2>1. Step("r_exit", "end") /\ exit_inner(0) /\ SameLocals /\ role' = role
    BY <1>16, <1>all DEF r_exit, Exit, exit
  <2> QED
    BY <2>1, <1>who, <1>labels DEF Goal, RootEnds
<1> QED
  BY <1>1, <1>2, <1>3, <1>4, <1>5, <1>6, <1>7, <1>8, <1>9, <1>10, <1>11, <1>12,
     <1>13, <1>14, <1>15, <1>16 DEF Root
-----------------------------------------------------------------------------
(* One announcement, one client.                                           *)

(* A step moves the running program and no other. *)
LEMMA StepMoves ==
  ASSUME Base, NEW l, NEW m, Step(l, m)
  PROVE  /\ pc[current] = l /\ pc'[current] = m
         /\ \A q \in Pid : q # current => pc'[q] = pc[q]
         /\ ~halted /\ kont[current] = UserMode /\ kont[current].op = "User"
         /\ m \in RootLabels \cup ClientLabels => pc' \in [Pid -> RootLabels \cup ClientLabels]
  BY Ground DEF Step, At, InUser, Base, LocalTypes, UserMode, Loop

(* Which labels of a client's step are past the wait. *)
LEMMA ClientEdges ==
  ASSUME Base, Client
  PROVE  \E l \in ClientLabels \ {"end"}, m \in ClientLabels \ {"start"} :
            /\ Step(l, m)
            /\ m \in Past => l \in Past \/ HasToken(current)
<1> DEFINE Goal(l, m) == /\ l \in ClientLabels \ {"end"} /\ m \in ClientLabels \ {"start"}
                         /\ m \in Past => l \in Past \/ l = "c_ready"
<1> USE DEF ClientLabels, Waiting, Past, AskLabels, DemoLabels, DoomedLabels, NetLabels
<1>1. /\ \A e \in QuietEdges : Goal(e[1], e[2])
      /\ \A e \in AskEdges : Goal(e[1], e[2])
      /\ \A e \in ListenEdges : Goal(e[1], e[2])
      /\ \A e \in EndEdges : Goal(e[1], e[2])
  <2>1. \A e \in QuietEdges : Goal(e[1], e[2])
    BY DEF QuietEdges
  <2>2. \A e \in AskEdges : Goal(e[1], e[2])
    BY DEF AskEdges
  <2>3. \A e \in ListenEdges : Goal(e[1], e[2])
    BY DEF ListenEdges
  <2>4. \A e \in EndEdges : Goal(e[1], e[2])
    BY DEF EndEdges
  <2> QED
    BY <2>1, <2>2, <2>3, <2>4
<1>2. /\ Goal("c_bye", "c_exit") /\ Goal("c_ready", "c_ready") /\ Goal("c_wait", "c_recv")
      /\ Goal("c_kill_w", "c_crash") /\ Goal("c_crash_w", "c_frame")
      /\ Goal("c_env", "c_log") /\ Goal("c_doomed", "c_doomed_y")
      /\ Goal("c_crash", "c_crash_w") /\ Goal("c_kill", "c_kill_w") /\ Goal("crash", "end")
  OBVIOUS
<1> HIDE DEF Goal, ClientLabels, Waiting, Past, AskLabels, DemoLabels, DoomedLabels, NetLabels
<1>3. PICK l, m : Step(l, m) /\ Goal(l, m)
  <2>1. CASE Quiet
    BY <1>1, <2>1 DEF Quiet, Moves
  <2>2. CASE Asks
    BY <1>1, <2>2 DEF Asks, Moves
  <2>3. CASE Listens
    BY <1>1, <2>3 DEF Listens, Moves
  <2>4. CASE Ends
    BY <1>1, <1>2, <2>4 DEF Ends, Moves
  <2>5. CASE Leaves \/ Waits \/ Kills \/ Spawns
    BY <1>2, <2>5 DEF Leaves, Waits, Kills, Spawns, Spawn
  <2>6. CASE Reaps
    BY <1>2, <2>6, SlotNumbers DEF Reaps
  <2> QED
    BY <2>1, <2>2, <2>3, <2>4, <2>5, <2>6, ClientShapes
<1>4. l = "c_ready" /\ m \in Past => HasToken(current)
  <2> SUFFICES ASSUME l = "c_ready", m \in Past PROVE HasToken(current)
    OBVIOUS
  <2>1. pc[current] = "c_ready" /\ pc'[current] = m /\ m # "c_ready" /\ m # "end"
    BY <1>3, StepMoves DEF Past, AskLabels, DemoLabels, DoomedLabels, NetLabels
  <2>2. Quiet
    <3>1. /\ \A e \in AskEdges : e[1] # "c_ready"
          /\ \A e \in ListenEdges : e[1] # "c_ready"
          /\ \A e \in EndEdges : e[1] # "c_ready"
      BY DEF AskEdges, ListenEdges, EndEdges
    <3>2. \A a, b : Step(a, b) => a = "c_ready" /\ b = m
      BY <2>1, StepMoves
    <3> QED
      BY <2>1, <3>1, <3>2, ClientShapes DEF Asks, Listens, Ends, Leaves, Waits, Kills,
         Spawns, Spawn, Reaps, Moves
  <2> QED
    BY <2>1, <2>2 DEF Quiet
<1> QED
  BY <1>3, <1>4 DEF Goal

(* A step that leaves the bits alone keeps the token where it is. *)
LEMMA TokenMove ==
  ASSUME Base, Token, NEW l, NEW m, Step(l, m), bits' = bits, word'[0] = word[0],
         current # 0 /\ m \in Past => HasToken(current),
         current = 0 /\ m \in Before => l \in Before
  PROVE  Token'
<1>1. /\ pc[current] = l /\ pc'[current] = m /\ current \in Pid /\ 0 \in Pid
      /\ \A q \in Pid : q # current => pc'[q] = pc[q]
  BY StepMoves, Ground
<1> QED
  BY <1>1 DEF Token, HasToken

(* The client's steps keep it. *)
LEMMA ClientToken == ASSUME Base, Token, Client PROVE Token'
<1>1. PICK l \in ClientLabels \ {"end"}, m \in ClientLabels \ {"start"} :
         /\ Step(l, m)
         /\ m \in Past => l \in Past \/ HasToken(current)
  BY ClientEdges
<1>2. current # 0 /\ bits' = bits /\ pc[current] = l /\ current \in Pid
  BY <1>1, ClientShapes, StepMoves, Ground DEF SameLocals
<1>3. word' = word
  BY ClientShapes DEF Quiet, Asks, SendsWord, Leaves, Listens, Enters, Waits, Reaps, Spawns,
     Spawn, spawn, Kills, kill, Ends, exit_inner, ipc
<1>4. l \in Past => HasToken(current)
  BY <1>2 DEF Token
<1> QED
  BY <1>1, <1>2, <1>3, <1>4, TokenMove

(* Which labels of a step of the root task are before the announcement. *)
LEMMA RootEdge ==
  ASSUME Base, Root
  PROVE  \E l \in RootLabels \ {"end"}, m \in RootLabels :
            Step(l, m) /\ (m \in Before => l \in Before /\ l # "r_signal")
<1> DEFINE Goal(l, m) == /\ l \in RootLabels \ {"end"} /\ m \in RootLabels
                         /\ m \in Before => l \in Before /\ l # "r_signal"
<1> USE DEF RootLabels, Before
<1>1. \A e \in RootEdges : Goal(e[1], e[2])
  BY DEF RootEdges
<1>2. \A e \in FrameEdges : Goal(e[1], e[2])
  BY DEF FrameEdges
<1>3. /\ Goal("r_client", "r_frame") /\ Goal("r_child", "r_grant") /\ Goal("r_grant", "r_reap")
      /\ Goal("r_reap", "r_signal") /\ Goal("r_signal", "r_shm") /\ Goal("r_serve", "r_serve")
      /\ Goal("r_recv", "r_serve") /\ Goal("r_serve", "r_recv") /\ Goal("r_exit", "end")
  OBVIOUS
<1> HIDE DEF Goal, RootLabels, Before
<1>4. PICK l, m : Step(l, m) /\ Goal(l, m)
  <2>1. CASE RootQuiet
    BY <1>1, <2>1 DEF RootQuiet, Moves
  <2>2. CASE RootFrames
    BY <1>2, <2>2 DEF RootFrames, Moves
  <2>3. CASE RootSpawns \/ RootGrants \/ RootReaps \/ RootSignals
    BY <1>3, <2>3 DEF RootSpawns, Spawn, RootGrants, RootReaps, RootSignals
  <2>4. CASE RootListens \/ RootReplies \/ RootEnds
    BY <1>3, <2>4 DEF RootListens, RootReplies, RootEnds
  <2> QED
    BY <2>1, <2>2, <2>3, <2>4, RootShapes
<1> QED
  BY <1>4 DEF Goal

(* The root task raises the announcement once; socket bits are others. *)
LEMMA RootToken == ASSUME Base, Token, Root PROVE Token'
<1>1. PICK l \in RootLabels \ {"end"}, m \in RootLabels :
         Step(l, m) /\ (m \in Before => l \in Before /\ l # "r_signal")
  BY RootEdge
<1>2. current = 0 /\ pc[0] = l /\ pc'[0] = m /\ 0 \in NotificationId
      /\ \A q \in Pid \ {0} : pc'[q] = pc[q]
  BY <1>1, RootShapes, StepMoves, Ground
<1>3. CASE RootSignals
  <2>1. PICK b \in SUBSET Bits :
           /\ word' = [word EXCEPT ![0] = @ \cup b]
           /\ \/ Step("r_signal", "r_shm")
              \/ Step("r_serve", "r_serve") /\ READY_BIT \notin b
    BY <1>3 DEF RootSignals
  <2>2. bits' = bits /\ word'[0] = word[0] \cup b
    BY <1>2, <1>3, <2>1, Ground DEF RootSignals
  <2>3. CASE Step("r_signal", "r_shm")
    <3>1. pc[0] = "r_signal" /\ pc'[0] = "r_shm" /\ pc[0] \in Before /\ pc'[0] \notin Before
      BY <1>2, <2>3, StepMoves DEF Before
    <3> QED
      BY <1>2, <2>2, <3>1 DEF Token, HasToken
  <2>4. CASE Step("r_serve", "r_serve") /\ READY_BIT \notin b
    <3>1. pc'[0] = "r_serve" /\ pc'[0] \notin Before
      BY <1>2, <2>4, StepMoves DEF Before
    <3> QED
      BY <1>2, <2>2, <2>4, <3>1 DEF Token, HasToken
  <2> QED
    BY <2>1, <2>3, <2>4
<1>4. CASE ~RootSignals
  <2>1. bits' = bits /\ word' = word
    BY <1>4, RootShapes DEF RootQuiet, RootFrames, RootSpawns, Spawn, spawn, RootGrants,
       sys_cap_grant, RootReaps, Enters, RootListens, RootReplies, RootEnds, exit_inner,
       SameLocals, ipc
  <2> QED
    BY <1>1, <1>2, <2>1, TokenMove
<1> QED
  BY <1>3, <1>4

(* A WAIT takes the whole word, hence the announcement with it. *)
LEMMA KernelToken == ASSUME Base, Token, InKernel \/ k_preempt PROVE Token'
<1>0. current \in Pid /\ 0 \in NotificationId
  BY Ground
<1>1. CASE k_wait
  <2>1. kont[current].op = "Wait" /\ kont[current].id = 0
    BY <1>0, <1>1 DEF k_wait, poll_take, InLoop, Base, Loops
  <2>2. word'[0] = {} /\ bits' = [bits EXCEPT ![current] = @ \cup word[0]] /\ pc' = pc
    BY <1>0, <1>1, <2>1, Ground DEF k_wait, poll_take
  <2>3. \A q \in Pid : bits'[q] = IF q = current THEN bits[q] \cup word[0] ELSE bits[q]
    BY <1>0, <2>2 DEF Base, LocalTypes
  <2> QED
    BY <1>0, <2>2, <2>3 DEF Token, HasToken
<1>2. CASE ~k_wait
  <2>1. bits' = bits /\ word' = word /\ pc' = pc
    BY <1>2 DEF InKernel, k_recv, try_recv, k_wait_pid, wait_pid, k_block, recv_block,
       wait_block, k_preempt, timer_preempt, locals, ipc
  <2> QED
    BY <2>1 DEF Token, HasToken
<1> QED
  BY <1>1, <1>2

(* The token, after every step. *)
LEMMA StepToken == ASSUME Base, Token, BootNext PROVE Token'
  BY ClientToken, RootToken, KernelToken DEF BootNext
-----------------------------------------------------------------------------
(* The programs' own variables.                                            *)

(* A socket loop counts sockets. *)
LEMMA NextSock ==
  ASSUME Base
  PROVE  LET n == IF LastSock THEN 0 ELSE cnt[current] + 1
         IN  n \in Nat /\ n \in Socks /\ (LastSock => n = 0)
  BY Ground, BootAssumption DEF LastSock, Base, LocalTypes

(* The client's counter. *)
LEMMA ClientCounts == ASSUME Base, Client PROVE cnt' \in [Pid -> Nat] /\ Counters'
<1> DEFINE Goal == cnt' \in [Pid -> Nat] /\ Counters'
           Even(l, m) == /\ m \in SockLabels => l \in SockLabels \cup ZeroLabels
                         /\ m \in ZeroLabels => l \in ZeroLabels
<1>0. current \in Pid /\ cnt \in [Pid -> Nat] /\ 0 \in Socks /\ 0 \in Nat /\ cnt[current] \in Nat
  BY Ground, BootAssumption DEF Base, LocalTypes
<1>same. ASSUME NEW l, NEW m, Step(l, m), cnt' = cnt, Even(l, m) PROVE Goal
  <2>1. pc[current] = l /\ pc'[current] = m /\ \A q \in Pid : q # current => pc'[q] = pc[q]
    BY <1>same, StepMoves
  <2> QED
    BY <1>0, <1>same, <2>1 DEF Base, Counters
<1>count. ASSUME NEW l, NEW m, NEW n \in Nat, Step(l, m), Count(n),
                 m \in SockLabels => n \in Socks, m \in ZeroLabels => n = 0
          PROVE  Goal
  <2>1. pc'[current] = m /\ \A q \in Pid : q # current => pc'[q] = pc[q]
    BY <1>count, StepMoves
  <2>2. cnt' \in [Pid -> Nat] /\ cnt'[current] = n /\ \A q \in Pid : q # current => cnt'[q] = cnt[q]
    BY <1>0, <1>count DEF Count
  <2> QED
    BY <1>0, <1>count, <2>1, <2>2 DEF Base, Counters
<1> HIDE DEF Goal
<1>goal. SUFFICES Goal
  BY <1>goal DEF Goal
<1>all. UNCHANGED locals => cnt' = cnt
  BY DEF locals
<1>plain. ASSUME NEW l, NEW m, Even(l, m), Step(l, m), UNCHANGED locals PROVE Goal
  BY <1>plain, <1>all, <1>same
<1>even. /\ Even("start", "crash") /\ Even("start", "granted") /\ Even("start", "c_ready")
         /\ Even("crash", "end") /\ Even("granted", "end") /\ Even("g_ok", "end")
         /\ Even("granted", "g_ok") /\ Even("c_ready", "c_files") /\ Even("c_ready", "c_ready")
         /\ Even("c_files", "c_files_r") /\ Even("c_frame", "c_frame_r")
         /\ Even("c_conn", "c_conn_r") /\ Even("c_send", "c_send_r")
         /\ Even("c_close", "c_close_r") /\ Even("c_round", "c_round_r")
         /\ Even("c_recv", "c_recv_r") /\ Even("c_frame_r", "c_mapped")
         /\ Even("c_round_r", "c_mask") /\ Even("c_recv_r", "c_got")
         /\ Even("c_env", "c_log") /\ Even("c_env", "c_frame")
         /\ Even("c_doomed", "c_doomed_y") /\ Even("c_doomed", "c_crash")
         /\ Even("c_kill", "c_kill_w") /\ Even("c_kill_w", "c_crash")
         /\ Even("c_crash", "c_crash_w") /\ Even("c_crash", "c_frame")
         /\ Even("c_crash_w", "c_frame") /\ Even("c_wait", "c_recv")
         /\ Even("c_recv", "c_round") /\ Even("c_got", "c_recv")
         /\ Even("c_bye", "c_exit") /\ Even("c_exit", "end")
  BY DEF SockLabels, ZeroLabels
<1> HIDE DEF Even
<1>1. CASE c_start
  <2>1. PICK m \in {"crash", "granted", "c_ready"} : Step("start", m) /\ UNCHANGED locals
    BY <1>1 DEF c_start, Local
  <2> QED
    BY <2>1, <1>plain, <1>even
<1>2. CASE crash_child \/ g_give_up \/ g_ok
  BY <1>2, <1>plain, <1>even DEF crash_child, g_give_up, g_ok, Exit
<1>3. CASE granted_child
  <2>1. CASE Local("granted", "g_ok") /\ UNCHANGED locals
    BY <2>1, <1>plain, <1>even DEF Local
  <2>2. CASE Step("granted", "granted") /\ Count(cnt[current] + 1)
    <3>1. "granted" \notin SockLabels /\ "granted" \notin ZeroLabels /\ cnt[current] + 1 \in Nat
      BY <1>0 DEF SockLabels, ZeroLabels
    <3> QED
      BY <2>2, <3>1, <1>count
  <2> QED
    BY <1>3, <2>1, <2>2 DEF granted_child
<1>4. CASE c_ready
  BY <1>4, <1>plain, <1>even DEF c_ready, Local
<1>ask. ASSUME NEW l, NEW m, NEW op, NEW socks, Request(l, m, op, socks), Even(l, m) PROVE Goal
  BY <1>ask, <1>plain DEF Request
<1>await. ASSUME NEW l, NEW m, NEW dst, AwaitReply(l, m, dst), Even(l, m) PROVE Goal
  BY <1>await, <1>plain DEF AwaitReply
<1>5. CASE c_files
  <2>1. /\ "c_files" \notin SockLabels \cup ZeroLabels /\ "c_env" \notin SockLabels
        /\ cnt[current] + 1 \in Nat
    BY <1>0 DEF SockLabels, ZeroLabels
  <2>2. CASE Request("c_files", "c_files_r", "File", {})
    BY <2>2, <1>ask, <1>even
  <2>3. CASE Step("c_files_r", "c_files") /\ Count(cnt[current] + 1)
    BY <2>1, <2>3, <1>count
  <2>4. CASE Local("c_files", "c_env") /\ Count(0)
    BY <1>0, <2>1, <2>4, <1>count DEF Local
  <2> QED
    BY <1>5, <2>2, <2>3, <2>4 DEF c_files
<1>spawn. ASSUME NEW l, NEW m, NEW slot, NEW r, Spawn(l, m, slot, r), Even(l, m) PROVE Goal
  BY <1>spawn, <1>same DEF Spawn
<1>fails. ASSUME NEW l, NEW m, SpawnFails(l, m), Even(l, m) PROVE Goal
  BY <1>fails, <1>plain DEF SpawnFails, Local
<1>6. CASE c_env \/ c_doomed \/ c_crash
  BY <1>6, <1>spawn, <1>fails, <1>even DEF c_env, c_doomed, c_crash
<1>7. CASE c_log \/ c_doomed_y
  <2>1. ASSUME NEW l, NEW m, l \notin SockLabels \cup ZeroLabels, m \notin SockLabels, Yields(l, m)
        PROVE  Goal
    <3>1. CASE cnt[current] + 1 < YIELDS
      <4>1. Step(l, l) /\ Count(cnt[current] + 1) /\ cnt[current] + 1 \in Nat
        BY <1>0, <2>1, <3>1 DEF Yields
      <4> QED
        BY <2>1, <4>1, <1>count
    <3>2. CASE ~(cnt[current] + 1 < YIELDS)
      <4>1. Step(l, m) /\ Count(0)
        BY <2>1, <3>2 DEF Yields
      <4> QED
        BY <1>0, <2>1, <4>1, <1>count
    <3> QED
      BY <3>1, <3>2
  <2>2. /\ "c_log" \notin SockLabels \cup ZeroLabels /\ "c_doomed_y" \notin SockLabels \cup ZeroLabels
        /\ "c_doomed" \notin SockLabels /\ "c_kill" \notin SockLabels
    BY DEF SockLabels, ZeroLabels
  <2> QED
    BY <1>7, <2>1, <2>2 DEF c_log, c_doomed_y
<1>8. CASE c_kill \/ c_kill_w \/ c_crash_w \/ c_wait
  BY <1>8, <1>plain, <1>even DEF c_kill, c_kill_w, c_crash_w, Reap, c_wait
<1>socks. ASSUME NEW l, NEW m, Step(l, m), CountSocks,
                 m \in ZeroLabels => LastSock
          PROVE  Goal
  <2> DEFINE n == IF LastSock THEN 0 ELSE cnt[current] + 1
  <2>1. n \in Nat /\ n \in Socks /\ (LastSock => n = 0)
    BY NextSock
  <2>2. Count(n)
    BY <1>socks DEF CountSocks
  <2> HIDE DEF n
  <2> QED
    BY <1>socks, <2>1, <2>2, <1>count
<1>each. ASSUME NEW l, NEW l_r, NEW op, NEW m, EachSocket(l, l_r, op, m), Even(l, l_r),
                l \notin ZeroLabels, m \notin ZeroLabels
         PROVE  Goal
  <2>1. CASE Request(l, l_r, op, {cnt[current]})
    BY <1>each, <2>1, <1>ask
  <2>2. CASE Step(l_r, IF LastSock THEN m ELSE l) /\ CountSocks
    BY <1>each, <2>2, <1>socks
  <2> QED
    BY <1>each, <2>1, <2>2 DEF EachSocket
<1>9. CASE c_conn \/ c_send \/ c_close
  <2>1. {"c_conn", "c_send", "c_round", "c_close", "c_bye"} \cap ZeroLabels = {}
    BY DEF ZeroLabels
  <2>2. CASE c_conn
    BY <2>1, <2>2, <1>each, <1>even DEF c_conn
  <2>3. CASE c_send
    BY <2>1, <2>3, <1>each, <1>even DEF c_send
  <2>4. CASE c_close
    BY <2>1, <2>4, <1>each, <1>even DEF c_close
  <2> QED
    BY <1>9, <2>2, <2>3, <2>4
<1>10. CASE c_frame
  <2>1. CASE Request("c_frame", "c_frame_r", "GetFrame", {cnt[current]})
    BY <2>1, <1>ask, <1>even
  <2>2. CASE AwaitReply("c_frame_r", "c_mapped", SHM_FRAME_SLOT + cnt[current])
    BY <2>2, <1>await, <1>even
  <2>3. CASE (\E m \in {"c_frame", "c_conn", "c_bye"} : Local("c_mapped", m)) /\ CountSocks
    <3>1. {"c_frame", "c_conn", "c_bye"} \cap ZeroLabels = {}
      BY DEF ZeroLabels
    <3> QED
      BY <2>3, <3>1, <1>socks DEF Local
  <2> QED
    BY <1>10, <2>1, <2>2, <2>3 DEF c_frame
<1>11. CASE c_round
  <2>1. /\ "c_close" \notin ZeroLabels /\ "c_wait" \notin SockLabels \cup ZeroLabels
        /\ cnt[current] + 1 \in Nat
    BY <1>0 DEF SockLabels, ZeroLabels
  <2>2. CASE Local("c_round", "c_close") /\ Count(0)
    BY <1>0, <2>1, <2>2, <1>count DEF Local
  <2>3. CASE Request("c_round", "c_round_r", "GetReady", {})
    BY <2>3, <1>ask, <1>even
  <2>4. CASE AwaitReply("c_round_r", "c_mask", MAX)
    BY <2>4, <1>await, <1>even
  <2>5. CASE \/ Local("c_mask", "c_close") /\ Count(0)
             \/ Local("c_mask", "c_wait") /\ Count(cnt[current] + 1)
    BY <1>0, <2>1, <2>5, <1>count DEF Local
  <2> QED
    BY <1>11, <2>2, <2>3, <2>4, <2>5 DEF c_round
<1>12. CASE c_recv
  <2>1. CASE Local("c_recv", "c_round") /\ UNCHANGED locals
    BY <2>1, <1>plain, <1>even DEF Local
  <2>2. CASE Request("c_recv", "c_recv_r", "Recv", {Min(mask[current])})
    BY <2>2, <1>ask, <1>even
  <2>3. CASE AwaitReply("c_recv_r", "c_got", MAX)
    BY <2>3, <1>await, <1>even
  <2>4. CASE Local("c_got", "c_recv") /\ cnt' = cnt
    BY <2>4, <1>same, <1>even DEF Local
  <2> QED
    BY <1>12, <2>1, <2>2, <2>3, <2>4 DEF c_recv
<1>13. CASE c_bye
  BY <1>13, <1>plain, <1>even DEF c_bye, Exit
<1> QED
  BY <1>1, <1>2, <1>3, <1>4, <1>5, <1>6, <1>7, <1>8, <1>9, <1>10, <1>11, <1>12, <1>13
     DEF Client
(* The root task counts sockets too, but at labels of its own. *)
LEMMA RootCounts ==
  ASSUME Base, Root
  PROVE  cnt' \in [Pid -> Nat] /\ Counters' /\ mask' = mask /\ pending' \subseteq Socks
<1>1. PICK l \in RootLabels \ {"end"}, m \in RootLabels : Step(l, m)
  BY RootEdge
<1>2. /\ current = 0 /\ pc'[0] = m /\ \A q \in Pid \ {0} : pc'[q] = pc[q]
      /\ m \notin SockLabels \cup ZeroLabels
  BY <1>1, RootShapes, StepMoves, Ground
     DEF RootLabels, Before, SockLabels, ZeroLabels
<1>3. cnt \in [Pid -> Nat] /\ pending \subseteq Socks /\ reg[current] \in Words \cup {NoWord}
  BY Ground DEF Base, LocalTypes
<1>4. cnt' = cnt \/ CountSocks
  BY DEF Root, r_setup, r_frame, FrameAlloc, r_shm, r_client, r_child, Spawn, SpawnFails, r_grant,
     r_reap, Reap, r_signal, r_recv, r_get_ready, r_get_frame, r_net_recv, r_bye, r_exit, Exit,
     r_other, r_buffer, Reply, locals
<1>5. cnt' \in [Pid -> Nat] /\ \A q \in Pid \ {0} : cnt'[q] = cnt[q]
  <2>1. CASE CountSocks
    <3> DEFINE n == IF LastSock THEN 0 ELSE cnt[current] + 1
    <3>1. n \in Nat
      BY NextSock
    <3>2. Count(n)
      BY <2>1 DEF CountSocks
    <3> HIDE DEF n
    <3> QED
      BY <1>2, <1>3, <3>1, <3>2 DEF Count
  <2> QED
    BY <1>3, <1>4, <2>1
<1>6. Counters'
  BY <1>2, <1>5 DEF Base, Counters
<1>7. mask' = mask
  BY DEF Root, r_setup, r_frame, FrameAlloc, r_shm, r_client, r_child, Spawn, SpawnFails, r_grant,
     r_reap, Reap, r_signal, r_recv, r_get_ready, r_get_frame, r_net_recv, r_bye, r_exit, Exit,
     r_other, r_buffer, Reply, locals, butCnt
<1>8. pending' \subseteq Socks
  BY <1>3, ZenonT(60) DEF Root, r_setup, r_frame, FrameAlloc, r_shm, r_client, r_child, Spawn, SpawnFails,
     r_grant, r_reap, Reap, r_signal, r_recv, r_get_ready, r_get_frame, r_net_recv, r_bye, r_exit,
     Exit, r_other, r_buffer, Reply, locals, butCnt
<1> QED
  BY <1>5, <1>6, <1>7, <1>8

(* The ready set of a client is a set of sockets. *)
LEMMA ClientMask == ASSUME Base, Client PROVE mask' \in [Pid -> SUBSET Socks]
<1>1. mask \in [Pid -> SUBSET Socks] /\ reg[current].socks \in SUBSET Socks
  <2>1. reg[current] \in Words \cup {NoWord} /\ mask \in [Pid -> SUBSET Socks]
    BY Ground DEF Base, LocalTypes
  <2>2. \A w \in Words \cup {NoWord} : w.socks \in SUBSET Socks
    BY BootAssumption DEF BootWords, NoWord, Msg
  <2> QED
    BY <2>1, <2>2
<1>2. \/ mask' = mask
      \/ mask' = [mask EXCEPT ![current] = reg[current].socks]
      \/ mask' = [mask EXCEPT ![current] = @ \ reg[current].socks]
  <2>1. CASE c_round
    BY <2>1 DEF c_round, Request, AwaitReply, locals, butCnt
  <2>2. CASE c_recv
    BY <2>2 DEF c_recv, Request, AwaitReply, locals, butCnt
  <2>3. CASE c_frame \/ c_conn \/ c_send \/ c_wait \/ c_close \/ c_bye \/ c_files
    BY <2>3 DEF c_frame, c_conn, c_send, c_wait, c_close, c_bye, c_files, EachSocket, Request,
       AwaitReply, Exit, locals, butCnt
  <2>4. CASE \/ c_start \/ crash_child \/ granted_child \/ g_give_up \/ g_ok \/ c_ready
             \/ c_env \/ c_log \/ c_doomed \/ c_doomed_y \/ c_kill \/ c_kill_w
             \/ c_crash \/ c_crash_w
    BY <2>4 DEF c_start, crash_child, granted_child, g_give_up, g_ok, c_ready, c_env, c_log,
       c_doomed, c_doomed_y, c_kill, c_kill_w, c_crash, c_crash_w, Spawn, SpawnFails, Yields,
       Reap, Exit, locals, butCnt
  <2> QED
    BY <2>1, <2>2, <2>3, <2>4 DEF Client
<1> QED
  BY <1>1, <1>2

(* The words, bits and exit codes that WAIT, RECV and WAIT_PID return. *)
LEMMA StepReturns ==
  ASSUME Base, BootNext
  PROVE  /\ reg' \in [Pid -> Words \cup {NoWord}] /\ bits' \in [Pid -> SUBSET Bits]
         /\ code' \in [Pid -> Int]
<1>0. /\ reg \in [Pid -> Words \cup {NoWord}] /\ bits \in [Pid -> SUBSET Bits]
      /\ code \in [Pid -> Int] /\ current \in Pid /\ exit_code \in [Pid -> Nat]
      /\ queue \in [EndpointId -> Seq(Message)] /\ word \in [NotificationId -> SUBSET Bits]
  BY Ground DEF Base, LocalTypes
<1>1. CASE Client
  BY <1>0, <1>1, ClientShapes DEF SameLocals
<1>2. CASE Root
  <2>1. bits' = bits /\ code' = code /\ (reg' = reg \/ reg' = [reg EXCEPT ![current] = NoWord])
    BY <1>2, RootShapes DEF RootQuiet, RootFrames, RootSpawns, RootGrants, RootReaps,
       RootSignals, RootListens, RootReplies, RootEnds, SameLocals
  <2> QED
    BY <1>0, <2>1
<1>3. CASE k_recv
  <2>1. kont[current].id \in EndpointId
    BY <1>0, <1>3 DEF k_recv, try_recv, InLoop, Base, Inv, LoopsOnObjects
  <2>2. queue[kont[current].id] # <<>> /\ queue[kont[current].id] \in Seq(Message)
    BY <1>0, <1>3, <2>1 DEF k_recv, try_recv
  <2>3. Head(queue[kont[current].id]) \in Message
    BY <2>2
  <2>4. Head(queue[kont[current].id]).word \in Words
    BY <2>3 DEF Message
  <2> QED
    BY <1>0, <1>3, <2>4 DEF k_recv
<1>4. CASE k_wait
  <2>1. kont[current].id \in NotificationId
    BY <1>0, <1>4 DEF k_wait, poll_take, InLoop, Base, Inv, LoopsOnObjects
  <2> QED
    BY <1>0, <1>4, <2>1 DEF k_wait
<1>5. CASE k_wait_pid
  <2>1. kont[current].id \in Pid
    <3>1. kont[current].id \in 1 .. next_pid - 1 /\ next_pid \in 1 .. MAX_PROCS
      BY <1>0, <1>5 DEF k_wait_pid, wait_pid, InLoop, Base, Inv, LoopsOnObjects, TypeOK
    <3> QED
      BY <3>1, KernelAssumption DEF Pid
  <2>2. exit_code[kont[current].id] \in Int
    BY <1>0, <2>1
  <2>3. reg' = reg /\ bits' = bits
        /\ (code' = code \/ code' = [code EXCEPT ![current] = exit_code[kont[current].id]])
    BY <1>5 DEF k_wait_pid
  <2> QED
    BY <1>0, <2>2, <2>3
<1>6. CASE k_block \/ k_preempt
  BY <1>0, <1>6 DEF k_block, k_preempt, locals
<1> QED
  BY <1>1, <1>2, <1>3, <1>4, <1>5, <1>6 DEF BootNext, InKernel

(* The kernel's steps and the timer leave the programs where they are. *)
LEMMA KernelStays ==
  ASSUME InKernel \/ k_preempt
  PROVE  UNCHANGED <<pc, role, cnt, mask, pending, next_pid>>
  BY DEF InKernel, k_recv, k_wait, k_wait_pid, k_block, k_preempt, try_recv, poll_take,
     wait_pid, recv_block, wait_block, timer_preempt, locals

(* The spawns of the programs. *)
Installs(slot) ==
    \/ slot = PROC_SLOT_BASE /\ \/ Spawn("r_client", "r_frame", PROC_SLOT_BASE, "none")
                                \/ Spawn("c_env", "c_log", PROC_SLOT_BASE, "none")
    \/ slot = DOOMED_SLOT /\ \/ Spawn("r_child", "r_grant", GRANT_PROC_SLOT, "granted")
                             \/ Spawn("c_doomed", "c_doomed_y", DOOMED_SLOT, "none")
    \/ slot = CRASH_SLOT /\ Spawn("c_crash", "c_crash_w", CRASH_SLOT, "crash")

(* A step either spawns, or leaves the roles and the number of processes. *)
LEMMA SpawnOrNot ==
  ASSUME Base, BootNext
  PROVE  \/ \E slot \in 10 .. 12 : Installs(slot)
         \/ role' = role /\ next_pid' = next_pid
<1>1. CASE Client
  <2>1. CASE Spawns
    BY <2>1, SlotNumbers DEF Spawns, Installs
  <2>2. CASE ~Spawns
    BY <1>1, <2>2, ClientShapes DEF Quiet, Asks, SendsWord, Leaves, Listens, Enters, Waits, Reaps,
       Kills, kill, Ends, exit_inner
  <2> QED
    BY <2>1, <2>2
<1>2. CASE Root
  <2>1. CASE RootSpawns
    BY <2>1, SlotNumbers DEF RootSpawns, Installs
  <2>2. CASE ~RootSpawns
    BY <1>2, <2>2, RootShapes DEF RootQuiet, RootFrames, RootGrants, sys_cap_grant, RootReaps,
       Enters, RootSignals, RootListens, RootReplies, RootEnds, exit_inner
  <2> QED
    BY <2>1, <2>2
<1>3. CASE InKernel \/ k_preempt
  BY <1>3, KernelStays
<1> QED
  BY <1>1, <1>2, <1>3 DEF BootNext

(* The child of a spawn. *)
LEMMA SpawnResult ==
  ASSUME Base, NEW slot, Installs(slot)
  PROVE  /\ next_pid \in Pid /\ next_pid > 0 /\ state[next_pid] = "Absent" /\ next_pid # current
         /\ next_pid' = next_pid + 1 /\ current' = current /\ halted' = halted
         /\ kont' = kont /\ exit_code' = exit_code /\ queue' = queue /\ word' = word
         /\ state' = [state EXCEPT ![next_pid] = "Ready"]
         /\ caps' = [caps EXCEPT ![current] = insert(@, slot, Cap("Process", next_pid))]
         /\ insert_ok(caps[current], slot)
         /\ \E r \in Role : role' = [role EXCEPT ![next_pid] = r]
<1>1. PICK l, m, r : r \in Role /\ Spawn(l, m, slot, r)
  BY SlotNumbers DEF Installs, Role
<1>2. spawn(slot) /\ role' = [role EXCEPT ![next_pid] = r]
  BY <1>1 DEF Spawn
<1>3. slot # MAX
  BY SlotNumbers DEF Installs, MAX
<1>4. next_pid \in 1 .. MAX_PROCS /\ current \in 0 .. next_pid - 1 /\ TableInPidOrder
  BY DEF Base, Inv, TypeOK
<1>5. next_pid < MAX_PROCS
  BY <1>2 DEF spawn
<1>6. next_pid \in Pid /\ next_pid > 0 /\ next_pid # current
  BY <1>4, <1>5, KernelAssumption DEF Pid
<1>7. state[next_pid] = "Absent"
  BY <1>4, <1>6 DEF TableInPidOrder
<1>8. /\ next_pid' = next_pid + 1 /\ current' = current /\ halted' = halted
      /\ kont' = kont /\ exit_code' = exit_code /\ queue' = queue /\ word' = word
      /\ state' = [state EXCEPT ![next_pid] = "Ready"]
      /\ caps' = [caps EXCEPT ![current] = insert(@, slot, Cap("Process", next_pid))]
  BY <1>2 DEF spawn, ipc
<1>9. insert_ok(caps[current], slot)
  BY <1>2, <1>3 DEF spawn
<1> QED
  BY <1>1, <1>2, <1>6, <1>7, <1>8, <1>9

(* Where a program can go: root labels for PID 0, client labels for the    *)
(* others.                                                                 *)
LEMMA StepLabels ==
  ASSUME Base, BootNext
  PROVE  /\ pc' \in [Pid -> RootLabels \cup ClientLabels]
         /\ pc'[0] \in RootLabels /\ \A p \in Pid \ {0} : pc'[p] \in ClientLabels
         /\ \A p \in Pid : pc'[p] = pc[p] \/ p = current
<1>0. /\ pc \in [Pid -> RootLabels \cup ClientLabels] /\ pc[0] \in RootLabels /\ 0 \in Pid
      /\ \A p \in Pid \ {0} : pc[p] \in ClientLabels
  BY Ground DEF Base, LocalTypes, Programs
<1>1. CASE Client
  <2>1. PICK l, m \in ClientLabels : Step(l, m)
    BY <1>1, ClientEdges
  <2> QED
    BY <1>0, <1>1, <2>1, StepMoves, ClientShapes
<1>2. CASE Root
  <2>1. PICK l, m \in RootLabels : Step(l, m)
    BY <1>2, RootEdge
  <2> QED
    BY <1>0, <1>2, <2>1, StepMoves, RootShapes
<1>3. CASE InKernel \/ k_preempt
  BY <1>0, <1>3, KernelStays
<1> QED
  BY <1>1, <1>2, <1>3 DEF BootNext

(* Every step keeps the type of the programs' locals and the bounds of their
   counters. *)
LEMMA StepLocals == ASSUME Base, BootNext PROVE LocalTypes' /\ Counters'
<1>1. role' \in [Pid -> Role]
  BY SpawnOrNot, SpawnResult DEF Base, LocalTypes
<1>2. /\ cnt' \in [Pid -> Nat] /\ Counters' /\ mask' \in [Pid -> SUBSET Socks]
      /\ pending' \subseteq Socks
  <2>0. cnt \in [Pid -> Nat] /\ Counters /\ mask \in [Pid -> SUBSET Socks] /\ pending \subseteq Socks
    BY DEF Base, LocalTypes
  <2>1. CASE Client
    BY <2>0, <2>1, ClientCounts, ClientMask, ClientShapes DEF SameLocals
  <2>2. CASE Root
    BY <2>0, <2>2, RootCounts
  <2>3. CASE InKernel \/ k_preempt
    <3>1. UNCHANGED <<pc, cnt, mask, pending>>
      BY <2>3, KernelStays
    <3> QED
      BY <2>0, <3>1 DEF Counters
  <2> QED
    BY <2>1, <2>2, <2>3 DEF BootNext
<1> QED
  BY <1>1, <1>2, StepLabels, StepReturns DEF LocalTypes
-----------------------------------------------------------------------------
(* Capabilities.                                                           *)

(* The slots of a table that are taken stay as they are, and those that    *)
(* are filled get a frame or the handle of a new child.                    *)
LEMMA CapsGrow ==
  ASSUME Base, Travelling, BootNext
  PROVE  \A p \in Pid, i \in Slot :
            \/ caps'[p][i] = caps[p][i]
            \/ caps[p][i] = NoCap /\ FramesOnly(caps'[p][i])
            \/ /\ caps[p][i] = NoCap /\ caps'[p][i] = Cap("Process", next_pid)
               /\ p = current /\ Installs(i)
<1> DEFINE Goal == \A p \in Pid, i \in Slot :
                     \/ caps'[p][i] = caps[p][i]
                     \/ caps[p][i] = NoCap /\ FramesOnly(caps'[p][i])
                     \/ /\ caps[p][i] = NoCap /\ caps'[p][i] = Cap("Process", next_pid)
                        /\ p = current /\ Installs(i)
<1>0. caps \in [Pid -> CNode] /\ current \in Pid
  BY Ground
<1>frame. ASSUME NEW t \in Pid, NEW slot, NEW c \in CapEntry, FramesOnly(c),
                 caps' = [caps EXCEPT ![t] = insert(@, slot, c)]
          PROVE  Goal
  BY <1>0, <1>frame DEF insert, insert_ok, CNode
<1>spawn. ASSUME NEW slot, Installs(slot) PROVE Goal
  <2>1. caps' = [caps EXCEPT ![current] = insert(@, slot, Cap("Process", next_pid))]
    BY <1>spawn, SpawnResult
  <2> QED
    BY <1>0, <1>spawn, <2>1 DEF insert, insert_ok, CNode
<1>same. caps' = caps => Goal
  OBVIOUS
<1> HIDE DEF Goal
<1>goal. SUFFICES Goal
  BY <1>goal DEF Goal
<1>1. CASE Client
  <2>1. CASE Spawns
    <3>1. Installs(PROC_SLOT_BASE) \/ Installs(DOOMED_SLOT) \/ Installs(CRASH_SLOT)
      BY <2>1 DEF Spawns, Installs
    <3> QED
      BY <3>1, <1>spawn
  <2>2. CASE ~Spawns
    <3>1. caps' = caps
      BY <1>1, <2>2, ClientShapes DEF Quiet, Asks, SendsWord, Leaves, Listens, Enters, Waits,
         Reaps, Kills, kill, Ends, exit_inner
    <3> QED
      BY <3>1, <1>same
  <2> QED
    BY <2>1, <2>2
<1>2. CASE Root
  <2>1. CASE RootSpawns
    <3>1. Installs(PROC_SLOT_BASE) \/ Installs(DOOMED_SLOT)
      BY <2>1 DEF RootSpawns, Installs
    <3> QED
      BY <3>1, <1>spawn
  <2>2. CASE RootFrames
    <3>1. PICK slot \in Nat :
             caps' = [caps EXCEPT ![current] = insert(@, slot, Cap("Frame", slot))]
      BY <2>2 DEF RootFrames
    <3>2. Cap("Frame", slot) \in CapEntry /\ FramesOnly(Cap("Frame", slot))
      BY DEF Cap, CapEntry, CapType, FramesOnly
    <3> QED
      BY <1>0, <3>1, <3>2, <1>frame
  <2>3. CASE RootGrants
    <3> DEFINE target == process_target(GRANT_PROC_SLOT)
               c == caps[current][GRANT_SRC_SLOT]
    <3>1. /\ holds(caps[current], GRANT_PROC_SLOT, "Process")
          /\ caps' = [caps EXCEPT ![target] = insert(@, GRANTED_FRAME_SLOT, c)]
      BY <2>3 DEF RootGrants, sys_cap_grant
    <3>2. target \in Pid
      <4>1. target \in 1 .. next_pid - 1 /\ next_pid \in 1 .. MAX_PROCS
        BY <1>0, <3>1 DEF holds, process_target, Base, Inv, CapsNameObjects, NamesObject, TypeOK
      <4> QED
        BY <4>1, KernelAssumption DEF Pid
    <3>3. current = 0 /\ pc[0] = "r_grant"
      BY <1>2, <2>3, RootShapes, StepMoves DEF RootGrants
    <3>4. c \in CapEntry /\ FramesOnly(c)
      BY <1>0, <3>3, Ground, SlotNumbers DEF Travelling, FramesOnly, CNode
    <3> QED
      BY <3>1, <3>2, <3>4, <1>frame
  <2>4. CASE ~RootSpawns /\ ~RootFrames /\ ~RootGrants
    <3>1. caps' = caps
      BY <1>2, <2>4, RootShapes DEF RootQuiet, RootReaps, Enters, RootSignals, RootListens,
         RootReplies, RootEnds, exit_inner
    <3> QED
      BY <3>1, <1>same
  <2> QED
    BY <2>1, <2>2, <2>3, <2>4
<1>3. CASE k_recv
  <2> DEFINE q == queue[kont[current].id]
             c == Head(q).cap
  <2>1. kont[current].id \in EndpointId /\ q # <<>> /\ q \in Seq(Message)
    BY <1>0, <1>3, Ground DEF k_recv, try_recv, InLoop, Base, Inv, LoopsOnObjects
  <2>2. Head(q) = q[1] /\ Head(q) \in Message /\ Len(q) \in Nat \ {0} /\ 1 \in 1 .. Len(q)
    BY <2>1
  <2>3. c \in CapEntry /\ FramesOnly(c)
    BY <2>1, <2>2 DEF Travelling, Message
  <2>4. caps' = caps \/ caps' = [caps EXCEPT ![current] = insert(@, kont[current].dst, c)]
    BY <1>3 DEF k_recv, try_recv
  <2> QED
    BY <1>0, <2>3, <2>4, <1>frame, <1>same
<1>4. CASE k_wait \/ k_wait_pid \/ k_block \/ k_preempt
  <2>1. caps' = caps
    BY <1>4 DEF k_wait, k_wait_pid, k_block, k_preempt, poll_take, wait_pid, recv_block,
       wait_block, timer_preempt
  <2> QED
    BY <2>1, <1>same
<1> QED
  BY <1>1, <1>2, <1>3, <1>4 DEF BootNext, InKernel

(* So the seeds and the handles stay. *)
LEMMA HandlesStay ==
  ASSUME Base, Travelling, BootNext
  PROVE  /\ Seeds'
         /\ \A p \in Pid, i \in Slot : IsHandle(caps[p][i]) => caps'[p][i] = caps[p][i]
<1>1. \A p \in Pid, i \in Slot : caps[p][i] # NoCap => caps'[p][i] = caps[p][i]
  BY CapsGrow
<1>2. \A p \in Pid, i \in Slot : IsHandle(caps[p][i]) => caps[p][i] # NoCap
  BY DEF IsHandle, NoCap, Cap
<1>3. Cap("Endpoint", 0) # NoCap /\ Cap("Endpoint", 1) # NoCap /\ Cap("Notification", 0) # NoCap
  BY DEF NoCap, Cap
<1>4. EP_SLOT \in Slot /\ REPLY_EP_SLOT \in Slot /\ NOTIF_SLOT \in Slot
  BY Ground, SlotNumbers
<1>5. \A p \in Pid : /\ caps'[p][EP_SLOT] = Cap("Endpoint", 0)
                     /\ caps'[p][REPLY_EP_SLOT] = Cap("Endpoint", 1)
                     /\ caps'[p][NOTIF_SLOT] = Cap("Notification", 0)
  BY <1>1, <1>3, <1>4 DEF Base, Seeds
<1>6. Seeds'
  BY <1>5 DEF Seeds
<1> QED
  BY <1>1, <1>2, <1>6
-----------------------------------------------------------------------------
(* Processes that do not exist yet, and system calls in progress.          *)

(* Every step keeps each program inside its own listing: a label of one
   program is never reached by another. *)
LEMMA StepPrograms == ASSUME Base, BootNext PROVE Programs'
<1>1. TableInPidOrder /\ TableInPidOrder' /\ current \in 0 .. next_pid - 1 /\ next_pid \in Nat
  BY BootKernel DEF Base, Inv, TypeOK
<1>2. next_pid' = next_pid \/ next_pid' = next_pid + 1
  BY SpawnOrNot, SpawnResult
<1> SUFFICES ASSUME NEW p \in Pid, state'[p] = "Absent" PROVE pc'[p] = "start" /\ role'[p] = "none"
  BY StepLabels DEF Programs
<1>3. p >= next_pid' /\ p \in Nat
  BY <1>1, Ground DEF TableInPidOrder
<1>4. p >= next_pid /\ p # current
  BY <1>1, <1>2, <1>3
<1>5. pc[p] = "start" /\ role[p] = "none"
  BY <1>1, <1>4 DEF TableInPidOrder, Base, Programs
<1>6. pc'[p] = pc[p]
  BY <1>4, StepLabels
<1>7. role'[p] = role[p]
  <2>1. CASE \E slot \in 10 .. 12 : Installs(slot)
    <3>1. PICK r \in Role : role' = [role EXCEPT ![next_pid] = r] /\ next_pid' = next_pid + 1
      BY <2>1, SpawnResult
    <3>2. p # next_pid
      BY <1>1, <1>3, <3>1
    <3> QED
      BY <3>1, <3>2 DEF Base, LocalTypes
  <2> QED
    BY <2>1, SpawnOrNot
<1> QED
  BY <1>5, <1>6, <1>7

(* A step changes at most the context of the running process: a call       *)
(* enters its loop, and a loop returns.                                    *)
LEMMA StepKont ==
  ASSUME Base, BootNext
  PROVE  /\ \A q \in Pid : q # current => kont'[q] = kont[q]
         /\ \/ kont'[current] \in {kont[current], UserMode} /\ pc'[current] = pc[current]
            \/ kont'[current] = UserMode /\ kont[current] = UserMode
            \/ Listens \/ Waits \/ Reaps \/ RootReaps \/ RootListens
<1>0. current \in Pid /\ kont \in [Pid -> Kont]
  BY Ground
<1>1. CASE Client
  <2>1. CASE Listens \/ Waits \/ Reaps
    <3>1. \E k : kont' = [kont EXCEPT ![current] = k]
      BY <2>1 DEF Listens, Waits, Reaps, Enters
    <3> QED
      BY <1>0, <2>1, <3>1
  <2>2. CASE ~(Listens \/ Waits \/ Reaps)
    <3>1. kont' = kont /\ kont[current] = UserMode
      BY <1>1, <2>2, ClientShapes DEF Quiet, Asks, SendsWord, Leaves, Kills, kill, Ends,
         exit_inner, Spawns, Spawn, spawn, InUser
    <3> QED
      BY <3>1
  <2> QED
    BY <2>1, <2>2
<1>2. CASE Root
  <2>1. CASE RootListens \/ RootReaps
    <3>1. \E k : kont' = [kont EXCEPT ![current] = k]
      BY <2>1 DEF RootListens, RootReaps, Enters
    <3> QED
      BY <1>0, <2>1, <3>1
  <2>2. CASE ~(RootListens \/ RootReaps)
    <3>1. kont' = kont /\ kont[current] = UserMode
      BY <1>2, <2>2, RootShapes DEF RootQuiet, RootFrames, RootSpawns, Spawn, spawn, RootGrants,
         sys_cap_grant, RootSignals, RootReplies, RootEnds, exit_inner, InUser
    <3> QED
      BY <3>1
  <2> QED
    BY <2>1, <2>2
<1>3. CASE InKernel \/ k_preempt
  <2>1. kont' = kont \/ kont' = [kont EXCEPT ![current] = UserMode]
    BY <1>3 DEF InKernel, k_recv, k_wait, k_wait_pid, k_block, k_preempt, try_recv, poll_take,
       wait_pid, recv_block, wait_block, timer_preempt
  <2> QED
    BY <1>0, <1>3, <2>1, KernelStays
<1> QED
  BY <1>1, <1>2, <1>3 DEF BootNext

(* Every step keeps what a program inside one of its loops relies on: the
   handles its next call names. *)
LEMMA StepLoops == ASSUME Base, Travelling, BootNext PROVE Loops'
<1> DEFINE OnHandle(k, table, slot) == IsHandle(table[slot]) /\ k.id = table[slot].object
           InItsLoop(p, k, l, table) ==
             /\ k.op = "Recv" => IF p = 0 THEN k.id = 0 /\ l = "r_serve"
                                          ELSE k.id = 1 /\ l \in RecvLabels
             /\ k.op = "Wait" => k.id = 0 /\ p # 0 /\ l \in {"c_ready", "c_recv"}
             /\ k.op = "WaitPid" =>
                   IF p = 0 THEN l = "r_signal"
                   ELSE \/ l = "c_crash" /\ OnHandle(k, table, DOOMED_SLOT)
                        \/ l = "c_frame" /\ OnHandle(k, table, CRASH_SLOT)
<1>0. current \in Pid /\ 0 \in Pid /\ kont \in [Pid -> Kont] /\ DOOMED_SLOT \in Slot /\ CRASH_SLOT \in Slot
  BY Ground, SlotNumbers
<1>1. \A p \in Pid : InItsLoop(p, kont[p], pc[p], caps[p])
  BY <1>0 DEF Base, Loops
<1>2. SUFFICES \A p \in Pid : InItsLoop(p, kont'[p], pc'[p], caps'[p])
  BY <1>0, <1>2 DEF Loops
<1>3. \A p \in Pid : \A k, l : InItsLoop(p, k, l, caps[p]) => InItsLoop(p, k, l, caps'[p])
  BY <1>0, HandlesStay
<1>4. \A p \in Pid : \A l : InItsLoop(p, UserMode, l, caps'[p])
  BY DEF UserMode, Loop
<1>5. ASSUME NEW p \in Pid, p # current PROVE InItsLoop(p, kont'[p], pc'[p], caps'[p])
  <2>1. kont'[p] = kont[p] /\ pc'[p] = pc[p]
    BY <1>5, StepKont, StepLabels
  <2> HIDE DEF InItsLoop
  <2> QED
    BY <1>1, <1>3, <2>1
<1>6. InItsLoop(current, kont'[current], pc'[current], caps'[current])
  <2>1. CASE kont'[current] \in {kont[current], UserMode} /\ pc'[current] = pc[current]
    <3> HIDE DEF InItsLoop
    <3> QED
      BY <1>0, <1>1, <1>3, <1>4, <2>1
  <2>2. CASE kont'[current] = UserMode
    <3> HIDE DEF InItsLoop
    <3> QED
      BY <1>0, <1>4, <2>2
  <2>3. CASE Listens
    <3>1. PICK e \in ListenEdges, dst \in SlotArg : Step(e[1], e[2]) /\ Enters(Loop("Recv", 1, dst))
      BY <2>3 DEF Listens, Moves
    <3>2. pc[current] = e[1] /\ pc'[current] = e[2] /\ kont'[current] = Loop("Recv", 1, dst)
      BY <1>0, <3>1, StepMoves DEF Enters
    <3>3. e[1] \in ClientLabels \ {"end"} /\ e[2] \in RecvLabels
      BY <3>1 DEF ListenEdges, RecvLabels, ClientLabels, Past, AskLabels
    <3>4. current # 0
      BY <3>2, <3>3, WhoRuns
    <3> QED
      BY <3>2, <3>3, <3>4 DEF Loop
  <2>4. CASE Waits
    <3>1. kont'[current] = Loop("Wait", 0, MAX)
      BY <1>0, <2>4 DEF Waits, Enters
    <3>2. pc[current] \in {"c_ready", "c_wait"} /\ pc'[current] \in {"c_ready", "c_recv"}
      BY <2>4, StepMoves DEF Waits
    <3>3. current # 0
      BY <3>2, WhoRuns DEF ClientLabels, Waiting, Past, NetLabels
    <3> QED
      BY <3>1, <3>2, <3>3 DEF Loop
  <2>5. CASE Reaps
    <3>1. PICK slot \in {DOOMED_SLOT, CRASH_SLOT} :
            /\ IF slot = DOOMED_SLOT THEN Step("c_kill_w", "c_crash")
                                     ELSE Step("c_crash_w", "c_frame")
            /\ IsHandle(caps[current][slot])
            /\ Enters(Loop("WaitPid", caps[current][slot].object, MAX))
      BY <2>5 DEF Reaps
    <3>2. kont'[current] = Loop("WaitPid", caps[current][slot].object, MAX) /\ caps' = caps
      BY <1>0, <3>1 DEF Enters
    <3>3. \/ slot = DOOMED_SLOT /\ pc[current] = "c_kill_w" /\ pc'[current] = "c_crash"
          \/ slot = CRASH_SLOT /\ pc[current] = "c_crash_w" /\ pc'[current] = "c_frame"
      BY <3>1, StepMoves
    <3>4. current # 0
      BY <3>3, WhoRuns DEF ClientLabels, Past, DoomedLabels, NetLabels
    <3>5. OnHandle(kont'[current], caps'[current], slot) /\ kont'[current].op = "WaitPid"
      BY <3>1, <3>2 DEF Loop
    <3> HIDE DEF OnHandle
    <3> QED
      BY <3>3, <3>4, <3>5
  <2>6. CASE RootReaps
    <3>1. pc[current] = "r_reap" /\ pc'[current] = "r_signal"
          /\ \E id \in Nat : kont'[current] = Loop("WaitPid", id, MAX)
      BY <1>0, <2>6, StepMoves DEF RootReaps, Enters
    <3>2. current = 0
      BY <3>1, WhoRuns DEF RootLabels, Before
    <3> QED
      BY <3>1, <3>2 DEF Loop
  <2>7. CASE RootListens
    <3>1. pc[current] = "r_recv" /\ pc'[current] = "r_serve"
          /\ kont'[current] = Loop("Recv", 0, MAX)
      BY <1>0, <2>7, StepMoves DEF RootListens, Enters
    <3>2. current = 0
      BY <3>1, WhoRuns DEF RootLabels
    <3> QED
      BY <3>1, <3>2 DEF Loop
  <2> HIDE DEF InItsLoop
  <2> QED
    BY <2>1, <2>2, <2>3, <2>4, <2>5, <2>6, <2>7, StepKont
<1> QED
  BY <1>5, <1>6

(* Every step keeps the ground of the other invariants: types, listings,
   loops and counters. *)
LEMMA StepBase == ASSUME Base, Travelling, BootNext PROVE Base'
  BY BootKernel, StepLocals, StepPrograms, HandlesStay, StepLoops DEF Base
-----------------------------------------------------------------------------
(* One conversation.                                                       *)

(* Who waits for an answer is the client. *)
LEMMA AwaitsWithToken ==
  ASSUME Base, Token, NEW p \in Pid \ {0}, Awaiting(p)
  PROVE  HasToken(p) /\ pc[p] \in AskLabels \cup RecvLabels
<1>1. pc[p] \in AskLabels \cup RecvLabels
  BY DEF Awaiting, Base, Loops
<1>2. AskLabels \cup RecvLabels \subseteq Past
  BY DEF Past, AskLabels, RecvLabels, DemoLabels, NetLabels
<1> QED
  BY <1>1, <1>2 DEF Token

(* Where the request is. *)
Talk == /\ \A p \in Pid \ {0} : Awaiting(p) => OnItsWay(p) \/ AtService(p) \/ Answered(p)
        /\ (\A p \in Pid \ {0} : ~Awaiting(p)) => Silent

(* A step that neither sends nor receives keeps it there. *)
LEMMA TalkKept ==
  ASSUME Talk, queue' = queue, reg'[0] = reg[0],
         \A p \in Pid \ {0} : /\ Awaiting(p)' <=> Awaiting(p)
                              /\ Awaiting(p) => Expected(pc'[p]) = Expected(pc[p]),
         \A p \in Pid \ {0} : HasToken(p) /\ pc[p] \in {"c_exit", "end"} =>
                                 HasToken(p)' /\ pc'[p] \in {"c_exit", "end"}
  PROVE  Talk'
<1>1. ASSUME NEW p \in Pid \ {0}, Awaiting(p)'
      PROVE  OnItsWay(p)' \/ AtService(p)' \/ Answered(p)'
  <2>1. Awaiting(p) /\ Expected(pc'[p]) = Expected(pc[p])
    BY <1>1
  <2>2. \A w : Fits(p, w) => Expected(pc'[p]) \in {w.op, "any"}
    BY <2>1 DEF Fits
  <2>3. OnItsWay(p) \/ AtService(p) \/ Answered(p)
    BY <2>1 DEF Talk
  <2>4. OnItsWay(p) => OnItsWay(p)'
    BY <2>2 DEF OnItsWay, Holding, Fits
  <2>5. AtService(p) => AtService(p)'
    BY <2>2 DEF AtService, Fits
  <2>6. Answered(p) => Answered(p)'
    BY <2>2 DEF Answered, Holding, Fits
  <2> QED
    BY <2>3, <2>4, <2>5, <2>6
<1>2. ASSUME \A p \in Pid \ {0} : ~Awaiting(p)' PROVE Silent'
  <2>1. Silent
    BY <1>2 DEF Talk
  <2>2. Leaving => Leaving'
    BY DEF Leaving, Holding
  <2> QED
    BY <2>1, <2>2 DEF Silent
<1> QED
  BY <1>1, <1>2 DEF Talk

(* When a client is past the wait and does not wait for an answer, all is  *)
(* silent, and the request endpoint is empty.                              *)
LEMMA ClientSilent ==
  ASSUME Base, Token, Talk, current # 0, InUser, pc[current] \in Past,
         pc[current] \notin AskLabels, pc[current] # "c_exit"
  PROVE  queue[0] = <<>> /\ queue[1] = <<>> /\ reg[0].kind # "Ask"
         /\ \A p \in Pid \ {0} : ~Awaiting(p)
<1>1. current \in Pid \ {0} /\ HasToken(current) /\ pc[current] # "end"
  BY Ground DEF Token, Past, AskLabels, DemoLabels, DoomedLabels, NetLabels
<1>2. ~Awaiting(current)
  BY DEF Awaiting, InUser, UserMode, Loop
<1>3. \A p \in Pid \ {0} : HasToken(p) => p = current
  BY <1>1 DEF Token
<1>4. \A p \in Pid \ {0} : ~Awaiting(p)
  BY <1>2, <1>3, AwaitsWithToken
<1>5. Silent
  BY <1>4 DEF Talk
<1>6. ~Leaving
  BY <1>1, <1>3 DEF Leaving
<1> QED
  BY <1>4, <1>5, <1>6 DEF Silent

(* The client's steps. *)
LEMMA ClientTalk == ASSUME Base, Token, Talk, Client PROVE Talk'
<1> USE DEF Waiting, Past, AskLabels, DemoLabels, DoomedLabels, NetLabels
<1>0. /\ current \in Pid \ {0} /\ current # 0 /\ InUser /\ kont[current].op = "User"
      /\ reg' = reg /\ bits' = bits /\ queue \in [EndpointId -> Seq(Message)]
      /\ 0 \in EndpointId /\ 1 \in EndpointId /\ kont \in [Pid -> Kont]
  BY ClientShapes, Ground DEF SameLocals, InUser, UserMode, Loop
<1>c. PICK c \in Pid \ {0} : c = current
  BY <1>0
<1>1. \A q \in Pid : q # current => pc'[q] = pc[q] /\ kont'[q] = kont[q]
  BY StepKont, StepLabels DEF BootNext
<1>2. \A q \in Pid : q # current => (Awaiting(q)' <=> Awaiting(q))
  BY <1>1 DEF Awaiting
<1>3. \A q \in Pid : HasToken(q)' <=> HasToken(q)
  BY <1>0 DEF HasToken
<1>keep. ASSUME NEW l, NEW m, Step(l, m), queue' = queue, l \notin AskLabels, m \notin AskLabels,
                kont'[current].op # "Recv", l \in {"c_exit", "end"} => m = "end"
         PROVE  Talk'
  <2>1. pc[current] = l /\ pc'[current] = m
    BY <1>keep, StepMoves
  <2>2. ~Awaiting(c) /\ ~Awaiting(c)'
    BY <1>0, <1>c, <1>keep, <2>1 DEF Awaiting
  <2>3. \A p \in Pid \ {0} : /\ Awaiting(p)' <=> Awaiting(p)
                             /\ Awaiting(p) => Expected(pc'[p]) = Expected(pc[p])
    BY <1>1, <1>2, <1>c, <2>2
  <2>4. \A p \in Pid \ {0} : HasToken(p) /\ pc[p] \in {"c_exit", "end"} =>
                               HasToken(p)' /\ pc'[p] \in {"c_exit", "end"}
    BY <1>1, <1>3, <1>keep, <2>1
  <2> QED
    BY <1>0, <1>keep, <2>3, <2>4, TalkKept
<1>4. CASE Quiet
  <2>1. \A e \in QuietEdges : e[1] \notin AskLabels \cup {"c_exit", "end"} /\ e[2] \notin AskLabels
    BY DEF QuietEdges
  <2>2. queue' = queue /\ kont' = kont /\ \E e \in QuietEdges : Step(e[1], e[2])
    BY <1>4 DEF Quiet, Moves
  <2> HIDE DEF AskLabels
  <2> QED
    BY <1>0, <2>1, <2>2, <1>keep
<1>5. CASE Ends
  <2>1. \A e \in EndEdges : e[1] \notin AskLabels /\ e[2] = "end"
    BY DEF EndEdges
  <2>2. queue' = queue /\ kont' = kont
    BY <1>5 DEF Ends, exit_inner, ipc
  <2>3. \/ Step("crash", "end") \/ \E e \in EndEdges : Step(e[1], e[2])
    BY <1>5 DEF Ends, Moves
  <2>4. "crash" \notin AskLabels /\ "end" \notin AskLabels
    OBVIOUS
  <2> HIDE DEF AskLabels
  <2> QED
    BY <1>0, <2>1, <2>2, <2>3, <2>4, <1>keep
<1>6. CASE Waits \/ Reaps \/ Spawns \/ Kills
  <2>1. queue' = queue
    BY <1>6 DEF Waits, Reaps, Enters, Spawns, Spawn, spawn, Kills, kill, ipc
  <2>2. kont'[current].op # "Recv"
    BY <1>0, <1>6 DEF Waits, Reaps, Enters, Loop, Spawns, Spawn, spawn, Kills, kill
  <2>3. \E e \in {<<"c_ready", "c_ready">>, <<"c_wait", "c_recv">>, <<"c_kill_w", "c_crash">>,
                  <<"c_crash_w", "c_frame">>, <<"c_env", "c_log">>, <<"c_doomed", "c_doomed_y">>,
                  <<"c_crash", "c_crash_w">>, <<"c_kill", "c_kill_w">>} : Step(e[1], e[2])
    BY <1>6 DEF Waits, Reaps, Spawns, Spawn, Kills
  <2>4. PICK e \in {<<"c_ready", "c_ready">>, <<"c_wait", "c_recv">>, <<"c_kill_w", "c_crash">>,
                    <<"c_crash_w", "c_frame">>, <<"c_env", "c_log">>, <<"c_doomed", "c_doomed_y">>,
                    <<"c_crash", "c_crash_w">>, <<"c_kill", "c_kill_w">>} : Step(e[1], e[2])
    BY <2>3
  <2>5. e[1] \notin AskLabels \cup {"c_exit", "end"} /\ e[2] \notin AskLabels
    BY <2>4
  <2> HIDE DEF AskLabels
  <2> QED
    BY <2>1, <2>2, <2>4, <2>5, <1>keep
<1>7. CASE Listens
  <2>1. PICK e \in ListenEdges, dst \in SlotArg : Step(e[1], e[2]) /\ Enters(Loop("Recv", 1, dst))
    BY <1>7 DEF Listens, Moves
  <2>2. pc[current] = e[1] /\ pc'[current] = e[2] /\ kont'[current].op = "Recv" /\ queue' = queue
    BY <1>0, <2>1, StepMoves DEF Enters, Loop
  <2>3. e[1] \in AskLabels /\ Expected(e[1]) = Expected(e[2])
    BY <2>1 DEF ListenEdges, Expected
  <2>4. Awaiting(c) /\ Awaiting(c)'
    BY <1>c, <2>2, <2>3 DEF Awaiting
  <2>5. pc[current] \notin {"c_exit", "end"}
    BY <2>2, <2>3
  <2>6. \A p \in Pid \ {0} : /\ Awaiting(p)' <=> Awaiting(p)
                             /\ Awaiting(p) => Expected(pc'[p]) = Expected(pc[p])
    BY <1>1, <1>2, <1>c, <2>2, <2>3, <2>4
  <2>7. \A p \in Pid \ {0} : HasToken(p) /\ pc[p] \in {"c_exit", "end"} =>
                               HasToken(p)' /\ pc'[p] \in {"c_exit", "end"}
    BY <1>1, <1>3, <2>5
  <2> QED
    BY <1>0, <2>2, <2>6, <2>7, TalkKept
<1>8. CASE Asks
  <2>1. PICK e \in AskEdges, w \in Words :
           /\ Step(e[1], e[2]) /\ w.kind = "Ask" /\ Expected(pc'[current]) \in {w.op, "any"}
           /\ SendsWord(w)
    BY <1>8 DEF Asks, Moves
  <2>2. pc[current] = e[1] /\ pc'[current] = e[2]
    BY <2>1, StepMoves
  <2>3. e[1] \in Past \ (AskLabels \cup {"c_exit"}) /\ e[2] \in AskLabels
    BY <2>1 DEF AskEdges
  <2>4. /\ queue[0] = <<>> /\ queue[1] = <<>> /\ reg[0].kind # "Ask"
        /\ \A p \in Pid \ {0} : ~Awaiting(p)
    BY <1>0, <2>2, <2>3, ClientSilent
  <2>5. queue'[0] = <<[word |-> w, cap |-> NoCap]>> /\ queue'[1] = <<>>
    BY <1>0, <2>1, <2>4 DEF SendsWord
  <2>6. Awaiting(c)'
    BY <1>c, <2>2, <2>3 DEF Awaiting
  <2>7. Holding(0)' /\ queue'[0][1].word = w
    BY <2>5 DEF Holding
  <2>8. OnItsWay(c)'
    BY <1>0, <1>c, <2>1, <2>4, <2>5, <2>7 DEF OnItsWay, Fits
  <2> QED
    BY <1>2, <1>c, <2>4, <2>6, <2>8 DEF Talk
<1>9. CASE Leaves
  <2>1. Step("c_bye", "c_exit") /\ SendsWord(Bye)
    BY <1>9 DEF Leaves
  <2>2. pc[current] = "c_bye" /\ pc'[current] = "c_exit"
    BY <2>1, StepMoves
  <2>3. /\ queue[0] = <<>> /\ queue[1] = <<>> /\ reg[0].kind # "Ask"
        /\ \A p \in Pid \ {0} : ~Awaiting(p)
    BY <1>0, <2>2, ClientSilent
  <2>4. queue'[0] = <<[word |-> Bye, cap |-> NoCap]>> /\ queue'[1] = <<>> /\ kont' = kont
    BY <1>0, <2>1, <2>3 DEF SendsWord
  <2>5. ~Awaiting(c)'
    BY <1>0, <1>c, <2>2, <2>4 DEF Awaiting
  <2>6. HasToken(c)'
    BY <1>3, <1>c, <2>2 DEF Token
  <2>7. Holding(0)' /\ queue'[0][1].word.kind = "Bye"
    BY <2>4 DEF Holding, Bye, Msg
  <2>8. Silent'
    BY <1>0, <1>c, <2>2, <2>3, <2>4, <2>6, <2>7 DEF Silent, Leaving
  <2> QED
    BY <1>2, <1>c, <2>3, <2>5, <2>8 DEF Talk
<1> QED
  BY <1>4, <1>5, <1>6, <1>7, <1>8, <1>9, ClientShapes

(* The root task answers the request it was asked. *)
LEMMA RootTalk == ASSUME Base, Token, Talk, Root PROVE Talk'
<1>0. /\ current = 0 /\ bits' = bits /\ queue \in [EndpointId -> Seq(Message)]
      /\ 0 \in EndpointId /\ 1 \in EndpointId /\ reg \in [Pid -> Words \cup {NoWord}] /\ 0 \in Pid
  BY RootShapes, Ground DEF RootQuiet, RootFrames, RootSpawns, RootGrants, RootReaps,
     RootSignals, RootListens, RootReplies, RootEnds, SameLocals, Base, LocalTypes
<1>1. \A q \in Pid \ {0} : pc'[q] = pc[q] /\ kont'[q] = kont[q]
  BY <1>0, StepKont, StepLabels DEF BootNext
<1>2. \A q \in Pid \ {0} : /\ Awaiting(q)' <=> Awaiting(q)
                           /\ HasToken(q)' <=> HasToken(q)
                           /\ Expected(pc'[q]) = Expected(pc[q])
  BY <1>0, <1>1 DEF Awaiting, HasToken
<1>3. CASE RootReplies
  <2>1. PICK w \in Words, c \in CapEntry :
           /\ w.kind \in {"Reply", "Refusal"} /\ w.op = reg[0].op
           /\ queue' = [queue EXCEPT ![1] = Append(@, [word |-> w, cap |-> c])]
    BY <1>0, <1>3 DEF RootReplies
  <2>2. reg[0].kind = "Ask" /\ reg'[0] = NoWord
    BY <1>0, <1>3 DEF RootReplies
  <2>3. ASSUME NEW q \in Pid \ {0}, Awaiting(q) PROVE Answered(q)'
    <3>1. AtService(q)
      BY <2>2, <2>3 DEF Talk, OnItsWay, Answered
    <3>2. queue'[0] = <<>> /\ queue'[1] = <<[word |-> w, cap |-> c]>>
      BY <1>0, <2>1, <3>1 DEF AtService
    <3>3. Holding(1)' /\ queue'[1][1].word = w
      BY <3>2 DEF Holding
    <3>4. Fits(q, reg[0])
      BY <3>1 DEF AtService
    <3>5. Expected(pc'[q]) \in {w.op, "any"}
      BY <1>2, <2>1, <3>4 DEF Fits
    <3>6. reg'[0].kind # "Ask"
      BY <2>2 DEF NoWord, Msg
    <3> QED
      BY <2>1, <3>2, <3>3, <3>5, <3>6 DEF Answered, Fits
  <2>4. \E q \in Pid \ {0} : Awaiting(q)
    BY <2>2 DEF Talk, Silent
  <2> QED
    BY <1>2, <2>3, <2>4 DEF Talk
<1>4. CASE ~RootReplies
  <2>1. queue' = queue /\ reg' = reg
    BY <1>4, RootShapes DEF RootQuiet, RootFrames, RootSpawns, Spawn, spawn, RootGrants,
       sys_cap_grant, RootReaps, Enters, RootSignals, RootListens, RootEnds, exit_inner, ipc,
       SameLocals
  <2> QED
    BY <1>1, <1>2, <2>1, TalkKept
<1> QED
  BY <1>3, <1>4

(* A message leaves its queue: the service takes the request or the BYE,   *)
(* and the client the answer.                                              *)
LEMMA RecvTalk ==
  ASSUME Base, Token, Talk, k_recv
  PROVE  /\ Talk'
         /\ current # 0 => /\ reg'[current].kind \in {"Reply", "Refusal"}
                           /\ Expected(pc[current]) \in {reg'[current].op, "any"}
<1>0. /\ current \in Pid /\ queue \in [EndpointId -> Seq(Message)] /\ kont \in [Pid -> Kont]
      /\ 0 \in EndpointId /\ 1 \in EndpointId /\ reg \in [Pid -> Words \cup {NoWord}] /\ 0 \in Pid
      /\ kont[current].op = "Recv" /\ pc' = pc /\ bits' = bits
  BY Ground DEF k_recv, try_recv, InLoop, Base, LocalTypes
<1>1. /\ queue' = [queue EXCEPT ![kont[current].id] = Tail(@)] /\ queue[kont[current].id] # <<>>
      /\ kont' = [kont EXCEPT ![current] = UserMode]
      /\ reg' = [reg EXCEPT ![current] = Head(queue[kont[current].id]).word]
  BY DEF k_recv, try_recv
<1>2. \A e \in EndpointId : Holding(e) => Tail(queue[e]) = <<>> /\ Head(queue[e]) = queue[e][1]
  <2> SUFFICES ASSUME NEW s \in Seq(Message), Len(s) = 1 PROVE Tail(s) = <<>> /\ Head(s) = s[1]
    BY <1>0 DEF Holding
  <2>1. Tail(s) \in Seq(Message) /\ Len(Tail(s)) = 0
    OBVIOUS
  <2>2. Tail(s) = <<>>
    BY <2>1, EmptySeq
  <2>3. Head(s) = s[1]
    OBVIOUS
  <2> QED
    BY <2>2, <2>3
<1>3. CASE current = 0
  <2>1. kont[0].id = 0
    BY <1>0, <1>3 DEF Base, Loops
  <2>2. /\ queue[0] # <<>> /\ queue'[0] = Tail(queue[0]) /\ queue'[1] = queue[1]
        /\ reg'[0] = Head(queue[0]).word
        /\ \A q \in Pid \ {0} : kont'[q] = kont[q]
    BY <1>0, <1>1, <1>3, <2>1
  <2>3. \A q \in Pid \ {0} : Awaiting(q)' <=> Awaiting(q)
    BY <1>0, <2>2 DEF Awaiting
  <2>4. ASSUME NEW q \in Pid \ {0}, Awaiting(q) PROVE AtService(q)'
    <3>1. OnItsWay(q)
      BY <2>2, <2>4 DEF Talk, AtService, Answered
    <3>2. queue'[0] = <<>> /\ queue'[1] = <<>> /\ reg'[0] = queue[0][1].word
      BY <1>0, <1>2, <2>2, <3>1 DEF OnItsWay
    <3> QED
      BY <1>0, <3>1, <3>2 DEF OnItsWay, AtService, Fits
  <2>5. ASSUME \A q \in Pid \ {0} : ~Awaiting(q) PROVE Silent'
    <3>1. Leaving /\ queue[1] = <<>>
      BY <2>2, <2>5 DEF Talk, Silent
    <3>2. queue'[0] = <<>> /\ reg'[0].kind = "Bye"
      BY <1>0, <1>2, <2>2, <3>1 DEF Leaving
    <3> QED
      BY <2>2, <3>1, <3>2 DEF Silent
  <2> QED
    BY <1>3, <2>3, <2>4, <2>5 DEF Talk
<1>4. CASE current # 0
  <2>c. PICK c \in Pid \ {0} : c = current
    BY <1>0, <1>4
  <2>1. kont[c].id = 1 /\ pc[c] \in RecvLabels /\ Awaiting(c)
    BY <1>0, <2>c DEF Base, Loops, Awaiting
  <2>2. /\ queue[1] # <<>> /\ queue'[1] = Tail(queue[1]) /\ queue'[0] = queue[0]
        /\ reg'[c] = Head(queue[1]).word /\ reg'[0] = reg[0]
        /\ kont'[c] = UserMode /\ \A q \in Pid : q # c => kont'[q] = kont[q]
    BY <1>0, <1>1, <2>c, <2>1
  <2>3. Answered(c)
    BY <2>1, <2>2 DEF Talk, OnItsWay, AtService
  <2>4. queue'[1] = <<>> /\ reg'[c] = queue[1][1].word /\ queue'[0] = <<>>
    BY <1>0, <1>2, <2>2, <2>3 DEF Answered
  <2>5. Silent'
    BY <2>2, <2>3, <2>4 DEF Silent, Answered
  <2>6. ~Awaiting(c)'
    BY <1>0, <2>1, <2>2 DEF Awaiting, UserMode, Loop, RecvLabels, AskLabels
  <2>7. ASSUME NEW q \in Pid \ {0}, q # c PROVE ~Awaiting(q)'
    <3>1. ~Awaiting(q)
      BY <2>1, <2>7, AwaitsWithToken DEF Token
    <3> QED
      BY <1>0, <2>2, <2>7, <3>1 DEF Awaiting
  <2>8. reg'[c].kind \in {"Reply", "Refusal"} /\ Expected(pc[c]) \in {reg'[c].op, "any"}
    BY <2>3, <2>4 DEF Answered, Fits
  <2> QED
    BY <2>c, <2>5, <2>6, <2>7, <2>8 DEF Talk
<1> QED
  BY <1>3, <1>4

(* A kernel step keeps the state of the conversation between client and root
   task. *)
LEMMA KernelTalk == ASSUME Base, Token, Talk, InKernel \/ k_preempt PROVE Talk'
<1>1. CASE k_recv
  BY <1>1, RecvTalk
<1>2. CASE k_wait \/ k_wait_pid \/ k_block \/ k_preempt
  <2>0. current \in Pid /\ kont \in [Pid -> Kont] /\ bits \in [Pid -> SUBSET Bits]
    BY Ground DEF Base, LocalTypes
  <2>1. pc' = pc /\ queue' = queue /\ reg' = reg
    BY <1>2 DEF k_wait, k_wait_pid, k_block, k_preempt, poll_take, wait_pid, recv_block,
       wait_block, timer_preempt, ipc, locals
  <2>2. \/ kont' = kont
        \/ kont' = [kont EXCEPT ![current] = UserMode] /\ kont[current].op # "Recv"
    BY <1>2 DEF k_wait, k_wait_pid, k_block, k_preempt, poll_take, wait_pid, recv_block,
       wait_block, timer_preempt, InLoop
  <2>3. \A q \in Pid : kont'[q].op = "Recv" <=> kont[q].op = "Recv"
    BY <2>0, <2>2 DEF UserMode, Loop
  <2>4. \A q \in Pid : Awaiting(q)' <=> Awaiting(q)
    BY <2>1, <2>3 DEF Awaiting
  <2>5. \A q \in Pid : bits[q] \subseteq bits'[q]
    BY <1>2, <2>0 DEF k_wait, k_wait_pid, k_block, k_preempt, locals
  <2>6. \A q \in Pid : HasToken(q) => HasToken(q)'
    BY <2>5 DEF HasToken
  <2> QED
    BY <2>1, <2>4, <2>6, TalkKept
<1> QED
  BY <1>1, <1>2 DEF InKernel

(* A client gets the answer to its own request. *)
LEMMA StepReply == ASSUME Base, Token, Conversation, BootNext PROVE ReplyToAsker'
<1>0. Talk /\ current \in Pid /\ reg \in [Pid -> Words \cup {NoWord}] /\ kont \in [Pid -> Kont]
  BY Ground DEF Conversation, Talk, Base, LocalTypes
<1>labels. DOMAIN Replied = {"c_mapped", "c_mask", "c_got"}
  BY DEF Replied
<1> SUFFICES ASSUME NEW p \in Pid, pc'[p] \in DOMAIN Replied, kont'[p] = UserMode
             PROVE  reg'[p].kind \in {"Reply", "Refusal"} /\ reg'[p].op = Replied[pc'[p]]
  BY DEF ReplyToAsker
<1>1. p # 0
  BY <1>labels, StepLabels DEF RootLabels, Before
<1>same. ASSUME pc'[p] = pc[p], kont'[p] = kont[p], reg'[p] = reg[p]
         PROVE  reg'[p].kind \in {"Reply", "Refusal"} /\ reg'[p].op = Replied[pc'[p]]
  BY <1>same DEF Conversation, ReplyToAsker
<1>2. CASE p # current
  <2>1. pc'[p] = pc[p] /\ kont'[p] = kont[p]
    BY <1>2, StepLabels, StepKont
  <2>2. reg'[p] = reg[p]
    <3>1. reg' = reg \/ \E w : reg' = [reg EXCEPT ![current] = w]
      <4>1. CASE Client
        BY <4>1, ClientShapes DEF SameLocals
      <4>2. CASE Root
        BY <4>2, RootShapes DEF RootQuiet, RootFrames, RootSpawns, RootGrants, RootReaps,
           RootSignals, RootListens, RootReplies, RootEnds, SameLocals
      <4>3. CASE InKernel \/ k_preempt
        BY <4>3 DEF InKernel, k_recv, k_wait, k_wait_pid, k_block, k_preempt, locals
      <4> QED
        BY <4>1, <4>2, <4>3 DEF BootNext
    <3> QED
      BY <1>0, <1>2, <3>1
  <2> QED
    BY <2>1, <2>2, <1>same
<1>3. CASE p = current /\ Client
  <2>1. ASSUME NEW l, NEW m, Step(l, m), m \notin DOMAIN Replied PROVE FALSE
    BY <1>3, <2>1, StepMoves
  <2>2. /\ \A e \in QuietEdges : e[2] \notin DOMAIN Replied
        /\ \A e \in AskEdges : e[2] \notin DOMAIN Replied
        /\ \A e \in EndEdges : e[2] \notin DOMAIN Replied
    <3>1. \A e \in QuietEdges : e[2] \notin DOMAIN Replied
      BY <1>labels DEF QuietEdges
    <3>2. \A e \in AskEdges : e[2] \notin DOMAIN Replied
      BY <1>labels DEF AskEdges
    <3>3. \A e \in EndEdges : e[2] \notin DOMAIN Replied
      BY <1>labels DEF EndEdges
    <3> QED
      BY <3>1, <3>2, <3>3
  <2>3. ~Quiet /\ ~Asks /\ ~Ends
    BY <2>1, <2>2, <1>labels DEF Quiet, Asks, Ends, Moves
  <2>4. ~Leaves /\ ~Waits /\ ~Reaps /\ ~Spawns /\ ~Kills
    BY <2>1, <1>labels DEF Leaves, Waits, Reaps, Spawns, Spawn, Kills
  <2>5. Listens
    BY <1>3, <2>3, <2>4, ClientShapes
  <2>6. kont'[p].op = "Recv"
    BY <1>0, <1>3, <2>5 DEF Listens, Enters, Loop
  <2> QED
    BY <2>6 DEF UserMode, Loop
<1>4. CASE p = current /\ k_recv
  <2>1. pc'[p] = pc[p] /\ reg'[p].kind \in {"Reply", "Refusal"}
        /\ Expected(pc[p]) \in {reg'[p].op, "any"}
    BY <1>0, <1>1, <1>4, RecvTalk, KernelStays DEF InKernel
  <2>2. Expected(pc[p]) = Replied[pc[p]] /\ Expected(pc[p]) # "any"
    BY <1>labels, <2>1 DEF Expected, Replied
  <2> QED
    BY <2>1, <2>2
<1>5. CASE p = current /\ (k_wait \/ k_wait_pid)
  <2>1. kont[p].op \in {"Wait", "WaitPid"} /\ pc'[p] = pc[p]
    BY <1>5, KernelStays DEF InKernel, k_wait, k_wait_pid, poll_take, wait_pid, InLoop
  <2>2. pc[p] \in {"c_ready", "c_recv", "c_crash", "c_frame"}
    BY <1>1, <2>1 DEF Base, Loops
  <2> QED
    BY <1>labels, <2>1, <2>2
<1>6. CASE p = current /\ (k_block \/ k_preempt)
  <2>1. UNCHANGED <<pc, kont, reg>>
    BY <1>6 DEF k_block, k_preempt, recv_block, wait_block, timer_preempt, locals
  <2> QED
    BY <2>1, <1>same
<1>7. CASE p = current /\ Root
  BY <1>1, <1>7, RootShapes
<1> QED
  BY <1>2, <1>3, <1>4, <1>5, <1>6, <1>7 DEF BootNext, InKernel

(* Every step keeps the whole conversation invariant: requests, replies and
   reply capabilities agree with the two programs' labels. *)
LEMMA StepConversation == ASSUME Base, Token, Conversation, BootNext PROVE Conversation'
<1>1. Talk
  BY DEF Talk, Conversation
<1>2. Talk'
  BY <1>1, ClientTalk, RootTalk, KernelTalk DEF BootNext
<1> QED
  BY <1>2, StepReply DEF Talk, Conversation
-----------------------------------------------------------------------------
(* Parents and children.                                                   *)

(* A process ends by itself, or the client kills its child; and who has    *)
(* ended stays as it ended.                                                *)
LEMMA StepEnds ==
  ASSUME Base, Family, BootNext
  PROVE  /\ \A t \in Pid : state[t] = "Done" => state'[t] = "Done" /\ exit_code'[t] = exit_code[t]
         /\ \A t \in Pid : state'[t] = "Done" /\ state[t] # "Done" =>
               \/ t = current /\ (Ends \/ RootEnds)
               \/ Kills /\ t = caps[current][DOOMED_SLOT].object
         /\ ~halted' => state'[current'] # "Done"
<1> DEFINE Goal ==
      /\ \A t \in Pid : state[t] = "Done" => state'[t] = "Done" /\ exit_code'[t] = exit_code[t]
      /\ \A t \in Pid : state'[t] = "Done" /\ state[t] # "Done" =>
            \/ t = current /\ (Ends \/ RootEnds)
            \/ Kills /\ t = caps[current][DOOMED_SLOT].object
      /\ ~halted' => state'[current'] # "Done"
<1>0. /\ current \in Pid /\ TypeOK /\ Inv /\ state \in [Pid -> State]
      /\ exit_code \in [Pid -> Nat] /\ (~halted => state[current] # "Done")
  BY Ground DEF Base, Inv, Family
<1>calm. ASSUME UNCHANGED <<state, exit_code>>, ~halted,
                current' = current \/ state[current'] = "Ready"
         PROVE  Goal
  BY <1>0, <1>calm
<1>woken. ASSUME Woken, exit_code' = exit_code, ~halted PROVE Goal
  BY <1>0, <1>woken DEF Woken
<1>spawn. ASSUME NEW slot, Installs(slot), ~halted PROVE Goal
  <2>1. /\ next_pid \in Pid /\ state[next_pid] = "Absent" /\ next_pid # current
        /\ current' = current /\ exit_code' = exit_code
        /\ state' = [state EXCEPT ![next_pid] = "Ready"]
    BY <1>spawn, SpawnResult
  <2> QED
    BY <1>0, <1>spawn, <2>1
<1>yield. ASSUME yield_now
          PROVE  UNCHANGED <<state, halted>> /\ (current' = current \/ state[current'] = "Ready")
  BY <1>0, <1>yield, PickIsReady DEF yield_now
<1>exit. ASSUME NEW c, exit_inner(c), ~halted, Ends \/ RootEnds PROVE Goal
  <2> DEFINE done == [state EXCEPT ![current] = "Done"]
  <2>1. exit_code' = [exit_code EXCEPT ![current] = c] /\ state' = done
    BY <1>exit DEF exit_inner
  <2>2. halted' \/ done[current'] = "Ready"
    BY <1>0, <1>exit, PickIsReady DEF exit_inner
  <2> QED
    BY <1>0, <1>exit, <2>1, <2>2
<1>park. ASSUME NEW r, block_on(r), exit_code' = exit_code, ~halted PROVE Goal
  <2> DEFINE parked == [state EXCEPT ![current] = "Blocked"]
  <2>1. \/ state' = parked /\ parked[current'] = "Ready"
        \/ state' = [state EXCEPT ![current] = "Ready"] /\ current' = current
    BY <1>0, <1>park, PickIsReady DEF block_on
  <2> QED
    BY <1>0, <1>park, <2>1
<1> HIDE DEF Goal
<1>goal. SUFFICES Goal
  BY <1>goal DEF Goal
<1>1. CASE Client
  <2>0. ~halted
    BY <1>1, ClientShapes DEF InUser
  <2>1. CASE Quiet
    BY <2>0, <2>1, <1>calm DEF Quiet
  <2>2. CASE Asks \/ Leaves
    BY <2>0, <2>2, <1>woken DEF Asks, Leaves, SendsWord
  <2>3. CASE Listens \/ Waits \/ Reaps
    BY <2>0, <2>3, <1>calm DEF Listens, Waits, Reaps, Enters
  <2>4. CASE Spawns
    BY <2>0, <2>4, <1>spawn DEF Spawns, Installs
  <2>5. CASE Kills
    <3> DEFINE t == caps[current][DOOMED_SLOT].object
    <3>1. /\ state[t] # "Done" /\ exit_code' = [exit_code EXCEPT ![t] = SIGTERM]
          /\ state' = [state EXCEPT ![t] = "Done"] /\ current' = current
          /\ IsHandle(caps[current][DOOMED_SLOT])
      BY <2>5 DEF Kills, kill, process_target, holds, IsHandle
    <3>2. t > current /\ current \in Nat
      BY <1>0, <3>1, Ground, SlotNumbers DEF Family, Handles
    <3>3. t # current
      <4> HIDE DEF t
      <4> QED
        BY <3>2
    <3> HIDE DEF t
    <3>4. \A q \in Pid : q # t => state'[q] = state[q] /\ exit_code'[q] = exit_code[q]
      BY <1>0, <3>1
    <3> QED
      BY <1>0, <2>0, <2>5, <3>1, <3>3, <3>4 DEF Goal, t
  <2>6. CASE Ends
    BY <2>0, <2>6, <1>exit DEF Ends
  <2> QED
    BY <1>1, <2>1, <2>2, <2>3, <2>4, <2>5, <2>6, ClientShapes
<1>2. CASE Root
  <2>0. ~halted
    BY <1>2, RootShapes DEF InUser
  <2>1. CASE RootQuiet \/ RootFrames
    BY <2>0, <2>1, <1>calm DEF RootQuiet, RootFrames
  <2>2. CASE RootSpawns
    BY <2>0, <2>2, <1>spawn DEF RootSpawns, Installs
  <2>3. CASE RootGrants
    <3>1. UNCHANGED <<state, exit_code, current>>
      BY <2>3 DEF RootGrants, sys_cap_grant, sched
    <3> QED
      BY <2>0, <3>1, <1>calm
  <2>4. CASE RootReaps \/ RootListens
    BY <2>0, <2>4, <1>calm DEF RootReaps, RootListens, Enters
  <2>5. CASE RootSignals \/ RootReplies
    BY <2>0, <2>5, <1>woken DEF RootSignals, RootReplies
  <2>6. CASE RootEnds
    BY <2>0, <2>6, <1>exit DEF RootEnds
  <2> QED
    BY <1>2, <2>1, <2>2, <2>3, <2>4, <2>5, <2>6, RootShapes
<1>3. CASE k_recv \/ k_wait
  BY <1>3, <1>calm DEF k_recv, k_wait, try_recv, poll_take, InLoop, sched
<1>4. CASE k_wait_pid
  BY <1>4, <1>calm, <1>yield DEF k_wait_pid, wait_pid, InLoop, sched
<1>5. CASE k_block
  BY <1>5, <1>park DEF k_block, recv_block, wait_block, InLoop
<1>6. CASE k_preempt
  BY <1>6, <1>calm, <1>yield DEF k_preempt, timer_preempt, InUser
<1> QED
  BY <1>1, <1>2, <1>3, <1>4, <1>5, <1>6 DEF BootNext, InKernel

(* Frames travel, and handles do not. *)
LEMMA StepTravelling == ASSUME Base, Travelling, BootNext PROVE Travelling'
<1>0. /\ queue \in [EndpointId -> Seq(Message)] /\ 0 \in EndpointId /\ 1 \in EndpointId
      /\ 0 \in Pid /\ caps \in [Pid -> CNode] /\ GRANT_SRC_SLOT \in Slot /\ current \in Pid
  BY Ground, SlotNumbers, SMTT(60)
<1>send. ASSUME NEW e \in EndpointId, NEW w, NEW c, FramesOnly(c),
                queue' = [queue EXCEPT ![e] = Append(@, [word |-> w, cap |-> c])],
                NEW f \in EndpointId, NEW i \in 1 .. Len(queue'[f])
         PROVE  FramesOnly(queue'[f][i].cap)
  <2>1. CASE f # e
    BY <1>0, <1>send, <2>1 DEF Travelling
  <2>2. CASE f = e
    <3> DEFINE s == queue[e]
               x == [word |-> w, cap |-> c]
    <3>1. queue'[e] = Append(s, x) /\ s \in Seq(Message) /\ x.cap = c
      BY <1>0, <1>send
    <3>2. Len(Append(s, x)) = Len(s) + 1 /\ Len(s) \in Nat
          /\ \A j \in 1 .. Len(s) + 1 : Append(s, x)[j] = IF j <= Len(s) THEN s[j] ELSE x
      BY <3>1
    <3>3. \A j \in 1 .. Len(s) : FramesOnly(s[j].cap)
      BY DEF Travelling
    <3> HIDE DEF s, x
    <3>4. queue'[f] = Append(s, x) /\ i \in 1 .. Len(s) + 1
      BY <2>2, <3>1, <3>2
    <3>5. CASE i <= Len(s)
      <4>1. i \in 1 .. Len(s) /\ queue'[f][i] = s[i]
        BY <3>2, <3>4, <3>5
      <4> QED
        BY <3>3, <4>1
    <3>6. CASE ~(i <= Len(s))
      <4>1. queue'[f][i] = x
        BY <3>2, <3>4, <3>6
      <4> QED
        BY <1>send, <3>1, <4>1
    <3> QED
      BY <3>5, <3>6
  <2> QED
    BY <2>1, <2>2
<1>recv. ASSUME NEW e \in EndpointId, queue[e] # <<>>, queue' = [queue EXCEPT ![e] = Tail(@)],
                NEW f \in EndpointId, NEW i \in 1 .. Len(queue'[f])
         PROVE  FramesOnly(queue'[f][i].cap)
  <2>1. CASE f # e
    BY <1>0, <1>recv, <2>1 DEF Travelling
  <2>2. CASE f = e
    <3> DEFINE s == queue[e]
    <3>1. queue'[e] = Tail(s) /\ s \in Seq(Message) /\ s # <<>>
      BY <1>0, <1>recv
    <3>2. Len(Tail(s)) = Len(s) - 1 /\ Len(s) \in Nat
          /\ \A j \in 1 .. Len(s) - 1 : Tail(s)[j] = s[j + 1]
      BY <3>1
    <3>3. \A j \in 1 .. Len(s) : FramesOnly(s[j].cap)
      BY DEF Travelling
    <3> HIDE DEF s
    <3> QED
      BY <1>recv, <2>2, <3>1, <3>2, <3>3, SMTT(60)
  <2> QED
    BY <2>1, <2>2
<1> DEFINE Goal == \A f \in EndpointId : \A i \in 1 .. Len(queue'[f]) : FramesOnly(queue'[f][i].cap)
<1>same. queue' = queue => Goal
  BY DEF Travelling
<1>1. Goal
  <2>1. CASE Client
    <3>1. CASE Asks \/ Leaves
      <4>1. \E w : queue' = [queue EXCEPT ![0] = Append(@, [word |-> w, cap |-> NoCap])]
        BY <3>1 DEF Asks, Leaves, SendsWord
      <4>2. FramesOnly(NoCap)
        BY DEF FramesOnly, NoCap, Cap
      <4> QED
        BY <1>0, <4>1, <4>2, <1>send
    <3>2. CASE ~(Asks \/ Leaves)
      <4>1. queue' = queue
        BY <2>1, <3>2, ClientShapes DEF Quiet, Listens, Waits, Reaps, Enters, Spawns, Spawn, spawn,
           Kills, kill, Ends, exit_inner, ipc
      <4> QED
        BY <4>1, <1>same
    <3> QED
      BY <3>1, <3>2
  <2>2. CASE Root
    <3>1. CASE RootReplies
      <4>1. \E w, c : FramesOnly(c)
               /\ queue' = [queue EXCEPT ![1] = Append(@, [word |-> w, cap |-> c])]
        BY <3>1 DEF RootReplies
      <4> QED
        BY <1>0, <4>1, <1>send
    <3>2. CASE ~RootReplies
      <4>1. queue' = queue
        BY <2>2, <3>2, RootShapes DEF RootQuiet, RootFrames, RootSpawns, Spawn, spawn, RootGrants,
           sys_cap_grant, RootReaps, Enters, RootSignals, RootListens, RootEnds, exit_inner, ipc
      <4> QED
        BY <4>1, <1>same
    <3> QED
      BY <3>1, <3>2
  <2>3. CASE k_recv
    <3>1. kont[current].id \in EndpointId /\ queue[kont[current].id] # <<>>
          /\ queue' = [queue EXCEPT ![kont[current].id] = Tail(@)]
      BY <1>0, <2>3 DEF k_recv, try_recv, InLoop, Base, Inv, LoopsOnObjects
    <3> QED
      BY <3>1, <1>recv
  <2>4. CASE k_wait \/ k_wait_pid \/ k_block \/ k_preempt
    <3>1. queue' = queue
      BY <2>4 DEF k_wait, k_wait_pid, k_block, k_preempt, poll_take, wait_pid, recv_block,
         wait_block, timer_preempt, ipc
    <3> QED
      BY <3>1, <1>same
  <2> QED
    BY <2>1, <2>2, <2>3, <2>4 DEF BootNext, InKernel
<1>2. ASSUME pc'[0] \in {"r_child", "r_grant"} PROVE caps'[0][GRANT_SRC_SLOT].type = "Frame"
  <2>1. CASE pc[0] \in {"r_child", "r_grant"}
    <3>1. caps[0][GRANT_SRC_SLOT].type = "Frame"
      BY <2>1 DEF Travelling
    <3>2. caps[0][GRANT_SRC_SLOT] # NoCap
      BY <3>1 DEF NoCap, Cap
    <3> QED
      BY <1>0, <3>1, <3>2, CapsGrow
  <2>2. CASE pc[0] \notin {"r_child", "r_grant"}
    <3>1. current = 0 /\ Root
      <4>1. current = 0
        BY <1>0, <1>2, <2>2, StepLabels
      <4> QED
        BY <1>2, <2>2, <4>1, ClientShapes, KernelStays DEF BootNext
    <3>2. RootFrames /\ pc[0] = "r_frame"
      <4>1. ASSUME NEW l, NEW m, Step(l, m) PROVE pc[0] = l /\ m \in {"r_child", "r_grant"}
        BY <1>2, <3>1, <4>1, StepMoves
      <4>2. /\ \A e \in RootEdges : e[2] \notin {"r_child", "r_grant"}
            /\ \A e \in FrameEdges : e[2] \in {"r_child", "r_grant"} => e[1] = "r_frame"
        BY DEF RootEdges, FrameEdges
      <4>3. ~RootQuiet /\ (RootFrames => pc[0] = "r_frame")
        BY <4>1, <4>2 DEF RootQuiet, RootFrames, Moves
      <4>4. ~RootSpawns /\ ~RootGrants /\ ~RootReaps
        BY <2>2, <4>1 DEF RootSpawns, Spawn, RootGrants, RootReaps
      <4>5. ~RootSignals /\ ~RootListens /\ ~RootReplies /\ ~RootEnds
        BY <4>1 DEF RootSignals, RootListens, RootReplies, RootEnds
      <4> QED
        BY <3>1, <4>3, <4>4, <4>5, RootShapes
    <3>3. PICK slot \in Nat :
             /\ caps' = [caps EXCEPT ![current] = insert(@, slot, Cap("Frame", slot))]
             /\ slot = GRANT_SRC_SLOT /\ insert_ok(caps[current], slot)
      BY <3>1, <3>2 DEF RootFrames
    <3>4. caps'[0][GRANT_SRC_SLOT] = Cap("Frame", slot)
      BY <1>0, <3>1, <3>3 DEF insert, CNode
    <3> QED
      BY <3>4 DEF Cap
  <2> QED
    BY <2>1, <2>2
<1> QED
  BY <1>1, <1>2 DEF Travelling

(* Handles stay where they are, and new ones are those of a spawn. *)
LEMMA HandleOrigin ==
  ASSUME Base, Travelling, BootNext, NEW p \in Pid, NEW i \in Slot, IsHandle(caps'[p][i])
  PROVE  \/ /\ IsHandle(caps[p][i]) /\ caps'[p][i] = caps[p][i]
            /\ caps[p][i].object \in 1 .. next_pid - 1 /\ caps[p][i].object \in Pid
         \/ /\ p = current /\ Installs(i) /\ caps[p][i] = NoCap
            /\ caps'[p][i].object = next_pid
<1>1. ~FramesOnly(caps'[p][i])
  BY DEF FramesOnly, IsHandle
<1>2. CASE caps'[p][i] = caps[p][i]
  <2>1. caps[p][i].object \in 1 .. next_pid - 1 /\ next_pid \in 1 .. MAX_PROCS
    BY <1>2 DEF IsHandle, Base, Inv, CapsNameObjects, NamesObject, TypeOK
  <2>2. caps[p][i].object \in Pid
    BY <2>1, KernelAssumption DEF Pid
  <2> QED
    BY <1>2, <2>1, <2>2
<1>3. CASE /\ caps[p][i] = NoCap /\ caps'[p][i] = Cap("Process", next_pid)
           /\ p = current /\ Installs(i)
  BY <1>3 DEF Cap
<1> QED
  BY <1>1, <1>2, <1>3, CapsGrow

(* The role of a process that exists stays. *)
LEMMA RoleStays ==
  ASSUME Base, BootNext, NEW p \in Pid
  PROVE  \/ role'[p] = role[p]
         \/ /\ p = next_pid /\ p # current /\ pc'[p] = "start" /\ state'[p] = "Ready"
            /\ state[p] = "Absent"
<1>1. CASE \E slot \in 10 .. 12 : Installs(slot)
  <2>1. PICK slot \in 10 .. 12 : Installs(slot)
    BY <1>1
  <2>2. /\ \E r \in Role : role' = [role EXCEPT ![next_pid] = r]
        /\ state' = [state EXCEPT ![next_pid] = "Ready"] /\ next_pid \in Pid
        /\ state[next_pid] = "Absent" /\ next_pid # current
    BY <2>1, SpawnResult
  <2>3. CASE p # next_pid
    BY <2>2, <2>3 DEF Base, LocalTypes
  <2>4. CASE p = next_pid
    <3>1. pc'[p] = pc[p]
      BY <2>2, <2>4, StepLabels
    <3>2. pc[p] = "start"
      BY <2>2, <2>4 DEF Base, Programs
    <3>3. state'[p] = "Ready"
      BY <2>2, <2>4, Ground
    <3> QED
      BY <2>2, <2>4, <3>1, <3>2, <3>3
  <2> QED
    BY <2>3, <2>4
<1> QED
  BY <1>1, SpawnOrNot

(* The edges of a client, and where they cannot lead back from. *)
OtherEdges ==
    {<<"c_bye", "c_exit">>, <<"c_ready", "c_ready">>, <<"c_wait", "c_recv">>,
     <<"c_kill_w", "c_crash">>, <<"c_crash_w", "c_frame">>, <<"c_env", "c_log">>,
     <<"c_doomed", "c_doomed_y">>, <<"c_crash", "c_crash_w">>, <<"c_kill", "c_kill_w">>,
     <<"crash", "end">>}
(* A step of the client's code follows one of the edges of its listing. *)
LEMMA ClientEdge ==
  ASSUME Base, Client
  PROVE  \E e \in QuietEdges \cup AskEdges \cup ListenEdges \cup EndEdges \cup OtherEdges :
            Step(e[1], e[2])
<1>1. CASE Quiet \/ Asks \/ Listens
  BY <1>1 DEF Quiet, Asks, Listens, Moves
<1>edge. ASSUME NEW l, NEW m, <<l, m>> \in OtherEdges, Step(l, m)
         PROVE  \E e \in OtherEdges : Step(e[1], e[2])
  <2>1. <<l, m>>[1] = l /\ <<l, m>>[2] = m
    OBVIOUS
  <2> QED
    BY <1>edge, <2>1
<1>names. /\ <<"c_bye", "c_exit">> \in OtherEdges /\ <<"c_ready", "c_ready">> \in OtherEdges
          /\ <<"c_wait", "c_recv">> \in OtherEdges /\ <<"c_kill_w", "c_crash">> \in OtherEdges
          /\ <<"c_crash_w", "c_frame">> \in OtherEdges /\ <<"c_env", "c_log">> \in OtherEdges
          /\ <<"c_doomed", "c_doomed_y">> \in OtherEdges /\ <<"crash", "end">> \in OtherEdges
          /\ <<"c_crash", "c_crash_w">> \in OtherEdges /\ <<"c_kill", "c_kill_w">> \in OtherEdges
  BY DEF OtherEdges
<1>2. CASE Ends
  BY <1>2, <1>edge, <1>names DEF Ends, Moves
<1>3. CASE Leaves \/ Waits \/ Reaps \/ Spawns \/ Kills
  BY <1>3, <1>edge, <1>names DEF Leaves, Waits, Reaps, Spawns, Spawn, Kills
<1> QED
  BY <1>1, <1>2, <1>3, ClientShapes

(* Nobody goes back: once past the doomed child, or past the crashing one, a
   program stays past it, and no program returns to its first label. *)
LEMMA LabelsStay ==
  ASSUME Base, BootNext, NEW p \in Pid \ {0}
  PROVE  /\ pc[p] \in FromDoomed => pc'[p] \in FromDoomed
         /\ pc[p] \in FromCrash => pc'[p] \in FromCrash
         /\ pc[p] # "start" => pc'[p] # "start"
<1> DEFINE Stays(l, m) == /\ l \in FromDoomed => m \in FromDoomed
                          /\ l \in FromCrash => m \in FromCrash
                          /\ m # "start"
<1>1. CASE p = current /\ Client
  <2> USE DEF FromDoomed, FromCrash, DoomedLabels, NetLabels, AskLabels
  <2>1. \A e \in QuietEdges : Stays(e[1], e[2])
    BY DEF QuietEdges
  <2>2. \A e \in AskEdges : Stays(e[1], e[2])
    BY DEF AskEdges
  <2>3. \A e \in ListenEdges : Stays(e[1], e[2])
    BY DEF ListenEdges
  <2>4. \A e \in EndEdges \cup OtherEdges : Stays(e[1], e[2])
    BY DEF EndEdges, OtherEdges
  <2> HIDE DEF FromDoomed, FromCrash, DoomedLabels, NetLabels, AskLabels, Stays
  <2>5. PICK l, m : Step(l, m) /\ Stays(l, m)
    BY <1>1, <2>1, <2>2, <2>3, <2>4, ClientEdge
  <2> QED
    BY <1>1, <2>5, StepMoves DEF Stays
<1>2. CASE p # current \/ ~Client
  <2>1. pc'[p] = pc[p]
    BY <1>2, StepLabels, KernelStays, RootShapes DEF BootNext
  <2> QED
    BY <2>1
<1> QED
  BY <1>1, <1>2

(* Children are younger than their parents, and a client's children have   *)
(* the roles it spawned them with.                                         *)
LEMMA StepHandles == ASSUME Base, Family, BootNext PROVE Handles'
<1>0. /\ current \in Pid /\ DOOMED_SLOT \in Slot /\ CRASH_SLOT \in Slot /\ Travelling /\ Handles
      /\ next_pid \in Nat /\ current < next_pid /\ role \in [Pid -> Role] /\ 0 \in Pid
  BY Ground, SlotNumbers DEF Family, Base, LocalTypes, Inv, TypeOK
<1>1. ASSUME NEW p \in Pid, NEW i \in Slot, IsHandle(caps'[p][i]) PROVE caps'[p][i].object > p
  BY <1>0, <1>1, HandleOrigin, Ground DEF Handles
<1>old. ASSUME NEW t \in 1 .. next_pid - 1, t \in Pid PROVE role'[t] = role[t]
  BY <1>old, <1>0, RoleStays
<1>2. ASSUME NEW p \in Pid \ {0}, IsHandle(caps'[p][DOOMED_SLOT])
      PROVE  pc'[p] \in FromDoomed /\ role'[caps'[p][DOOMED_SLOT].object] = "none"
  <2>1. CASE IsHandle(caps[p][DOOMED_SLOT]) /\ caps'[p][DOOMED_SLOT] = caps[p][DOOMED_SLOT]
             /\ caps[p][DOOMED_SLOT].object \in 1 .. next_pid - 1
             /\ caps[p][DOOMED_SLOT].object \in Pid
    BY <1>0, <2>1, <1>old, LabelsStay DEF Handles
  <2>2. CASE p = current /\ Installs(DOOMED_SLOT) /\ caps'[p][DOOMED_SLOT].object = next_pid
    <3>1. Spawn("c_doomed", "c_doomed_y", DOOMED_SLOT, "none")
      <4>1. ~Spawn("r_child", "r_grant", GRANT_PROC_SLOT, "granted")
        BY <2>2, StepMoves, WhoRuns DEF Spawn, RootLabels, Before
      <4> QED
        BY <2>2, <4>1, SlotNumbers DEF Installs
    <3>2. pc'[p] = "c_doomed_y" /\ role'[next_pid] = "none"
      BY <1>0, <2>2, <3>1, StepMoves, SpawnResult DEF Spawn
    <3> QED
      BY <2>2, <3>2 DEF FromDoomed, DoomedLabels
  <2> QED
    BY <1>0, <1>2, <2>1, <2>2, HandleOrigin
<1>3. ASSUME NEW p \in Pid \ {0}, IsHandle(caps'[p][CRASH_SLOT])
      PROVE  pc'[p] \in FromCrash /\ role'[caps'[p][CRASH_SLOT].object] = "crash"
  <2>1. CASE IsHandle(caps[p][CRASH_SLOT]) /\ caps'[p][CRASH_SLOT] = caps[p][CRASH_SLOT]
             /\ caps[p][CRASH_SLOT].object \in 1 .. next_pid - 1
             /\ caps[p][CRASH_SLOT].object \in Pid
    BY <1>0, <2>1, <1>old, LabelsStay DEF Handles
  <2>2. CASE p = current /\ Installs(CRASH_SLOT) /\ caps'[p][CRASH_SLOT].object = next_pid
    <3>1. Spawn("c_crash", "c_crash_w", CRASH_SLOT, "crash")
      BY <2>2, SlotNumbers DEF Installs
    <3>2. pc'[p] = "c_crash_w" /\ role'[next_pid] = "crash"
      BY <1>0, <2>2, <3>1, StepMoves, SpawnResult DEF Spawn
    <3> QED
      BY <2>2, <3>2 DEF FromCrash, NetLabels
  <2> QED
    BY <1>0, <1>3, <2>1, <2>2, HandleOrigin
<1> QED
  BY <1>1, <1>2, <1>3 DEF Handles

(* What WAIT returned is kept. *)
LEMMA TokenStays ==
  ASSUME Base, BootNext, NEW p \in Pid, HasToken(p)
  PROVE  HasToken(p)'
<1>0. bits \in [Pid -> SUBSET Bits]
  BY DEF Base, LocalTypes
<1>1. \A q \in Pid : bits[q] \subseteq bits'[q]
  <2>1. CASE Client
    BY <2>1, ClientShapes DEF SameLocals
  <2>2. CASE Root
    BY <2>2, RootShapes DEF RootQuiet, RootFrames, RootSpawns, RootGrants, RootReaps,
       RootSignals, RootListens, RootReplies, RootEnds, SameLocals
  <2>3. CASE InKernel \/ k_preempt
    BY <1>0, <2>3 DEF InKernel, k_recv, k_wait, k_wait_pid, k_block, k_preempt, locals
  <2> QED
    BY <2>1, <2>2, <2>3 DEF BootNext
<1> QED
  BY <1>1 DEF HasToken

(* A client's step from the start, from the wait for the services and from *)
(* the crash.                                                              *)
LEMMA EarlySteps ==
  ASSUME Base, Client
  PROVE  /\ pc[current] \in {"start", "c_ready", "crash"} => Quiet \/ Waits \/ Ends
         /\ pc[current] = "start" => Quiet
         /\ pc[current] = "crash" => Step("crash", "end") /\ exit_inner(EXIT_FAULT)
         /\ pc[current] = "c_ready" => HasToken(current) \/ pc'[current] = "c_ready"
         /\ pc[current] # "end"
<1>1. ASSUME NEW l, NEW m, Step(l, m) PROVE pc[current] = l /\ pc'[current] = m
  BY <1>1, StepMoves
<1> DEFINE Early == {"start", "c_ready", "crash"}
<1>2. \A e \in AskEdges \cup EndEdges : e[1] \notin Early \cup {"end"}
  BY DEF AskEdges, EndEdges
<1>3. \A e \in ListenEdges : e[1] \notin Early \cup {"end"}
  BY DEF ListenEdges
<1>4. \A e \in QuietEdges : e[1] # "crash" /\ e[1] # "end"
  BY DEF QuietEdges
<1>5. Asks \/ Listens => pc[current] \notin Early \cup {"end"}
  BY <1>1, <1>2, <1>3 DEF Asks, Listens, Moves
<1>6. Quiet => pc[current] # "crash" /\ pc[current] # "end"
  BY <1>1, <1>4 DEF Quiet, Moves
<1>7. Ends => \/ pc[current] \notin Early \cup {"end"}
              \/ pc[current] = "crash" /\ Step("crash", "end") /\ exit_inner(EXIT_FAULT)
  BY <1>1, <1>2 DEF Ends, Moves
<1>8. Waits => /\ pc[current] \notin {"start", "crash", "end"}
               /\ pc[current] = "c_ready" => pc'[current] = "c_ready"
  BY <1>1 DEF Waits
<1>9. Leaves \/ Reaps \/ Spawns \/ Kills => pc[current] \notin Early \cup {"end"}
  BY <1>1 DEF Leaves, Reaps, Spawns, Spawn, Kills
<1>10. Quiet /\ pc[current] = "c_ready" => HasToken(current)
  BY DEF Quiet
<1> QED
  BY <1>5, <1>6, <1>7, <1>8, <1>9, <1>10, ClientShapes

(* Only the one client goes past the wait, and the crashing child ends by  *)
(* its fault.                                                              *)
LEMMA StepRoles == ASSUME Base, Token, Family, BootNext PROVE Roles'
<1>0. /\ current \in Pid /\ Roles /\ Handles /\ DOOMED_SLOT \in Slot
      /\ exit_code \in [Pid -> Nat]
  BY Ground, SlotNumbers DEF Family
<1>stay. \A q \in Pid \ {0} : q # current \/ ~Client => pc'[q] = pc[q]
  BY StepLabels, KernelStays, RootShapes DEF BootNext
<1>1. ASSUME NEW p \in Pid \ {0}, role'[p] = "none", ~HasToken(p)'
      PROVE  pc'[p] \in {"start", "c_ready"}
  <2>1. CASE role'[p] = role[p]
    <3>1. ~HasToken(p) /\ pc[p] \in {"start", "c_ready"} /\ role[p] = "none"
      BY <1>0, <1>1, <2>1, TokenStays DEF Roles
    <3>2. CASE p = current /\ Client
      <4>1. CASE pc[p] = "start"
        BY <3>1, <3>2, <4>1, EarlySteps DEF Quiet
      <4>2. CASE pc[p] = "c_ready"
        BY <3>1, <3>2, <4>2, EarlySteps
      <4> QED
        BY <3>1, <4>1, <4>2
    <3> QED
      BY <1>stay, <3>1, <3>2
  <2> QED
    BY <2>1, RoleStays
<1>2. ASSUME NEW p \in Pid \ {0}, role'[p] = "crash"
      PROVE  /\ pc'[p] \in {"start", "crash", "end"}
             /\ state'[p] = "Done" => exit_code'[p] = EXIT_FAULT
  <2>1. CASE role'[p] = role[p]
    <3>1. /\ pc[p] \in {"start", "crash", "end"} /\ role[p] = "crash"
          /\ state[p] = "Done" => exit_code[p] = EXIT_FAULT
      BY <1>0, <1>2, <2>1 DEF Roles
    <3>2. pc'[p] \in {"start", "crash", "end"}
      <4>1. CASE p = current /\ Client
        <5>1. CASE pc[p] = "start"
          BY <3>1, <4>1, <5>1, EarlySteps DEF Quiet
        <5>2. CASE pc[p] = "crash"
          BY <4>1, <5>2, EarlySteps, StepMoves
        <5> QED
          BY <3>1, <4>1, <5>1, <5>2, EarlySteps
      <4> QED
        BY <1>stay, <3>1, <4>1
    <3>3. ASSUME state'[p] = "Done" PROVE exit_code'[p] = EXIT_FAULT
      <4>1. CASE state[p] = "Done"
        BY <3>1, <4>1, StepEnds
      <4>2. CASE state[p] # "Done" /\ p = current /\ (Ends \/ RootEnds)
        <5>1. Client
          <6>1. ~RootEnds
            BY <4>2, WhoRuns, StepMoves DEF RootEnds, RootLabels
          <6>2. Ends
            BY <4>2, <6>1
          <6>3. \E l, m : Step(l, m) /\ pc'[current] = m /\ l # m
            <7>1. \A e \in EndEdges : e[1] # e[2]
              BY DEF EndEdges
            <7> QED
              BY <6>2, <7>1, StepMoves DEF Ends, Moves
          <6>4. pc'[current] # pc[current]
            BY <6>3, StepMoves
          <6> QED
            BY <4>2, <6>4, KernelStays, RootShapes DEF BootNext
        <5>2. pc[p] = "crash"
          <6>1. \A e \in EndEdges : e[1] \notin {"start", "crash", "end"}
            BY DEF EndEdges
          <6>2. ~RootEnds
            BY <4>2, WhoRuns, StepMoves DEF RootEnds, RootLabels
          <6> QED
            BY <3>1, <4>2, <6>1, <6>2, StepMoves DEF Ends, Moves
        <5>3. exit_inner(EXIT_FAULT)
          BY <4>2, <5>1, <5>2, EarlySteps
        <5> QED
          BY <1>0, <4>2, <5>3 DEF exit_inner
      <4>3. CASE Kills /\ p = caps[current][DOOMED_SLOT].object
        <5>1. IsHandle(caps[current][DOOMED_SLOT]) /\ pc[current] = "c_kill"
          BY <4>3, StepMoves DEF Kills, kill, holds, IsHandle
        <5>2. current # 0
          BY <5>1, WhoRuns DEF ClientLabels, Past, DoomedLabels
        <5>3. role[p] = "none"
          BY <1>0, <4>3, <5>1, <5>2 DEF Handles
        <5> QED
          BY <3>1, <5>3
      <4> QED
        BY <3>3, <4>1, <4>2, <4>3, StepEnds
    <3> QED
      BY <3>2, <3>3
  <2>2. CASE pc'[p] = "start" /\ state'[p] = "Ready"
    BY <2>2
  <2> QED
    BY <2>1, <2>2, RoleStays
<1> QED
  BY <1>1, <1>2 DEF Roles

(* Every step keeps the family: the handles, what each child was spawned as,
   and how it can end. *)
LEMMA StepFamily == ASSUME Base, Token, Family, BootNext PROVE Family'
<1>1. Travelling' /\ Handles' /\ Roles'
  BY StepTravelling, StepHandles, StepRoles DEF Family
<1> QED
  BY <1>1, StepEnds DEF Family
-----------------------------------------------------------------------------
(* What the client finds when it reaps.                                    *)

FrameLabels == {"c_frame", "c_frame_r", "c_mapped"}

(* How a client comes to the labels around its children. *)
LEMMA DemoSteps ==
  ASSUME Base, Client
  PROVE  /\ pc'[current] = "c_doomed_y" =>
               \/ pc[current] = "c_doomed_y"
               \/ Spawn("c_doomed", "c_doomed_y", DOOMED_SLOT, "none")
         /\ pc'[current] = "c_kill" => pc[current] = "c_doomed_y"
         /\ pc'[current] = "c_kill_w" => Kills
         /\ pc'[current] = "c_crash" => \/ Quiet /\ pc[current] = "c_doomed"
                                        \/ Reaps /\ pc[current] = "c_kill_w"
         /\ pc'[current] \in FrameLabels => \/ pc[current] \in FrameLabels
                                            \/ Quiet /\ pc[current] \in {"c_env", "c_crash"}
                                            \/ Reaps /\ pc[current] = "c_crash_w"
<1> USE DEF FrameLabels
<1> DEFINE Demo == {"c_doomed_y", "c_kill", "c_kill_w", "c_crash"} \cup FrameLabels
           Leads(l, m) == /\ m \notin Demo \ FrameLabels
                          /\ m \in FrameLabels => l \in FrameLabels
           Goal == /\ pc'[current] = "c_doomed_y" =>
                         \/ pc[current] = "c_doomed_y"
                         \/ Spawn("c_doomed", "c_doomed_y", DOOMED_SLOT, "none")
                   /\ pc'[current] = "c_kill" => pc[current] = "c_doomed_y"
                   /\ pc'[current] = "c_kill_w" => Kills
                   /\ pc'[current] = "c_crash" => \/ Quiet /\ pc[current] = "c_doomed"
                                                  \/ Reaps /\ pc[current] = "c_kill_w"
                   /\ pc'[current] \in FrameLabels =>
                         \/ pc[current] \in FrameLabels
                         \/ Quiet /\ pc[current] \in {"c_env", "c_crash"}
                         \/ Reaps /\ pc[current] = "c_crash_w"
<1>1. ASSUME NEW l, NEW m, Step(l, m) PROVE pc[current] = l /\ pc'[current] = m
  BY <1>1, StepMoves
<1>2. ASSUME NEW l, NEW m, Step(l, m), Leads(l, m) PROVE Goal
  BY <1>1, <1>2
<1>3. \A e \in AskEdges \cup EndEdges : Leads(e[1], e[2])
  BY DEF AskEdges, EndEdges
<1>4. \A e \in ListenEdges : Leads(e[1], e[2])
  BY DEF ListenEdges
<1>5. CASE Asks \/ Listens
  <2> HIDE DEF Leads, Goal
  <2>done. Goal
    BY <1>2, <1>3, <1>4, <1>5 DEF Asks, Listens, Moves
  <2> QED
    BY <2>done DEF Goal
<1>6. CASE Ends
  <2>1. Leads("crash", "end")
    OBVIOUS
  <2> HIDE DEF Leads, Goal
  <2>done. Goal
    BY <1>2, <1>3, <1>6, <2>1 DEF Ends, Moves
  <2> QED
    BY <2>done DEF Goal
<1>7. CASE Quiet
  <2>1. PICK e \in QuietEdges : Step(e[1], e[2])
    BY <1>7 DEF Quiet, Moves
  <2>2. /\ e[2] = "c_doomed_y" => e[1] = "c_doomed_y"
        /\ e[2] = "c_kill" => e[1] = "c_doomed_y"
        /\ e[2] # "c_kill_w"
        /\ e[2] = "c_crash" => e[1] = "c_doomed"
        /\ e[2] \in FrameLabels => e[1] \in FrameLabels \cup {"c_env", "c_crash"}
    BY <2>1 DEF QuietEdges
  <2> QED
    BY <1>1, <1>7, <2>1, <2>2
<1>8. CASE Leaves \/ Waits
  <2>1. Leads("c_bye", "c_exit") /\ Leads("c_ready", "c_ready") /\ Leads("c_wait", "c_recv")
    OBVIOUS
  <2> HIDE DEF Leads, Goal
  <2>done. Goal
    BY <1>2, <1>8, <2>1 DEF Leaves, Waits
  <2> QED
    BY <2>done DEF Goal
<1>9. CASE Reaps
  <2>1. \/ pc[current] = "c_kill_w" /\ pc'[current] = "c_crash"
        \/ pc[current] = "c_crash_w" /\ pc'[current] = "c_frame"
    BY <1>1, <1>9 DEF Reaps
  <2> QED
    BY <1>9, <2>1
<1>10. CASE Spawns
  <2>1. \/ Spawn("c_doomed", "c_doomed_y", DOOMED_SLOT, "none") /\ pc'[current] = "c_doomed_y"
        \/ pc'[current] \in {"c_log", "c_crash_w"}
    BY <1>1, <1>10 DEF Spawns, Spawn
  <2> QED
    BY <2>1
<1>11. CASE Kills
  <2>1. pc'[current] = "c_kill_w"
    BY <1>1, <1>11 DEF Kills
  <2> QED
    BY <1>11, <2>1
<1> QED
  BY <1>5, <1>6, <1>7, <1>8, <1>9, <1>10, <1>11, ClientShapes

(* Only the client kills, and only at its kill. *)
LEMMA WhoKills ==
  ASSUME Base, Token, Kills
  PROVE  /\ current # 0 /\ HasToken(current) /\ pc'[current] = "c_kill_w"
         /\ IsHandle(caps[current][DOOMED_SLOT])
         /\ state'[caps[current][DOOMED_SLOT].object] = "Done"
         /\ exit_code'[caps[current][DOOMED_SLOT].object] = SIGTERM
<1>1. pc[current] = "c_kill" /\ pc'[current] = "c_kill_w"
  BY StepMoves DEF Kills
<1>2. current # 0 /\ HasToken(current)
  BY <1>1, WhoRuns, Ground DEF ClientLabels, Past, DoomedLabels, Token
<1> DEFINE c == caps[current][DOOMED_SLOT]
<1>3. /\ IsHandle(c) /\ state' = [state EXCEPT ![c.object] = "Done"]
      /\ exit_code' = [exit_code EXCEPT ![c.object] = SIGTERM]
  BY DEF Kills, kill, process_target, holds, IsHandle
<1>4. c.object \in Pid
  <2>1. c.object \in 1 .. next_pid - 1 /\ next_pid \in 1 .. MAX_PROCS
    BY <1>3, Ground, SlotNumbers, SMTT(60) DEF IsHandle, Base, Inv, CapsNameObjects, NamesObject, TypeOK
  <2> QED
    BY <2>1, KernelAssumption DEF Pid
<1>5. state \in [Pid -> State] /\ exit_code \in [Pid -> Nat]
  BY Ground
<1> HIDE DEF c
<1>6. state'[c.object] = "Done" /\ exit_code'[c.object] = SIGTERM
  BY <1>3, <1>4, <1>5
<1> QED
  BY <1>1, <1>2, <1>3, <1>6 DEF c

(* A child without a role waits for services that were announced to its    *)
(* parent: it does not end by itself.                                      *)
LEMMA ChildLives ==
  ASSUME Base, Token, Family, BootNext, NEW p \in Pid \ {0}, HasToken(p), ~Kills,
         NEW t \in Pid \ {0}, t # p, role[t] = "none", state[t] # "Done"
  PROVE  state'[t] # "Done"
<1>1. ~HasToken(t) /\ pc[t] \in {"start", "c_ready"}
  BY DEF Token, Family, Roles
<1>2. ASSUME t = current, Ends PROVE FALSE
  <2>1. \A e \in EndEdges : e[1] \notin {"start", "c_ready"}
    BY DEF EndEdges
  <2> QED
    BY <1>1, <1>2, <2>1, StepMoves DEF Ends, Moves
<1>3. ASSUME t = current, RootEnds PROVE FALSE
  BY <1>1, <1>3, StepMoves DEF RootEnds
<1> QED
  BY <1>2, <1>3, StepEnds

(* WAIT_PID returns what its target ended with, and nothing else changes   *)
(* an exit code that was returned.                                         *)
LEMMA CodeStays ==
  ASSUME Base, BootNext
  PROVE  /\ \A q \in Pid : q # current => code'[q] = code[q]
         /\ ~k_wait_pid => code' = code
         /\ k_wait_pid /\ kont'[current].op # "WaitPid" =>
               /\ state[kont[current].id] = "Done"
               /\ code'[current] = exit_code[kont[current].id]
<1>0. code \in [Pid -> Int] /\ current \in Pid
  BY Ground DEF Base, LocalTypes
<1>1. ~k_wait_pid => code' = code
  <2>1. CASE Client
    BY <2>1, ClientShapes DEF SameLocals
  <2>2. CASE Root
    BY <2>2, RootShapes DEF RootQuiet, RootFrames, RootSpawns, RootGrants, RootReaps,
       RootSignals, RootListens, RootReplies, RootEnds, SameLocals
  <2>3. CASE k_recv \/ k_wait \/ k_block \/ k_preempt
    BY <2>3 DEF k_recv, k_wait, k_block, k_preempt, locals
  <2> QED
    BY <2>1, <2>2, <2>3 DEF BootNext, InKernel
<1>2. k_wait_pid => \A q \in Pid : q # current => code'[q] = code[q]
  BY <1>0 DEF k_wait_pid
<1>3. ASSUME k_wait_pid, kont'[current].op # "WaitPid" PROVE state[kont[current].id] = "Done"
  BY <1>3 DEF k_wait_pid, wait_pid, InLoop
<1>4. ASSUME k_wait_pid, state[kont[current].id] = "Done"
      PROVE  code'[current] = exit_code[kont[current].id]
  BY <1>0, <1>4 DEF k_wait_pid
<1> QED
  BY <1>1, <1>2, <1>3, <1>4

(* Every step keeps the agreement of what WAIT has returned, or is about to
   return, with the child that was reaped. *)
LEMMA StepReaped == ASSUME Base, Token, Family, Reaped, BootNext PROVE Reaped'
<1>0. /\ current \in Pid /\ DOOMED_SLOT \in Slot /\ CRASH_SLOT \in Slot /\ kont \in [Pid -> Kont]
      /\ state \in [Pid -> State] /\ caps \in [Pid -> CNode]
      /\ Travelling /\ Handles /\ Roles /\ Pid \subseteq Nat /\ 0 \in Pid
  BY Ground, SlotNumbers DEF Family
<1>past. /\ {"c_doomed_y", "c_kill", "c_kill_w", "c_crash"} \subseteq Past
  BY DEF Past, DoomedLabels
<1>kept. ASSUME NEW p \in Pid, NEW i \in Slot, IsHandle(caps[p][i])
         PROVE  /\ caps'[p][i] = caps[p][i] /\ caps[p][i].object \in Pid \ {0}
                /\ caps[p][i].object # p
  <2>1. caps'[p][i] = caps[p][i] /\ IsHandle(caps'[p][i])
    BY <1>0, <1>kept, HandlesStay
  <2>2. caps[p][i].object \in 1 .. next_pid - 1 /\ caps[p][i].object \in Pid
    BY <1>0, <1>kept, <2>1, HandleOrigin, SpawnResult DEF NoCap, Cap, IsHandle
  <2>3. caps[p][i].object > p /\ p \in Nat
    BY <1>0, <1>kept DEF Handles
  <2>4. ASSUME NEW x \in 1 .. next_pid - 1, x > p, x \in Pid PROVE x # p /\ x # 0
    BY <1>0, <2>3, <2>4
  <2> QED
    BY <2>1, <2>2, <2>3, <2>4
<1>others. ASSUME NEW p \in Pid \ {0}, p # current \/ Root
           PROVE  pc'[p] = pc[p] /\ kont'[p] = kont[p] /\ code'[p] = code[p]
  BY <1>others, StepLabels, StepKont, CodeStays, RootShapes
<1>user. Client => kont[current] = UserMode /\ kont[current].op = "User" /\ current # 0
  BY ClientShapes DEF InUser, UserMode, Loop
<1>1. ASSUME NEW p \in Pid \ {0}, pc'[p] \in {"c_doomed_y", "c_kill"}
      PROVE  IsHandle(caps'[p][DOOMED_SLOT]) /\ state'[caps'[p][DOOMED_SLOT].object] # "Done"
  <2>1. CASE pc[p] \in {"c_doomed_y", "c_kill"}
    <3> DEFINE t == caps[p][DOOMED_SLOT].object
    <3>1. IsHandle(caps[p][DOOMED_SLOT]) /\ state[t] # "Done"
      BY <2>1 DEF Reaped
    <3>2. caps'[p][DOOMED_SLOT] = caps[p][DOOMED_SLOT] /\ t \in Pid \ {0} /\ t # p
      BY <1>0, <3>1, <1>kept
    <3>3. HasToken(p) /\ role[t] = "none"
      BY <1>0, <1>past, <2>1, <3>1 DEF Token, Handles
    <3>4. ~Kills
      BY <1>0, <1>1, <3>3, WhoKills DEF Token
    <3> HIDE DEF t
    <3>5. state'[t] # "Done"
      BY <3>1, <3>2, <3>3, <3>4, ChildLives
    <3> QED
      BY <3>1, <3>2, <3>5 DEF t
  <2>2. CASE pc[p] \notin {"c_doomed_y", "c_kill"}
    <3>1. p = current /\ Client
      BY <1>1, <2>2, <1>others, KernelStays DEF BootNext
    <3>2. Spawn("c_doomed", "c_doomed_y", DOOMED_SLOT, "none")
      BY <1>1, <2>2, <3>1, DemoSteps
    <3>3. Installs(DOOMED_SLOT)
      BY <3>2 DEF Installs
    <3>4. /\ caps' = [caps EXCEPT ![current] = insert(@, DOOMED_SLOT, Cap("Process", next_pid))]
          /\ insert_ok(caps[current], DOOMED_SLOT) /\ next_pid \in Pid
          /\ state' = [state EXCEPT ![next_pid] = "Ready"]
      BY <3>3, SpawnResult
    <3>5. caps'[p][DOOMED_SLOT] = Cap("Process", next_pid) /\ state'[next_pid] = "Ready"
      BY <1>0, <3>1, <3>4 DEF insert, CNode
    <3> QED
      BY <3>5 DEF IsHandle, Cap
  <2> QED
    BY <2>1, <2>2
<1>2. ASSUME NEW p \in Pid \ {0},
             pc'[p] = "c_kill_w" \/ (pc'[p] = "c_crash" /\ kont'[p].op = "WaitPid")
      PROVE  /\ IsHandle(caps'[p][DOOMED_SLOT])
             /\ state'[caps'[p][DOOMED_SLOT].object] = "Done"
             /\ exit_code'[caps'[p][DOOMED_SLOT].object] = SIGTERM
  <2>1. CASE pc[p] = "c_kill_w" \/ (pc[p] = "c_crash" /\ kont[p].op = "WaitPid")
    <3>1. /\ IsHandle(caps[p][DOOMED_SLOT]) /\ state[caps[p][DOOMED_SLOT].object] = "Done"
          /\ exit_code[caps[p][DOOMED_SLOT].object] = SIGTERM
      BY <2>1 DEF Reaped
    <3>2. caps'[p][DOOMED_SLOT] = caps[p][DOOMED_SLOT] /\ caps[p][DOOMED_SLOT].object \in Pid
      BY <1>0, <3>1, <1>kept
    <3> QED
      BY <3>1, <3>2, StepEnds
  <2>2. CASE ~(pc[p] = "c_kill_w" \/ (pc[p] = "c_crash" /\ kont[p].op = "WaitPid"))
    <3>1. p = current /\ ~Root
      BY <1>2, <2>2, <1>others
    <3>2. Client
      <4>1. ASSUME InKernel \/ k_preempt PROVE FALSE
        <5>1. pc' = pc
          BY <4>1, KernelStays
        <5>2. kont'[p].op = "WaitPid" => kont[p].op = "WaitPid"
          <6>1. kont' = kont \/ kont' = [kont EXCEPT ![current] = UserMode]
            BY <4>1 DEF InKernel, k_recv, k_wait, k_wait_pid, k_block, k_preempt, try_recv,
               poll_take, wait_pid, recv_block, wait_block, timer_preempt
          <6> QED
            BY <1>0, <6>1 DEF UserMode, Loop
        <5> QED
          BY <1>2, <2>2, <5>1, <5>2
      <4> QED
        BY <3>1, <4>1 DEF BootNext
    <3>3. CASE Kills
      BY <1>0, <3>1, <3>3, <1>kept, WhoKills
    <3>4. CASE ~Kills
      <4>1. pc'[p] = "c_crash" /\ kont'[p].op = "WaitPid" /\ Quiet
        BY <1>2, <2>2, <3>1, <3>2, <3>4, DemoSteps
      <4>2. kont' = kont
        BY <4>1 DEF Quiet
      <4> QED
        BY <1>user, <3>1, <3>2, <4>1, <4>2
    <3> QED
      BY <3>3, <3>4
  <2> QED
    BY <2>1, <2>2
<1>3. ASSUME NEW p \in Pid \ {0}, pc'[p] = "c_crash", kont'[p].op # "WaitPid",
             IsHandle(caps'[p][DOOMED_SLOT])
      PROVE  code'[p] = SIGTERM
  <2>1. IsHandle(caps[p][DOOMED_SLOT])
    <3>1. ASSUME p = current, Installs(DOOMED_SLOT) PROVE FALSE
      BY <1>3, <3>1, SlotNumbers, StepMoves DEF Installs, Spawn
    <3> QED
      BY <1>0, <1>3, <3>1, HandleOrigin
  <2>2. pc[p] # "c_doomed"
    BY <1>0, <2>1 DEF Handles, FromDoomed, FromCrash, DoomedLabels, NetLabels, AskLabels
  <2>3. CASE p # current \/ Root
    BY <1>3, <2>1, <2>3, <1>others DEF Reaped
  <2>4. CASE p = current /\ Client
    <3>1. Reaps
      BY <1>3, <2>2, <2>4, DemoSteps
    <3>2. kont'[current].op = "WaitPid"
      BY <1>0, <3>1 DEF Reaps, Enters, Loop
    <3> QED
      BY <1>3, <2>4, <3>2
  <2>5. CASE p = current /\ k_wait_pid
    <3>1. kont[p].op = "WaitPid" /\ pc[p] = "c_crash"
      BY <1>3, <2>5, KernelStays DEF k_wait_pid, wait_pid, InLoop, InKernel
    <3>2. kont[p].id = caps[p][DOOMED_SLOT].object
      BY <3>1 DEF Base, Loops
    <3>3. exit_code[caps[p][DOOMED_SLOT].object] = SIGTERM
      BY <3>1 DEF Reaped
    <3> QED
      BY <1>3, <2>5, <3>2, <3>3, CodeStays
  <2>6. CASE p = current /\ (k_recv \/ k_wait \/ k_block \/ k_preempt)
    <3>1. pc[p] = "c_crash" /\ kont[p].op # "WaitPid"
      BY <1>3, <2>6, KernelStays DEF InKernel, k_recv, k_wait, k_block, k_preempt, try_recv,
         poll_take, recv_block, wait_block, timer_preempt, InLoop, InUser, UserMode, Loop
    <3>2. code' = code
      BY <2>6 DEF k_recv, k_wait, k_block, k_preempt, locals
    <3> QED
      BY <2>1, <3>1, <3>2 DEF Reaped
  <2> QED
    BY <2>3, <2>4, <2>5, <2>6 DEF BootNext, InKernel
<1>4. ASSUME NEW p \in Pid \ {0}, pc'[p] \in FrameLabels, kont'[p].op # "WaitPid",
             IsHandle(caps'[p][CRASH_SLOT])
      PROVE  code'[p] = EXIT_FAULT
  <2>1. IsHandle(caps[p][CRASH_SLOT])
    <3>1. ASSUME p = current, Installs(CRASH_SLOT) PROVE FALSE
      BY <1>4, <3>1, SlotNumbers, StepMoves DEF Installs, Spawn, FrameLabels
    <3> QED
      BY <1>0, <1>4, <3>1, HandleOrigin
  <2>2. pc[p] \notin {"c_env", "c_crash"}
    BY <1>0, <2>1 DEF Handles, FromCrash, NetLabels, AskLabels
  <2>old. ASSUME pc[p] \in FrameLabels, kont[p].op # "WaitPid", code'[p] = code[p]
          PROVE  code'[p] = EXIT_FAULT
    BY <2>1, <2>old DEF Reaped, FrameLabels
  <2>3. CASE p # current \/ Root
    BY <1>4, <2>3, <2>old, <1>others
  <2>4. CASE p = current /\ Client
    <3>1. ~Reaps
      BY <1>0, <1>4, <2>4 DEF Reaps, Enters, Loop
    <3>2. pc[p] \in FrameLabels
      BY <1>4, <2>2, <2>4, <3>1, DemoSteps
    <3>3. code' = code /\ kont[p].op = "User"
      BY <1>user, <2>4, ClientShapes DEF SameLocals
    <3> QED
      BY <3>2, <3>3, <2>old
  <2>5. CASE p = current /\ k_wait_pid
    <3>1. kont[p].op = "WaitPid" /\ pc[p] \in FrameLabels
      BY <1>4, <2>5, KernelStays DEF k_wait_pid, wait_pid, InLoop, InKernel
    <3> DEFINE t == caps[p][CRASH_SLOT].object
    <3>2. kont[p].id = t
      BY <3>1 DEF Base, Loops, FrameLabels
    <3>3. t \in Pid \ {0} /\ role[t] = "crash"
      BY <1>0, <2>1, <1>kept DEF Handles
    <3>4. state[t] = "Done" /\ code'[p] = exit_code[t]
      BY <1>4, <2>5, <3>2, CodeStays
    <3> HIDE DEF t
    <3> QED
      BY <1>0, <3>3, <3>4 DEF Roles
  <2>6. CASE p = current /\ (k_recv \/ k_wait \/ k_block \/ k_preempt)
    <3>1. pc[p] \in FrameLabels /\ kont[p].op # "WaitPid"
      BY <1>4, <2>6, KernelStays DEF InKernel, k_recv, k_wait, k_block, k_preempt, try_recv,
         poll_take, recv_block, wait_block, timer_preempt, InLoop, InUser, UserMode, Loop
    <3>2. code' = code
      BY <2>6 DEF k_recv, k_wait, k_block, k_preempt, locals
    <3> QED
      BY <3>1, <3>2, <2>old
  <2> QED
    BY <2>3, <2>4, <2>5, <2>6 DEF BootNext, InKernel
<1> QED
  BY <1>1, <1>2, <1>3, <1>4 DEF Reaped, FrameLabels
-----------------------------------------------------------------------------
(* The theorems.                                                           *)

(* The state after boot satisfies the invariant. *)
LEMMA InitBoot == BootInit => BootInv
<1> SUFFICES ASSUME BootInit PROVE BootInv
  OBVIOUS
<1>0. Inv /\ 0 \in Pid
  BY InitInv, KernelAssumption DEF BootInit, Pid
<1>1. /\ pc = [p \in Pid |-> IF p = 0 THEN "r_setup" ELSE "start"]
      /\ role = [p \in Pid |-> "none"] /\ reg = [p \in Pid |-> NoWord]
      /\ bits = [p \in Pid |-> {}] /\ code = [p \in Pid |-> MAX]
      /\ cnt = [p \in Pid |-> 0] /\ mask = [p \in Pid |-> {}] /\ pending = {}
  BY DEF BootInit
<1>2. /\ state = [p \in Pid |-> IF p = 0 THEN "Ready" ELSE "Absent"]
      /\ kont = [p \in Pid |-> UserMode] /\ caps = [p \in Pid |-> seed_caps(p)]
      /\ current = 0 /\ queue = [e \in EndpointId |-> <<>>] /\ word = [n \in NotificationId |-> {}]
  BY DEF BootInit, Init
<1>3. \A p \in Pid : kont[p].op = "User"
  BY <1>2 DEF UserMode, Loop
<1>4. 0 \in EndpointId /\ 1 \in EndpointId /\ 0 \in NotificationId /\ Pid \subseteq Nat
      /\ 0 .. 12 \subseteq Slot
  BY KernelAssumption, CapAssumption, BootAssumption
     DEF EndpointId, NotificationId, Pid, Slot, CRASH_SLOT, PROC_SLOT_BASE
<1>5. \A p \in Pid, i \in Slot : ~IsHandle(caps[p][i])
  BY <1>2, <1>4, SeedCaps DEF IsHandle
<1>6. LocalTypes
  <2>1. "r_setup" \in RootLabels \cup ClientLabels /\ "start" \in RootLabels \cup ClientLabels
    BY DEF RootLabels, Before, ClientLabels, Waiting
  <2>2. "none" \in Role /\ MAX \in Int
    BY DEF Role, MAX
  <2> QED
    BY <1>1, <2>1, <2>2 DEF LocalTypes
<1>7. Programs
  BY <1>0, <1>1, <1>2 DEF Programs, RootLabels, Before, ClientLabels, Waiting
<1>8. Counters
  BY <1>1, BootAssumption DEF Counters
<1>9. Seeds
  <2>1. ASSUME NEW p \in Pid
        PROVE  /\ caps[p][3] = Cap("Endpoint", 0) /\ caps[p][4] = Cap("Endpoint", 1)
               /\ caps[p][5] = Cap("Notification", 0)
    <3>1. caps[p] = seed_caps(p) /\ 3 \in Slot /\ 4 \in Slot /\ 5 \in Slot
      BY <1>2, <1>4
    <3> QED
      BY <3>1 DEF seed_caps, EP_SLOT, REPLY_EP_SLOT, NOTIF_SLOT
  <2> QED
    BY <2>1, SlotNumbers DEF Seeds
<1>10. Loops
  BY <1>0, <1>3 DEF Loops
<1>11. Base
  BY <1>0, <1>6, <1>7, <1>8, <1>9, <1>10 DEF Base
<1>12. Token
  <2>1. \A p \in Pid : ~HasToken(p)
    BY <1>1 DEF HasToken
  <2>2. \A p \in Pid \ {0} : pc[p] = "start"
    BY <1>1
  <2> QED
    BY <1>2, <1>4, <2>1, <2>2 DEF Token, Past, AskLabels, DemoLabels, DoomedLabels, NetLabels
<1>13. Conversation
  <2>1. \A p \in Pid \ {0} : ~Awaiting(p)
    BY <1>1, <1>3 DEF Awaiting, AskLabels
  <2>2. Silent
    BY <1>0, <1>1, <1>2, <1>4 DEF Silent, NoWord, Msg
  <2>3. \A p \in Pid : pc[p] \notin DOMAIN Replied
    BY <1>1 DEF Replied
  <2> QED
    BY <2>1, <2>2, <2>3 DEF Conversation, ReplyToAsker
<1>14. Family
  <2>1. Travelling
    BY <1>0, <1>1, <1>2 DEF Travelling
  <2>2. Handles
    <3>1. DOOMED_SLOT \in Slot /\ CRASH_SLOT \in Slot
      BY <1>4, SlotNumbers
    <3> QED
      BY <1>5, <3>1 DEF Handles
  <2>3. Roles
    BY <1>1 DEF Roles
  <2> QED
    BY <1>0, <1>2, <2>1, <2>2, <2>3 DEF Family
<1>15. Reaped
  BY <1>1 DEF Reaped
<1> QED
  BY <1>11, <1>12, <1>13, <1>14, <1>15 DEF BootInv

(* Every step of the composed system keeps the invariant. *)
LEMMA StepBoot == BootInv /\ [BootNext]_bootvars => BootInv'
<1> SUFFICES ASSUME BootInv, [BootNext]_bootvars PROVE BootInv'
  OBVIOUS
<1>1. CASE BootNext
  BY <1>1, StepBase, StepToken, StepConversation, StepFamily, StepReaped DEF BootInv, Family
<1>2. CASE UNCHANGED bootvars
  <2>1. UNCHANGED vars /\ UNCHANGED <<pc, role, reg, bits, code, cnt, mask, pending>>
    BY <1>2 DEF bootvars, locals
  <2>2. UNCHANGED <<state, kont, exit_code, caps, current, next_pid, halted, queue, word>>
    BY <2>1 DEF vars
  <2>3. Inv'
    BY <2>1, StutterKeeps DEF BootInv, Base
  <2>4. LocalTypes' /\ Programs' /\ Counters' /\ Seeds' /\ Loops'
    BY <2>1, <2>2 DEF BootInv, Base, LocalTypes, Programs, Counters, Seeds, Loops
  <2>5. Token'
    BY <2>1, <2>2 DEF BootInv, Token, HasToken
  <2>6. Conversation'
    <3>1. Talk
      BY DEF BootInv, Conversation, Talk
    <3>2. \A p \in Pid \ {0} : /\ Awaiting(p)' <=> Awaiting(p)
                               /\ HasToken(p)' <=> HasToken(p)
      BY <2>1, <2>2 DEF Awaiting, HasToken
    <3>3. Talk'
      BY <2>1, <2>2, <3>1, <3>2, TalkKept
    <3>4. ReplyToAsker'
      BY <2>1, <2>2 DEF BootInv, Conversation, ReplyToAsker
    <3> QED
      BY <3>3, <3>4 DEF Conversation, Talk
  <2>7. Family'
    BY <2>1, <2>2 DEF BootInv, Family, Travelling, Handles, Roles, HasToken
  <2>8. Reaped'
    BY <2>1, <2>2 DEF BootInv, Reaped
  <2> QED
    BY <2>3, <2>4, <2>5, <2>6, <2>7, <2>8 DEF BootInv, Base
<1> QED
  BY <1>1, <1>2

(* The invariant holds in every reachable state of the composed system. *)
LEMMA AlwaysBoot == BootSpec => []BootInv
  BY InitBoot, StepBoot, PTL DEF BootSpec

(* At most one process is past the wait for the services, however many     *)
(* children run the client's code and whatever bits the sockets raise      *)
(* (main.rs, combined_client): the announcement is taken by one WAIT.      *)
THEOREM OneClientOnly == BootSpec => []OneClient
<1>1. BootInv => OneClient
  <2> SUFFICES ASSUME BootInv, NEW p \in Pid, NEW q \in Pid, IsClient(p), IsClient(q)
               PROVE  p = q
    BY DEF OneClient
  <2>1. ASSUME NEW r \in Pid, IsClient(r) PROVE HasToken(r)
    BY <2>1 DEF BootInv, Base, Programs, ClientLabels, Token, IsClient
  <2> QED
    BY <2>1 DEF BootInv, Token
<1> QED
  BY <1>1, AlwaysBoot, PTL

(* A client that has its reply has the reply to its own last request,      *)
(* although all processes share the reply endpoint (main.rs, request).     *)
THEOREM RepliesReachAsker == BootSpec => []ReplyToAsker
<1>1. BootInv => ReplyToAsker
  BY DEF BootInv, Conversation
<1> QED
  BY <1>1, AlwaysBoot, PTL

(* The client finds its killed child ended with SIGTERM and its crashed    *)
(* child with EXIT_FAULT (main.rs, the comparisons after its WAIT_PIDs).   *)
THEOREM ReapsAsExpected == BootSpec => []ReapedAsExpected
<1>1. BootInv => ReapedAsExpected
  <2> SUFFICES ASSUME BootInv, NEW p \in Pid, kont[p] = UserMode
               PROVE  /\ pc[p] = "c_crash" /\ holds(caps[p], DOOMED_SLOT, "Process") =>
                            code[p] = SIGTERM
                      /\ pc[p] = "c_frame" /\ holds(caps[p], CRASH_SLOT, "Process") =>
                            code[p] = EXIT_FAULT
    BY DEF ReapedAsExpected
  <2>1. kont[p].op # "WaitPid"
    BY DEF UserMode, Loop
  <2>2. pc[p] \in {"c_crash", "c_frame"} => p # 0
    BY DEF BootInv, Base, Programs, RootLabels, Before
  <2> QED
    BY <2>1, <2>2 DEF BootInv, Reaped, holds, IsHandle
<1> QED
  BY <1>1, AlwaysBoot, PTL

(* The KILL of the demo is never refused: the client holds the handle, and *)
(* the child is not the root task and has not ended (process.rs, kill).    *)
THEOREM KillIsAccepted ==
  BootSpec => [](\A p \in Pid : pc[p] = "c_kill" =>
                    /\ holds(caps[p], DOOMED_SLOT, "Process")
                    /\ caps[p][DOOMED_SLOT].object # 0
                    /\ state[caps[p][DOOMED_SLOT].object] # "Done")
<1>1. BootInv => \A p \in Pid : pc[p] = "c_kill" =>
                    /\ holds(caps[p], DOOMED_SLOT, "Process")
                    /\ caps[p][DOOMED_SLOT].object # 0
                    /\ state[caps[p][DOOMED_SLOT].object] # "Done"
  <2> SUFFICES ASSUME BootInv, NEW p \in Pid, pc[p] = "c_kill"
               PROVE  /\ holds(caps[p], DOOMED_SLOT, "Process")
                      /\ caps[p][DOOMED_SLOT].object # 0
                      /\ state[caps[p][DOOMED_SLOT].object] # "Done"
    OBVIOUS
  <2>1. p # 0 /\ Base
    BY DEF BootInv, Base, Programs, RootLabels, Before
  <2>2. /\ IsHandle(caps[p][DOOMED_SLOT]) /\ DOOMED_SLOT \in Slot
        /\ state[caps[p][DOOMED_SLOT].object] # "Done"
    BY <2>1, Ground, SlotNumbers, SMTT(60) DEF BootInv, Reaped
  <2>3. caps[p][DOOMED_SLOT].object \in 1 .. next_pid - 1
    BY <2>1, <2>2 DEF IsHandle, Base, Inv, CapsNameObjects, NamesObject
  <2> QED
    BY <2>2, <2>3 DEF holds, IsHandle
<1> QED
  BY <1>1, AlwaysBoot, PTL

(* Between the two endpoints there is never more than one message: the     *)
(* queues, which the code does not bound (syscall.rs, sys_send), do not    *)
(* grow, and MAX_QUEUE refuses no SEND of the programs.                    *)
THEOREM OneMessage == BootSpec => [](Len(queue[0]) + Len(queue[1]) <= 1)
<1>1. BootInv => Len(queue[0]) + Len(queue[1]) <= 1
  <2> SUFFICES ASSUME BootInv PROVE Len(queue[0]) + Len(queue[1]) <= 1
    OBVIOUS
  <2>0. Len(<<>>) = 0
    OBVIOUS
  <2>1. ASSUME NEW a \in {0, 1}, NEW b \in {0, 1}, a = 0 \/ b = 0 PROVE a + b <= 1
    BY <2>1
  <2> DEFINE a == Len(queue[0])
             b == Len(queue[1])
  <2>2. ASSUME NEW p \in Pid \ {0}, Awaiting(p) PROVE a + b <= 1
    <3>1. a \in {0, 1} /\ b \in {0, 1} /\ (a = 0 \/ b = 0)
      BY <2>0, <2>2 DEF BootInv, Conversation, OnItsWay, AtService, Answered, Holding
    <3> HIDE DEF a, b
    <3> QED
      BY <2>1, <3>1
  <2>3. Silent => a + b <= 1
    <3>1. Silent => a \in {0, 1} /\ b = 0
      BY <2>0 DEF Silent, Leaving, Holding
    <3> HIDE DEF a, b
    <3> QED
      BY <2>1, <3>1
  <2> QED
    BY <2>2, <2>3 DEF BootInv, Conversation
<1> QED
  BY <1>1, AlwaysBoot, PTL
=============================================================================
