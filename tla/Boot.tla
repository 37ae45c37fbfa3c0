--------------------------------- MODULE Boot ---------------------------------
(***************************************************************************)
(* The programs of the init image (userland/init/src/main.rs) on the       *)
(* kernel of module Kernel.                                                *)
(*                                                                         *)
(* Every process runs the same image.  PID 0 prepares the disk, spawns a   *)
(* client and a child it delegates a frame to, announces the services and  *)
(* becomes the service host; every other process is a client, unless its   *)
(* environment gives it a role.  The client waits for the announcement,    *)
(* asks for files, spawns, kills and reaps children of its own, talks to   *)
(* the network service and says goodbye.  All of them share one request    *)
(* endpoint, one reply endpoint and one notification (seed_caps).          *)
(*                                                                         *)
(* `pc` is where a program goes on when the kernel returns to it.  A step  *)
(* of a program is a system call: an action of Kernel, taken by the        *)
(* running process, that also moves its pc.  What happens inside a request *)
(* is in modules Service and Fs; here a request has an outcome.            *)
(***************************************************************************)
EXTENDS Kernel

CONSTANTS
    Socks,         \* sockets the client opens
    FILES,         \* file requests the client makes
    TRIES,         \* bound: attempts of the granted child (200 in the code)
    YIELDS,        \* bound: yields between a spawn and the next step (4, 2)
    ROUNDS,        \* bound: rounds of the client's ready-set test (4)
    NET_SOCK_BIT   \* the bit of socket 0 on the notification

VARIABLES
    pc,        \* where each program goes on
    role,      \* XERNEL_ROLE of the process's environment
    reg,       \* the word the last RECV returned
    bits,      \* the bits WAIT returned, gathered by the client's loop
    code,      \* the exit code the last WAIT_PID returned
    cnt,       \* loop counter of a program
    frames_ok, \* the client: every shared page so far is mapped
    mask,      \* the client: sockets of the ready set not yet received from
    remaining, \* the client: sockets without an answer so far
    pending    \* the service: sockets with buffered data

locals == <<role, reg, bits, code, cnt, frames_ok, mask, remaining, pending>>
\* what a step that only counts leaves alone
butCnt == <<role, reg, bits, code, frames_ok, mask, remaining, pending>>
bootvars == <<vars, pc, locals>>

READY_BIT == 0
NET_READY_BIT == 1
Announced == {READY_BIT, NET_READY_BIT}
sock_bit(s) == NET_SOCK_BIT + s

SHM_FRAME_SLOT == 6
PROC_SLOT_BASE == 10
GRANTED_FRAME_SLOT == 6
GRANT_PROC_SLOT == PROC_SLOT_BASE + 1
GRANT_SRC_SLOT == PROC_SLOT_BASE + 2
DOOMED_SLOT == PROC_SLOT_BASE + 1
CRASH_SLOT == PROC_SLOT_BASE + 2
SIGTERM == 15

(* A message word: an operation, or the reply to one, and the sockets it   *)
(* is about.                                                               *)
Ops == {"File", "GetFrame", "Connect", "Send", "GetReady", "Recv", "Close"}
Msg(kind, op, socks) == [kind |-> kind, op |-> op, socks |-> socks]
Ask(op, socks) == Msg("Ask", op, socks)
Bye == Msg("Bye", "File", {})
NoWord == Msg("None", "File", {})
BootWords == [kind : {"Ask", "Reply", "Refusal", "Bye"}, op : Ops, socks : SUBSET Socks]

(* There is a socket, and sockets are numbered from 0 up; the bits of the  *)
(* sockets are not those of the announcement; a table has the slots the    *)
(* programs use.                                                           *)
ASSUME BootAssumption ==
    /\ 0 \in Socks /\ Socks \subseteq Nat /\ \A s \in Socks : 0 .. s \subseteq Socks
    /\ FILES \in Nat /\ TRIES \in Nat /\ YIELDS \in Nat \ {0} /\ ROUNDS \in Nat
    /\ NET_SOCK_BIT \in Nat /\ NET_SOCK_BIT > NET_READY_BIT
    /\ Announced \cup {sock_bit(s) : s \in Socks} \subseteq Bits
    /\ CAP_SLOTS > CRASH_SLOT
    /\ Words = BootWords

BootInit ==
    /\ Init
    /\ pc = [p \in Pid |-> IF p = 0 THEN "r_setup" ELSE "start"]
    /\ role = [p \in Pid |-> "none"]
    /\ reg = [p \in Pid |-> NoWord]
    /\ bits = [p \in Pid |-> {}]
    /\ code = [p \in Pid |-> MAX]
    /\ cnt = [p \in Pid |-> 0]
    /\ frames_ok = [p \in Pid |-> TRUE]
    /\ mask = [p \in Pid |-> {}]
    /\ remaining = [p \in Pid |-> Socks]
    /\ pending = {}
-----------------------------------------------------------------------------
(* The running program is at label l and goes on at label m.               *)
At(l) == InUser /\ pc[current] = l
Step(l, m) == At(l) /\ pc' = [pc EXCEPT ![current] = m]
Count(n) == cnt' = [cnt EXCEPT ![current] = n]

(* A loop over the sockets, counted in cnt.                                *)
LastSock == cnt[current] + 1 \notin Socks
CountSocks == Count(IF LastSock THEN 0 ELSE cnt[current] + 1)

(* A step that makes no call, or one that leaves the kernel alone.         *)
Local(l, m) == Step(l, m) /\ UNCHANGED vars

(* SPAWN and SPAWN_ENV, with the role in the child's environment.          *)
Spawn(l, m, slot, r) ==
    /\ Step(l, m)
    /\ spawn(slot)
    /\ role' = [role EXCEPT ![next_pid] = r]
    /\ UNCHANGED <<reg, bits, code, cnt, frames_ok, mask, remaining, pending>>

(* It returned u64::MAX.                                                   *)
SpawnFails(l, m) == Local(l, m) /\ UNCHANGED locals

(* FRAME_ALLOC: a Frame capability in a slot, or nothing, whatever is left *)
(* of the budget, which module Kernel follows.  The frame's number is its  *)
(* slot.                                                                   *)
FrameAlloc(l, m, slot, ok) ==
    /\ Step(l, m)
    /\ ok => insert_ok(caps[current], slot)
    /\ caps' = IF ok THEN [caps EXCEPT ![current] =
                             insert(@, slot, Cap("Frame", slot))] ELSE caps
    /\ UNCHANGED <<sched, kont, exit_code, next_pid, ipc, handleless, locals>>

(* WAIT_PID enters the kernel's loop.                                      *)
Reap(l, m, slot) == Step(l, m) /\ sys_wait_pid(slot) /\ UNCHANGED locals

(* A few SYS_YIELDs in a row.                                              *)
Yields(l, m) ==
    /\ Step(l, IF cnt[current] + 1 < YIELDS THEN l ELSE m)
    /\ sys_yield
    /\ Count(IF cnt[current] + 1 < YIELDS THEN cnt[current] + 1 ELSE 0)
    /\ UNCHANGED butCnt

Exit(l, c) == Step(l, "end") /\ exit(c) /\ UNCHANGED locals
-----------------------------------------------------------------------------
(* PID 0: _start.                                                          *)

(* Devices, drivers and filesystem: without them there is no service.      *)
r_setup(ok) == Local("r_setup", IF ok THEN "r_client" ELSE "r_exit") /\ UNCHANGED locals

r_client ==
    \/ Spawn("r_client", "r_frame", PROC_SLOT_BASE, "none")
    \/ SpawnFails("r_client", "r_frame")

r_frame(ok) ==
    FrameAlloc("r_frame", IF ok THEN "r_child" ELSE "r_signal", GRANT_SRC_SLOT, ok)

r_child ==
    \/ Spawn("r_child", "r_grant", GRANT_PROC_SLOT, "granted")
    \/ SpawnFails("r_child", "r_signal")

r_grant ==
    /\ Step("r_grant", "r_reap")
    /\ sys_cap_grant(GRANT_PROC_SLOT, GRANT_SRC_SLOT, GRANTED_FRAME_SLOT)
    /\ UNCHANGED locals

r_reap == Reap("r_reap", "r_signal", GRANT_PROC_SLOT)

(* Seeded fault: one of the two services is not announced.                 *)
r_signal_one ==
    /\ Step("r_signal", "r_shm")
    /\ sys_signal(NOTIF_SLOT, {READY_BIT})
    /\ UNCHANGED locals

(* Both services are announced at once.                                    *)
r_signal ==
    /\ Step("r_signal", "r_shm")
    /\ sys_signal(NOTIF_SLOT, Announced)
    /\ UNCHANGED locals

(* combined_service: one shared page per socket, if FRAME_ALLOC succeeds.  *)
r_shm(ok) ==
    /\ Step("r_shm", IF LastSock THEN "r_recv" ELSE "r_shm")
    /\ caps' = IF ok THEN [caps EXCEPT ![current] =
                  insert(@, SHM_FRAME_SLOT + cnt[current],
                         Cap("Frame", SHM_FRAME_SLOT + cnt[current]))] ELSE caps
    /\ CountSocks
    /\ UNCHANGED <<sched, kont, exit_code, next_pid, ipc, handleless,
                   butCnt>>

(* The top of the service loop.                                            *)
r_recv ==
    /\ Step("r_recv", "r_serve")
    /\ sys_recv(EP_SLOT, MAX)
    /\ UNCHANGED locals

Asked(op) == At("r_serve") /\ reg[current].kind = "Ask" /\ reg[current].op = op

(* net_buffer_frame: data for a socket arrived while the service polled    *)
(* for this request; the socket's bit is raised, again if data was waiting *)
(* there already.  GET_READY polls only while nothing is buffered, RECV    *)
(* only while nothing is for its own socket.                               *)
r_buffer(s) ==
    /\ \/ Asked("GetReady") /\ pending = {}
       \/ Asked("Recv") /\ pending \cap reg[current].socks = {}
    /\ Step("r_serve", "r_serve")
    /\ sys_signal(NOTIF_SLOT, {sock_bit(s)})
    /\ pending' = pending \cup {s}
    /\ UNCHANGED <<role, reg, bits, code, cnt, frames_ok, mask, remaining>>

(* A reply, and back to the top.                                           *)
Reply(kind, op, socks, cap) ==
    /\ Step("r_serve", "r_recv")
    /\ sys_send(REPLY_EP_SLOT, Msg(kind, op, socks), cap)
    /\ reg' = [reg EXCEPT ![current] = NoWord]
    /\ UNCHANGED <<role, bits, code, cnt, frames_ok, mask, remaining>>

r_get_ready ==
    /\ Asked("GetReady")
    /\ Reply("Reply", "GetReady", pending, MAX)
    /\ UNCHANGED pending

r_get_frame ==
    \E s \in reg[current].socks :
        /\ Asked("GetFrame")
        /\ IF holds(caps[current], SHM_FRAME_SLOT + s, "Frame")
             THEN Reply("Reply", "GetFrame", {s}, SHM_FRAME_SLOT + s)
             ELSE Reply("Refusal", "GetFrame", {s}, MAX)
        /\ UNCHANGED pending

(* RECV hands out what is buffered for the socket.                         *)
r_net_recv ==
    /\ Asked("Recv")
    /\ Reply("Reply", "Recv", reg[current].socks, MAX)
    /\ pending' = pending \ reg[current].socks

(* The other requests change nothing here.                                 *)
r_other(op) ==
    /\ Asked(op)
    /\ Reply("Reply", op, reg[current].socks, MAX)
    /\ UNCHANGED pending

r_bye ==
    /\ At("r_serve") /\ reg[current].kind = "Bye"
    /\ Local("r_serve", "r_exit")
    /\ UNCHANGED locals

r_exit == Exit("r_exit", 0)

Root ==
    \/ \E ok \in BOOLEAN : r_setup(ok) \/ r_frame(ok) \/ r_shm(ok)
    \/ r_client \/ r_child \/ r_grant \/ r_reap \/ r_signal
    \/ r_recv \/ r_get_ready \/ r_get_frame \/ r_net_recv \/ r_bye \/ r_exit
    \/ \E op \in {"File", "Connect", "Send", "Close"} : r_other(op)
    \/ \E s \in Socks : r_buffer(s)
-----------------------------------------------------------------------------
(* Every other process: combined_client, which looks at its role first.    *)

c_start ==
    /\ Local("start", CASE role[current] = "crash" -> "crash"
                        [] role[current] = "granted" -> "granted"
                        [] OTHER -> "c_ready")
    /\ UNCHANGED locals

(* crash_child reads an unmapped address.                                  *)
crash_child == Step("crash", "end") /\ fault_exit /\ UNCHANGED locals

(* granted_child: MAP_FRAME until the capability is there.                 *)
granted_child ==
    /\ cnt[current] < TRIES
    /\ IF holds(caps[current], GRANTED_FRAME_SLOT, "Frame")
         THEN Local("granted", "g_ok") /\ UNCHANGED locals
         ELSE /\ Step("granted", "granted")
              /\ sys_yield
              /\ Count(cnt[current] + 1)
              /\ UNCHANGED butCnt
g_give_up == cnt[current] = TRIES /\ Exit("granted", 1)
g_ok == Exit("g_ok", 0)

(* Seeded fault: the client goes on with the first signal.                 *)
c_ready_any ==
    IF bits[current] # {}
      THEN Local("c_ready", "c_files") /\ UNCHANGED locals
      ELSE Step("c_ready", "c_ready") /\ sys_wait(NOTIF_SLOT) /\ UNCHANGED locals

(* WAIT until both services are announced.                                 *)
c_ready ==
    IF Announced \subseteq bits[current]
      THEN /\ Local("c_ready", "c_files")
           /\ UNCHANGED locals
      ELSE /\ Step("c_ready", "c_ready")
           /\ sys_wait(NOTIF_SLOT)
           /\ UNCHANGED locals

(* request: SEND, then RECV of the reply; l_r is the label in between.     *)
Request(l, l_r, op, socks) ==
    /\ Step(l, l_r)
    /\ sys_send(EP_SLOT, Ask(op, socks), MAX)
    /\ UNCHANGED locals
AwaitReply(l_r, m, dst) ==
    /\ Step(l_r, m)
    /\ sys_recv(REPLY_EP_SLOT, dst)
    /\ UNCHANGED locals

(* The catalogue.                                                          *)
c_files ==
    \/ cnt[current] < FILES /\ Request("c_files", "c_files_r", "File", {})
    \/ /\ Step("c_files_r", "c_files")
       /\ sys_recv(REPLY_EP_SLOT, MAX)
       /\ Count(cnt[current] + 1)
       /\ UNCHANGED butCnt
    \/ cnt[current] = FILES /\ Local("c_files", "c_env") /\ Count(0) /\ UNCHANGED butCnt

(* The deployment demo: a child with an environment but no role.  The rest *)
(* of the demos are skipped when it cannot be spawned.                     *)
c_env ==
    \/ Spawn("c_env", "c_log", PROC_SLOT_BASE, "none")
    \/ SpawnFails("c_env", "c_frame")
c_log == Yields("c_log", "c_doomed")

c_doomed ==
    \/ Spawn("c_doomed", "c_doomed_y", DOOMED_SLOT, "none")
    \/ SpawnFails("c_doomed", "c_crash")
c_doomed_y == Yields("c_doomed_y", "c_kill")

(* Seeded fault: the child is killed with SIGKILL.                         *)
c_kill_hard ==
    /\ Step("c_kill", "c_kill_w")
    /\ kill(DOOMED_SLOT, 9)
    /\ UNCHANGED locals

c_kill ==
    /\ Step("c_kill", "c_kill_w")
    /\ kill(DOOMED_SLOT, SIGTERM)
    /\ UNCHANGED locals
c_kill_w == Reap("c_kill_w", "c_crash", DOOMED_SLOT)

c_crash ==
    \/ Spawn("c_crash", "c_crash_w", CRASH_SLOT, "crash")
    \/ SpawnFails("c_crash", "c_frame")
c_crash_w == Reap("c_crash_w", "c_frame", CRASH_SLOT)

(* GET_FRAME for every socket: the page's capability lands in its slot.    *)
(* A refusal, or a MAP_FRAME that fails, is remembered: without all the    *)
(* pages there is no network test.                                         *)
c_frame ==
    \/ Request("c_frame", "c_frame_r", "GetFrame", {cnt[current]})
    \/ AwaitReply("c_frame_r", "c_mapped", SHM_FRAME_SLOT + cnt[current])
    \/ \E ok \in BOOLEAN :
         /\ ok => reg[current].kind = "Reply"
         /\ Local("c_mapped", IF ~LastSock THEN "c_frame"
                              ELSE IF ok /\ frames_ok[current] THEN "c_conn" ELSE "c_bye")
         /\ frames_ok' = [frames_ok EXCEPT ![current] = @ /\ ok]
         /\ CountSocks
         /\ UNCHANGED <<role, reg, bits, code, mask, remaining, pending>>

(* A request for each socket in turn, then on to m.                        *)
EachSocket(l, l_r, op, m) ==
    \/ Request(l, l_r, op, {cnt[current]})
    \/ /\ Step(l_r, IF LastSock THEN m ELSE l)
       /\ sys_recv(REPLY_EP_SLOT, MAX)
       /\ CountSocks
       /\ UNCHANGED butCnt

c_conn == EachSocket("c_conn", "c_conn_r", "Connect", "c_send")

(* Seeded fault: the client does not wait for the reply to SEND.           *)
c_send_async ==
    /\ Step("c_send", IF LastSock THEN "c_round" ELSE "c_send")
    /\ sys_send(EP_SLOT, Ask("Send", {cnt[current]}), MAX)
    /\ CountSocks
    /\ UNCHANGED butCnt

c_send == EachSocket("c_send", "c_send_r", "Send", "c_round")

(* The ready-set test: GET_READY, then a WAIT, then RECV on each socket of *)
(* the mask.                                                               *)
TestOver == cnt[current] = ROUNDS \/ remaining[current] = {}
c_round ==
    \/ TestOver /\ Local("c_round", "c_close") /\ Count(0) /\ UNCHANGED butCnt
    \/ ~TestOver /\ Request("c_round", "c_round_r", "GetReady", {})
    \/ AwaitReply("c_round_r", "c_mask", MAX)
    \/ /\ Local("c_mask", IF reg[current].socks = {} THEN "c_close" ELSE "c_wait")
       /\ mask' = [mask EXCEPT ![current] = reg[current].socks]
       /\ Count(IF reg[current].socks = {} THEN 0 ELSE cnt[current] + 1)
       /\ UNCHANGED <<role, reg, bits, code, frames_ok, remaining, pending>>

c_wait ==
    /\ Step("c_wait", "c_recv")
    /\ sys_wait(NOTIF_SLOT)
    /\ UNCHANGED locals

(* Whether or not RECV had data, the socket is done for this round.        *)
c_recv ==
    \/ mask[current] = {} /\ Local("c_recv", "c_round") /\ UNCHANGED locals
    \/ /\ mask[current] # {}
       /\ Request("c_recv", "c_recv_r", "Recv", {Min(mask[current])})
    \/ AwaitReply("c_recv_r", "c_got", MAX)
    \/ \E got \in BOOLEAN :
         /\ Local("c_got", "c_recv")
         /\ mask' = [mask EXCEPT ![current] = @ \ reg[current].socks]
         /\ remaining' = [remaining EXCEPT ![current] =
                             IF got THEN @ \ reg[current].socks ELSE @]
         /\ UNCHANGED <<role, reg, bits, code, cnt, frames_ok, pending>>

c_close == EachSocket("c_close", "c_close_r", "Close", "c_bye")

(* BYE has no reply.                                                       *)
c_bye ==
    \/ /\ Step("c_bye", "c_exit")
       /\ sys_send(EP_SLOT, Bye, MAX)
       /\ UNCHANGED locals
    \/ Exit("c_exit", 0)

Client ==
    \/ c_start \/ crash_child \/ granted_child \/ g_give_up \/ g_ok
    \/ c_ready \/ c_files \/ c_env \/ c_log
    \/ c_doomed \/ c_doomed_y \/ c_kill \/ c_kill_w
    \/ c_crash \/ c_crash_w
    \/ c_frame \/ c_conn \/ c_send \/ c_round \/ c_wait \/ c_recv \/ c_close \/ c_bye
-----------------------------------------------------------------------------
(* The kernel's side: its loops return to a program, and the timer.        *)

k_recv ==
    /\ try_recv
    /\ reg' = [reg EXCEPT ![current] = Head(queue[kont[current].id]).word]
    /\ UNCHANGED <<pc, role, bits, code, cnt, frames_ok, mask, remaining, pending>>

(* The client's loops look at what WAIT returned and at what they have.    *)
k_wait ==
    /\ poll_take
    /\ bits' = [bits EXCEPT ![current] = @ \cup word[kont[current].id]]
    /\ UNCHANGED <<pc, role, reg, code, cnt, frames_ok, mask, remaining, pending>>

k_wait_pid ==
    LET target == kont[current].id
    IN  /\ wait_pid
        /\ code' = IF state[target] = "Done"
                     THEN [code EXCEPT ![current] = exit_code[target]] ELSE code
        /\ UNCHANGED <<pc, role, reg, bits, cnt, frames_ok, mask, remaining, pending>>

k_block == (recv_block \/ wait_block) /\ UNCHANGED <<pc, locals>>

k_preempt == timer_preempt /\ UNCHANGED <<pc, locals>>

InKernel == k_recv \/ k_wait \/ k_wait_pid \/ k_block

BootNext == Root \/ Client \/ InKernel \/ k_preempt

BootSpec == BootInit /\ [][BootNext]_bootvars

(* As in Kernel; and a program that gets the CPU again and again gets on:  *)
(* a time slice is longer than a step.                                     *)
BootFairness ==
    /\ WF_bootvars(InKernel)
    /\ SF_bootvars(k_preempt)
    /\ SF_bootvars(Root)
    /\ SF_bootvars(Client)

BootFairSpec == BootSpec /\ BootFairness
-----------------------------------------------------------------------------
(* Properties.                                                             *)

Waiting == {"start", "c_ready", "granted", "g_ok", "crash"}
IsClient(p) == p # 0 /\ pc[p] \notin Waiting \cup {"end"}

(* At most one process is past the wait for the services.  The children a  *)
(* client spawns run the same code and wait on the same notification; that *)
(* they never mistake the data signals of sockets for the announcement is  *)
(* what keeps two clients off the one pair of endpoints.                   *)
OneClient == \A p, q \in Pid : IsClient(p) /\ IsClient(q) => p = q

(* A client that has its reply has the reply to its own last request,      *)
(* although all processes share the reply endpoint.                        *)
Replied == [op \in {"c_mapped", "c_mask", "c_got"} |->
              CASE op = "c_mapped" -> "GetFrame" [] op = "c_mask" -> "GetReady"
                [] op = "c_got" -> "Recv"]
ReplyToAsker ==
    \A p \in Pid : pc[p] \in DOMAIN Replied /\ kont[p] = UserMode =>
        reg[p].kind \in {"Reply", "Refusal"} /\ reg[p].op = Replied[pc[p]]

(* The client's expectations of its children (main.rs, the comparisons     *)
(* after its two WAIT_PIDs): the killed one ended with 15, not by itself   *)
(* before, and the crashed one with EXIT_FAULT.                            *)
ReapedAsExpected ==
    \A p \in Pid : kont[p] = UserMode =>
        /\ pc[p] = "c_crash" /\ holds(caps[p], DOOMED_SLOT, "Process") =>
              code[p] = SIGTERM
        /\ pc[p] = "c_frame" /\ holds(caps[p], CRASH_SLOT, "Process") =>
              code[p] = EXIT_FAULT

(* p has been spawned and plays no role: it is a client.                   *)
Started(p) == state[p] # "Absent" /\ role[p] = "none"

(* Once the services are announced, the client comes to the WAIT of its    *)
(* ready-set test or to its end: the announcement reaches it whenever it   *)
(* comes to wait, every request is answered and every child is reaped.     *)
ClientGetsThrough == pc[0] = "r_shm" /\ Started(1) ~> pc[1] \in {"c_wait", "end"}

(* "a WAIT returns exactly which sockets are readable" (main.rs, after     *)
(* GET_READY): the client's WAIT returns.                                  *)
ReadyWaitReturns == pc[1] = "c_wait" ~> pc[1] = "c_recv" /\ kont[1] = UserMode
=============================================================================
