-------------------------------- MODULE Service --------------------------------
(***************************************************************************)
(* The service host of the init program (userland/init/src/main.rs,        *)
(* combined_service): its request loop, the sockets it tracks, and the     *)
(* receive side of its virtio-net driver; with the client that sends it    *)
(* requests and the processes that wait on the shared notification.        *)
(*                                                                         *)
(* A request or reply word is the request it belongs to.  Sequence and     *)
(* acknowledgement numbers, addresses and the file system are left out: a  *)
(* data segment is known by its connection and its place in it.  Receive   *)
(* buffers are counted by how many the device still owes (`armed`, which   *)
(* is rx_posted - used.idx); they all are the one buffer `buf`.  The       *)
(* network and the device are external: the device fills an armed buffer   *)
(* from `wire`, in order, whenever it likes, so that a wait may time out   *)
(* and the frame come later.                                               *)
(***************************************************************************)
EXTENDS Integers, Sequences

CONSTANTS
    SOCK_MAX,           \* sockets the service tracks
    HAVE_SHM,           \* those whose shared frame could be allocated
    RX_ATTEMPTS,        \* frames one RECV or GET_READY looks at
    CONNECT_ATTEMPTS,   \* frames one CONNECT looks at
    SendOps,            \* "Send" (at most 64 bytes), "SendLong" (more)
    MAX_ARMED,          \* bound: receive buffers left armed by timeouts
    MAX_CONNS,          \* bound: connections per socket
    MAX_SEGS,           \* bound: data segments the peer sends per connection
    MAX_WIRE            \* bound: frames on the wire

Socks == 0 .. SOCK_MAX - 1

ASSUME ServiceAssumption ==
    /\ SOCK_MAX \in Nat \ {0}
    /\ HAVE_SHM \subseteq Socks
    /\ {RX_ATTEMPTS, CONNECT_ATTEMPTS} \subseteq Nat \ {0}
    /\ SendOps \subseteq {"Send", "SendLong"}
    /\ {MAX_ARMED, MAX_CONNS, MAX_SEGS, MAX_WIRE} \subseteq Nat

(* A request names a socket, or socket 0 where it names none.  "Query"     *)
(* stands for the requests answered without looking at a socket's state:   *)
(* the directory and file queries, GET_FRAME, unknown ones, a bad socket.  *)
Polling == {"Connect", "Recv", "GetReady"}
Request == [op : {"Connect", "Recv", "Close"} \cup SendOps, sock : Socks]
             \cup [op : {"GetReady", "ReadFile", "Query"}, sock : {0}]
Bye == [op |-> "Bye", sock |-> 0]
NoReq == [op |-> "None", sock |-> 0]
Gone == [op |-> "Gone", sock |-> 0]

(* What the driver tells apart in a frame: a SYN/ACK, a segment with data, *)
(* a FIN or RST for a socket, and other traffic.                           *)
Segment(kind, s, conn, seq) == [kind |-> kind, sock |-> s, conn |-> conn, seq |-> seq]
Alien == Segment("Alien", -1, 0, 0)

(* Contents of a shared page that are not a data segment.                  *)
Nothing == Segment("Nothing", -1, 0, 0)
FromFile == Segment("File", -1, 0, 0)
FromClient == Segment("Client", -1, 0, 0)

VARIABLES
    ep, reply,   \* the queues of the two endpoints
    waiting,     \* the request the client waits for, NoReq, or Gone
    svc,         \* where the service is
    active,      \* TcpState.active of each socket
    pending,     \* the sockets with buffered data not yet handed out
    shm,         \* the contents of each socket's shared page
    armed,       \* receive buffers the device has not filled
    buf,         \* the receive buffer
    wire,        \* frames on their way to us
    peer,        \* the other side of each socket
    word,        \* the ready bits of the notification
    told         \* history: ready bits some WAIT returned since they were raised

queues == <<ep, reply>>
sockets == <<active, pending, shm>>
nic == <<armed, buf>>
vars == <<ep, reply, waiting, svc, active, pending, shm, armed, buf, wire,
          peer, word, told>>

Idle == [at |-> "Idle", req |-> NoReq, left |-> 0]
Stopped == [at |-> "Stopped", req |-> NoReq, left |-> 0]
Doing(at, req, left) == [at |-> at, req |-> req, left |-> left]

(* The service is up and the client has seen its READY bits.  DHCP or ARP  *)
(* may have timed out and left a buffer armed.                             *)
Init ==
    /\ ep = <<>> /\ reply = <<>>
    /\ waiting = NoReq
    /\ svc = Idle
    /\ active = [s \in Socks |-> FALSE]
    /\ pending = {}
    /\ shm = [s \in Socks |-> Nothing]
    /\ armed \in 0 .. 1
    /\ buf = Nothing
    /\ wire = <<>>
    /\ peer = [s \in Socks |-> [conn |-> 0, open |-> FALSE, sent |-> 0]]
    /\ word = {}
    /\ told = {}
-----------------------------------------------------------------------------
(* The client, and everyone who waits on the notification.                 *)

(* request: one word out, then wait for the reply.  Before SEND the client *)
(* writes its data to the socket's shared page.                            *)
request(r) ==
    /\ waiting = NoReq
    /\ r.op \in Polling => armed < MAX_ARMED
    /\ r.op = "Connect" => peer[r.sock].conn < MAX_CONNS
    /\ ep' = Append(ep, r)
    /\ waiting' = r
    /\ shm' = IF r.op \in SendOps THEN [shm EXCEPT ![r.sock] = FromClient] ELSE shm
    /\ UNCHANGED <<reply, svc, active, pending, nic, wire, peer, word, told>>

(* The client takes its reply.                                             *)
take_reply ==
    /\ waiting \in Request
    /\ reply # <<>>
    /\ reply' = Tail(reply)
    /\ waiting' = NoReq
    /\ UNCHANGED <<ep, svc, sockets, nic, wire, peer, word, told>>

(* OP_BYE has no reply; the client exits.                                  *)
bye ==
    /\ waiting = NoReq
    /\ ep' = Append(ep, Bye)
    /\ waiting' = Gone
    /\ UNCHANGED <<reply, svc, sockets, nic, wire, peer, word, told>>

(* WAIT, by the client or by a child of it that still waits for READY:     *)
(* whoever comes takes all the bits.                                       *)
wait_notif ==
    /\ word # {}
    /\ told' = told \cup word
    /\ word' = {}
    /\ UNCHANGED <<queues, waiting, svc, sockets, nic, wire, peer>>
-----------------------------------------------------------------------------
(* The network and the device.                                             *)

(* The peer sends data on an open connection.                              *)
peer_data(s) ==
    /\ peer[s].open /\ peer[s].sent < MAX_SEGS
    /\ Len(wire) < MAX_WIRE
    /\ peer' = [peer EXCEPT ![s].sent = @ + 1]
    /\ wire' = Append(wire, Segment("Data", s, peer[s].conn, peer[s].sent + 1))
    /\ UNCHANGED <<queues, waiting, svc, sockets, nic, word, told>>

(* Traffic for no socket: ARP, DHCP, a port nobody listens on.             *)
other_traffic ==
    /\ Len(wire) < MAX_WIRE
    /\ wire' = Append(wire, Alien)
    /\ UNCHANGED <<queues, waiting, svc, sockets, nic, peer, word, told>>

(* The device fills the next armed buffer.                                 *)
deliver ==
    /\ armed > 0 /\ wire # <<>>
    /\ buf' = Head(wire)
    /\ wire' = Tail(wire)
    /\ armed' = armed - 1
    /\ UNCHANGED <<queues, waiting, svc, sockets, peer, word, told>>

(* Outcomes of net_tx: the device took the frame in time, or it timed out, *)
(* and then the frame may have gone out or not.                            *)
Tx == {[ok |-> TRUE, out |-> TRUE], [ok |-> FALSE, out |-> TRUE],
       [ok |-> FALSE, out |-> FALSE]}

(* The peer answers a SYN that reached it: it opens a connection or        *)
(* refuses.                                                                *)
peer_syn(s, tx, accepts) ==
    LET conn == peer[s].conn + 1
    IN  IF tx.out
          THEN /\ peer' = [peer EXCEPT ![s] =
                             [conn |-> conn, open |-> accepts, sent |-> 0]]
               /\ wire' = Append(wire, Segment(IF accepts THEN "SynAck" ELSE "Rst",
                                               s, conn, 0))
          ELSE UNCHANGED <<peer, wire>>

(* The peer answers a FIN that reached it with a FIN of its own.           *)
peer_fin(s, tx) ==
    IF tx.out
      THEN /\ peer' = [peer EXCEPT ![s].open = FALSE]
           /\ wire' = Append(wire, Segment("Fin", s, peer[s].conn, 0))
      ELSE UNCHANGED <<peer, wire>>
-----------------------------------------------------------------------------
(* The driver.                                                             *)

(* net_rx_arm.  What the buffer holds is not looked at before the device   *)
(* has filled it again, and is forgotten.                                  *)
net_rx_arm == armed' = armed + 1 /\ buf' = Nothing

(* net_rx_wait succeeds when the device has filled every armed buffer; it  *)
(* may give up as long as it has not.                                      *)
rx_filled == armed = 0
(* Seeded fault: the wait never gives up.                                  *)
rx_patient == FALSE
rx_timeout == armed > 0

(* The frame in the buffer carries data for a socket that takes it.        *)
socket_data ==
    /\ buf.sock \in HAVE_SHM
    /\ active[buf.sock]
    /\ buf.kind = "Data"

(* Seeded fault: only GET_READY announces what it buffers.                 *)
net_buffer_frame_quiet(out) ==
    IF socket_data
      THEN /\ shm' = [shm EXCEPT ![buf.sock] = buf]
           /\ pending' = (pending \cup {buf.sock}) \ out
           /\ word' = IF svc.req.op = "Recv" THEN word ELSE word \cup {buf.sock}
           /\ told' = told \ {buf.sock}
      ELSE UNCHANGED <<shm, pending, word, told>>

(* net_buffer_frame: the payload replaces what the page held, and the      *)
(* socket's ready bit is raised.  The ACK it sends gets no answer, and its *)
(* outcome is ignored.  The sockets in `out` are handed out at once.       *)
net_buffer_frame(out) ==
    IF socket_data
      THEN /\ shm' = [shm EXCEPT ![buf.sock] = buf]
           /\ pending' = (pending \cup {buf.sock}) \ out
           /\ word' = word \cup {buf.sock}
           /\ told' = told \ {buf.sock}
      ELSE UNCHANGED <<shm, pending, word, told>>
-----------------------------------------------------------------------------
(* The service.                                                            *)

(* The top of the loop: RECV a request; BYE ends the service.              *)
recv_request ==
    /\ svc = Idle
    /\ ep # <<>>
    /\ ep' = Tail(ep)
    /\ svc' = IF Head(ep) = Bye THEN Stopped ELSE Doing("Serve", Head(ep), 0)
    /\ UNCHANGED <<reply, waiting, sockets, nic, wire, peer, word, told>>

Serving(op) == svc.at = "Serve" /\ svc.req.op = op
sock == svc.req.sock
usable == active[sock] /\ sock \in HAVE_SHM

(* The reply, and back to the top of the loop.                             *)
answer ==
    /\ reply' = Append(reply, svc.req)
    /\ svc' = Idle
    /\ UNCHANGED <<ep, waiting>>

serve_query ==
    /\ Serving("Query")
    /\ answer
    /\ UNCHANGED <<sockets, nic, wire, peer, word, told>>

(* READFILE puts the file into socket 0's page.  Without that page nothing *)
(* happens; a missing file or a disk error may come before the first       *)
(* sector is copied or after it.                                           *)
read_file(copied) ==
    /\ Serving("ReadFile")
    /\ copied => 0 \in HAVE_SHM
    /\ shm' = IF copied THEN [shm EXCEPT ![0] = FromFile] ELSE shm
    /\ answer
    /\ UNCHANGED <<active, pending, nic, wire, peer, word, told>>

(* SEND: a segment with the page's contents, if the socket is usable; the  *)
(* outcome decides only what the reply says.                               *)
net_send ==
    /\ Serving("Send") \/ (Serving("SendLong") /\ ~usable)
    /\ answer
    /\ UNCHANGED <<sockets, nic, wire, peer, word, told>>

(* The frame net_tcp_send builds has room for 64 bytes of data, and SEND   *)
(* lets a page pass: more data is an index out of bounds, and the panic    *)
(* handler spins for ever.                                                 *)
net_send_panic ==
    /\ Serving("SendLong") /\ usable
    /\ svc' = [svc EXCEPT !.at = "Panicked"]
    /\ UNCHANGED <<queues, waiting, sockets, nic, wire, peer, word, told>>

(* CLOSE: a FIN whose outcome is ignored.  Buffered data stays buffered.   *)
net_close(tx) ==
    /\ Serving("Close")
    /\ IF active[sock] THEN peer_fin(sock, tx) ELSE UNCHANGED <<peer, wire>>
    /\ active' = [active EXCEPT ![sock] = FALSE]
    /\ answer
    /\ UNCHANGED <<pending, shm, nic, word, told>>

(* A CONNECT that ends: the socket is active or not, and the client is     *)
(* told.                                                                   *)
connected(ok) == active' = [active EXCEPT ![sock] = ok] /\ answer

(* net_connect arms a buffer and sends the SYN.                            *)
connect_syn(tx, accepts) ==
    /\ Serving("Connect")
    /\ net_rx_arm
    /\ peer_syn(sock, tx, accepts)
    /\ IF tx.ok
         THEN /\ svc' = Doing("SynWait", svc.req, CONNECT_ATTEMPTS)
              /\ UNCHANGED <<active, queues, waiting>>
         ELSE connected(FALSE)
    /\ UNCHANGED <<pending, shm, word, told>>

SynWait == svc.at = "SynWait"

(* One more turn of net_connect's loop, or its end.                        *)
connect_again ==
    IF svc.left > 1
      THEN svc' = [svc EXCEPT !.left = @ - 1] /\ UNCHANGED <<active, queues, waiting>>
      ELSE connected(FALSE)

connect_timeout ==
    /\ SynWait /\ rx_timeout
    /\ connected(FALSE)
    /\ UNCHANGED <<pending, shm, nic, wire, peer, word, told>>

(* A frame that is not for this socket's port is skipped.                  *)
connect_skip ==
    /\ SynWait /\ rx_filled
    /\ buf.sock # sock
    /\ net_rx_arm
    /\ connect_again
    /\ UNCHANGED <<pending, shm, wire, peer, word, told>>

(* A SYN/ACK is acknowledged.  When the ACK times out the loop goes on     *)
(* without arming a buffer, and looks at the same frame again.             *)
connect_accept(tx) ==
    /\ SynWait /\ rx_filled
    /\ buf.sock = sock /\ buf.kind = "SynAck"
    /\ IF tx.ok THEN connected(TRUE) ELSE connect_again
    /\ UNCHANGED <<pending, shm, nic, wire, peer, word, told>>

(* Anything else for this port fails the CONNECT.                          *)
connect_refuse ==
    /\ SynWait /\ rx_filled
    /\ buf.sock = sock /\ buf.kind # "SynAck"
    /\ connected(FALSE)
    /\ UNCHANGED <<pending, shm, nic, wire, peer, word, told>>

(* Seeded fault: RECV on a socket that is not usable gets no reply.        *)
recv_at_once_silent ==
    /\ Serving("Recv")
    /\ ~usable \/ sock \in pending
    /\ pending' = IF usable THEN pending \ {sock} ELSE pending
    /\ IF usable THEN answer ELSE svc' = Idle /\ UNCHANGED <<queues, waiting>>
    /\ UNCHANGED <<active, shm, nic, wire, peer, word, told>>

(* RECV answers at once when the socket is not usable, or has data.        *)
recv_at_once ==
    /\ Serving("Recv")
    /\ ~usable \/ sock \in pending
    /\ pending' = IF usable THEN pending \ {sock} ELSE pending
    /\ answer
    /\ UNCHANGED <<active, shm, nic, wire, peer, word, told>>

(* GET_READY answers at once when some socket has data.                    *)
ready_at_once ==
    /\ Serving("GetReady")
    /\ pending # {}
    /\ answer
    /\ UNCHANGED <<sockets, nic, wire, peer, word, told>>

(* Otherwise both poll the NIC.                                            *)
poll_start ==
    /\ \/ Serving("Recv") /\ usable /\ sock \notin pending
       \/ Serving("GetReady") /\ pending = {}
    /\ net_rx_arm
    /\ svc' = Doing("Poll", svc.req, RX_ATTEMPTS)
    /\ UNCHANGED <<queues, waiting, sockets, wire, peer, word, told>>

poll_timeout ==
    /\ svc.at = "Poll" /\ rx_timeout
    /\ answer
    /\ UNCHANGED <<sockets, nic, wire, peer, word, told>>

(* The frame is what the poll was for: data for the socket of a RECV, or  *)
(* for any socket in GET_READY.                                            *)
wanted == socket_data /\ (svc.req.op = "Recv" => buf.sock = sock)

(* RECV hands the data out at once.                                        *)
poll_hit ==
    /\ svc.at = "Poll" /\ rx_filled
    /\ wanted
    /\ net_buffer_frame(IF svc.req.op = "Recv" THEN {sock} ELSE {})
    /\ answer
    /\ UNCHANGED <<active, nic, wire, peer>>

(* Any other frame is buffered if it is data, and the poll goes on.        *)
poll_miss ==
    /\ svc.at = "Poll" /\ rx_filled
    /\ ~wanted
    /\ net_buffer_frame({})
    /\ IF svc.left > 1
         THEN /\ net_rx_arm
              /\ svc' = [svc EXCEPT !.left = @ - 1]
              /\ UNCHANGED <<queues, waiting>>
         ELSE answer /\ UNCHANGED nic
    /\ UNCHANGED <<active, wire, peer>>

ServiceStep ==
    \/ recv_request
    \/ serve_query
    \/ \E copied \in BOOLEAN : read_file(copied)
    \/ net_send
    \/ net_send_panic
    \/ \E tx \in Tx : net_close(tx)
    \/ \E tx \in Tx, accepts \in BOOLEAN : connect_syn(tx, accepts)
    \/ connect_timeout
    \/ connect_skip
    \/ \E tx \in Tx : connect_accept(tx)
    \/ connect_refuse
    \/ recv_at_once
    \/ ready_at_once
    \/ poll_start
    \/ poll_timeout
    \/ poll_hit
    \/ poll_miss

Next ==
    \/ \E r \in Request : request(r)
    \/ take_reply
    \/ bye
    \/ wait_notif
    \/ \E s \in Socks : peer_data(s)
    \/ other_traffic
    \/ deliver
    \/ ServiceStep

Spec == Init /\ [][Next]_vars

(* The scheduler runs the service and the client (module Kernel), and      *)
(* every wait of the driver ends by its spin limit.  Nothing is assumed of *)
(* the network, the device, or what the client asks for.                   *)
FairSpec == Spec /\ WF_vars(ServiceStep) /\ WF_vars(take_reply)
-----------------------------------------------------------------------------
(* Properties.                                                             *)

Frames == {Nothing, FromFile, FromClient, Alien}
            \cup [kind : {"SynAck", "Data", "Fin", "Rst"}, sock : Socks,
                  conn : 0 .. MAX_CONNS, seq : 0 .. MAX_SEGS]

TypeOK ==
    /\ waiting \in Request \cup {NoReq, Gone}
    /\ svc.at \in {"Idle", "Serve", "SynWait", "Poll", "Panicked", "Stopped"}
    /\ svc.req \in Request \cup {NoReq}
    /\ active \in [Socks -> BOOLEAN]
    /\ pending \subseteq HAVE_SHM
    /\ shm \in [Socks -> Frames]
    /\ armed \in Nat
    /\ buf \in Frames
    /\ word \subseteq Socks /\ told \subseteq Socks

(* The requests in the system, from the client's SEND to its RECV.         *)
InSystem == ep \o (IF svc.req = NoReq THEN <<>> ELSE <<svc.req>>) \o reply

(* "Each request gets exactly one u64 reply" (the protocol's comment):     *)
(* from the moment the client sends a request to the moment it takes a     *)
(* reply, exactly one of request and reply exists, and it is the client's; *)
(* so no error path of the service replies twice or not at all, and no     *)
(* later request gets the reply of an earlier one.                         *)
OneReply ==
    /\ waiting \in Request => InSystem = <<waiting>>
    /\ waiting = NoReq => InSystem = <<>>

(* Every readable socket is announced (net_buffer_frame, "raise the        *)
(* socket's ready bit"): when a segment waits to be handed out, its ready  *)
(* bit is set, or some WAIT has returned it since the segment came.        *)
ReadyAnnounced == \A s \in pending : s \in word \cup told

(* Every request is answered, short of a panic of the service, whatever    *)
(* the network and the device do and although every wait of the service is *)
(* a busy loop on the device (net_rx_wait, net_tx).                        *)
RequestAnswered ==
    waiting \in Request ~> waiting = NoReq \/ svc.at = "Panicked"

(* net_buffer_frame's comment: "Frames are buffered, never dropped."  A    *)
(* segment that waits to be handed out is not replaced by the next one     *)
(* that a poll buffers.                                                    *)
NeverDropped ==
    [][poll_hit \/ poll_miss =>
          \A s \in pending \cap pending' : shm'[s] = shm[s]]_vars
=============================================================================
