----------------------------- MODULE ServiceProofs -----------------------------
(***************************************************************************)
(* The request loop of the service host, for any number of sockets,        *)
(* attempts, connections, segments and buffers.                            *)
(*                                                                         *)
(* OneReply is a statement about three places at once, the two queues and  *)
(* the service; Conversation says in which one the client's request is,    *)
(* and ServiceAt that the service holds a request exactly while it works.  *)
(* That only frames reach the buffer needs that the wire holds frames      *)
(* (Network), and that needs that a CONNECT on its way finds a connection  *)
(* number left (ConnectsLeft).                                             *)
(***************************************************************************)
EXTENDS Service, SequenceTheorems, TLAPS

Working == {"Serve", "SynWait", "Poll", "Panicked"}

(* The service holds a request exactly while it works on one.              *)
ServiceAt ==
    \/ svc = Idle
    \/ svc = Stopped
    \/ svc \in [at : Working, req : Request, left : Nat]

(* The client's request is in one place: on its way, at the service, or    *)
(* answered.  A client that is gone leaves at most its BYE behind.         *)
Conversation ==
    /\ waiting \in Request =>
          \/ ep = <<waiting>> /\ svc.req = NoReq /\ reply = <<>>
          \/ ep = <<>> /\ svc.req = waiting /\ reply = <<>>
          \/ ep = <<>> /\ svc.req = NoReq /\ reply = <<waiting>>
    /\ waiting \notin Request => svc.req = NoReq /\ reply = <<>>
    /\ waiting = NoReq => ep = <<>>
    /\ waiting = Gone => ep \in {<<>>, <<Bye>>}

(* What the service keeps of its sockets.                                  *)
Sockets ==
    /\ active \in [Socks -> BOOLEAN]
    /\ pending \subseteq HAVE_SHM
    /\ shm \in [Socks -> Frames]
    /\ word \subseteq Socks /\ told \subseteq Socks

(* The network side: the buffer and the wire hold frames.                  *)
Peer == [conn : 0 .. MAX_CONNS, open : BOOLEAN, sent : 0 .. MAX_SEGS]
Network ==
    /\ armed \in Nat
    /\ buf \in Frames
    /\ wire \in Seq(Frames)
    /\ peer \in [Socks -> Peer]

(* A CONNECT whose SYN is not sent yet finds a connection number left.     *)
ConnectsLeft ==
    waiting \in Request /\ waiting.op = "Connect" /\ (ep # <<>> \/ svc.at = "Serve")
      => peer[waiting.sock].conn < MAX_CONNS

Inv ==
    /\ waiting \in Request \cup {NoReq, Gone}
    /\ ServiceAt
    /\ Conversation
    /\ Sockets
    /\ Network
    /\ ConnectsLeft
-----------------------------------------------------------------------------
(* The special words are no requests, and are told apart. *)
LEMMA Words ==
  /\ NoReq \notin Request /\ Gone \notin Request /\ Bye \notin Request
  /\ NoReq # Gone /\ NoReq # Bye
<1>1. \A r \in Request : r.op \notin {"None", "Gone", "Bye"}
  BY ServiceAssumption DEF Request
<1> QED BY <1>1 DEF NoReq, Gone, Bye

(* A request names a socket. *)
LEMMA RequestSock ==
  ASSUME NEW r \in Request
  PROVE  r.sock \in Socks
  BY ServiceAssumption DEF Request, Socks

(* Where the client's request is, the three sequences are known. *)
LEMMA ConversationIsOneReply == Inv => OneReply
<1> SUFFICES ASSUME Inv PROVE OneReply
  OBVIOUS
<1>1. ASSUME waiting \in Request PROVE InSystem = <<waiting>>
  <2> DEFINE mid == IF svc.req = NoReq THEN <<>> ELSE <<svc.req>>
  <2>1. \/ ep = <<waiting>> /\ mid = <<>> /\ reply = <<>>
        \/ ep = <<>> /\ mid = <<waiting>> /\ reply = <<>>
        \/ ep = <<>> /\ mid = <<>> /\ reply = <<waiting>>
    BY <1>1, Words DEF Inv, Conversation
  <2>2. /\ <<waiting>> \o <<>> \o <<>> = <<waiting>>
        /\ <<>> \o <<waiting>> \o <<>> = <<waiting>>
        /\ <<>> \o <<>> \o <<waiting>> = <<waiting>>
    OBVIOUS
  <2> HIDE DEF mid
  <2>3. ep \o mid \o reply = <<waiting>>
    BY <2>1, <2>2, Zenon
  <2> QED BY <2>3 DEF InSystem, mid
<1>2. ASSUME waiting = NoReq PROVE InSystem = <<>>
  <2>1. ep = <<>> /\ svc.req = NoReq /\ reply = <<>>
    BY <1>2, Words DEF Inv, Conversation
  <2> QED BY <2>1 DEF InSystem
<1> QED BY <1>1, <1>2 DEF OneReply

(* The inductive invariant gives the types. *)
LEMMA InvTypes == Inv => TypeOK
<1> SUFFICES ASSUME Inv PROVE TypeOK
  OBVIOUS
<1>1. /\ svc.at \in {"Idle", "Serve", "SynWait", "Poll", "Panicked", "Stopped"}
      /\ svc.req \in Request \cup {NoReq}
  BY DEF Inv, ServiceAt, Idle, Stopped, Working
<1> QED BY <1>1 DEF Inv, Sockets, Network, TypeOK

(* The initial state. *)
LEMMA InitInv == Init => Inv
<1> SUFFICES ASSUME Init PROVE Inv
  OBVIOUS
<1>1. ServiceAt /\ svc.req = NoReq
  BY DEF Init, ServiceAt, Idle
<1>2. Conversation
  BY <1>1, Words DEF Init, Conversation
<1>3. active \in [Socks -> BOOLEAN]
  BY Zenon DEF Init
<1>4. Sockets
  BY <1>3 DEF Init, Sockets, Frames
<1>5. \A s \in Socks : peer[s].open = FALSE
  BY DEF Init
<1>6. peer \in [Socks -> Peer]
  BY ServiceAssumption DEF Init, Peer
<1>7. Network
  BY <1>6 DEF Init, Network, Frames
<1>8. ConnectsLeft
  BY Words DEF Init, ConnectsLeft
<1> QED BY <1>1, <1>2, <1>4, <1>7, <1>8 DEF Inv, Init
-----------------------------------------------------------------------------
(* The talk between client and service.                                    *)

Talk == waiting \in Request \cup {NoReq, Gone} /\ ServiceAt /\ Conversation

(* A service that works holds the request the client waits for. *)
LEMMA WorkingOn ==
  ASSUME Talk, svc.at \in Working
  PROVE  /\ svc \in [at : Working, req : Request, left : Nat]
         /\ waiting \in Request /\ svc.req = waiting
         /\ ep = <<>> /\ reply = <<>>
<1>1. svc \in [at : Working, req : Request, left : Nat]
  BY DEF Talk, ServiceAt, Idle, Stopped, Working
<1> QED BY <1>1, Words DEF Talk, Conversation

(* The reply ends the work on the request (answer). *)
LEMMA AnswerTalk ==
  ASSUME Talk, svc.at \in Working, answer
  PROVE  Talk'
<1>1. waiting \in Request /\ svc.req = waiting /\ ep = <<>> /\ reply = <<>>
  BY WorkingOn
<1>2. waiting' = waiting /\ ep' = <<>> /\ reply' = <<waiting>> /\ svc' = Idle
  BY <1>1 DEF answer
<1>3. svc'.req = NoReq
  BY <1>2 DEF Idle
<1> QED BY <1>1, <1>2, <1>3, Words DEF Talk, ServiceAt, Conversation

(* A step of the work on a request that does not answer it. *)
LEMMA WorkTalk ==
  ASSUME Talk, svc.at \in Working, UNCHANGED <<ep, reply, waiting>>,
         NEW at \in Working, NEW left \in Nat,
         svc' = [at |-> at, req |-> svc.req, left |-> left]
  PROVE  Talk'
<1>1. waiting \in Request /\ svc.req = waiting /\ ep = <<>> /\ reply = <<>>
  BY WorkingOn
<1>2. svc' \in [at : Working, req : Request, left : Nat] /\ svc'.req = waiting
  BY <1>1
<1> QED BY <1>1, <1>2, Words DEF Talk, ServiceAt, Conversation

(* A step that leaves queues, client and service alone. *)
LEMMA StillTalk ==
  ASSUME Talk, UNCHANGED <<ep, reply, waiting, svc>>
  PROVE  Talk'
  BY DEF Talk, ServiceAt, Conversation

(* One more turn of net_connect's loop, or its end. *)
LEMMA AgainTalk ==
  ASSUME Talk, svc.at \in Working, connect_again
  PROVE  Talk'
<1>1. svc \in [at : Working, req : Request, left : Nat]
  BY WorkingOn
<1>2. CASE svc.left > 1
  <2>1. svc' = [svc EXCEPT !.left = @ - 1] /\ UNCHANGED <<ep, reply, waiting>>
    BY <1>2 DEF connect_again, queues
  <2>2. svc' = [at |-> svc.at, req |-> svc.req, left |-> svc.left - 1]
    BY <1>1, <2>1
  <2>3. svc.left - 1 \in Nat
    BY <1>1, <1>2
  <2> QED BY <1>1, <2>1, <2>2, <2>3, WorkTalk
<1>3. CASE ~(svc.left > 1)
  BY <1>3, AnswerTalk DEF connect_again, connected
<1> QED BY <1>2, <1>3

(* No error path answers twice or not at all. *)
LEMMA TalkStep ==
  ASSUME Talk, Next
  PROVE  Talk'
<1>1. ASSUME NEW r \in Request, request(r) PROVE Talk'
  <2>1. waiting = NoReq /\ ep = <<>> /\ reply = <<>> /\ svc.req = NoReq
    BY <1>1, Words DEF request, Talk, Conversation
  <2>2. ep' = <<r>> /\ waiting' = r /\ reply' = <<>> /\ svc' = svc
    BY <1>1, <2>1 DEF request
  <2> QED BY <2>1, <2>2, Words DEF Talk, ServiceAt, Conversation
<1>2. CASE take_reply
  <2>1. waiting \in Request /\ reply # <<>>
    BY <1>2 DEF take_reply
  <2>2. ep = <<>> /\ svc.req = NoReq /\ reply = <<waiting>>
    BY <2>1 DEF Talk, Conversation
  <2>3. ep' = <<>> /\ waiting' = NoReq /\ reply' = <<>> /\ svc' = svc
    BY <1>2, <2>2 DEF take_reply
  <2> QED BY <2>2, <2>3, Words DEF Talk, ServiceAt, Conversation
<1>3. CASE bye
  <2>1. waiting = NoReq /\ ep = <<>> /\ reply = <<>> /\ svc.req = NoReq
    BY <1>3, Words DEF bye, Talk, Conversation
  <2>2. ep' = <<Bye>> /\ waiting' = Gone /\ reply' = <<>> /\ svc' = svc
    BY <1>3, <2>1 DEF bye
  <2> QED BY <2>1, <2>2, Words DEF Talk, ServiceAt, Conversation
<1>4. CASE wait_notif
  BY <1>4, StillTalk DEF wait_notif, queues
<1>5. ASSUME NEW s \in Socks, peer_data(s) PROVE Talk'
  BY <1>5, StillTalk DEF peer_data, queues
<1>6. CASE other_traffic \/ deliver
  BY <1>6, StillTalk DEF other_traffic, deliver, queues
<1>7. CASE recv_request
  <2>1. svc = Idle /\ ep # <<>> /\ svc.req = NoReq
    BY <1>7 DEF recv_request, Idle
  <2>2. waiting' = waiting /\ reply' = reply
    BY <1>7 DEF recv_request
  <2>3. CASE waiting \in Request
    <3>1. ep = <<waiting>> /\ reply = <<>>
      BY <2>1, <2>3, Words DEF Talk, Conversation
    <3>2. Head(ep) = waiting /\ ep' = <<>>
      BY <1>7, <3>1 DEF recv_request
    <3>3. svc' = [at |-> "Serve", req |-> waiting, left |-> 0]
      BY <1>7, <2>3, <3>2, Words DEF recv_request, Doing
    <3>4. svc' \in [at : Working, req : Request, left : Nat] /\ svc'.req = waiting
      BY <2>3, <3>3 DEF Working
    <3> QED BY <2>2, <2>3, <3>1, <3>2, <3>4, Words DEF Talk, ServiceAt, Conversation
  <2>4. CASE waiting \notin Request
    <3>1. waiting = Gone /\ ep = <<Bye>> /\ reply = <<>>
      BY <2>1, <2>4 DEF Talk, Conversation
    <3>2. Head(ep) = Bye /\ ep' = <<>>
      BY <1>7, <3>1 DEF recv_request
    <3>3. svc' = Stopped
      BY <1>7, <3>2 DEF recv_request
    <3>4. svc'.req = NoReq
      BY <3>3 DEF Stopped
    <3> QED BY <2>2, <3>1, <3>2, <3>3, <3>4, Words DEF Talk, ServiceAt, Conversation
  <2> QED BY <2>3, <2>4
<1>8. CASE serve_query \/ net_send \/ recv_at_once \/ ready_at_once
  <2>1. svc.at \in Working /\ answer
    BY <1>8 DEF serve_query, net_send, recv_at_once, ready_at_once, Serving, Working
  <2> QED BY <2>1, AnswerTalk
<1>9. ASSUME NEW copied \in BOOLEAN, read_file(copied) PROVE Talk'
  <2>1. svc.at \in Working /\ answer
    BY <1>9 DEF read_file, Serving, Working
  <2> QED BY <2>1, AnswerTalk
<1>10. ASSUME NEW tx \in Tx, net_close(tx) PROVE Talk'
  <2>1. svc.at \in Working /\ answer
    BY <1>10 DEF net_close, Serving, Working
  <2> QED BY <2>1, AnswerTalk
<1>11. CASE net_send_panic
  <2>1. svc.at \in Working /\ "Panicked" \in Working
    BY <1>11 DEF net_send_panic, Serving, Working
  <2>2. svc \in [at : Working, req : Request, left : Nat]
    BY <2>1, WorkingOn
  <2>3. svc' = [at |-> "Panicked", req |-> svc.req, left |-> svc.left]
    BY <1>11, <2>2 DEF net_send_panic
  <2> QED BY <1>11, <2>1, <2>2, <2>3, WorkTalk DEF net_send_panic, queues
<1>12. ASSUME NEW tx \in Tx, NEW accepts \in BOOLEAN, connect_syn(tx, accepts)
       PROVE  Talk'
  <2>1. svc.at \in Working /\ "SynWait" \in Working /\ CONNECT_ATTEMPTS \in Nat
    BY <1>12, ServiceAssumption DEF connect_syn, Serving, Working
  <2>2. CASE tx.ok
    BY <1>12, <2>1, <2>2, WorkTalk DEF connect_syn, Doing, queues
  <2>3. CASE ~tx.ok
    BY <1>12, <2>1, <2>3, AnswerTalk DEF connect_syn, connected
  <2> QED BY <2>2, <2>3
<1>13. CASE connect_timeout \/ connect_refuse
  <2>1. svc.at \in Working /\ answer
    BY <1>13 DEF connect_timeout, connect_refuse, connected, SynWait, Working
  <2> QED BY <2>1, AnswerTalk
<1>14. CASE connect_skip
  BY <1>14, AgainTalk DEF connect_skip, SynWait, Working
<1>15. ASSUME NEW tx \in Tx, connect_accept(tx) PROVE Talk'
  <2>1. svc.at \in Working
    BY <1>15 DEF connect_accept, SynWait, Working
  <2>2. CASE tx.ok
    BY <1>15, <2>1, <2>2, AnswerTalk DEF connect_accept, connected
  <2>3. CASE ~tx.ok
    BY <1>15, <2>1, <2>3, AgainTalk DEF connect_accept
  <2> QED BY <2>2, <2>3
<1>16. CASE poll_start
  <2>1. svc.at \in Working /\ "Poll" \in Working /\ RX_ATTEMPTS \in Nat
    BY <1>16, ServiceAssumption DEF poll_start, Serving, Working
  <2> QED BY <1>16, <2>1, WorkTalk DEF poll_start, Doing, queues
<1>17. CASE poll_timeout \/ poll_hit
  <2>1. svc.at \in Working /\ answer
    BY <1>17 DEF poll_timeout, poll_hit, Working
  <2> QED BY <2>1, AnswerTalk
<1>18. CASE poll_miss
  <2>1. svc.at \in Working
    BY <1>18 DEF poll_miss, Working
  <2>2. svc \in [at : Working, req : Request, left : Nat]
    BY <2>1, WorkingOn
  <2>3. CASE svc.left > 1
    <3>1. svc' = [svc EXCEPT !.left = @ - 1] /\ UNCHANGED <<ep, reply, waiting>>
      BY <1>18, <2>3 DEF poll_miss, queues
    <3>2. svc' = [at |-> svc.at, req |-> svc.req, left |-> svc.left - 1]
      BY <2>2, <3>1
    <3>3. svc.left - 1 \in Nat
      BY <2>2, <2>3
    <3> QED BY <2>1, <3>1, <3>2, <3>3, WorkTalk
  <2>4. CASE ~(svc.left > 1)
    BY <1>18, <2>1, <2>4, AnswerTalk DEF poll_miss
  <2> QED BY <2>3, <2>4
<1> QED
  BY <1>1, <1>2, <1>3, <1>4, <1>5, <1>6, <1>7, <1>8, <1>9, <1>10, <1>11, <1>12,
     <1>13, <1>14, <1>15, <1>16, <1>17, <1>18 DEF Next, ServiceStep
-----------------------------------------------------------------------------
(* The sockets and their pages.                                            *)

(* An update of a function with a value of its range keeps its type. *)
LEMMA UpdateType ==
  ASSUME NEW S, NEW T, NEW f \in [S -> T], NEW i \in S, NEW e \in T
  PROVE  [f EXCEPT ![i] = e] \in [S -> T]
  OBVIOUS

(* net_buffer_frame puts a frame into the page of a socket that has one. *)
LEMMA BufferSockets ==
  ASSUME Sockets, Network, NEW out, net_buffer_frame(out)
  PROVE  /\ pending' \subseteq HAVE_SHM
         /\ shm' \in [Socks -> Frames]
         /\ word' \subseteq Socks /\ told' \subseteq Socks
<1>1. CASE socket_data
  <2>1. buf.sock \in HAVE_SHM /\ buf.sock \in Socks /\ buf \in Frames
    BY <1>1, ServiceAssumption DEF socket_data, Network
  <2>2. /\ shm' = [shm EXCEPT ![buf.sock] = buf]
        /\ pending' = (pending \cup {buf.sock}) \ out
        /\ word' = word \cup {buf.sock} /\ told' = told \ {buf.sock}
    BY <1>1 DEF net_buffer_frame
  <2> QED BY <2>1, <2>2 DEF Sockets
<1>2. CASE ~socket_data
  BY <1>2 DEF net_buffer_frame, Sockets
<1> QED BY <1>1, <1>2

(* The end of a CONNECT or CLOSE makes its socket active or not. *)
LEMMA ActiveType ==
  ASSUME Sockets, NEW s \in Socks, NEW ok \in BOOLEAN,
         active' = [active EXCEPT ![s] = ok]
  PROVE  active' \in [Socks -> BOOLEAN]
  BY UpdateType, Zenon DEF Sockets

(* The socket of the request the service works on. *)
LEMMA WorkingSock ==
  ASSUME Talk, svc.at \in Working
  PROVE  sock \in Socks
<1>1. svc.req \in Request
  BY WorkingOn
<1> QED BY <1>1, RequestSock DEF sock

(* The bookkeeping of the sockets is kept by every step. *)
LEMMA SocketsStep ==
  ASSUME Talk, Sockets, Network, Next
  PROVE  Sockets'
<1>1. ASSUME NEW r \in Request, request(r) PROVE Sockets'
  <2>1. r.sock \in Socks
    BY RequestSock
  <2>2. FromClient \in Frames
    BY DEF Frames
  <2>3. shm' \in [Socks -> Frames]
    BY <1>1, <2>1, <2>2 DEF request, Sockets
  <2> QED BY <1>1, <2>3 DEF request, Sockets
<1>2. CASE take_reply \/ bye \/ other_traffic \/ deliver \/ recv_request \/ serve_query
           \/ net_send \/ net_send_panic \/ ready_at_once \/ poll_start \/ poll_timeout
  BY <1>2 DEF take_reply, bye, other_traffic, deliver, recv_request, serve_query,
     net_send, net_send_panic, ready_at_once, poll_start, poll_timeout, sockets, Sockets
<1>3. CASE wait_notif
  BY <1>3 DEF wait_notif, sockets, Sockets
<1>4. ASSUME NEW s \in Socks, peer_data(s) PROVE Sockets'
  BY <1>4 DEF peer_data, sockets, Sockets
<1>5. ASSUME NEW copied \in BOOLEAN, read_file(copied) PROVE Sockets'
  <2>1. 0 \in Socks /\ FromFile \in Frames
    BY ServiceAssumption DEF Socks, Frames
  <2>2. shm' \in [Socks -> Frames]
    BY <1>5, <2>1 DEF read_file, Sockets
  <2> QED BY <1>5, <2>2 DEF read_file, Sockets
<1>6. ASSUME NEW tx \in Tx, net_close(tx) PROVE Sockets'
  <2>1. sock \in Socks
    BY <1>6, WorkingSock DEF net_close, Serving, Working
  <2>2. active' \in [Socks -> BOOLEAN]
    BY <1>6, <2>1, ActiveType, FALSE \in BOOLEAN, Zenon DEF net_close
  <2> QED BY <1>6, <2>2 DEF net_close, Sockets
<1>7. ASSUME SynWait \/ Serving("Connect"), NEW ok \in BOOLEAN, connected(ok)
      PROVE  active' \in [Socks -> BOOLEAN]
  <2>1. sock \in Socks
    BY <1>7, WorkingSock DEF SynWait, Serving, Working
  <2> QED BY <1>7, <2>1, ActiveType, Zenon DEF connected
<1>8. ASSUME SynWait \/ Serving("Connect"), connected(FALSE)
      PROVE  active' \in [Socks -> BOOLEAN]
  BY <1>7, <1>8, FALSE \in BOOLEAN, Zenon
<1>9. ASSUME SynWait, connect_again
      PROVE  active' \in [Socks -> BOOLEAN]
  <2>1. CASE svc.left > 1
    BY <1>9, <2>1 DEF connect_again, Sockets
  <2>2. CASE ~(svc.left > 1)
    BY <1>8, <1>9, <2>2 DEF connect_again
  <2> QED BY <2>1, <2>2
<1>10. ASSUME NEW tx \in Tx, NEW accepts \in BOOLEAN, connect_syn(tx, accepts)
       PROVE  Sockets'
  <2>1. active' \in [Socks -> BOOLEAN]
    <3>1. CASE tx.ok
      BY <1>10, <3>1 DEF connect_syn, Sockets
    <3>2. CASE ~tx.ok
      BY <1>8, <1>10, <3>2 DEF connect_syn
    <3> QED BY <3>1, <3>2
  <2> QED BY <1>10, <2>1 DEF connect_syn, Sockets
<1>11. CASE connect_timeout \/ connect_refuse
  <2>1. active' \in [Socks -> BOOLEAN]
    BY <1>8, <1>11 DEF connect_timeout, connect_refuse
  <2> QED BY <1>11, <2>1 DEF connect_timeout, connect_refuse, Sockets
<1>12. CASE connect_skip
  <2>1. active' \in [Socks -> BOOLEAN]
    BY <1>9, <1>12 DEF connect_skip
  <2> QED BY <1>12, <2>1 DEF connect_skip, Sockets
<1>13. ASSUME NEW tx \in Tx, connect_accept(tx) PROVE Sockets'
  <2>1. active' \in [Socks -> BOOLEAN]
    <3>1. CASE tx.ok
      BY <1>7, <1>13, <3>1, TRUE \in BOOLEAN, Zenon DEF connect_accept
    <3>2. CASE ~tx.ok
      BY <1>9, <1>13, <3>2 DEF connect_accept
    <3> QED BY <3>1, <3>2
  <2> QED BY <1>13, <2>1 DEF connect_accept, Sockets
<1>14. CASE recv_at_once
  BY <1>14 DEF recv_at_once, Sockets
<1>15. CASE poll_hit
  BY <1>15, BufferSockets DEF poll_hit, Sockets
<1>16. CASE poll_miss
  BY <1>16, BufferSockets DEF poll_miss, Sockets
<1> QED
  BY <1>1, <1>2, <1>3, <1>4, <1>5, <1>6, <1>10, <1>11, <1>12, <1>13, <1>14, <1>15, <1>16
     DEF Next, ServiceStep
-----------------------------------------------------------------------------
(* The buffer, the wire and the peers.                                     *)

(* What peers send is a frame. *)
LEMMA SegmentType ==
  ASSUME NEW kind \in {"SynAck", "Data", "Fin", "Rst"}, NEW s \in Socks,
         NEW conn \in 0 .. MAX_CONNS, NEW seq \in 0 .. MAX_SEGS
  PROVE  Segment(kind, s, conn, seq) \in Frames
  BY DEF Segment, Frames

(* A peer that answers leaves frames on the wire. *)
LEMMA PeerAnswers ==
  ASSUME Network, NEW s \in Socks, NEW e \in Peer, NEW f \in Frames,
         peer' = [peer EXCEPT ![s] = e], wire' = Append(wire, f)
  PROVE  peer' \in [Socks -> Peer] /\ wire' \in Seq(Frames)
<1>1. peer' \in [Socks -> Peer]
  BY UpdateType, Zenon DEF Network
<1> QED BY <1>1 DEF Network

(* The answers to a SYN and to a FIN. *)
LEMMA SynType ==
  ASSUME Network, NEW s \in Socks, NEW tx, NEW accepts \in BOOLEAN,
         peer[s].conn < MAX_CONNS, peer_syn(s, tx, accepts)
  PROVE  peer' \in [Socks -> Peer] /\ wire' \in Seq(Frames)
<1>1. peer[s] \in Peer /\ MAX_CONNS \in Nat /\ MAX_SEGS \in Nat
  BY ServiceAssumption DEF Network
<1> DEFINE conn == peer[s].conn + 1
<1>2. conn \in 0 .. MAX_CONNS /\ 0 \in 0 .. MAX_SEGS
  BY <1>1 DEF Peer
<1>3. [conn |-> conn, open |-> accepts, sent |-> 0] \in Peer
  BY <1>2, Zenon DEF Peer
<1>4. Segment(IF accepts THEN "SynAck" ELSE "Rst", s, conn, 0) \in Frames
  BY <1>2, SegmentType
<1>5. CASE tx.out
  BY <1>3, <1>4, <1>5, PeerAnswers DEF peer_syn
<1>6. CASE ~tx.out
  BY <1>6 DEF peer_syn, Network
<1> QED BY <1>5, <1>6

(* A FIN of the peer leaves the peers and the wire well typed. *)
LEMMA FinType ==
  ASSUME Network, NEW s \in Socks, NEW tx, peer_fin(s, tx)
  PROVE  peer' \in [Socks -> Peer] /\ wire' \in Seq(Frames)
<1>1. peer[s] \in Peer /\ MAX_CONNS \in Nat /\ MAX_SEGS \in Nat
  BY ServiceAssumption DEF Network
<1> DEFINE e == [peer[s] EXCEPT !.open = FALSE]
<1>2. e \in Peer
  <2>1. \A b \in BOOLEAN : [peer[s] EXCEPT !.open = b] \in Peer
    BY <1>1 DEF Peer
  <2> QED BY <2>1, FALSE \in BOOLEAN, Zenon
<1>3. Segment("Fin", s, peer[s].conn, 0) \in Frames
  <2>1. peer[s].conn \in 0 .. MAX_CONNS /\ 0 \in 0 .. MAX_SEGS
    BY <1>1 DEF Peer
  <2> QED BY <2>1, SegmentType
<1>4. CASE tx.out
  <2>1. peer' = [peer EXCEPT ![s] = e]
    BY <1>4 DEF peer_fin
  <2> QED BY <1>2, <1>3, <1>4, <2>1, PeerAnswers DEF peer_fin
<1>5. CASE ~tx.out
  BY <1>5 DEF peer_fin, Network
<1> QED BY <1>4, <1>5

(* A buffer posted to the NIC. *)
LEMMA ArmType ==
  ASSUME Network, net_rx_arm
  PROVE  armed' \in Nat /\ buf' \in Frames
  BY DEF Network, net_rx_arm, Frames

(* The network side is kept by every step. *)
LEMMA NetworkStep ==
  ASSUME Talk, Network, ConnectsLeft, Next
  PROVE  Network'
<1>1. ASSUME NEW r \in Request, request(r) PROVE Network'
  BY <1>1 DEF request, nic, Network
<1>2. CASE take_reply \/ bye \/ wait_notif \/ recv_request \/ serve_query \/ net_send
           \/ net_send_panic \/ recv_at_once \/ ready_at_once \/ poll_timeout \/ poll_hit
           \/ connect_timeout \/ connect_refuse
  BY <1>2 DEF take_reply, bye, wait_notif, recv_request, serve_query, net_send,
     net_send_panic, recv_at_once, ready_at_once, poll_timeout, poll_hit,
     connect_timeout, connect_refuse, nic, Network
<1>3. ASSUME NEW s \in Socks, peer_data(s) PROVE Network'
  <2>1. peer[s] \in Peer /\ MAX_CONNS \in Nat /\ MAX_SEGS \in Nat /\ peer[s].sent < MAX_SEGS
    BY <1>3, ServiceAssumption DEF Network, peer_data
  <2> DEFINE e == [peer[s] EXCEPT !.sent = @ + 1]
  <2>2. peer[s].conn \in 0 .. MAX_CONNS /\ peer[s].sent + 1 \in 0 .. MAX_SEGS
    BY <2>1 DEF Peer
  <2>3. e \in Peer
    <3>1. peer[s].open \in BOOLEAN
      BY <2>1, Zenon DEF Peer
    <3>2. e = [conn |-> peer[s].conn, open |-> peer[s].open, sent |-> peer[s].sent + 1]
      BY <2>1 DEF Peer
    <3> QED BY <2>2, <3>1, <3>2, Zenon DEF Peer
  <2>4. Segment("Data", s, peer[s].conn, peer[s].sent + 1) \in Frames
    BY <2>2, SegmentType
  <2>5. peer' = [peer EXCEPT ![s] = e]
    BY <1>3 DEF peer_data
  <2>6. peer' \in [Socks -> Peer] /\ wire' \in Seq(Frames)
    BY <1>3, <2>3, <2>4, <2>5, PeerAnswers DEF peer_data
  <2> QED BY <1>3, <2>6 DEF peer_data, nic, Network
<1>4. CASE other_traffic
  <2>1. Alien \in Frames
    BY DEF Frames
  <2> QED BY <1>4, <2>1 DEF other_traffic, nic, Network
<1>5. CASE deliver
  <2>1. wire \in Seq(Frames) /\ wire # <<>>
    BY <1>5 DEF deliver, Network
  <2>2. Head(wire) \in Frames /\ Tail(wire) \in Seq(Frames)
    BY <2>1, HeadTailProperties
  <2> QED BY <1>5, <2>2 DEF deliver, Network
<1>6. ASSUME NEW copied \in BOOLEAN, read_file(copied) PROVE Network'
  BY <1>6 DEF read_file, nic, Network
<1>7. ASSUME NEW tx \in Tx, net_close(tx) PROVE Network'
  <2>1. sock \in Socks
    BY <1>7, WorkingSock DEF net_close, Serving, Working
  <2>2. peer' \in [Socks -> Peer] /\ wire' \in Seq(Frames)
    BY <1>7, <2>1, FinType DEF net_close, Network
  <2> QED BY <1>7, <2>2 DEF net_close, nic, Network
<1>8. ASSUME NEW tx \in Tx, NEW accepts \in BOOLEAN, connect_syn(tx, accepts)
      PROVE  Network'
  <2>1. svc.at = "Serve" /\ svc.at \in Working /\ svc.req.op = "Connect"
    BY <1>8 DEF connect_syn, Serving, Working
  <2>2. waiting \in Request /\ svc.req = waiting
    BY <2>1, WorkingOn
  <2>3. sock \in Socks /\ peer[sock].conn < MAX_CONNS
    BY <2>1, <2>2, RequestSock DEF sock, ConnectsLeft
  <2>4. peer' \in [Socks -> Peer] /\ wire' \in Seq(Frames)
    BY <1>8, <2>3, SynType DEF connect_syn
  <2> QED BY <1>8, <2>4, ArmType DEF connect_syn, Network
<1>9. CASE connect_skip
  BY <1>9, ArmType DEF connect_skip, Network
<1>10. ASSUME NEW tx \in Tx, connect_accept(tx) PROVE Network'
  BY <1>10 DEF connect_accept, nic, Network
<1>11. CASE poll_start
  BY <1>11, ArmType DEF poll_start, Network
<1>12. CASE poll_miss
  <2>1. armed' \in Nat /\ buf' \in Frames
    <3>1. CASE svc.left > 1
      BY <1>12, <3>1, ArmType DEF poll_miss
    <3>2. CASE ~(svc.left > 1)
      BY <1>12, <3>2 DEF poll_miss, nic, Network
    <3> QED BY <3>1, <3>2
  <2> QED BY <1>12, <2>1 DEF poll_miss, Network
<1> QED
  BY <1>1, <1>2, <1>3, <1>4, <1>5, <1>6, <1>7, <1>8, <1>9, <1>10, <1>11, <1>12
     DEF Next, ServiceStep

(* A CONNECT whose SYN is not sent yet keeps its connection number. *)
LEMMA ConnectsLeftStep ==
  ASSUME Talk, Network, ConnectsLeft, Next
  PROVE  ConnectsLeft'
<1> SUFFICES ASSUME waiting' \in Request, waiting'.op = "Connect",
                    ep' # <<>> \/ svc'.at = "Serve"
             PROVE  peer'[waiting'.sock].conn < MAX_CONNS
  BY DEF ConnectsLeft
<1>1. ASSUME NEW r \in Request, request(r) PROVE peer'[waiting'.sock].conn < MAX_CONNS
  BY <1>1 DEF request
<1>2. CASE take_reply \/ bye
  BY <1>2, Words DEF take_reply, bye
<1>3. CASE wait_notif \/ other_traffic \/ deliver
  BY <1>3 DEF wait_notif, other_traffic, deliver, queues, ConnectsLeft
<1>4. ASSUME NEW s \in Socks, peer_data(s) PROVE peer'[waiting'.sock].conn < MAX_CONNS
  <2>1. waiting.sock \in Socks /\ peer[waiting.sock].conn < MAX_CONNS
    BY <1>4, RequestSock DEF peer_data, queues, ConnectsLeft
  <2>2. peer'[waiting.sock].conn = peer[waiting.sock].conn
    BY <1>4, <2>1 DEF peer_data, Network, Peer
  <2> QED BY <1>4, <2>1, <2>2 DEF peer_data
<1>5. CASE recv_request
  <2>1. ep # <<>> /\ waiting' = waiting /\ peer' = peer
    BY <1>5 DEF recv_request
  <2> QED BY <2>1 DEF ConnectsLeft
<1>6. ASSUME svc.at \in Working, answer PROVE FALSE
  <2>1. ep' = <<>> /\ svc' = Idle
    BY <1>6, WorkingOn DEF answer
  <2> QED BY <2>1 DEF Idle
<1>7. ASSUME svc.at \in Working, UNCHANGED ep, svc'.at # "Serve" PROVE FALSE
  BY <1>7, WorkingOn
<1>8. ASSUME SynWait, connect_again PROVE FALSE
  <2>1. svc.at \in Working /\ svc.at # "Serve"
    BY <1>8 DEF SynWait, Working
  <2>2. CASE svc.left > 1
    <3>1. svc \in [at : Working, req : Request, left : Nat]
      BY <2>1, WorkingOn
    <3>2. svc'.at = svc.at /\ ep' = ep
      BY <1>8, <2>2, <3>1 DEF connect_again, queues
    <3> QED BY <1>7, <2>1, <3>2
  <2>3. CASE ~(svc.left > 1)
    BY <1>6, <1>8, <2>1, <2>3 DEF connect_again, connected
  <2> QED BY <2>2, <2>3
<1>9. CASE serve_query \/ net_send \/ recv_at_once \/ ready_at_once \/ poll_timeout
           \/ poll_hit \/ connect_timeout \/ connect_refuse
  BY <1>6, <1>9 DEF serve_query, net_send, recv_at_once, ready_at_once, poll_timeout,
     poll_hit, connect_timeout, connect_refuse, connected, Serving, SynWait, Working
<1>10. ASSUME NEW copied \in BOOLEAN, read_file(copied) PROVE FALSE
  BY <1>6, <1>10 DEF read_file, Serving, Working
<1>11. ASSUME NEW tx \in Tx, net_close(tx) PROVE FALSE
  BY <1>6, <1>11 DEF net_close, Serving, Working
<1>12. CASE net_send_panic
  <2>1. svc.at \in Working
    BY <1>12 DEF net_send_panic, Serving, Working
  <2>2. svc \in [at : Working, req : Request, left : Nat]
    BY <2>1, WorkingOn
  <2>3. svc'.at = "Panicked" /\ ep' = ep
    BY <1>12, <2>2 DEF net_send_panic, queues
  <2> QED BY <1>7, <2>1, <2>3
<1>13. ASSUME NEW tx \in Tx, NEW accepts \in BOOLEAN, connect_syn(tx, accepts)
       PROVE  FALSE
  <2>1. svc.at \in Working
    BY <1>13 DEF connect_syn, Serving, Working
  <2>2. CASE tx.ok
    BY <1>7, <1>13, <2>1, <2>2 DEF connect_syn, Doing, queues
  <2>3. CASE ~tx.ok
    BY <1>6, <1>13, <2>1, <2>3 DEF connect_syn, connected
  <2> QED BY <2>2, <2>3
<1>14. CASE connect_skip
  BY <1>8, <1>14 DEF connect_skip
<1>15. ASSUME NEW tx \in Tx, connect_accept(tx) PROVE FALSE
  <2>1. SynWait /\ svc.at \in Working
    BY <1>15 DEF connect_accept, SynWait, Working
  <2>2. CASE tx.ok
    BY <1>6, <1>15, <2>1, <2>2 DEF connect_accept, connected
  <2>3. CASE ~tx.ok
    BY <1>8, <1>15, <2>1, <2>3 DEF connect_accept
  <2> QED BY <2>2, <2>3
<1>16. CASE poll_start
  BY <1>7, <1>16 DEF poll_start, Serving, Doing, Working, queues
<1>17. CASE poll_miss
  <2>1. svc.at \in Working /\ svc.at # "Serve"
    BY <1>17 DEF poll_miss, Working
  <2>2. CASE svc.left > 1
    <3>1. svc \in [at : Working, req : Request, left : Nat]
      BY <2>1, WorkingOn
    <3>2. svc'.at = svc.at /\ ep' = ep
      BY <1>17, <2>2, <3>1 DEF poll_miss, queues
    <3> QED BY <1>7, <2>1, <3>2
  <2>3. CASE ~(svc.left > 1)
    BY <1>6, <1>17, <2>1, <2>3 DEF poll_miss
  <2> QED BY <2>2, <2>3
<1> QED
  BY <1>1, <1>2, <1>3, <1>4, <1>5, <1>9, <1>10, <1>11, <1>12, <1>13, <1>14, <1>15,
     <1>16, <1>17 DEF Next, ServiceStep
-----------------------------------------------------------------------------
(* Theorems.                                                               *)

(* The inductive invariant holds of every behaviour. *)
THEOREM ServiceInvariant == Spec => []Inv
<1>1. Inv /\ [Next]_vars => Inv'
  <2> SUFFICES ASSUME Inv, [Next]_vars PROVE Inv'
    OBVIOUS
  <2>1. CASE Next
    BY <2>1, TalkStep, SocketsStep, NetworkStep, ConnectsLeftStep DEF Inv, Talk
  <2>2. CASE UNCHANGED vars
    BY <2>2 DEF vars, Inv, ServiceAt, Conversation, Sockets, Network, ConnectsLeft
  <2> QED BY <2>1, <2>2
<1> QED BY <1>1, InitInv, PTL DEF Spec

(* The requests, the sockets and their pages, and the receive buffer have *)
(* their types: no step of the service buffers data for a socket that has *)
(* no shared page (net_buffer_frame, SOCK_MAX and the 0 of shm_pa). *)
THEOREM ServiceTypes == Spec => []TypeOK
  BY ServiceInvariant, InvTypes, PTL

(* Each request gets exactly one reply, on every path of the request loop *)
(* short of a panic, whatever the device and the network do (init's *)
(* combined_service, "Each request gets exactly one u64 reply"). *)
THEOREM ExactlyOneReply == Spec => []OneReply
  BY ServiceInvariant, ConversationIsOneReply, PTL

(* A socket with buffered data has its ready bit raised, or some WAIT has *)
(* returned the bit since the data came (net_buffer_frame). *)
THEOREM DataIsAnnounced == Spec => []ReadyAnnounced
<1>1. Init => ReadyAnnounced
  BY DEF Init, ReadyAnnounced
<1>2. ReadyAnnounced /\ [Next]_vars => ReadyAnnounced'
  <2> SUFFICES ASSUME ReadyAnnounced, [Next]_vars PROVE ReadyAnnounced'
    OBVIOUS
  <2>1. CASE UNCHANGED <<pending, word, told>>
    BY <2>1 DEF ReadyAnnounced
  <2>2. CASE wait_notif
    BY <2>2 DEF wait_notif, sockets, ReadyAnnounced
  <2>3. CASE recv_at_once
    BY <2>3 DEF recv_at_once, ReadyAnnounced
  <2>4. ASSUME NEW out, net_buffer_frame(out) PROVE ReadyAnnounced'
    BY <2>4 DEF net_buffer_frame, ReadyAnnounced
  <2>5. CASE poll_hit \/ poll_miss
    BY <2>4, <2>5 DEF poll_hit, poll_miss
  <2>6. CASE ServiceStep
    <3>1. CASE recv_request \/ serve_query \/ net_send \/ net_send_panic \/ ready_at_once
               \/ poll_start \/ poll_timeout
      BY <2>1, <3>1 DEF recv_request, serve_query, net_send, net_send_panic,
         ready_at_once, poll_start, poll_timeout, sockets
    <3>2. CASE connect_timeout \/ connect_skip \/ connect_refuse
      BY <2>1, <3>2 DEF connect_timeout, connect_skip, connect_refuse
    <3>3. ASSUME NEW copied \in BOOLEAN, read_file(copied) PROVE ReadyAnnounced'
      BY <2>1, <3>3 DEF read_file
    <3>4. ASSUME NEW tx \in Tx, net_close(tx) \/ connect_accept(tx) PROVE ReadyAnnounced'
      BY <2>1, <3>4 DEF net_close, connect_accept
    <3>5. ASSUME NEW tx \in Tx, NEW accepts \in BOOLEAN, connect_syn(tx, accepts)
          PROVE  ReadyAnnounced'
      BY <2>1, <3>5 DEF connect_syn
    <3> QED BY <2>3, <2>5, <2>6, <3>1, <3>2, <3>3, <3>4, <3>5 DEF ServiceStep
  <2>7. ASSUME NEW r \in Request, request(r) PROVE ReadyAnnounced'
    BY <2>1, <2>7 DEF request
  <2>8. CASE take_reply \/ bye \/ other_traffic \/ deliver
    BY <2>1, <2>8 DEF take_reply, bye, other_traffic, deliver, sockets
  <2>9. ASSUME NEW s \in Socks, peer_data(s) PROVE ReadyAnnounced'
    BY <2>1, <2>9 DEF peer_data, sockets
  <2>10. CASE UNCHANGED vars
    BY <2>1, <2>10 DEF vars
  <2> QED BY <2>2, <2>6, <2>7, <2>8, <2>9, <2>10 DEF Next
<1> QED BY <1>1, <1>2, PTL DEF Spec
=============================================================================
