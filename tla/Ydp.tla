-------------------------------- MODULE Ydp ---------------------------------
(***************************************************************************)
(* YDP, the acknowledged datagrams of csi/02-computer-networks/            *)
(* 04-reliable-transport: a client sends its messages one after another    *)
(* and retransmits until an acknowledgement with the packet's ID comes     *)
(* back; an unreliable proxy on either way drops and corrupts datagrams.   *)
(* Each hop is the FIFO receive queue of a UDP socket.                     *)
(***************************************************************************)
EXTENDS Naturals, Sequences

CONSTANTS
  NumMsgs,     \* messages the client sends
  Cap,         \* datagrams a socket's receive queue holds
  Ids          \* packet IDs

\* The ID of a packet whose ID a proxy has corrupted: no client sent it.
BadId == 0

ASSUME YdpAssumption ==
  /\ NumMsgs \in Nat
  /\ Ids \subseteq Nat \ {BadId}

VARIABLES
  pc,          \* where the client is
  i,           \* the message it is sending
  cur,         \* ID of the packet it sent last
  queue,       \* the receive queue of each socket
  received,    \* history: messages the server has decoded
  late         \* history: a timer has ended while a datagram was on its way

vars == <<pc, i, cur, queue, received, late>>

Sockets == {"proxy_up", "server", "proxy_down", "client"}
\* Messages are numbered; an acknowledgement carries "server".
Msgs == 0..NumMsgs
AckMsg == NumMsgs
\* ack: Flags is 0x01; whole: Length agrees with the bytes received.
Packets == [id : Ids \cup {BadId}, ack : BOOLEAN, whole : BOOLEAN, msg : Msgs]

TypeOK ==
  /\ pc \in {"send", "sleep", "done", "fatal"}
  /\ i \in 0..NumMsgs
  /\ cur \in Ids \cup {BadId}
  /\ queue \in [Sockets -> Seq(Packets)]
  /\ received \subseteq 0..(NumMsgs - 1)
  /\ late \in BOOLEAN

Init ==
  /\ pc = IF NumMsgs = 0 THEN "done" ELSE "send"
  /\ i = 0
  /\ cur = BadId
  /\ queue = [s \in Sockets |-> <<>>]
  /\ received = {}
  /\ late = FALSE

Datagrams(q, s) == {q[s][k] : k \in 1..Len(q[s])}
InTransit(s) == Datagrams(queue, s)

\* sendto: the kernel drops a datagram that finds the queue full.
Sendto(q, s, p) == IF Len(q[s]) < Cap THEN [q EXCEPT ![s] = Append(@, p)] ELSE q
\* recvfrom: the oldest datagram leaves the queue.
Recvfrom(s) == [queue EXCEPT ![s] = Tail(@)]

\* DecodeYDPPacket fails if the length is wrong and has no other check.
Decodes(p) == p.whole
-----------------------------------------------------------------------------
(* The client                                                              *)

\* Hash32 of the addresses and the time. At least CLIENTTIMEOUTSECS pass
\* between two packets, so the hash is taken to differ from that of every
\* packet still on its way.
FreshIds == {id \in Ids \ {cur} : \A s \in Sockets : \A p \in InTransit(s) : p.id # id}

Send ==
  /\ pc = "send"
  /\ FreshIds # {}
  /\ LET id == CHOOSE x \in FreshIds : TRUE
     IN  /\ cur' = id
         /\ queue' = Sendto(queue, "proxy_up",
                            [id |-> id, ack |-> TRUE, whole |-> TRUE, msg |-> i])
  /\ pc' = "sleep"
  /\ UNCHANGED <<i, received, late>>

AckedAnyId(p) == Decodes(p) /\ p.ack
Acked(p) == Decodes(p) /\ p.id = cur /\ p.ack

\* The timer ends: at most one datagram is taken from the socket, and if it
\* is not the acknowledgement the message is sent again.
WakePeeks ==
  /\ pc = "sleep"
  /\ late' = (late \/ \E s \in Sockets \ {"client"} : queue[s] # <<>>)
  /\ IF queue["client"] = <<>>
       THEN pc' = "send" /\ i' = i
       ELSE IF Acked(Head(queue["client"]))
              THEN i' = i + 1 /\ pc' = IF i + 1 = NumMsgs THEN "done" ELSE "send"
              ELSE i' = i /\ pc' = "send"
  /\ UNCHANGED <<cur, received, queue>>
Wake ==
  /\ pc = "sleep"
  /\ late' = (late \/ \E s \in Sockets \ {"client"} : queue[s] # <<>>)
  /\ IF queue["client"] = <<>>
       THEN pc' = "send" /\ UNCHANGED <<i, queue>>
       ELSE /\ queue' = Recvfrom("client")
            /\ IF Acked(Head(queue["client"]))
                 THEN i' = i + 1 /\ pc' = IF i + 1 = NumMsgs THEN "done" ELSE "send"
                 ELSE i' = i /\ pc' = "send"
  /\ UNCHANGED <<cur, received>>

\* Send returns an error and client calls log.Fatalf, which ends the process
\* with the server in it.
Fatal ==
  /\ pc \in {"send", "sleep"}
  /\ pc' = "fatal"
  /\ queue' = [s \in Sockets |-> <<>>]
  /\ UNCHANGED <<i, cur, received, late>>
-----------------------------------------------------------------------------
(* The server                                                              *)

\* A datagram that cannot be decoded is dropped; any other is acknowledged.
RecvAndAck ==
  /\ queue["server"] # <<>>
  /\ LET p == Head(queue["server"])
     IN  IF Decodes(p)
           THEN /\ queue' = Sendto(Recvfrom("server"), "proxy_down",
                            [id |-> p.id, ack |-> TRUE, whole |-> TRUE, msg |-> AckMsg])
                /\ received' = received \cup {p.msg}
           ELSE queue' = Recvfrom("server") /\ UNCHANGED received
  /\ UNCHANGED <<pc, i, cur, late>>
-----------------------------------------------------------------------------
(* The proxies                                                             *)

\* One byte of the datagram is inverted: of its ID, Flags or Length, or of
\* the message, which nothing in the protocol looks at.
Corruptions(p) ==
  {[p EXCEPT !.id = BadId], [p EXCEPT !.ack = FALSE], [p EXCEPT !.whole = FALSE], p}

Drop(from) ==
  /\ queue[from] # <<>>
  /\ queue' = Recvfrom(from)
  /\ UNCHANGED <<pc, i, cur, received, late>>

Forward(from, to) ==
  /\ queue[from] # <<>>
  /\ queue' = Sendto(Recvfrom(from), to, Head(queue[from]))
  /\ UNCHANGED <<pc, i, cur, received, late>>

Corrupt(from, to) ==
  /\ queue[from] # <<>>
  /\ \E p \in Corruptions(Head(queue[from])) : queue' = Sendto(Recvfrom(from), to, p)
  /\ UNCHANGED <<pc, i, cur, received, late>>

Proxy(from, to) == Drop(from) \/ Forward(from, to) \/ Corrupt(from, to)
-----------------------------------------------------------------------------
Running == pc # "fatal"

Next ==
  \/ Send \/ Wake \/ Fatal
  \/ Running /\ (RecvAndAck \/ Proxy("proxy_up", "server") \/ Proxy("proxy_down", "client"))

Spec == Init /\ [][Next]_vars

\* The proxy forwards, unharmed, the acknowledgement of the last packet.
ForwardAck ==
  /\ queue["proxy_down"] # <<>>
  /\ Acked(Head(queue["proxy_down"]))
  /\ Forward("proxy_down", "client")

\* Every process runs on. A proxy decides at random, whatever the datagram:
\* it does not drop or corrupt for ever every packet, nor for ever every
\* acknowledgement the client waits for.
FairSpec ==
  /\ Spec
  /\ WF_vars(Send) /\ WF_vars(Wake) /\ WF_vars(RecvAndAck)
  /\ WF_vars(Proxy("proxy_up", "server")) /\ WF_vars(Proxy("proxy_down", "client"))
  /\ SF_vars(Forward("proxy_up", "server")) /\ SF_vars(ForwardAck)
-----------------------------------------------------------------------------
(* Properties.                                                             *)

\* A message for which Send has returned has reached the server, whatever
\* was dropped, corrupted or late: no stale acknowledgement is taken for it.
AckedReceived == \A m \in 0..(NumMsgs - 1) : m < i => m \in received

\* As long as every round trip beats the timer, only one ID is in transit.
TimelyOneId ==
  ~late => \A s \in Sockets : \A p \in InTransit(s) : p.id \in {cur, BadId}

\* As long as every round trip beats the timer, the client gets all its
\* messages through although datagrams are lost and corrupted.
TimelyDone == <>(late \/ pc \in {"done", "fatal"})

\* readme.md: "only packet/ack for a single ID can be in transit at any
\* given point".
OneIdInTransit ==
  \A s, t \in Sockets : \A p \in InTransit(s), q \in InTransit(t) :
    BadId \notin {p.id, q.id} => p.id = q.id
=============================================================================
