------------------------------ MODULE NetProofs ------------------------------
(***************************************************************************)
(* Three network programs. YDP for any number of messages and IDs and      *)
(* queues of any length: a message whose Send has returned was received by *)
(* the server, and while no packet is late all in transit carry one ID.    *)
(* Trace for any distance, any number of identifiers and any loss: its     *)
(* rows are true, it returns only when it was far enough, and without      *)
(* trouble on the way it returns as soon as it is. The forking echo server *)
(* for any number of clients and lines: signals that merge lose no child,  *)
(* the parent holds no connection in Accept, and a child that is gone has  *)
(* echoed everything and closed its descriptor.                            *)
(***************************************************************************)
EXTENDS Ydp, Integers, FiniteSets, FiniteSetTheorems, TLAPS
USE SMTT(60), ZenonT(60), Z3T(60)
-----------------------------------------------------------------------------
(* YDP                                                                     *)

\* The packets on their way up that carry the client's last ID carry its
\* current message; an acknowledgement with that ID is on its way down only
\* once the server has that message. Between two Sends the ID is not in use.
UpCurrent ==
  \A s \in {"proxy_up", "server"} : \A p \in InTransit(s) :
    p.msg < NumMsgs /\ (pc = "sleep" /\ p.id = cur => p.msg = i)
DownReceived ==
  \A s \in {"proxy_down", "client"} : \A p \in InTransit(s) :
    pc = "sleep" /\ p.id = cur => i \in received

IInv ==
  /\ TypeOK
  /\ cur = BadId => pc # "sleep"
  /\ pc \in {"send", "sleep"} => i < NumMsgs
  /\ UpCurrent
  /\ DownReceived
  /\ AckedReceived

Queues == [Sockets -> Seq(Packets)]

\* A datagram that is sent joins its queue or is lost.
LEMMA SendtoQueues ==
  ASSUME NEW q \in Queues, NEW s \in Sockets, NEW p \in Packets
  PROVE  /\ Sendto(q, s, p) \in Queues
         /\ \A t \in Sockets : Datagrams(Sendto(q, s, p), t) \subseteq
                                 Datagrams(q, t) \cup (IF t = s THEN {p} ELSE {})
<1>1. CASE Len(q[s]) < Cap
  <2>1. Sendto(q, s, p) = [q EXCEPT ![s] = Append(q[s], p)]
    BY <1>1 DEF Sendto
  <2>2. q[s] \in Seq(Packets) /\ Append(q[s], p) \in Seq(Packets)
    BY DEF Queues
  <2>3. {Append(q[s], p)[k] : k \in 1..Len(Append(q[s], p))}
          \subseteq {q[s][k] : k \in 1..Len(q[s])} \cup {p}
    BY <2>2
  <2>. QED  BY <2>1, <2>2, <2>3 DEF Queues, Datagrams
<1>2. CASE ~(Len(q[s]) < Cap)
  BY <1>2 DEF Sendto
<1>. QED  BY <1>1, <1>2

\* A datagram that is received leaves its queue; the others stay.
LEMMA RecvfromQueues ==
  ASSUME queue \in Queues, NEW s \in Sockets, queue[s] # <<>>
  PROVE  /\ Recvfrom(s) \in Queues
         /\ Head(queue[s]) \in InTransit(s) /\ Head(queue[s]) \in Packets
         /\ \A t \in Sockets : Datagrams(Recvfrom(s), t) \subseteq InTransit(t)
<1>1. /\ queue[s] \in Seq(Packets) /\ Len(queue[s]) \in Nat \ {0}
      /\ Tail(queue[s]) \in Seq(Packets)
      /\ Len(Tail(queue[s])) = Len(queue[s]) - 1
      /\ \A k \in 1..Len(Tail(queue[s])) : Tail(queue[s])[k] = queue[s][k + 1]
      /\ Head(queue[s]) = queue[s][1] /\ queue[s][1] \in Packets
  BY DEF Queues
<1>2. Recvfrom(s) = [queue EXCEPT ![s] = Tail(queue[s])]
  BY DEF Recvfrom
<1>3. {Tail(queue[s])[k] : k \in 1..Len(Tail(queue[s]))}
        \subseteq {queue[s][k] : k \in 1..Len(queue[s])}
  BY <1>1
<1>4. Head(queue[s]) \in InTransit(s)
  BY <1>1 DEF InTransit, Datagrams
<1>. QED  BY <1>1, <1>2, <1>3, <1>4 DEF Queues, InTransit, Datagrams

\* What the queues hold after a datagram has been passed on, in whatever form.
LEMMA PassOn ==
  ASSUME queue \in Queues, NEW s \in Sockets, queue[s] # <<>>,
         NEW t \in Sockets, NEW p \in Packets
  PROVE  /\ Sendto(Recvfrom(s), t, p) \in Queues
         /\ \A u \in Sockets : Datagrams(Sendto(Recvfrom(s), t, p), u) \subseteq
                                 InTransit(u) \cup (IF u = t THEN {p} ELSE {})
<1>1. /\ Recvfrom(s) \in Queues
      /\ \A u \in Sockets : Datagrams(Recvfrom(s), u) \subseteq InTransit(u)
  BY RecvfromQueues
<1>2. /\ Sendto(Recvfrom(s), t, p) \in Queues
      /\ \A u \in Sockets : Datagrams(Sendto(Recvfrom(s), t, p), u) \subseteq
                              Datagrams(Recvfrom(s), u) \cup (IF u = t THEN {p} ELSE {})
  BY <1>1, SendtoQueues
<1>. QED  BY <1>1, <1>2

\* The invariant holds when client and server start.
LEMMA InitIInv == Init => IInv
<1>. SUFFICES ASSUME Init PROVE IInv
  OBVIOUS
<1>1. queue \in Queues /\ \A s \in Sockets : InTransit(s) = {}
  BY DEF Init, Queues, InTransit, Datagrams
<1>2. TypeOK
  <2>1. pc \in {"send", "done"} /\ i \in 0..NumMsgs
    BY YdpAssumption DEF Init
  <2>2. cur \in Ids \cup {BadId} /\ late \in BOOLEAN /\ received \subseteq 0..(NumMsgs - 1)
    BY ZenonT(60) DEF Init
  <2>. QED  BY <1>1, <2>1, <2>2 DEF TypeOK, Queues
<1>3. UpCurrent /\ DownReceived
  BY <1>1 DEF UpCurrent, DownReceived, Sockets
<1>. QED  BY <1>2, <1>3, YdpAssumption DEF Init, IInv, AckedReceived

\* The client sends a packet under an ID that nothing in transit carries.
LEMMA SendKeeps == ASSUME IInv, Send PROVE IInv'
<1>. DEFINE id == CHOOSE x \in FreshIds : TRUE
            p == [id |-> id, ack |-> TRUE, whole |-> TRUE, msg |-> i]
<1>1. /\ id \in Ids /\ id # BadId
      /\ \A s \in Sockets : \A d \in InTransit(s) : d.id # id
  <2>1. id \in FreshIds  BY DEF Send
  <2>. QED  BY <2>1, YdpAssumption, ZenonT(60) DEF FreshIds
<1>2. /\ pc = "send" /\ pc' = "sleep" /\ cur' = id /\ queue' = Sendto(queue, "proxy_up", p)
      /\ UNCHANGED <<i, received, late>>
  BY DEF Send
<1>. HIDE DEF id
<1>3. p \in Packets /\ p.id = id /\ p.msg = i /\ i < NumMsgs
  BY <1>1, <1>2, YdpAssumption DEF IInv, TypeOK, Packets, Msgs
<1>. HIDE DEF p
<1>4. /\ queue' \in Queues
      /\ \A t \in Sockets : InTransit(t)' \subseteq
                              InTransit(t) \cup (IF t = "proxy_up" THEN {p} ELSE {})
  BY <1>2, <1>3, SendtoQueues, ZenonT(60) DEF IInv, TypeOK, Sockets, Queues, InTransit
<1>5. TypeOK'
  BY <1>1, <1>2, <1>4 DEF IInv, TypeOK, Queues
<1>6. UpCurrent'
  BY <1>1, <1>2, <1>3, <1>4 DEF IInv, UpCurrent, Sockets
<1>7. DownReceived'
  BY <1>1, <1>2, <1>4 DEF IInv, DownReceived, Sockets
<1>8. AckedReceived'
  BY <1>2 DEF IInv, AckedReceived
<1>. QED  BY <1>1, <1>2, <1>3, <1>5, <1>6, <1>7, <1>8 DEF IInv

\* The timer ends: only the acknowledgement of the current message counts.
LEMMA WakeKeeps == ASSUME IInv, Wake PROVE IInv'
<1>1. /\ pc = "sleep" /\ i \in Nat /\ i < NumMsgs /\ UNCHANGED <<cur, received>>
      /\ pc' \in {"send", "done"} /\ late' \in BOOLEAN
  BY YdpAssumption DEF Wake, IInv, TypeOK
<1>2. /\ queue' \in Queues
      /\ \A t \in Sockets : InTransit(t)' \subseteq InTransit(t)
  <2>1. CASE queue["client"] = <<>>
    BY <2>1 DEF Wake, IInv, TypeOK, Queues, InTransit
  <2>2. CASE queue["client"] # <<>>
    BY <2>2, RecvfromQueues DEF Wake, IInv, TypeOK, Sockets, Queues, InTransit
  <2>. QED  BY <2>1, <2>2
<1>3. /\ i' = i \/ (i' = i + 1 /\ i \in received)
      /\ pc' = "send" => i' < NumMsgs
  <2>1. CASE queue["client"] = <<>>
    BY <1>1, <2>1 DEF Wake
  <2>2. CASE queue["client"] # <<>>
    <3>1. Head(queue["client"]) \in InTransit("client")
      BY <2>2, RecvfromQueues DEF IInv, TypeOK, Sockets, Queues
    <3>2. Acked(Head(queue["client"])) => i \in received
      BY <1>1, <3>1 DEF IInv, DownReceived, Acked
    <3>. QED  BY <1>1, <2>2, <3>2, YdpAssumption DEF Wake
  <2>. QED  BY <2>1, <2>2
<1>4. TypeOK'
  BY <1>1, <1>2, <1>3, YdpAssumption DEF IInv, TypeOK, Queues
<1>5. UpCurrent' /\ DownReceived'
  BY <1>1, <1>2 DEF IInv, UpCurrent, DownReceived, Sockets
<1>6. AckedReceived'
  BY <1>1, <1>3, YdpAssumption DEF IInv, AckedReceived
<1>. QED  BY <1>1, <1>3, <1>4, <1>5, <1>6 DEF IInv

\* The process dies: nothing is in transit any more.
LEMMA FatalKeeps == ASSUME IInv, Fatal PROVE IInv'
<1>1. queue' \in Queues /\ \A s \in Sockets : InTransit(s)' = {}
  BY DEF Fatal, Queues, InTransit, Datagrams
<1>2. UpCurrent' /\ DownReceived'
  BY <1>1 DEF UpCurrent, DownReceived, Sockets
<1>. QED  BY <1>1, <1>2 DEF Fatal, IInv, TypeOK, AckedReceived, Queues

\* The server decodes a packet before it acknowledges it.
LEMMA RecvAndAckKeeps == ASSUME IInv, RecvAndAck PROVE IInv'
<1>. DEFINE d == Head(queue["server"])
            p == [id |-> d.id, ack |-> TRUE, whole |-> TRUE, msg |-> AckMsg]
<1>1. /\ queue \in Queues /\ queue["server"] # <<>> /\ {"server", "proxy_down"} \subseteq Sockets
      /\ UNCHANGED <<pc, i, cur, late>>
  BY DEF RecvAndAck, IInv, TypeOK, Queues, Sockets
<1>2. /\ d \in InTransit("server") /\ d \in Packets
      /\ Recvfrom("server") \in Queues
      /\ \A t \in Sockets : Datagrams(Recvfrom("server"), t) \subseteq InTransit(t)
  BY <1>1, RecvfromQueues
<1>3. \/ d.whole /\ received' = received \cup {d.msg} /\ queue' = Sendto(Recvfrom("server"), "proxy_down", p)
      \/ queue' = Recvfrom("server") /\ received' = received
  BY DEF RecvAndAck, Decodes
<1>. HIDE DEF d
<1>4. d.msg \in 0..(NumMsgs - 1) /\ (pc = "sleep" /\ d.id = cur => d.msg = i)
  BY <1>2, YdpAssumption DEF IInv, UpCurrent, Packets, Msgs
<1>5. p \in Packets /\ p.id = d.id
  BY <1>2, YdpAssumption DEF Packets, Msgs, AckMsg
<1>. HIDE DEF p
<1>6. /\ queue' \in Queues
      /\ \A t \in Sockets : InTransit(t)' \subseteq
                              InTransit(t) \cup (IF t = "proxy_down" THEN {p} ELSE {})
      /\ received \subseteq received' /\ received' \subseteq 0..(NumMsgs - 1)
  <2>1. CASE queue' = Recvfrom("server") /\ received' = received
    BY <2>1, <1>2 DEF InTransit, IInv, TypeOK
  <2>2. CASE received' = received \cup {d.msg} /\ queue' = Sendto(Recvfrom("server"), "proxy_down", p)
    BY <2>2, <1>1, <1>4, <1>5, PassOn, ZenonT(60) DEF InTransit, IInv, TypeOK
  <2>. QED  BY <1>3, <2>1, <2>2
<1>7. UpCurrent'
  BY <1>1, <1>6 DEF IInv, UpCurrent, Sockets
<1>8. DownReceived'
  <2>1. CASE received' = received \cup {d.msg}
    BY <2>1, <1>1, <1>4, <1>5, <1>6 DEF IInv, DownReceived, Sockets
  <2>2. CASE queue' = Recvfrom("server") /\ received' = received
    BY <2>2, <1>1, <1>2 DEF IInv, DownReceived, Sockets, InTransit
  <2>. QED  BY <1>3, <2>1, <2>2
<1>9. TypeOK' /\ AckedReceived'
  BY <1>1, <1>6 DEF IInv, TypeOK, AckedReceived, Queues
<1>. QED  BY <1>1, <1>7, <1>8, <1>9 DEF IInv

\* What a proxy passes on has the message it received, and its ID or none.
LEMMA CorruptionsOf ==
  ASSUME NEW d \in Packets, NEW p \in Corruptions(d) \cup {d}
  PROVE  p \in Packets /\ p.msg = d.msg /\ p.id \in {d.id, BadId}
BY ZenonT(60) DEF Corruptions, Packets

\* A proxy drops a datagram or passes it on, perhaps with a byte inverted.
LEMMA ProxyKeeps ==
  ASSUME IInv, NEW from \in Sockets, NEW to \in Sockets, Proxy(from, to),
         <<from, to>> \in {<<"proxy_up", "server">>, <<"proxy_down", "client">>}
  PROVE  IInv'
<1>. DEFINE d == Head(queue[from])
<1>1. /\ queue \in Queues /\ queue[from] # <<>>
      /\ UNCHANGED <<pc, i, cur, received, late>>
  BY DEF Proxy, Drop, Forward, Corrupt, IInv, TypeOK, Queues
<1>2. /\ d \in InTransit(from) /\ d \in Packets
      /\ Recvfrom(from) \in Queues
      /\ \A t \in Sockets : Datagrams(Recvfrom(from), t) \subseteq InTransit(t)
  BY <1>1, RecvfromQueues
<1>3. \E p \in Corruptions(d) \cup {d} : queue' \in {Recvfrom(from), Sendto(Recvfrom(from), to, p)}
  BY ZenonT(60) DEF Proxy, Drop, Forward, Corrupt
<1>. HIDE DEF d
<1>4. PICK p \in Packets : /\ queue' \in {Recvfrom(from), Sendto(Recvfrom(from), to, p)}
                           /\ p.msg = d.msg /\ p.id \in {d.id, BadId}
  BY <1>2, <1>3, CorruptionsOf
<1>5. /\ queue' \in Queues
      /\ \A t \in Sockets : InTransit(t)' \subseteq InTransit(t) \cup (IF t = to THEN {p} ELSE {})
  <2>1. CASE queue' = Recvfrom(from)
    BY <2>1, <1>2 DEF InTransit
  <2>2. CASE queue' = Sendto(Recvfrom(from), to, p)
    BY <2>2, <1>1, PassOn DEF InTransit
  <2>. QED  BY <1>4, <2>1, <2>2
<1>6. UpCurrent'
  BY <1>1, <1>2, <1>4, <1>5 DEF IInv, UpCurrent, Sockets
<1>7. DownReceived'
  BY <1>1, <1>2, <1>4, <1>5 DEF IInv, DownReceived, Sockets
<1>8. TypeOK' /\ AckedReceived'
  BY <1>1, <1>5 DEF IInv, TypeOK, AckedReceived, Queues
<1>. QED  BY <1>1, <1>6, <1>7, <1>8 DEF IInv

\* The invariant, for any number of messages, IDs and queue lengths.
THEOREM YdpInvariant == Spec => []IInv
<1>1. IInv /\ [Next]_vars => IInv'
  <2>. SUFFICES ASSUME IInv, [Next]_vars PROVE IInv'
    OBVIOUS
  <2>1. CASE Send  BY <2>1, SendKeeps
  <2>2. CASE Wake  BY <2>2, WakeKeeps
  <2>3. CASE Fatal  BY <2>3, FatalKeeps
  <2>4. CASE RecvAndAck  BY <2>4, RecvAndAckKeeps
  <2>5. CASE Proxy("proxy_up", "server")  BY <2>5, ProxyKeeps DEF Sockets
  <2>6. CASE Proxy("proxy_down", "client")  BY <2>6, ProxyKeeps DEF Sockets
  <2>7. CASE UNCHANGED vars
    BY <2>7 DEF vars, IInv, TypeOK, UpCurrent, DownReceived, AckedReceived, InTransit, Datagrams
  <2>. QED  BY <2>1, <2>2, <2>3, <2>4, <2>5, <2>6, <2>7 DEF Next
<1>. QED  BY InitIInv, <1>1, PTL DEF Spec

\* Types are kept.
THEOREM YdpTypeCorrect == Spec => []TypeOK
<1>1. IInv => TypeOK  BY DEF IInv
<1>. QED  BY YdpInvariant, <1>1, PTL

\* A message whose Send has returned has reached the server, whatever the
\* proxies drop, corrupt or delay.
THEOREM AckedIsReceived == Spec => []AckedReceived
<1>1. IInv => AckedReceived  BY DEF IInv
<1>. QED  BY YdpInvariant, <1>1, PTL
-----------------------------------------------------------------------------
\* At most one datagram is in transit; none is.
Lone(q) ==
  \E s \in Sockets : Len(q[s]) <= 1 /\ \A t \in Sockets \ {s} : q[t] = <<>>
Quiet(q) == \A s \in Sockets : q[s] = <<>>

\* The inductive invariant for TimelyOneId: as long as no datagram has come
\* after the client stopped waiting for it, one is in transit at a time, and
\* only while the client waits.
TimelyInv ==
  ~late => /\ Lone(queue)
           /\ pc # "sleep" => Quiet(queue)
           /\ TimelyOneId

\* A lone datagram that is received leaves nothing behind.
LEMMA LoneReceived ==
  ASSUME queue \in Queues, Lone(queue), NEW s \in Sockets, queue[s] # <<>>
  PROVE  /\ Quiet(Recvfrom(s)) /\ Recvfrom(s) \in Queues
         /\ \A t \in Sockets \ {s} : queue[t] = <<>>
<1>1. PICK r \in Sockets : Len(queue[r]) <= 1 /\ \A t \in Sockets \ {r} : queue[t] = <<>>
  BY DEF Lone
<1>2. r = s
  BY <1>1
<1>3. queue[s] \in Seq(Packets) /\ Len(queue[s]) \in Nat \ {0} /\ queue \in [Sockets -> Seq(Packets)]
  BY DEF Queues
<1>4. Tail(queue[s]) = <<>>
  BY <1>1, <1>2, <1>3
<1>5. Recvfrom(s) = [queue EXCEPT ![s] = <<>>]
  BY <1>4, ZenonT(60) DEF Recvfrom
<1>. QED  BY <1>1, <1>2, <1>3, <1>5, RecvfromQueues, ZenonT(60) DEF Quiet

\* What is sent while nothing else is in transit is alone.
LEMMA LoneSent ==
  ASSUME NEW q \in Queues, Quiet(q), NEW s \in Sockets, NEW p \in Packets
  PROVE  Lone(Sendto(q, s, p)) /\ \A t \in Sockets : Datagrams(Sendto(q, s, p), t) \subseteq {p}
<1>1. CASE Len(q[s]) < Cap
  <2>. DEFINE r == Sendto(q, s, p)
  <2>1. q[s] = <<>> /\ q[s] \in Seq(Packets)
    BY DEF Quiet, Queues
  <2>2. Len(Append(q[s], p)) = 1 /\ Append(q[s], p)[1] = p
    BY <2>1
  <2>3. r = [q EXCEPT ![s] = Append(q[s], p)]
    BY <1>1 DEF Sendto
  <2>4. r[s] = Append(q[s], p) /\ \A t \in Sockets \ {s} : r[t] = <<>>
    BY <2>3 DEF Quiet, Queues
  <2>. HIDE DEF r
  <2>5. Len(r[s]) <= 1
    BY <2>2, <2>4
  <2>6. Lone(r)
    BY <2>4, <2>5 DEF Lone
  <2>7. \A t \in Sockets : Datagrams(r, t) \subseteq {p}
    BY <2>2, <2>4 DEF Datagrams
  <2>. QED  BY <2>6, <2>7 DEF r
<1>2. CASE ~(Len(q[s]) < Cap)
  <2>1. Sendto(q, s, p) = q
    BY <1>2 DEF Sendto
  <2>2. \A t \in Sockets : Sendto(q, s, p)[t] = <<>>
    BY <2>1 DEF Quiet
  <2>. QED  BY <2>2 DEF Lone, Datagrams
<1>. QED  BY <1>1, <1>2

\* With nothing in transit there is nothing to say.
LEMMA QuietIsLone ==
  ASSUME NEW q, Quiet(q)
  PROVE  Lone(q) /\ \A t \in Sockets : Datagrams(q, t) = {}
BY DEF Quiet, Lone, Datagrams, Sockets

\* A step of the server or of a proxy takes the lone datagram and passes on
\* at most one, under the same ID or under none that is in use.
LEMMA PassedOn ==
  ASSUME IInv, TimelyInv, late' = late, pc' = pc, cur' = cur,
         NEW s \in Sockets, queue[s] # <<>>, NEW t \in Sockets, NEW p \in Packets,
         p.id \in {Head(queue[s]).id, BadId},
         queue' \in {Recvfrom(s), Sendto(Recvfrom(s), t, p)}
  PROVE  TimelyInv'
<1>. SUFFICES ASSUME ~late
              PROVE  /\ Lone(queue') /\ pc = "sleep"
                     /\ \A u \in Sockets : \A d \in Datagrams(queue', u) : d.id \in {cur, BadId}
  BY DEF TimelyInv, TimelyOneId, InTransit
<1>1. queue \in Queues /\ Lone(queue) /\ pc = "sleep" /\ TimelyOneId
  BY DEF IInv, TypeOK, Queues, TimelyInv, Quiet
<1>2. Quiet(Recvfrom(s)) /\ Recvfrom(s) \in Queues
  BY <1>1, LoneReceived
<1>3. Head(queue[s]).id \in {cur, BadId}
  BY <1>1, RecvfromQueues DEF TimelyOneId
<1>4. CASE queue' = Recvfrom(s)
  BY <1>1, <1>2, <1>4, QuietIsLone
<1>5. CASE queue' = Sendto(Recvfrom(s), t, p)
  <2>1. Lone(queue') /\ \A u \in Sockets : Datagrams(queue', u) \subseteq {p}
    BY <1>2, <1>5, LoneSent
  <2>. QED  BY <1>1, <1>3, <2>1
<1>. QED  BY <1>4, <1>5

\* Nothing is in transit at the start.
LEMMA TimelyInit == Init => TimelyInv
<1>. SUFFICES ASSUME Init PROVE TimelyInv
  OBVIOUS
<1>1. Quiet(queue)
  BY DEF Init, Quiet
<1>. QED  BY <1>1, QuietIsLone DEF TimelyInv, TimelyOneId, InTransit

\* Every step keeps the invariant: Send starts from an empty network, and
\* Wake ends late when anything is left in it.
LEMMA TimelyStep == IInv /\ TimelyInv /\ [Next]_vars => TimelyInv'
<1>. SUFFICES ASSUME IInv, TimelyInv, [Next]_vars PROVE TimelyInv'
  OBVIOUS
<1>0. queue \in Queues
  BY DEF IInv, TypeOK, Queues
<1>1. CASE UNCHANGED vars
  BY <1>1 DEF vars, TimelyInv, TimelyOneId, InTransit
<1>2. CASE Send
  <2>. DEFINE id == CHOOSE x \in FreshIds : TRUE
              p == [id |-> id, ack |-> TRUE, whole |-> TRUE, msg |-> i]
  <2>1. id \in Ids
    BY <1>2 DEF Send, FreshIds
  <2>2. /\ pc = "send" /\ pc' = "sleep" /\ cur' = id /\ late' = late
        /\ queue' = Sendto(queue, "proxy_up", p)
    BY <1>2 DEF Send
  <2>. HIDE DEF id
  <2>3. p \in Packets /\ p.id = id
    BY <2>1, YdpAssumption DEF IInv, TypeOK, Packets, Msgs
  <2>. HIDE DEF p
  <2>4. ASSUME ~late PROVE Lone(queue') /\ \A u \in Sockets : Datagrams(queue', u) \subseteq {p}
    <3>1. Quiet(queue) /\ "proxy_up" \in Sockets
      BY <2>2, <2>4 DEF TimelyInv, Sockets
    <3>. QED  BY <1>0, <2>2, <2>3, <3>1, LoneSent
  <2>. QED  BY <2>2, <2>3, <2>4 DEF TimelyInv, TimelyOneId, InTransit
<1>3. CASE Wake
  <2>. SUFFICES ASSUME ~late' PROVE Quiet(queue')
    BY QuietIsLone DEF TimelyInv, TimelyOneId, InTransit
  <2>1. ~late /\ \A s \in Sockets \ {"client"} : queue[s] = <<>>
    BY <1>3, ZenonT(60) DEF Wake
  <2>2. CASE queue["client"] = <<>>
    BY <1>3, <2>1, <2>2 DEF Wake, Quiet
  <2>3. CASE queue["client"] # <<>>
    <3>1. queue' = Recvfrom("client") /\ "client" \in Sockets
      BY <1>3, <2>3 DEF Wake, Sockets
    <3>. QED  BY <1>0, <2>1, <2>3, <3>1, LoneReceived DEF TimelyInv
  <2>. QED  BY <2>2, <2>3
<1>4. CASE Fatal
  <2>1. Quiet(queue')
    BY <1>4 DEF Fatal, Quiet
  <2>. QED  BY <2>1, QuietIsLone DEF TimelyInv, TimelyOneId, InTransit
<1>5. CASE RecvAndAck
  <2>. DEFINE d == Head(queue["server"])
              p == [id |-> d.id, ack |-> TRUE, whole |-> TRUE, msg |-> AckMsg]
  <2>1. /\ queue["server"] # <<>> /\ "server" \in Sockets /\ "proxy_down" \in Sockets
        /\ UNCHANGED <<pc, cur, late>>
        /\ queue' \in {Recvfrom("server"), Sendto(Recvfrom("server"), "proxy_down", p)}
    BY <1>5 DEF RecvAndAck, Sockets
  <2>2. d \in Packets
    BY <1>0, <2>1, RecvfromQueues
  <2>3. p \in Packets /\ p.id = d.id
    BY <2>2, YdpAssumption DEF Packets, Msgs, AckMsg
  <2>. HIDE DEF p
  <2>. QED  BY <2>1, <2>3, PassedOn
<1>6. ASSUME NEW from \in Sockets, NEW to \in Sockets, Proxy(from, to) PROVE TimelyInv'
  <2>1. queue[from] # <<>> /\ UNCHANGED <<pc, cur, late>>
    BY <1>6 DEF Proxy, Drop, Forward, Corrupt
  <2>2. Head(queue[from]) \in Packets
    BY <1>0, <2>1, RecvfromQueues
  <2>3. PICK p \in Corruptions(Head(queue[from])) \cup {Head(queue[from])} :
          queue' \in {Recvfrom(from), Sendto(Recvfrom(from), to, p)}
    BY <1>6 DEF Proxy, Drop, Forward, Corrupt
  <2>4. p \in Packets /\ p.id \in {Head(queue[from]).id, BadId}
    BY <2>2, <2>3, CorruptionsOf
  <2>. QED  BY <2>1, <2>3, <2>4, PassedOn
<1>. QED  BY <1>1, <1>2, <1>3, <1>4, <1>5, <1>6 DEF Next, Sockets

\* While no datagram is late, every one in transit carries the client's last
\* ID or none that is in use: receive and forward cannot mix two exchanges.
THEOREM OneIdWhileTimely == Spec => []TimelyOneId
<1>1. IInv /\ TimelyInv => TimelyOneId
  BY DEF TimelyInv, TimelyOneId
<1>. QED  BY <1>1, TimelyInit, TimelyStep, YdpInvariant, PTL DEF Spec
-----------------------------------------------------------------------------
(* Trace                                                                   *)

CONSTANTS HOPS, MaxTTL, IDS, MaxLoss
VARIABLES at, ttl, j, counter, traceMap, net, rows, isComplete, trouble, asked
Trace == INSTANCE Traceroute WITH i <- ttl

Messages == [id : Int, from : Int]
TraceTypes ==
  /\ at \in {"ttl", "send", "recv", "returned", "fatal"} /\ ttl \in Nat \ {0} /\ j \in 0..2
  /\ counter \in Nat /\ traceMap \subseteq Nat /\ net \subseteq Messages /\ asked \subseteq Messages
  /\ isComplete \in BOOLEAN /\ trouble \in [loss : Nat, stray : 0..1, late : 0..1]

\* A message that answers a probe was asked for, and one that does not is
\* the stray one.
Origin == \A m \in net : m \in asked \/ (m.id = -1 /\ trouble.stray = 1)

\* Only a TTL that is large enough gets an answer from the destination.
FarEnough == \A m \in asked : m.from = Trace!Dest => ttl >= HOPS
Reached == isComplete => trouble.stray = 1 \/ ttl > HOPS

TInv == TraceTypes /\ Origin /\ FarEnough /\ Reached /\ Trace!RowsPaired /\ (at = "returned" => isComplete)
-----------------------------------------------------------------------------
\* Nothing was asked yet.
LEMMA TraceInit == Trace!Init => TInv
<1>. SUFFICES ASSUME Trace!Init PROVE TInv
  OBVIOUS
<1>. USE DEF Trace!Init
<1>1. TraceTypes
  <2>1. isComplete \in BOOLEAN
    BY ZenonT(60)
  <2>2. trouble \in [loss : Nat, stray : 0..1, late : 0..1]
    OBVIOUS
  <2>. QED  BY <2>1, <2>2 DEF TraceTypes
<1>2. Origin /\ FarEnough /\ Trace!RowsPaired
  BY DEF Origin, FarEnough, Trace!RowsPaired
<1>3. Reached
  BY DEF Reached
<1>. QED  BY <1>1, <1>2, <1>3 DEF TInv

\* The head of the loop, and what the network does.
LEMMA NetworkStep ==
  ASSUME HOPS \in Nat, TInv, Trace!Round \/ Trace!Lose \/ Trace!Stray \/ UNCHANGED Trace!vars
  PROVE  TInv'
<1>. USE DEF TInv, Trace!Dest
<1>1. CASE Trace!Round
  BY <1>1 DEF Trace!Round, TraceTypes, Origin, FarEnough, Reached, Trace!RowsPaired
<1>2. CASE Trace!Lose
  <2>. USE <1>2 DEF Trace!Lose
  <2>1. trouble' \in [loss : Nat, stray : 0..1, late : 0..1] /\ trouble'.stray = trouble.stray
    BY DEF TraceTypes
  <2>. QED  BY <2>1 DEF TraceTypes, Origin, FarEnough, Reached, Trace!RowsPaired
<1>3. CASE Trace!Stray
  <2>. USE <1>3 DEF Trace!Stray
  <2>1. trouble' \in [loss : Nat, stray : 0..1, late : 0..1] /\ trouble'.stray = 1
    BY DEF TraceTypes
  <2>2. PICK f \in {1, Trace!Dest} : net' = net \cup {[id |-> -1, from |-> f]}
    OBVIOUS
  <2>3. [id |-> -1, from |-> f] \in Messages
    BY DEF Messages
  <2>. QED  BY <2>1, <2>2, <2>3 DEF TraceTypes, Origin, FarEnough, Reached, Trace!RowsPaired
<1>4. CASE UNCHANGED Trace!vars
  BY <1>4 DEF Trace!vars, TraceTypes, Origin, FarEnough, Reached, Trace!RowsPaired
<1>. QED  BY <1>1, <1>2, <1>3, <1>4

\* A probe that goes out is recorded with the host that will answer it.
LEMMA SendStep ==
  ASSUME HOPS \in Nat, IDS \in Nat \ {0}, TInv, NEW ok \in BOOLEAN, Trace!Send(ok)
  PROVE  TInv'
<1>. USE DEF TInv, Trace!Dest
<1>. DEFINE answer == [id |-> counter, from |-> IF ttl < HOPS THEN ttl ELSE Trace!Dest]
<1>1. answer \in Messages /\ (answer.from = HOPS => ttl >= HOPS)
  BY DEF TraceTypes, Messages
<1>2. /\ IF ok THEN net' = net \cup {answer} /\ asked' = asked \cup {answer} ELSE net' = net /\ asked' = asked
      /\ rows' = rows /\ isComplete' = isComplete /\ ttl' = ttl /\ at' \in {"send", "recv"}
      /\ traceMap' = traceMap \cup {counter}
  BY DEF Trace!Send
<1>3. counter' \in Nat /\ j' \in 0..2
  <2>1. counter' = (counter + 1) % IDS /\ j' = (j + 1) % 3
    BY DEF Trace!Send
  <2>. QED  BY <2>1 DEF TraceTypes
<1>4. trouble' \in [loss : Nat, stray : 0..1, late : 0..1] /\ trouble'.stray = trouble.stray
  BY DEF Trace!Send, TraceTypes
<1>. HIDE DEF answer
<1>5. TraceTypes'
  BY <1>1, <1>2, <1>3, <1>4 DEF TraceTypes
<1>6. Origin' /\ FarEnough' /\ Reached' /\ Trace!RowsPaired'
  BY <1>1, <1>2, <1>4 DEF Origin, FarEnough, Reached, Trace!RowsPaired
<1>. QED  BY <1>2, <1>5, <1>6

\* A row is written for a known identifier only, and the third answer of a
\* round ends the trace only if it is the destination's.
LEMMA ReceiveStep ==
  ASSUME HOPS \in Nat, TInv, Trace!Recvfrom \/ Trace!Timeout
  PROVE  TInv'
<1>. USE DEF TInv, Trace!Dest
<1>1. /\ j' \in 0..2 /\ ttl' \in Nat \ {0} /\ ttl' >= ttl /\ at' \in {"ttl", "recv"}
      /\ j = 2 => ttl' = ttl + 1
  <2>1. Trace!Counted
    BY DEF Trace!Recvfrom, Trace!Timeout
  <2>2. at = "recv"
    BY DEF Trace!Recvfrom, Trace!Timeout
  <2>. QED  BY <2>1, <2>2 DEF Trace!Counted, TraceTypes
<1>2. CASE Trace!Recvfrom
  <2>1. PICK m \in net : /\ net' = net \ {m} /\ isComplete' = (isComplete \/ Trace!Complete(m))
                         /\ rows' = rows \cup Trace!Row(m)
    BY <1>2 DEF Trace!Recvfrom
  <2>2. counter' = counter /\ traceMap' = traceMap /\ trouble' = trouble /\ asked' = asked
    BY <1>2 DEF Trace!Recvfrom
  <2>3. TraceTypes'
    <3>1. isComplete' \in BOOLEAN
      BY <2>1
    <3>. QED  BY <1>1, <2>1, <2>2, <3>1 DEF TraceTypes
  <2>4. Trace!Row(m) \subseteq asked
    BY <2>1 DEF Trace!Row, Origin, TraceTypes
  <2>5. Trace!Complete(m) => trouble.stray = 1 \/ ttl' > HOPS
    BY <1>1, <2>1 DEF Trace!Complete, Origin, FarEnough, TraceTypes
  <2>6. Origin' /\ FarEnough' /\ Trace!RowsPaired'
    BY <1>1, <2>1, <2>2, <2>4 DEF Origin, FarEnough, Trace!RowsPaired, TraceTypes
  <2>7. Reached'
    BY <1>1, <2>1, <2>2, <2>5 DEF Reached, TraceTypes
  <2>. QED  BY <1>1, <2>3, <2>6, <2>7
<1>3. CASE Trace!Timeout
  <2>. USE <1>3 DEF Trace!Timeout
  <2>1. trouble' \in [loss : Nat, stray : 0..1, late : 0..1] /\ trouble'.stray = trouble.stray
    BY DEF TraceTypes
  <2>. QED  BY <1>1, <2>1 DEF TraceTypes, Origin, FarEnough, Reached, Trace!RowsPaired
<1>. QED  BY <1>2, <1>3

\* TInv is inductive.
LEMMA TraceInvariant ==
  ASSUME HOPS \in Nat, IDS \in Nat \ {0} PROVE Trace!Spec => []TInv
<1>1. TInv /\ [Trace!Next]_(Trace!vars) => TInv'
  BY NetworkStep, SendStep, ReceiveStep DEF Trace!Next
<1>. QED  BY <1>1, TraceInit, PTL DEF Trace!Spec
-----------------------------------------------------------------------------
\* With any loss, delay and reordering every row pairs an identifier with a
\* host that answers a probe with this identifier.
THEOREM TraceRowsTrue ==
  ASSUME HOPS \in Nat, IDS \in Nat \ {0} PROVE Trace!Spec => []Trace!RowsPaired
<1>1. TInv => Trace!RowsPaired
  BY DEF TInv
<1>. QED  BY <1>1, TraceInvariant, PTL

\* Trace does not return before its TTL reaches the destination, unless a
\* message that answers no probe came from there.
THEOREM TraceReturnsReached ==
  ASSUME HOPS \in Nat, IDS \in Nat \ {0} PROVE Trace!Spec => []Trace!ReturnMeansReached
<1>1. TInv => Trace!ReturnMeansReached
  BY DEF TInv, Reached, Trace!ReturnMeansReached
<1>. QED  BY <1>1, TraceInvariant, PTL
-----------------------------------------------------------------------------
\* The inductive invariant for EndsPromptly. Without trouble the messages on
\* their way are answers to this round's probes, no more than are still to be
\* received, so that a round leaves none to the next; and no round is begun
\* beyond the destination.
Calm == trouble = [loss |-> 0, stray |-> 0, late |-> 0]
OfThisRound == \A m \in net : m.from = IF ttl < HOPS THEN ttl ELSE Trace!Dest
Outstanding ==
  /\ IsFiniteSet(net) /\ (at \notin {"send", "recv"} => net = {})
  /\ at = "send" => ttl <= HOPS /\ Cardinality(net) <= j
  /\ at = "recv" => ttl <= HOPS /\ Cardinality(net) <= 3 - j
PromptInv == Calm => OfThisRound /\ Outstanding /\ Trace!EndsPromptly

\* A message more, or one less.
LEMMA MessageSizes ==
  ASSUME NEW S, IsFiniteSet(S), NEW m
  PROVE  /\ Cardinality(S) \in Nat /\ (Cardinality(S) = 0 <=> S = {})
         /\ IsFiniteSet(S \cup {m}) /\ Cardinality(S \cup {m}) <= Cardinality(S) + 1
         /\ IsFiniteSet(S \ {m}) /\ (m \in S => Cardinality(S \ {m}) = Cardinality(S) - 1)
<1>1. Cardinality(S) \in Nat /\ (Cardinality(S) = 0 <=> S = {})
  BY FS_CardinalityType, FS_EmptySet
<1>2. IsFiniteSet(S \cup {m}) /\ (Cardinality(S \cup {m}) = IF m \in S THEN Cardinality(S) ELSE Cardinality(S) + 1)
  BY FS_AddElement
<1>3. IsFiniteSet(S \ {m}) /\ (Cardinality(S \ {m}) = IF m \in S THEN Cardinality(S) - 1 ELSE Cardinality(S))
  BY FS_RemoveElement
<1>. QED  BY <1>1, <1>2, <1>3

\* Each probe adds one answer of this round.
LEMMA PromptSend ==
  ASSUME HOPS \in Nat \ {0}, TraceTypes, PromptInv, NEW ok \in BOOLEAN, Trace!Send(ok), Calm'
  PROVE  OfThisRound' /\ Outstanding' /\ Trace!EndsPromptly'
<1>. DEFINE answer == [id |-> counter, from |-> IF ttl < HOPS THEN ttl ELSE Trace!Dest]
<1>1. ok /\ trouble' = trouble
  <2>1. trouble.loss \in Nat
    BY DEF TraceTypes
  <2>2. ~ok => trouble'.loss = trouble.loss + 1
    BY DEF Trace!Send, TraceTypes
  <2>3. trouble'.loss = 0
    BY DEF Calm
  <2>. QED  BY <2>1, <2>2, <2>3 DEF Trace!Send, TraceTypes
<1>2. OfThisRound /\ Outstanding /\ Trace!EndsPromptly
  BY <1>1 DEF PromptInv, Calm
<1>3. /\ at = "send" /\ net' = net \cup {answer} /\ ttl' = ttl /\ isComplete' = isComplete
      /\ j' = (j + 1) % 3 /\ at' = IF j = 2 THEN "recv" ELSE "send"
  BY <1>1 DEF Trace!Send
<1>4. answer.from = IF ttl < HOPS THEN ttl ELSE Trace!Dest
  OBVIOUS
<1>. HIDE DEF answer
<1>5. j' = IF j = 2 THEN 0 ELSE j + 1
  BY <1>3 DEF TraceTypes
<1>6. OfThisRound'
  BY <1>2, <1>3, <1>4 DEF OfThisRound
<1>7. Outstanding'
  <2>1. IsFiniteSet(net) /\ ttl <= HOPS /\ Cardinality(net) <= j
    BY <1>2, <1>3 DEF Outstanding
  <2>2. Cardinality(net) \in Nat /\ IsFiniteSet(net') /\ Cardinality(net') <= Cardinality(net) + 1
    BY <1>3, <2>1, MessageSizes, ZenonT(60)
  <2>3. Cardinality(net') \in Nat
    BY <2>2, FS_CardinalityType
  <2>. QED  BY <1>3, <1>5, <2>1, <2>2, <2>3 DEF Outstanding, TraceTypes
<1>8. Trace!EndsPromptly'
  BY <1>1, <1>2, <1>3 DEF Trace!EndsPromptly
<1>. QED  BY <1>6, <1>7, <1>8

\* Each receive takes one, and the third in the round that reaches the
\* destination completes the trace.
LEMMA PromptReceive ==
  ASSUME HOPS \in Nat \ {0}, TraceTypes, PromptInv, Trace!Recvfrom, Calm'
  PROVE  OfThisRound' /\ Outstanding' /\ Trace!EndsPromptly'
<1>1. OfThisRound /\ Outstanding /\ Trace!EndsPromptly
  <2>1. trouble' = trouble
    BY DEF Trace!Recvfrom
  <2>. QED  BY <2>1 DEF PromptInv, Calm
<1>2. PICK m \in net : net' = net \ {m} /\ isComplete' = (isComplete \/ Trace!Complete(m))
  BY DEF Trace!Recvfrom
<1>3. /\ at = "recv" /\ j' = IF j = 2 THEN 0 ELSE j + 1
      /\ IF j = 2 THEN at' = "ttl" /\ ttl' = ttl + 1 ELSE at' = at /\ ttl' = ttl
  BY DEF Trace!Recvfrom, Trace!Counted, TraceTypes
<1>4. IsFiniteSet(net) /\ Cardinality(net) <= 3 - j /\ ttl <= HOPS
  BY <1>1, <1>3 DEF Outstanding
<1>5. /\ Cardinality(net) \in Nat /\ IsFiniteSet(net') /\ Cardinality(net') = Cardinality(net) - 1
      /\ Cardinality(net') \in Nat /\ (Cardinality(net') = 0 <=> net' = {})
  BY <1>2, <1>4, MessageSizes, ZenonT(60)
<1>6. Outstanding'
  BY <1>3, <1>4, <1>5 DEF Outstanding, TraceTypes
<1>7. OfThisRound'
  <2>1. CASE j = 2
    BY <1>3, <1>6, <2>1 DEF Outstanding, OfThisRound
  <2>2. CASE j # 2
    BY <1>1, <1>2, <1>3, <2>2 DEF OfThisRound
  <2>. QED  BY <2>1, <2>2
<1>8. Trace!EndsPromptly'
  <2>1. ttl' <= HOPS + 1
    BY <1>3, <1>4 DEF TraceTypes
  <2>2. ASSUME ttl' = HOPS + 1 PROVE isComplete'
    <3>1. j = 2 /\ ttl = HOPS
      BY <1>3, <1>4, <2>2 DEF TraceTypes
    <3>2. m.from = Trace!Dest
      BY <1>1, <1>2, <3>1 DEF OfThisRound
    <3>. QED  BY <1>2, <3>1, <3>2, ZenonT(60) DEF Trace!Complete
  <2>. QED  BY <2>1, <2>2 DEF Trace!EndsPromptly
<1>. QED  BY <1>6, <1>7, <1>8

\* When nothing is lost, late or foreign, the trace goes no further than the
\* first round that reaches the destination, whatever its distance.
THEOREM TraceEndsPromptly ==
  ASSUME HOPS \in Nat \ {0}, IDS \in Nat \ {0} PROVE Trace!Spec => []Trace!EndsPromptly
<1>1. Trace!Init => PromptInv
  <2>. SUFFICES ASSUME Trace!Init PROVE OfThisRound /\ Outstanding /\ Trace!EndsPromptly
    BY DEF PromptInv
  <2>1. IsFiniteSet({})
    BY FS_EmptySet
  <2>. QED  BY <2>1 DEF Trace!Init, OfThisRound, Outstanding, Trace!EndsPromptly
<1>2. TInv /\ PromptInv /\ [Trace!Next]_(Trace!vars) => PromptInv'
  <2>. SUFFICES ASSUME TInv, PromptInv, [Trace!Next]_(Trace!vars), Calm' PROVE OfThisRound' /\ Outstanding' /\ Trace!EndsPromptly'
    BY DEF PromptInv
  <2>0. TraceTypes
    BY DEF TInv
  <2>1. CASE Trace!Round
    <3>1. OfThisRound /\ Outstanding /\ Trace!EndsPromptly /\ trouble = [loss |-> 0, stray |-> 0, late |-> 0]
      BY <2>1 DEF Trace!Round, PromptInv, Calm
    <3>2. /\ at = "ttl" /\ at' = (IF isComplete THEN "returned" ELSE IF ttl >= MaxTTL THEN "fatal" ELSE "send")
          /\ ttl' = ttl /\ j' = j /\ net' = net /\ isComplete' = isComplete
      BY <2>1 DEF Trace!Round
    <3>3. net = {} /\ Cardinality(net) = 0
      BY <3>1, <3>2, FS_EmptySet DEF Outstanding
    <3>4. ~isComplete => ttl <= HOPS
      BY <2>0, <3>1 DEF Trace!EndsPromptly, TraceTypes
    <3>. QED  BY <2>0, <3>1, <3>2, <3>3, <3>4 DEF OfThisRound, Outstanding, Trace!EndsPromptly, TraceTypes
  <2>2. ~Trace!Timeout /\ ~Trace!Lose /\ ~Trace!Stray
    <3>1. Trace!Timeout => trouble'.late = 1
      BY <2>0 DEF Trace!Timeout, TraceTypes
    <3>2. Trace!Lose => trouble'.loss = trouble.loss + 1 /\ trouble.loss \in Nat
      BY <2>0 DEF Trace!Lose, TraceTypes
    <3>3. Trace!Stray => trouble'.stray = 1
      BY <2>0 DEF Trace!Stray, TraceTypes
    <3>4. trouble'.loss = 0 /\ trouble'.stray = 0 /\ trouble'.late = 0
      BY DEF Calm
    <3>. QED  BY <3>1, <3>2, <3>3, <3>4
  <2>3. CASE Trace!Recvfrom
    BY <2>0, <2>3, PromptReceive
  <2>4. CASE \E ok \in BOOLEAN : Trace!Send(ok)
    BY <2>0, <2>4, PromptSend
  <2>5. CASE UNCHANGED Trace!vars
    BY <2>5 DEF Trace!vars, PromptInv, Calm, OfThisRound, Outstanding, Trace!EndsPromptly
  <2>. QED  BY <2>1, <2>2, <2>3, <2>4, <2>5 DEF Trace!Next
<1>3. TInv /\ PromptInv => Trace!EndsPromptly
  BY DEF PromptInv, Calm, Trace!EndsPromptly
<1>4. HOPS \in Nat
  OBVIOUS
<1>. QED  BY <1>1, <1>2, <1>3, <1>4, TraceInvariant, PTL DEF Trace!Spec
-----------------------------------------------------------------------------
(* The forking echo server                                                 *)

CONSTANTS Conns, Lines
VARIABLES main, conn, refs, kid, pending, handling
Fork == INSTANCE EchoFork

ForkTypes ==
  /\ main \in Conns \cup {"accept", "dead"}
  /\ conn \in [Conns -> [sent : Nat, echoed : Nat, eof : BOOLEAN]]
  /\ refs \in [Conns -> SUBSET {"parent", "child"}]
  /\ kid \in [Conns -> {"none", "echo", "zombie", "reaped"}]
  /\ pending \in BOOLEAN /\ handling \in BOOLEAN

\* Lines read stay within the lines sent, and those within their bound.
ForkBounded == \A c \in Conns : conn[c].echoed <= conn[c].sent /\ conn[c].sent <= Lines

\* A child that has ended saw the end of the file, had echoed every line and
\* holds the connection no more; no process has one that was never accepted.
EndedWhole ==
  \A c \in Conns :
    /\ kid[c] \in {"zombie", "reaped"} =>
         conn[c].eof /\ conn[c].echoed = conn[c].sent /\ "child" \notin refs[c]
    /\ kid[c] = "none" => refs[c] = {}

FInv == ForkTypes /\ ForkBounded /\ EndedWhole /\ Fork!ParentHoldsOne /\ Fork!ZombieSignalled
-----------------------------------------------------------------------------
\* The server before its first Accept.
LEMMA ForkInit == ASSUME Lines \in Nat PROVE Fork!Init => FInv
<1>. SUFFICES ASSUME Lines \in Nat, Fork!Init PROVE FInv
  OBVIOUS
<1>. USE DEF Fork!Init
<1>1. ForkTypes
  BY ZenonT(60) DEF ForkTypes
<1>2. ForkBounded /\ EndedWhole
  BY DEF ForkBounded, EndedWhole
<1>3. Fork!ParentHoldsOne /\ Fork!ZombieSignalled
  BY DEF Fork!ParentHoldsOne, Fork!ZombieSignalled, Fork!Zombies
<1>. QED  BY <1>1, <1>2, <1>3 DEF FInv

\* What a client does leaves the server's processes and signals alone.
LEMMA ClientStep ==
  ASSUME Lines \in Nat, FInv, NEW c \in Conns,
         Fork!ClientSend(c) \/ Fork!ClientShut(c) \/ Fork!EchoLine(c)
  PROVE  FInv'
<1>. USE DEF FInv
<1>1. CASE Fork!ClientSend(c)
  <2>. USE <1>1 DEF Fork!ClientSend
  <2>1. ForkTypes'
    BY DEF ForkTypes
  <2>2. ForkBounded' /\ EndedWhole'
    <3>1. conn' = [conn EXCEPT ![c] = [conn[c] EXCEPT !.sent = @ + 1]]
      BY DEF ForkTypes
    <3>2. kid[c] \notin {"zombie", "reaped"}
      BY DEF EndedWhole
    <3>. QED  BY <3>1, <3>2 DEF ForkTypes, ForkBounded, EndedWhole
  <2>. QED  BY <2>1, <2>2 DEF Fork!ParentHoldsOne, Fork!ZombieSignalled, Fork!Zombies
<1>2. CASE Fork!ClientShut(c)
  <2>. USE <1>2 DEF Fork!ClientShut
  <2>1. ForkTypes'
    BY ZenonT(60) DEF ForkTypes
  <2>2. ForkBounded' /\ EndedWhole'
    BY DEF ForkTypes, ForkBounded, EndedWhole
  <2>. QED  BY <2>1, <2>2 DEF Fork!ParentHoldsOne, Fork!ZombieSignalled, Fork!Zombies
<1>3. CASE Fork!EchoLine(c)
  <2>. USE <1>3 DEF Fork!EchoLine
  <2>1. ForkTypes'
    BY DEF ForkTypes
  <2>2. ForkBounded' /\ EndedWhole'
    BY DEF ForkTypes, ForkBounded, EndedWhole
  <2>. QED  BY <2>1, <2>2 DEF Fork!ParentHoldsOne, Fork!ZombieSignalled, Fork!Zombies
<1>. QED  BY <1>1, <1>2, <1>3

\* The parent between two Accepts, whose connection is the one it forked for.
LEMMA ParentStep ==
  ASSUME "accept" \notin Conns, FInv, NEW c \in Conns,
         Fork!AcceptFork(c) \/ Fork!ParentClose(c)
  PROVE  FInv'
<1>. USE DEF FInv
<1>1. CASE Fork!AcceptFork(c)
  <2>. USE <1>1 DEF Fork!AcceptFork
  <2>1. ForkTypes' /\ ForkBounded' /\ EndedWhole'
    BY DEF ForkTypes, ForkBounded, EndedWhole
  <2>2. Fork!ParentHoldsOne'
    BY DEF ForkTypes, Fork!ParentHoldsOne
  <2>3. Fork!ZombieSignalled'
    BY DEF ForkTypes, Fork!ZombieSignalled, Fork!Zombies
  <2>. QED  BY <2>1, <2>2, <2>3
<1>2. CASE Fork!ParentClose(c)
  <2>. USE <1>2 DEF Fork!ParentClose
  <2>1. ForkTypes' /\ ForkBounded' /\ EndedWhole'
    BY DEF ForkTypes, ForkBounded, EndedWhole
  <2>2. Fork!ParentHoldsOne'
    BY DEF ForkTypes, Fork!ParentHoldsOne
  <2>. QED  BY <2>1, <2>2 DEF Fork!ZombieSignalled, Fork!Zombies
<1>. QED  BY <1>1, <1>2

\* A child's end raises SIGCHLD in the same step.
LEMMA ChildStep ==
  ASSUME FInv, NEW c \in Conns, Fork!ChildExit(c) \/ Fork!Reap(c)
  PROVE  FInv'
<1>. USE DEF FInv
<1>1. CASE Fork!ChildExit(c)
  <2>. USE <1>1 DEF Fork!ChildExit
  <2>1. ForkTypes' /\ ForkBounded' /\ EndedWhole'
    BY DEF ForkTypes, ForkBounded, EndedWhole
  <2>2. Fork!ParentHoldsOne'
    BY DEF ForkTypes, Fork!ParentHoldsOne
  <2>. QED  BY <2>1, <2>2 DEF Fork!ZombieSignalled
<1>2. CASE Fork!Reap(c)
  <2>. USE <1>2 DEF Fork!Reap
  <2>1. ForkTypes' /\ ForkBounded' /\ EndedWhole'
    BY DEF ForkTypes, ForkBounded, EndedWhole, Fork!Zombies
  <2>. QED  BY <2>1 DEF Fork!ParentHoldsOne, Fork!ZombieSignalled
<1>. QED  BY <1>1, <1>2

\* The handler returns only when waitpid found no zombie, so a signal that
\* merged with a pending one is not missed; a failed fork ends the parent
\* while it holds no connection.
LEMMA SignalStep ==
  ASSUME "accept" \notin Conns, FInv, Fork!ForkFails \/ Fork!Deliver \/ Fork!Return \/ UNCHANGED Fork!vars
  PROVE  FInv'
<1>. USE DEF FInv
<1>1. CASE Fork!ForkFails
  <2>. USE <1>1 DEF Fork!ForkFails
  <2>1. ForkTypes' /\ ForkBounded' /\ EndedWhole' /\ Fork!ZombieSignalled'
    BY DEF ForkTypes, ForkBounded, EndedWhole, Fork!ZombieSignalled, Fork!Zombies
  <2>2. Fork!ParentHoldsOne'
    BY DEF Fork!ParentHoldsOne
  <2>. QED  BY <2>1, <2>2
<1>2. CASE Fork!Deliver
  BY <1>2, ZenonT(60) DEF Fork!Deliver, ForkTypes, ForkBounded, EndedWhole, Fork!ParentHoldsOne, Fork!ZombieSignalled
<1>3. CASE Fork!Return
  BY <1>3, ZenonT(60) DEF Fork!Return, ForkTypes, ForkBounded, EndedWhole, Fork!ParentHoldsOne, Fork!ZombieSignalled, Fork!Zombies
<1>4. CASE UNCHANGED Fork!vars
  BY <1>4 DEF Fork!vars, ForkTypes, ForkBounded, EndedWhole, Fork!ParentHoldsOne, Fork!ZombieSignalled, Fork!Zombies
<1>. QED  BY <1>1, <1>2, <1>3, <1>4

\* FInv is inductive.
LEMMA ForkInvariant ==
  ASSUME Lines \in Nat, "accept" \notin Conns PROVE Fork!Spec => []FInv
<1>1. Fork!Init => FInv
  BY ForkInit
<1>2. FInv /\ [Fork!Next]_(Fork!vars) => FInv'
  <2>. SUFFICES ASSUME FInv, [Fork!Next]_(Fork!vars) PROVE FInv'
    OBVIOUS
  <2>1. ASSUME NEW c \in Conns, Fork!ClientSend(c) \/ Fork!ClientShut(c) \/ Fork!EchoLine(c) PROVE FInv'
    BY <2>1, ClientStep
  <2>2. ASSUME NEW c \in Conns, Fork!AcceptFork(c) \/ Fork!ParentClose(c) PROVE FInv'
    BY <2>2, ParentStep
  <2>3. ASSUME NEW c \in Conns, Fork!ChildExit(c) \/ Fork!Reap(c) PROVE FInv'
    BY <2>3, ChildStep
  <2>4. CASE Fork!ForkFails \/ Fork!Deliver \/ Fork!Return \/ UNCHANGED Fork!vars
    BY <2>4, SignalStep
  <2>. QED  BY <2>1, <2>2, <2>3, <2>4 DEF Fork!Next
<1>. QED  BY <1>1, <1>2, PTL DEF Fork!Spec
-----------------------------------------------------------------------------
\* SIGCHLD is not queued, yet no zombie is left without a pending signal or
\* a running handler, for any number of children ending in any order.
THEOREM NoLostChild ==
  ASSUME Lines \in Nat, "accept" \notin Conns PROVE Fork!Spec => []Fork!ZombieSignalled
<1>1. FInv => Fork!ZombieSignalled
  BY DEF FInv
<1>. QED  BY <1>1, ForkInvariant, PTL

\* The parent's Close(connfd) comes before it can accept again, so that it
\* never collects descriptors.
THEOREM ParentReleases ==
  ASSUME Lines \in Nat, "accept" \notin Conns PROVE Fork!Spec => []Fork!ParentHoldsOne
<1>1. FInv => Fork!ParentHoldsOne
  BY DEF FInv
<1>. QED  BY <1>1, ForkInvariant, PTL

\* A child that has ended, reaped or not, had sent every line back.
THEOREM ChildrenEndWhole ==
  ASSUME Lines \in Nat, "accept" \notin Conns PROVE Fork!Spec => []EndedWhole
<1>1. FInv => EndedWhole
  BY DEF FInv
<1>. QED  BY <1>1, ForkInvariant, PTL
=============================================================================
