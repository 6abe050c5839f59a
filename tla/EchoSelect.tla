----------------------------- MODULE EchoSelect -----------------------------
(***************************************************************************)
(* The event-driven echo server (echoservers.c): one process, a pool of    *)
(* client slots, and a turn of select, accept and check_clients.  Lines    *)
(* come in pieces of any length; Rio_readlineb blocks until it has a line, *)
(* and works on a copy of the slot's rio_t, so what one read() took beyond *)
(* the line is dropped.                                                    *)
(***************************************************************************)
EXTENDS Integers, Sequences, FiniteSets, SequencesExt, FiniteSetsExt

CONSTANTS
  Conns,         \* connections that clients make
  Lines,         \* lines that the client of each connection sends
  FD_SETSIZE,
  BufSize        \* RIO_BUFSIZE

VARIABLES
  net,           \* per connection: its stage, bytes sent, unread bytes, echo
  p,             \* the pool, and where the server is: pc, i and buf (line)
  byte_cnt,
  eager          \* connections that sent before their last line was echoed

vars == <<net, p, byte_cnt, eager>>

listenfd == 3
NL == 0
Stream(c) == FlattenSeq([k \in 1..Lines[c] |-> <<k, NL>>])
Slots == 0..(FD_SETSIZE - 1)
Open == {c \in Conns : net[c].stage \in {"open", "shut"}}
ConnAt(fd) == CHOOSE c \in Open : net[c].fd = fd

\* init_pool
Init ==
  /\ net = [c \in Conns |-> [stage |-> "new", fd |-> -1, sent |-> 0, inq |-> <<>>, got |-> <<>>]]
  /\ p = [clientfd |-> [s \in Slots |-> -1], read_set |-> {listenfd}, ready_set |-> {}, nready |-> 0,
          maxi |-> -1, maxfd |-> listenfd, pc |-> "select", i |-> 0, line |-> <<>>]
  /\ byte_cnt = 0 /\ eager = {}

Stage(c, from, to) == net[c].stage = from /\ net' = [net EXCEPT ![c].stage = to]

Connect(c) == Stage(c, "new", "pending") /\ UNCHANGED <<p, byte_cnt, eager>>
Shut(c) == Stage(c, "open", "shut") /\ UNCHANGED <<p, byte_cnt, eager>>

\* A segment of k bytes arrives.
Send(c, k) ==
  LET upto == net[c].sent + k IN
  /\ net[c].stage = "open" /\ upto <= Len(Stream(c))
  /\ net' = [net EXCEPT ![c].sent = upto, ![c].inq = @ \o SubSeq(Stream(c), upto - k + 1, upto)]
  /\ eager' = IF upto - Len(net[c].got) > 2 THEN eager \cup {c} ELSE eager
  /\ UNCHANGED <<p, byte_cnt>>
-----------------------------------------------------------------------------
Ready ==
  {fd \in p.read_set : /\ fd <= p.maxfd
                       /\ IF fd = listenfd THEN \E c \in Conns : net[c].stage = "pending"
                          ELSE net[ConnAt(fd)].inq # <<>> \/ net[ConnAt(fd)].stage = "shut"}

Select ==
  /\ p.pc = "select" /\ Ready # {}
  /\ p' = [p EXCEPT !.ready_set = Ready, !.nready = Cardinality(Ready), !.i = 0,
                    !.pc = IF listenfd \in Ready THEN "accept" ELSE "check"]
  /\ UNCHANGED <<net, byte_cnt, eager>>

\* Mutant: a slot in use is taken for a free one.
AnySlot == Slots

FreeSlots == {s \in Slots : p.clientfd[s] < 0}

\* Accept returns the lowest free descriptor; with no slot for it, app_error
\* ends the server.
add_client(c) ==
  LET fd == Min((4..(4 + Cardinality(Conns))) \ {net[d].fd : d \in Open})
      s == Min(FreeSlots)
  IN  /\ p.pc = "accept" /\ net[c].stage = "pending"
      /\ net' = [net EXCEPT ![c].stage = "open", ![c].fd = fd]
      /\ p' = IF FreeSlots = {} THEN [p EXCEPT !.pc = "dead"]
              ELSE [p EXCEPT !.clientfd[s] = fd, !.read_set = @ \cup {fd}, !.nready = @ - 1,
                             !.maxfd = Max({@, fd}), !.maxi = Max({@, s}), !.pc = "check"]
      /\ UNCHANGED <<byte_cnt, eager>>
-----------------------------------------------------------------------------
\* Mutant: the loop stops before the high-water mark.
LoopingShort == p.pc = "check" /\ p.i < p.maxi /\ p.nready > 0

Looping == p.pc = "check" /\ p.i <= p.maxi /\ p.nready > 0

\* check_clients: the loop passes a slot, enters one, or ends.
Check ==
  /\ p.pc = "check"
  /\ p' = IF ~Looping THEN [p EXCEPT !.pc = "select"]
          ELSE IF p.clientfd[p.i] > 0 /\ p.clientfd[p.i] \in p.ready_set
          THEN [p EXCEPT !.nready = @ - 1, !.pc = "read"]
          ELSE [p EXCEPT !.i = @ + 1]
  /\ UNCHANGED <<net, byte_cnt, eager>>

Reading(c) == p.pc = "read" /\ c \in Open /\ net[c].fd = p.clientfd[p.i]
AtEof(c) == net[c].inq = <<>> /\ net[c].stage = "shut"

\* Mutants: calls are counted for bytes; a line that comes in two parts is
\* stored over its own beginning.
CountedCalls(text) == byte_cnt + 1
Restarted(chunk) == chunk

Counted(text) == byte_cnt + Len(text)
Longer(chunk) == p.line \o chunk

Echo(c, text, rest) ==
  /\ net' = [net EXCEPT ![c].got = @ \o text, ![c].inq = rest]
  /\ byte_cnt' = Counted(text)
  /\ p' = [p EXCEPT !.pc = "check", !.i = @ + 1, !.line = <<>>]

\* One read() in Rio_readlineb, and the echo once it has found a newline
ReadChunk(c) ==
  LET n == Min({BufSize, Len(net[c].inq)})
      chunk == SubSeq(net[c].inq, 1, n)
      rest == SubSeq(net[c].inq, n + 1, Len(net[c].inq))
      ends == {j \in 1..n : chunk[j] = NL}
  IN  /\ Reading(c) /\ n > 0
      /\ IF ends # {} THEN Echo(c, Longer(SubSeq(chunk, 1, Min(ends))), rest)
         ELSE /\ p' = [p EXCEPT !.line = Longer(chunk)]
              /\ net' = [net EXCEPT ![c].inq = rest]
              /\ UNCHANGED byte_cnt
      /\ UNCHANGED eager

\* The end of the file, after part of a line and with nothing read
ReadLastPart(c) == Reading(c) /\ AtEof(c) /\ p.line # <<>> /\ Echo(c, p.line, <<>>) /\ UNCHANGED eager

ReadEof(c) ==
  /\ Reading(c) /\ AtEof(c) /\ p.line = <<>>
  /\ net' = [net EXCEPT ![c].stage = "closed"]
  /\ p' = [p EXCEPT !.clientfd[p.i] = -1, !.read_set = @ \ {net[c].fd}, !.pc = "check", !.i = @ + 1]
  /\ UNCHANGED <<byte_cnt, eager>>

\* A read or write error: unix_error ends the whole server.
unix_error(c) ==
  /\ Reading(c) /\ net[c].stage = "shut"
  /\ p' = [p EXCEPT !.pc = "dead"]
  /\ UNCHANGED <<net, byte_cnt, eager>>

Next ==
  \/ \E c \in Conns :
       \/ Connect(c) \/ Shut(c) \/ \E k \in 1..Len(Stream(c)) : Send(c, k)
       \/ add_client(c) \/ ReadChunk(c) \/ ReadLastPart(c) \/ ReadEof(c) \/ unix_error(c)
  \/ Select \/ Check

Spec == Init /\ [][Next]_vars
-----------------------------------------------------------------------------
TypeOK ==
  /\ \A c \in Conns : /\ net[c].stage \in {"new", "pending", "open", "shut", "closed"}
                      /\ net[c].sent \in 0..Len(Stream(c))
  /\ p.maxi \in -1..(FD_SETSIZE - 1) /\ p.nready \in 0..(FD_SETSIZE + 1) /\ p.i \in 0..FD_SETSIZE
  /\ p.pc \in {"select", "accept", "check", "read", "dead"}
  /\ byte_cnt \in Nat /\ eager \subseteq Conns

\* Between turns the slots, the select set and the open connections agree:
\* every open connection has one slot, at most maxi, and its descriptor is
\* in read_set and at most maxfd, so that select and check_clients see it.
PoolConsistent ==
  p.pc = "select" =>
    /\ p.read_set \ {listenfd} = {net[c].fd : c \in Open}
    /\ \A c \in Open : /\ Cardinality({s \in 0..p.maxi : p.clientfd[s] = net[c].fd}) = 1
                       /\ net[c].fd <= p.maxfd
    /\ \A s \in Slots : p.clientfd[s] > 0 => p.clientfd[s] \in p.read_set

\* nready counts the ready descriptors that check_clients has still to come
\* to: the early end of its loop skips no client that select reported, and
\* a descriptor that Accept reused is never taken for a ready one.
NoReadySkipped ==
  /\ p.pc = "check" =>
       p.nready = Cardinality({s \in p.i..(FD_SETSIZE - 1) : p.clientfd[s] \in p.ready_set})
  /\ p.pc = "select" => p.nready = 0

\* A client that waits for each echo before it sends the next line gets
\* everything back: nothing it sent is lost, whatever the segments and
\* whatever the other clients do.
PatientLossless ==
  p.pc # "dead" => \A c \in Conns \ eager :
    net[c].got \o (IF Reading(c) THEN p.line ELSE <<>>) \o net[c].inq = SubSeq(Stream(c), 1, net[c].sent)

\* A client that does not wait may lose bytes with the discarded copy of its
\* rio_t; what it gets is still what it sent with parts left out, in order,
\* and byte_cnt is the number of bytes echoed to all.
EchoInOrder ==
  /\ \A c \in Conns : \E keep \in SUBSET (1..net[c].sent) :
       net[c].got = [j \in 1..Cardinality(keep) |->
                       Stream(c)[CHOOSE q \in keep : Cardinality({r \in keep : r <= q}) = j]]
  /\ byte_cnt = FoldSet(LAMBDA c, n : n + Len(net[c].got), 0, Conns)
=============================================================================
