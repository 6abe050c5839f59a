----------------------------- MODULE Traceroute -----------------------------
(***************************************************************************)
(* Trace of traceroute.go: three probes and three receives for every TTL.  *)
(* Answers may be lost, late or reordered, and the raw socket also gets    *)
(* a message that answers no probe, here at most one.  Where a row stands  *)
(* is the round in which it was received.                                  *)
(***************************************************************************)
EXTENDS Integers, Sequences, FiniteSets

CONSTANTS HOPS,        \* the distance of the destination
          MaxTTL,      \* the TTL that setsockopt no longer takes
          IDS,         \* identifiers are counted modulo IDS
          MaxLoss      \* the most probes and answers that get lost

VARIABLES at, i, j, counter, traceMap,
  net,     \* the messages on their way or in the receive socket, in no order
  rows, isComplete, trouble, asked
vars == <<at, i, j, counter, traceMap, net, rows, isComplete, trouble, asked>>

Dest == HOPS           \* a router is named by its distance
Init ==
  /\ at = "ttl" /\ i = 1 /\ j = 0 /\ counter = 0 /\ traceMap = {} /\ net = {} 
  /\ rows = {} /\ isComplete = FALSE /\ trouble = [loss |-> 0, stray |-> 0, late |-> 0] /\ asked = {}
-----------------------------------------------------------------------------
\* The head of the loop over TTLs; a TTL that is refused ends the program.
Round ==
  /\ at = "ttl" /\ UNCHANGED <<i, j, counter, traceMap, net, rows, isComplete, trouble, asked>>
  /\ at' = IF isComplete THEN "returned" ELSE IF i >= MaxTTL THEN "fatal" ELSE "send"

\* One probe; a failing Sendto leaves its identifier in traceMap.
Send(ok) ==
  /\ at = "send" /\ counter' = (counter + 1) % IDS /\ traceMap' = traceMap \cup {counter}
  /\ LET answer == [id |-> counter, from |-> IF i < HOPS THEN i ELSE Dest]
     IN IF ok THEN net' = net \cup {answer} /\ asked' = asked \cup {answer} ELSE UNCHANGED <<net, asked>>
  /\ trouble.loss < MaxLoss \/ ok
  /\ trouble' = [trouble EXCEPT !.loss = IF ok THEN @ ELSE @ + 1]
  /\ j' = (j + 1) % 3 /\ at' = (IF j = 2 THEN "recv" ELSE "send") /\ UNCHANGED <<i, rows, isComplete>>

\* Mutant: the third message ends the trace whoever sent it.
CompleteAny(m) == j = 2
\* Mutant: four messages are expected.
CompleteFourth(m) == m.from = Dest /\ j = 3
Complete(m) == m.from = Dest /\ j = 2
\* Mutant: a message is taken for the answer to the probe at its position.
RowInOrder(m) == IF m.id = -1 THEN {} ELSE {[id |-> ((i - 1) * 3 + j) % IDS, from |-> m.from]}
Row(m) == IF m.id \in traceMap THEN {m} ELSE {}
Counted == /\ j' = (j + 1) % 3 /\ IF j = 2 THEN at' = "ttl" /\ i' = i + 1 ELSE UNCHANGED <<at, i>>
Recvfrom ==
  /\ at = "recv" /\ Counted
  /\ \E m \in net : net' = net \ {m} /\ isComplete' = (isComplete \/ Complete(m)) /\ rows' = rows \cup Row(m)
  /\ UNCHANGED <<counter, traceMap, trouble, asked>>
\* Ten seconds without a message; the receive counts all the same.
Timeout ==
  /\ at = "recv" /\ Counted /\ trouble' = [trouble EXCEPT !.late = 1]
  /\ UNCHANGED <<counter, traceMap, net, rows, isComplete, asked>>

\* The network.
Lose ==
  /\ \E m \in net : net' = net \ {m}
  /\ trouble.loss < MaxLoss /\ trouble' = [trouble EXCEPT !.loss = @ + 1]
  /\ UNCHANGED <<at, i, j, counter, traceMap, rows, isComplete, asked>>
Stray ==
  /\ trouble.stray = 0 /\ trouble' = [trouble EXCEPT !.stray = 1]
  /\ \E f \in {1, Dest} : net' = net \cup {[id |-> -1, from |-> f]}
  /\ UNCHANGED <<at, i, j, counter, traceMap, rows, isComplete, asked>>

Next == Round \/ Recvfrom \/ Timeout \/ Lose \/ Stray \/ \E ok \in BOOLEAN : Send(ok)
Spec == Init /\ [][Next]_vars
-----------------------------------------------------------------------------
\* The loop variables keep their ranges, and only known identifiers are out.
TypeOK ==
  /\ at \in {"ttl", "send", "recv", "returned", "fatal"} /\ i \in 1..MaxTTL /\ j \in 0..2 /\ counter \in 0..(IDS - 1)
  /\ \A m \in net : m.id \in traceMap \cup {-1}

\* Every row pairs an identifier with the host that answered that probe, with
\* answers late, reordered or lost, as long as identifiers do not come round.
RowsPaired == rows \subseteq asked

\* Trace returns only after something came from the destination; unless a
\* message that answers no probe did, its TTL was large enough to reach it.
ReturnMeansReached == at = "returned" => isComplete /\ (trouble.stray = 1 \/ i > HOPS)

\* When nothing was lost, late or foreign the trace ends with the first round
\* that reaches the destination.
EndsPromptly == trouble = [loss |-> 0, stray |-> 0, late |-> 0] => i <= HOPS + 1 /\ (i = HOPS + 1 => isComplete)
=============================================================================
