------------------------------ MODULE EchoFork ------------------------------
(***************************************************************************)
(* The process-per-client echo server (echoserverp.c with echo.c): the     *)
(* parent accepts, forks and closes its copy of the descriptor, the child  *)
(* echoes until the end of the file, and a SIGCHLD handler reaps.  SIGCHLD *)
(* is not queued: exits that come while it is pending or blocked merge.    *)
(***************************************************************************)
EXTENDS Naturals, FiniteSets

CONSTANTS Conns, Lines   \* Lines: how many lines a client sends

VARIABLES
  main,          \* the parent: "accept", the connection it forked for, "dead"
  conn,          \* per connection: lines sent, read, echoed; closed by client
  refs,          \* who holds a descriptor of the connection
  kid,           \* the child of a connection
  pending, handling

vars == <<main, conn, refs, kid, pending, handling>>

Init ==
  /\ main = "accept"
  /\ conn = [c \in Conns |-> [sent |-> 0, echoed |-> 0, eof |-> FALSE]]
  /\ refs = [c \in Conns |-> {}]
  /\ kid = [c \in Conns |-> "none"]
  /\ pending = FALSE /\ handling = FALSE

ClientSend(c) ==
  /\ conn[c].sent < Lines /\ ~conn[c].eof
  /\ conn' = [conn EXCEPT ![c].sent = @ + 1]
  /\ UNCHANGED <<main, refs, kid, pending, handling>>

ClientShut(c) ==
  /\ ~conn[c].eof
  /\ conn' = [conn EXCEPT ![c].eof = TRUE]
  /\ UNCHANGED <<main, refs, kid, pending, handling>>

\* Accept and Fork: both processes hold the connection.
AcceptFork(c) ==
  /\ main = "accept" /\ ~handling /\ kid[c] = "none"
  /\ main' = c
  /\ refs' = [refs EXCEPT ![c] = {"parent", "child"}]
  /\ kid' = [kid EXCEPT ![c] = "echo"]
  /\ UNCHANGED <<conn, pending, handling>>

\* Fork fails: unix_error ends the parent, whose descriptors close with it.
ForkFails ==
  /\ main = "accept" /\ ~handling
  /\ main' = "dead"
  /\ UNCHANGED <<conn, refs, kid, pending, handling>>

\* Mutant: the parent keeps its copy.
ParentKeeps(c) ==
  /\ main = c /\ ~handling
  /\ main' = "accept"
  /\ UNCHANGED <<conn, refs, kid, pending, handling>>

ParentClose(c) ==
  /\ main = c /\ ~handling
  /\ refs' = [refs EXCEPT ![c] = @ \ {"parent"}]
  /\ main' = "accept"
  /\ UNCHANGED <<conn, kid, pending, handling>>

\* echo: a line is read and written back
EchoLine(c) ==
  /\ kid[c] = "echo" /\ conn[c].echoed < conn[c].sent
  /\ conn' = [conn EXCEPT ![c].echoed = @ + 1]
  /\ UNCHANGED <<main, refs, kid, pending, handling>>

\* The end of the file: Close and exit, which sends the parent SIGCHLD.
ChildExit(c) ==
  /\ kid[c] = "echo" /\ conn[c].eof /\ conn[c].echoed = conn[c].sent
  /\ kid' = [kid EXCEPT ![c] = "zombie"]
  /\ refs' = [refs EXCEPT ![c] = @ \ {"child"}]
  /\ pending' = TRUE
  /\ UNCHANGED <<main, conn, handling>>
-----------------------------------------------------------------------------
Zombies == {c \in Conns : kid[c] = "zombie"}

\* sigchld_handler starts with SIGCHLD blocked, reaps while waitpid finds
\* a zombie, and returns when there is none.
Deliver ==
  /\ main # "dead" /\ pending /\ ~handling
  /\ pending' = FALSE /\ handling' = TRUE
  /\ UNCHANGED <<main, conn, refs, kid>>

Reap(c) ==
  /\ handling /\ c \in Zombies
  /\ kid' = [kid EXCEPT ![c] = "reaped"]
  /\ UNCHANGED <<main, conn, refs, pending, handling>>

\* Mutant: the handler reaps one child per signal.
ReturnAny ==
  /\ handling /\ handling' = FALSE
  /\ UNCHANGED <<main, conn, refs, kid, pending>>

Return ==
  /\ handling /\ Zombies = {}
  /\ handling' = FALSE
  /\ UNCHANGED <<main, conn, refs, kid, pending>>

Next ==
  \/ \E c \in Conns : \/ ClientSend(c) \/ ClientShut(c) \/ AcceptFork(c) \/ ParentClose(c)
                      \/ EchoLine(c) \/ ChildExit(c) \/ Reap(c)
  \/ ForkFails \/ Deliver \/ Return

Spec == Init /\ [][Next]_vars

\* The kernel runs every process and delivers pending signals; the loop of
\* the handler makes progress while there is something to reap.
Fairness ==
  /\ \A c \in Conns : /\ WF_vars(ParentClose(c)) /\ WF_vars(EchoLine(c)) /\ WF_vars(ChildExit(c))
                      /\ WF_vars(Reap(c))
  /\ WF_vars(Deliver) /\ WF_vars(Return)
-----------------------------------------------------------------------------
TypeOK ==
  /\ main \in Conns \cup {"accept", "dead"}
  /\ \A c \in Conns : conn[c].echoed <= conn[c].sent /\ conn[c].sent <= Lines
  /\ refs \in [Conns -> SUBSET {"parent", "child"}]
  /\ kid \in [Conns -> {"none", "echo", "zombie", "reaped"}]
  /\ pending \in BOOLEAN /\ handling \in BOOLEAN

\* Merged signals lose no child: while a zombie is left, SIGCHLD is pending
\* or the handler has not yet seen waitpid find nothing.
ZombieSignalled == Zombies # {} => pending \/ handling

\* When the parent waits in Accept it holds no connection, so that the end
\* of a child is the end of its connection.
ParentHoldsOne == \A c \in Conns : "parent" \in refs[c] => main = c

\* A client that has shut its side sees all its lines back, its connection
\* closed and its process reaped, unless the parent died.
Over(c) == main = "dead" \/ (kid[c] = "reaped" /\ refs[c] = {} /\ conn[c].echoed = conn[c].sent)
Served(c) == kid[c] = "echo" /\ conn[c].eof
ConnectionsEnd == \A c \in Conns : Served(c) ~> Over(c)
=============================================================================
