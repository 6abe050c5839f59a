----------------------------- MODULE MCPrograms -----------------------------
(***************************************************************************)
(* The programs of the repository with progress properties, for TLC.  They *)
(* share one run and have nothing to do with each other: prog says which   *)
(* program a behaviour is about, and the program keeps its variables in    *)
(* v1, v2, ...                                                             *)
(***************************************************************************)
EXTENDS Integers, SequencesExt, FiniteSetsExt, TLC

VARIABLES prog, v1, v2, v3, v4, v5, v6, v7, v8, v9, v10, v11
vars == <<prog, v1, v2, v3, v4, v5, v6, v7, v8, v9, v10, v11>>

-----------------------------------------------------------------------------
Rev == INSTANCE RevProxy WITH
  Clients <- {1, 2}, Names <- {"a"}, Sizes <- {2, 3}, BufSize <- 2, ChanCap <- 1, ErrCap <- 1,
  file <- v1, queue <- v2, errs <- v3, go <- v4, spoilt <- v5, up <- v6, size <- v7
\* In proxy.go a file nobody is writing holds the whole body of the origin.
FilesWhole == prog = "revproxy" => Rev!FilesWhole
\* In proxy.go every request that reaches its goroutine ends.
RequestsEnd == \A c \in {1, 2} :
  (prog = "revproxy" /\ v4[c].at = "open") ~> (prog = "revproxy" /\ v4[c].at \in {"done", "none"})

Fork == INSTANCE EchoFork WITH
  Conns <- {"c1", "c2", "c3"}, Lines <- 1, main <- v1, conn <- v2, refs <- v3, kid <- v4,
  pending <- v5, handling <- v6
\* No child of echoserverp.c stays a zombie without a signal to come.
ZombieSignalled == prog = "fork" => Fork!ZombieSignalled
\* The parent of echoserverp.c holds no connection while it waits in accept.
ParentHoldsOne == prog = "fork" => Fork!ParentHoldsOne
\* A client of echoserverp.c that has shut its side is served to the end.
ConnectionsEnd == \A c \in {"c1", "c2", "c3"} :
  (prog = "fork" /\ Fork!Served(c)) ~> (prog = "fork" /\ Fork!Over(c))

Cnt == INSTANCE Counters WITH
  Threads <- {"t1", "t2"}, Iters <- 3, ChanCap <- 2, kind <- v1, sh <- v2, th <- v3
\* The synchronised counters of counter_service.go give every number once.
NumbersExact == prog = "counters" => Cnt!NumbersExact
\* The unsynchronised counter loses updates, but never all of them, and gains
\* none.
LostUpdates == prog = "counters" => Cnt!LostUpdates

\* exercises 12 and 15
Pp == INSTANCE PipeProcs WITH
  Drills <- {"pingpong", "forkwait", "kill", "redirect", "pipeline"}, N <- 3, Cap <- 2, Msg <- 3,
  Limits <- {2, 4}, drill <- v1, proc <- v2, stream <- v3, limit <- v4
\* In exercise 12 one byte travels at a time and each exchange adds one to it.
PingPongExact == prog = "pipes" => Pp!PingPongExact
\* A drill of exercise 15 that returns true leaves no descriptor and no zombie
\* behind.
TrueMeansDone == prog = "pipes" => Pp!TrueMeansDone
\* Every drill of exercises 12 and 15 comes to its end.
DrillsEnd == (prog = "pipes") ~> (prog = "pipes" /\ v2["P"].st # "run")

\* the Tiny web server, with files that change and clients that hang up
TinyRequest(method, f, cgi, complete) == [method |-> method, file |-> f, cgi |-> cgi, complete |-> complete]
TinyRequests == {TinyRequest("GET", "page", FALSE, TRUE), TinyRequest("GET", "empty", FALSE, TRUE), TinyRequest("GET", "prog", TRUE, TRUE),
                 TinyRequest("GET", "page", FALSE, FALSE), TinyRequest("POST", "page", FALSE, TRUE), TinyRequest("GET", "dir", FALSE, TRUE)}
TinyFile(reg, user, size) == [reg |-> reg, user |-> user, size |-> size]
TinyFiles == [page |-> TinyFile(TRUE, TRUE, 2), empty |-> TinyFile(TRUE, TRUE, 0), prog |-> TinyFile(TRUE, TRUE, 3), dir |-> TinyFile(FALSE, TRUE, 1)]
Ty == INSTANCE Tiny WITH
  Conns <- {1, 2}, Requests <- TinyRequests,
  NoRequest <- [method |-> "none", file |-> "none", cgi |-> FALSE, complete |-> FALSE],
  Files0 <- TinyFiles, MaxEdits <- 1, srv <- v1, want <- v2, out <- v3, gone <- v4, open <- v5,
  file <- v6, edits <- v7, child <- v8
\* The body of a static answer has the announced length.
LengthTruth == prog = "tiny" => Ty!LengthTruth
\* Back at accept the server holds no connection and no child.
CleanAtAccept == prog = "tiny" => Ty!CleanAtAccept
\* What may end the server.
DiesOnlyOn == prog = "tiny" => Ty!DiesOnlyOn
\* The server comes back from every client that ends its headers.
ServesOn == \A c \in {1, 2} :
  (prog = "tiny" /\ v1.at = "request" /\ v1.c = c /\ (v2[c].method = "none" \/ v2[c].complete)) ~> (prog = "tiny" /\ v1.at \in {"accept", "dead"})

\* the driver of the data lab and its alarm
Puzzle(counts, wrong, loops, rating) == [counts |-> counts, wrong |-> wrong, loops |-> loops, rating |-> rating]
PuzzleSets == {<<Puzzle(<<>>, {}, {}, 1), Puzzle(<<2, 2>>, w, l, 2), Puzzle(<<2, 1, 2>>, {}, {}, 4)>> : w \in {{}, {<<2, 1>>}}, l \in {{}, {<<1, 2>>}, {<<2, 2>>}}}
              \cup {<<Puzzle(<<>>, {}, {<<>>}, 1), Puzzle(<<3>>, {<<3>>}, {}, 2)>>}
Bits == INSTANCE DataLab WITH
  W <- 8, EXP <- 4, FRAC <- 3, TestSets <- PuzzleSets, tests <- v1, only <- v2, timed <- v3,
  at <- v4, idx <- v5, a <- v6, env <- v7, alarm <- v8, errors <- v9, points <- v10,
  verdict <- v11
\* A puzzle is credited only for the right answer to every value tried.
CreditEarned == prog = "btest" => Bits!CreditEarned
\* The driver comes to an end, whatever the puzzles do.
TestsEnd == (prog = "btest" /\ v3 /\ v4 = "loop") ~> (prog = "btest" /\ v4 \in {"done", "undefined"})

-----------------------------------------------------------------------------
Init ==
  \/ prog = "revproxy" /\ Rev!Init /\ v8 = 0 /\ v9 = 0 /\ v10 = 0 /\ v11 = 0
  \/ prog = "fork" /\ Fork!Init /\ v7 = 0 /\ v8 = 0 /\ v9 = 0 /\ v10 = 0 /\ v11 = 0
  \/ prog = "counters" /\ Cnt!Init /\ v4 = 0 /\ v5 = 0 /\ v6 = 0 /\ v7 = 0 /\ v8 = 0 /\ v9 = 0 /\ v10 = 0 /\ v11 = 0
  \/ prog = "pipes" /\ Pp!Init /\ v5 = 0 /\ v6 = 0 /\ v7 = 0 /\ v8 = 0 /\ v9 = 0 /\ v10 = 0 /\ v11 = 0
  \/ prog = "tiny" /\ Ty!Init /\ v9 = 0 /\ v10 = 0 /\ v11 = 0
  \/ prog = "btest" /\ Bits!Init

Next ==
  \/ prog = "revproxy" /\ Rev!Next /\ UNCHANGED <<prog, v8, v9, v10, v11>>
  \/ prog = "fork" /\ Fork!Next /\ UNCHANGED <<prog, v7, v8, v9, v10, v11>>
  \/ prog = "counters" /\ Cnt!Next /\ UNCHANGED <<prog, v4, v5, v6, v7, v8, v9, v10, v11>>
  \/ prog = "pipes" /\ Pp!Next /\ UNCHANGED <<prog, v5, v6, v7, v8, v9, v10, v11>>
  \/ prog = "tiny" /\ Ty!Next /\ UNCHANGED <<prog, v9, v10, v11>>
  \/ prog = "btest" /\ Bits!Next /\ UNCHANGED prog

\* The fairness of each program, for its own behaviours
InRev(A) == prog = "revproxy" /\ A /\ UNCHANGED <<prog, v8, v9, v10, v11>>
InFork(A) == prog = "fork" /\ A /\ UNCHANGED <<prog, v7, v8, v9, v10, v11>>
InPp(A) == prog = "pipes" /\ A /\ UNCHANGED <<prog, v5, v6, v7, v8, v9, v10, v11>>
InTy(A) == prog = "tiny" /\ A /\ UNCHANGED <<prog, v9, v10, v11>>
InBits(A) == prog = "btest" /\ A /\ UNCHANGED prog
Fairness ==
  /\ WF_vars(InRev(Rev!Spawn)) /\ WF_vars(InRev(Rev!HandleError))
  /\ \A c \in {1, 2} : WF_vars(InRev(Rev!Goroutine(c))) /\ SF_vars(InRev(Rev!Report(c)))
  /\ \A c \in {"c1", "c2", "c3"} : WF_vars(InFork(Fork!ParentClose(c))) /\ WF_vars(InFork(Fork!EchoLine(c))) /\ WF_vars(InFork(Fork!ChildExit(c))) /\ WF_vars(InFork(Fork!Reap(c)))
  /\ WF_vars(InFork(Fork!Deliver)) /\ WF_vars(InFork(Fork!Return))
  /\ \A p \in {"P", "C1", "C2"} : WF_vars(InPp(Pp!Step(p)))
  /\ WF_vars(InTy(Ty!Step)) /\ WF_vars(InTy(Ty!Execve))
  /\ WF_vars(InBits(Bits!Step)) /\ WF_vars(InBits(Bits!timeout_handler))

Spec == Init /\ [][Next]_vars /\ Fairness


=============================================================================
