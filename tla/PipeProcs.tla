----------------------------- MODULE PipeProcs ------------------------------
(***************************************************************************)
(* The processes of exercises 12 and 15: a ping-pong over two pipes, and   *)
(* the drills on fork and wait, on kill, on the redirection of stdout and  *)
(* on a two-child pipeline.  What a process does is the list of its system *)
(* calls, in the order of the code; one action per call says what the      *)
(* kernel does.  A descriptor stands for an end of a byte stream.  fork,   *)
(* pipe, open, dup, dup2 and exec may fail where the code tests for it,    *)
(* and a child may be killed at any moment.                                *)
(***************************************************************************)
EXTENDS Integers, Sequences, FiniteSets

CONSTANTS Drills,     \* the drills: the ones that are run
          N,          \* exchanges of the ping-pong
          Cap,        \* bytes a pipe holds
          Msg,        \* bytes the producer of the pipeline writes
          Limits      \* possible values of max_output - 1

VARIABLES drill,      \* the drill that is run
          proc,       \* the processes
          stream,     \* the bytes in the pipes, in the file and on the terminal
          limit       \* max_output - 1
vars == <<drill, proc, stream, limit>>

Procs == {"P", "C1", "C2"}
Streams == {"a", "b", "file", "tty"}
Fds == {"a0", "a1", "b0", "b1", "in", "out", "fd", "saved"}
Closed == <<"none", "none">>

R(x) == IF x = "a" THEN "a0" ELSE "b0"
W(x) == IF x = "a" THEN "a1" ELSE "b1"
Op(op, x, y, fail) == [op |-> op, x |-> x, y |-> y, fail |-> fail]
Do(op, x, y) == Op(op, x, y, 0)
Close(x) == Do("close", x, "")
Pipe(x, fail) == Op("pipe", x, "", fail)
Fork(x, fail) == Op("fork", x, "", fail)
-----------------------------------------------------------------------------
\* Mutant: the parent keeps its own write end of the second pipe.
PingParentOpen ==
  <<Pipe("a", 0), Pipe("b", 0), Fork("C1", 0), Close("a0"), Op("write", "a1", "", 8), Op("read", "b0", "", 8),
    Do("loop", 5, ""), Close("a1"), Close("b0"), Do("wait", "C1", ""), Do("return", "check", "")>>
\* main and run_parent of exercise 12
PingParent ==
  <<Pipe("a", 0), Pipe("b", 0), Fork("C1", 0), Close("a0"), Close("b1"), Op("write", "a1", "", 9), Op("read", "b0", "", 9),
    Do("loop", 6, ""), Close("a1"), Close("b0"), Do("wait", "C1", ""), Do("return", "check", "")>>
\* Mutant: the child sends back what it got.
PingChildPlain ==
  <<Close("a1"), Close("b0"), Op("read", "a0", "", 6), Op("write", "b1", "", 6), Do("loop", 3, ""),
    Close("a0"), Close("b1"), Do("exit", 0, "")>>
\* run_child
PingChild ==
  <<Close("a1"), Close("b0"), Op("read", "a0", "", 7), Do("inc", "", ""), Op("write", "b1", "", 7), Do("loop", 3, ""),
    Close("a0"), Close("b1"), Do("exit", 0, "")>>

\* The drills of exercise 15
ForkAndWait == <<Fork("C1", 4), Do("wait", "C1", ""), Do("return", "check", ""), Do("return", "false", "")>>
ForkedChild == <<Do("exit", 42, "")>>
SignalKill == <<Fork("C1", 5), Do("kill", "C1", ""), Do("wait", "C1", ""), Do("return", "check", ""), Do("return", "false", "")>>
Sleeper == <<Do("sleep", "", "")>>
FdRedirection ==
  <<Op("open", "fd", "file", 13), Op("dup", "out", "saved", 12), Op("dup2", "fd", "out", 9), Close("fd"),
    Do("puts", "out", ""), Do("dup2", "saved", "out"), Close("saved"), Do("return", "check", ""),
    Close("fd"), Close("saved"), Do("return", "false", ""), Close("fd"), Do("return", "false", "")>>
\* Mutant: the parent leaves the read end of the capture pipe open.
PipelineOpen ==
  <<Pipe("a", 14), Pipe("b", 12), Fork("C1", 14), Fork("C2", 14), Close("a0"), Close("a1"), Close("b1"),
    Do("drain", "b0", ""), Do("wait", "C1", ""), Do("wait", "C2", ""), Do("return", "check", ""),
    Close("a0"), Close("a1"), Do("return", "false", "")>>
\* test_pipeline_execution
PipelineExecution ==
  <<Pipe("a", 15), Pipe("b", 13), Fork("C1", 15), Fork("C2", 15), Close("a0"), Close("a1"), Close("b1"),
    Do("drain", "b0", ""), Close("b0"), Do("wait", "C1", ""), Do("wait", "C2", ""), Do("return", "check", ""),
    Close("a0"), Close("a1"), Do("return", "false", "")>>
Producer ==
  <<Close("a0"), Close("b0"), Close("b1"), Do("dup2", "a1", "out"), Close("a1"), Op("exec", "", "", 8),
    Do("echo", "out", ""), Do("exit", 1, "")>>
Consumer ==
  <<Close("a1"), Close("b0"), Do("dup2", "a0", "in"), Close("a0"), Do("dup2", "b1", "out"), Close("b1"), Op("exec", "", "", 9),
    Do("tr", "in", "out"), Do("exit", 1, "")>>

Code(p) ==
  CASE drill = "pingpong" -> IF p = "P" THEN PingParent ELSE PingChild
    [] drill = "forkwait" -> IF p = "P" THEN ForkAndWait ELSE ForkedChild
    [] drill = "kill" -> IF p = "P" THEN SignalKill ELSE Sleeper
    [] drill = "redirect" -> FdRedirection
    [] drill = "pipeline" -> IF p = "P" THEN PipelineExecution ELSE IF p = "C1" THEN Producer ELSE Consumer
Children ==
  CASE drill = "redirect" -> {} [] drill = "pipeline" -> {"C1", "C2"} [] OTHER -> {"C1"}

NoProc == [st |-> "none", pc |-> 1, fd |-> [f \in Fds |-> Closed], b |-> 66, i |-> 0, buf |-> <<>>, exit |-> <<"none", 0>>]
Init ==
  /\ drill \in Drills /\ limit \in Limits
  /\ proc = [p \in Procs |-> IF p = "P" THEN [NoProc EXCEPT !.st = "run", !.fd["out"] = <<"tty", "w">>] ELSE NoProc]
  /\ stream = [s \in Streams |-> <<>>]
-----------------------------------------------------------------------------
Alive == {p \in Procs : proc[p].st = "run"}
Ends(p) == {proc[p].fd[f] : f \in Fds} \ {Closed}
HasEnd(e) == \E p \in Alive : e \in Ends(p)
Now(p) == Code(p)[proc[p].pc]
At(p, op) == proc[p].st = "run" /\ Now(p).op = op
Next1(r) == [r EXCEPT !.pc = @ + 1]
Goto(r, pc) == [r EXCEPT !.pc = pc]
Become(p, r) == proc' = [proc EXCEPT ![p] = r]
Quiet == UNCHANGED <<drill, stream, limit>>
Dead(r, why) == [r EXCEPT !.st = "zombie", !.exit = why, !.fd = [f \in Fds |-> Closed]]

Fails(p) == proc[p].st = "run" /\ Now(p).fail # 0 /\ Now(p).op \in {"pipe", "fork", "open", "dup", "dup2", "exec"}
            /\ Become(p, Goto(proc[p], Now(p).fail)) /\ Quiet
Trivial(p) == /\ \/ At(p, "exec") /\ Become(p, Next1(proc[p]))
                 \/ At(p, "inc") /\ Become(p, Next1([proc[p] EXCEPT !.b = (@ + 1) % 256]))
                 \/ At(p, "loop") /\ Become(p, IF proc[p].i + 1 < N THEN Goto([proc[p] EXCEPT !.i = @ + 1], Now(p).x)
                                               ELSE Next1([proc[p] EXCEPT !.i = @ + 1]))
              /\ Quiet
Descriptors(p) ==
  /\ \/ /\ At(p, "close") /\ Become(p, Next1([proc[p] EXCEPT !.fd[Now(p).x] = Closed]))
     \/ /\ At(p, "pipe")
        /\ Become(p, Next1([proc[p] EXCEPT !.fd[R(Now(p).x)] = <<Now(p).x, "r">>, !.fd[W(Now(p).x)] = <<Now(p).x, "w">>]))
     \/ /\ At(p, "open") /\ Become(p, Next1([proc[p] EXCEPT !.fd[Now(p).x] = <<Now(p).y, "w">>]))
     \/ /\ proc[p].st = "run" /\ Now(p).op \in {"dup", "dup2"}
        /\ Become(p, Next1([proc[p] EXCEPT !.fd[Now(p).y] = proc[p].fd[Now(p).x]]))
  /\ Quiet
ForkChild(p) ==
  /\ At(p, "fork")
  /\ proc' = [proc EXCEPT ![p] = Next1(@), ![Now(p).x] = [proc[p] EXCEPT !.pc = 1]]
  /\ Quiet

\* write of one byte: it blocks while the pipe is full, and kills the writer
\* when nobody can read
Put(p, f, byte, r) ==
  LET e == proc[p].fd[f]
  IN IF ~HasEnd(<<e[1], "r">>) THEN Become(p, Dead(proc[p], <<"signal", 13>>)) /\ UNCHANGED stream
     ELSE /\ Len(stream[e[1]]) < Cap
          /\ stream' = [stream EXCEPT ![e[1]] = Append(@, byte)] /\ Become(p, r)
Write(p) == At(p, "write") /\ Put(p, Now(p).x, proc[p].b, Next1(proc[p])) /\ UNCHANGED <<drill, limit>>

Available(p, f) == stream[proc[p].fd[f][1]]
Eof(p, f) == Available(p, f) = <<>> /\ ~HasEnd(<<proc[p].fd[f][1], "w">>)
Take(p, f, k) == stream' = [stream EXCEPT ![proc[p].fd[f][1]] = SubSeq(@, k + 1, Len(@))]
Read(p) ==
  /\ At(p, "read")
  /\ \/ Available(p, Now(p).x) # <<>> /\ Take(p, Now(p).x, 1) /\ Become(p, Next1([proc[p] EXCEPT !.b = Head(Available(p, Now(p).x))]))
     \/ Eof(p, Now(p).x) /\ Become(p, Goto(proc[p], Now(p).fail)) /\ UNCHANGED stream
  /\ UNCHANGED <<drill, limit>>
\* The loop of reads of the parent; a read of no bytes returns 0 like the end.
Drain(p) ==
  /\ At(p, "drain")
  /\ LET room == limit - Len(proc[p].buf)  avail == Available(p, "b0")
     IN \/ \E k \in 1..room : /\ k <= Len(avail) /\ Take(p, "b0", k)
                              /\ Become(p, [proc[p] EXCEPT !.buf = @ \o SubSeq(avail, 1, k)])
        \/ (room = 0 \/ Eof(p, "b0")) /\ Become(p, Next1(proc[p])) /\ UNCHANGED stream
  /\ UNCHANGED <<drill, limit>>
\* write of the payload, perhaps only in part
Puts(p) ==
  /\ At(p, "puts")
  /\ \E k \in 0..Msg : /\ stream' = [stream EXCEPT ![proc[p].fd["out"][1]] = @ \o [j \in 1..k |-> j]]
                       /\ Become(p, Next1([proc[p] EXCEPT !.i = k]))
  /\ UNCHANGED <<drill, limit>>

\* The programs of the pipeline: echo writes 1, 2, ...; tr adds 100 to each.
Echo(p) ==
  /\ At(p, "echo")
  /\ IF proc[p].i = Msg THEN Become(p, Dead(proc[p], <<"exit", 0>>)) /\ UNCHANGED stream
     ELSE Put(p, "out", proc[p].i + 1, [proc[p] EXCEPT !.i = @ + 1])
  /\ UNCHANGED <<drill, limit>>
Tr(p) ==
  /\ At(p, "tr")
  /\ IF proc[p].buf # <<>> THEN Put(p, "out", Head(proc[p].buf) + 100, [proc[p] EXCEPT !.buf = Tail(@)])
     ELSE IF Eof(p, "in") THEN Become(p, Dead(proc[p], <<"exit", 0>>)) /\ UNCHANGED stream
     ELSE \E k \in 1..Len(Available(p, "in")) :
            Take(p, "in", k) /\ Become(p, [proc[p] EXCEPT !.buf = SubSeq(Available(p, "in"), 1, k)])
  /\ UNCHANGED <<drill, limit>>

Exit(p) == At(p, "exit") /\ Become(p, Dead(proc[p], <<"exit", Now(p).x>>)) /\ Quiet
Wait(p) ==
  /\ At(p, "wait") /\ proc[Now(p).x].st = "zombie"
  /\ proc' = [proc EXCEPT ![p] = Next1(@), ![Now(p).x].st = "reaped"] /\ Quiet
KillChild(p) ==
  /\ At(p, "kill")
  /\ proc' = [proc EXCEPT ![p] = Next1(@),
                          ![Now(p).x] = IF @.st = "run" THEN Dead(@, <<"signal", 15>>) ELSE @] /\ Quiet
\* What the drill tests before it returns true
Check ==
  CASE drill = "pingpong" -> proc["C1"].exit[1] = "exit"
    [] drill = "forkwait" -> proc["C1"].exit = <<"exit", 42>>
    [] drill = "kill" -> proc["C1"].exit = <<"signal", 15>>
    [] drill = "redirect" -> proc["P"].i = Msg /\ stream["file"] = [j \in 1..Msg |-> j]
    [] drill = "pipeline" -> proc["C1"].exit = <<"exit", 0>> /\ proc["C2"].exit = <<"exit", 0>>
Return(p) ==
  /\ At(p, "return") /\ Quiet
  /\ \E ok \in {Now(p).x = "check" /\ Check} \cup (IF drill = "redirect" THEN {FALSE} ELSE {}) :
       Become(p, [proc[p] EXCEPT !.st = IF ok THEN "true" ELSE "false"])

Step(p) ==
  \/ Fails(p) \/ Trivial(p) \/ Descriptors(p) \/ ForkChild(p) \/ Write(p) \/ Read(p) \/ Drain(p) \/ Puts(p)
  \/ Echo(p) \/ Tr(p) \/ Exit(p) \/ Wait(p) \/ KillChild(p) \/ Return(p)
\* A signal from outside ends a child
Crash(p) == p # "P" /\ proc[p].st = "run" /\ Become(p, Dead(proc[p], <<"signal", 9>>)) /\ Quiet

Next == \E p \in Procs : Step(p) \/ Crash(p)
Spec == Init /\ [][Next]_vars /\ \A p \in Procs : WF_vars(Step(p))
-----------------------------------------------------------------------------
\* The processes, descriptors and streams keep their types; no pipe is
\* overfull.
TypeOK ==
  /\ drill \in Drills /\ limit \in Limits
  /\ \A p \in Procs : /\ proc[p].st \in {"none", "run", "zombie", "reaped", "true", "false"}
                      /\ Ends(p) \subseteq (Streams \X {"r", "w"})
                      /\ Len(proc[p].buf) <= Msg + limit
  /\ \A s \in Streams : Len(stream[s]) <= IF s \in {"a", "b"} THEN Cap ELSE Msg

\* In the ping-pong one byte travels at a time, and each exchange adds one to
\* it: before the parent's k-th write its byte is 0x42 + k - 1.
PingPongExact ==
  drill = "pingpong" =>
    /\ Len(stream["a"]) + Len(stream["b"]) <= 1
    /\ At("P", "write") => proc["P"].b = (66 + proc["P"].i) % 256
    /\ proc["P"].st = "true" /\ proc["C1"].exit = <<"exit", 0>> => proc["P"].i = N /\ proc["P"].b = (66 + N) % 256

\* A drill that returns true has closed its pipes, put stdout back, reaped its
\* children and, in the pipeline, read what the producer wrote as the consumer
\* translated it; without a failed fork also one that returns false.
TrueMeansDone ==
  LET clean == /\ Ends("P") = {<<"tty", "w">>}
               /\ \A p \in Procs \ {"P"} : proc[p].st \in {"none", "reaped"}
  IN /\ proc["P"].st = "true" =>
          /\ clean
          /\ drill = "pipeline" /\ limit >= Msg => proc["P"].buf = [j \in 1..Msg |-> j + 100]
     /\ proc["P"].st = "false" /\ (\A p \in Children : proc[p].st # "none") => clean

\* Every drill comes to its end, whatever fails and whichever child is killed
\* on the way: the parent returns or dies of SIGPIPE.
DrillsEnd == <>(proc["P"].st # "run")
=============================================================================
