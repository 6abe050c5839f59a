----------------------------- MODULE EchoServer -----------------------------
(***************************************************************************)
(* The prethreaded echo server (echoservert_pre.c, echo_cnt.c in csi/      *)
(* 03-languages-and-compilers/04-threads-and-shared-memory/csapp): main    *)
(* accepts connections and puts their descriptors into the bounded buffer; *)
(* worker threads take them, echo lines and count bytes, and close them.   *)
(* The kernel reuses a descriptor as soon as it is closed.                 *)
(***************************************************************************)
EXTENDS Sbuf, FiniteSetsExt

CONSTANTS
  Main,        \* the main thread; the others are workers
  MaxLine,     \* longest line a client sends
  MaxConns,    \* connections accepted in the model
  MaxBytes     \* bytes sent by all clients in the model

Workers == Threads \ {Main}
\* Clients are numbered in the order in which they are accepted.
Clients == 1..MaxConns
NoClient == 0

ASSUME ServerAssumption ==
  /\ Main \in Threads
  /\ Items \subseteq Nat
  /\ MaxConns \in Nat /\ MaxLine \in Nat /\ MaxBytes \in Nat

VARIABLES
  pc,        \* where each worker is in thread and echo_cnt
  fd,        \* connfd of each worker
  conn,      \* the kernel's descriptor table
  line,      \* the line a worker has read
  sum,       \* byte_cnt + n, computed and not stored yet
  once,      \* state of Pthread_once
  cmutex,    \* echo_cnt's semaphore
  byte_cnt,
  total,     \* history: bytes received since the server started
  exited     \* why the process has ended

workerVars == <<pc, fd, line, sum>>
countVars == <<once, cmutex, byte_cnt>>
vars == <<sbufVars, workerVars, countVars, conn, total, exited>>

NoLine == [from |-> NoClient, n |-> 0]
\* Locations of a worker that holds a line byte_cnt does not contain yet.
Uncounted == {"cnt_P", "cnt_load", "cnt_store"}

TypeOK ==
  /\ SbufTypeOK
  /\ pc \in [Workers -> {"loop", "once", "init", "read", "cnt_V", "write"} \cup Uncounted]
  /\ fd \in [Workers -> Items \cup {NoItem}]
  /\ conn \in [Items -> Clients \cup {NoClient}]
  /\ line \in [Workers -> [from : Clients \cup {NoClient}, n : 0..MaxLine]]
  /\ sum \in [Workers -> 0..MaxBytes]
  /\ once \in {"never", "running", "done"}
  /\ cmutex \in {0, 1}
  /\ byte_cnt \in 0..MaxBytes
  /\ total \in 0..MaxBytes
  /\ exited \in {"no", "accept", "read_or_write"}

Init ==
  /\ SbufInit
  /\ pc = [w \in Workers |-> "loop"]
  /\ fd = [w \in Workers |-> NoItem]
  /\ conn = [f \in Items |-> NoClient]
  /\ line = [w \in Workers |-> NoLine]
  /\ sum = [w \in Workers |-> 0]
  /\ once = "never"
  /\ cmutex = 0
  /\ byte_cnt = 0
  /\ total = 0
  /\ exited = "no"

\* unix_error: the process ends, its threads with it, and the kernel closes
\* its descriptors.
Exit(reason) ==
  /\ exited' = reason
  /\ pc' = [w \in Workers |-> "loop"]
  /\ fd' = [w \in Workers |-> NoItem]
  /\ conn' = [f \in Items |-> NoClient]
  /\ line' = [w \in Workers |-> NoLine]
  /\ sum' = [w \in Workers |-> 0]
  /\ once' = "never" /\ cmutex' = 0 /\ byte_cnt' = 0 /\ total' = 0
  /\ UNCHANGED sbufVars
-----------------------------------------------------------------------------
(* main                                                                    *)

FreeFds == {f \in Items : conn[f] = NoClient}

\* Accept returns the lowest free descriptor, or fails and ends the process.
Accept ==
  /\ at[Main] = "out"
  /\ rear < MaxConns
  /\ IF FreeFds = {}
       THEN Exit("accept")
       ELSE /\ conn' = [conn EXCEPT ![Min(FreeFds)] = rear + 1]
            /\ Insert(Main, Min(FreeFds))
            /\ UNCHANGED <<workerVars, countVars, total, exited>>

Inserting == InsertStep(Main) /\ UNCHANGED <<workerVars, countVars, conn, total, exited>>
-----------------------------------------------------------------------------
(* thread                                                                  *)

Go(w, from, to) == pc[w] = from /\ pc' = [pc EXCEPT ![w] = to]

Removing(w) ==
  /\ \/ pc[w] = "loop" /\ Remove(w)
     \/ RemPItems(w) \/ RemPMutex(w) \/ RemLoad(w) \/ RemStore(w) \/ RemVMutex(w)
  /\ UNCHANGED <<workerVars, countVars, conn, total, exited>>

\* sbuf_remove returns a descriptor to serve.
TakeConn(w) ==
  /\ Go(w, "loop", "once")
  /\ RemVSlots(w)
  /\ fd' = [fd EXCEPT ![w] = item[w]]
  /\ UNCHANGED <<line, sum, countVars, conn, total, exited>>

\* End of file: echo_cnt returns and the connection is closed.
Close(w) ==
  /\ Go(w, "read", "loop")
  /\ conn' = [conn EXCEPT ![fd[w]] = NoClient]
  /\ fd' = [fd EXCEPT ![w] = NoItem]
  /\ UNCHANGED <<sbufVars, line, sum, countVars, total, exited>>
-----------------------------------------------------------------------------
(* echo_cnt                                                                *)

\* Pthread_once: the first thread runs init_echo_cnt, the others wait.
Once(w) ==
  /\ \/ once = "never" /\ once' = "running" /\ Go(w, "once", "init")
     \/ once = "done" /\ once' = "done" /\ Go(w, "once", "read")
  /\ UNCHANGED <<sbufVars, fd, line, sum, cmutex, byte_cnt, conn, total, exited>>

InitEchoCnt(w) ==
  /\ Go(w, "init", "read")
  /\ once' = "done"
  /\ cmutex' = 1
  /\ byte_cnt' = 0
  /\ UNCHANGED <<sbufVars, fd, line, sum, conn, total, exited>>

\* Rio_readlineb returns a line of the client behind the descriptor.
ReadLine(w, n) ==
  /\ Go(w, "read", "cnt_P")
  /\ total + n <= MaxBytes
  /\ line' = [line EXCEPT ![w] = [from |-> conn[fd[w]], n |-> n]]
  /\ total' = total + n
  /\ UNCHANGED <<sbufVars, fd, sum, countVars, conn, exited>>

CntPNever(w) ==
  /\ Go(w, "cnt_P", "cnt_load")
  /\ UNCHANGED <<sbufVars, fd, line, sum, countVars, conn, total, exited>>
CntP(w) ==
  /\ Go(w, "cnt_P", "cnt_load")
  /\ P(cmutex)
  /\ UNCHANGED <<sbufVars, fd, line, sum, once, byte_cnt, conn, total, exited>>

\* byte_cnt += n
CntLoad(w) ==
  /\ Go(w, "cnt_load", "cnt_store")
  /\ sum' = [sum EXCEPT ![w] = byte_cnt + line[w].n]
  /\ UNCHANGED <<sbufVars, fd, line, countVars, conn, total, exited>>
CntStore(w) ==
  /\ Go(w, "cnt_store", "cnt_V")
  /\ byte_cnt' = sum[w]
  /\ sum' = [sum EXCEPT ![w] = 0]
  /\ UNCHANGED <<sbufVars, fd, line, once, cmutex, conn, total, exited>>

CntV(w) ==
  /\ Go(w, "cnt_V", "write")
  /\ V(cmutex)
  /\ UNCHANGED <<sbufVars, fd, line, sum, once, byte_cnt, conn, total, exited>>

\* The line goes back to the client behind the descriptor.
WriteLine(w) ==
  /\ Go(w, "write", "read")
  /\ line' = [line EXCEPT ![w] = NoLine]
  /\ UNCHANGED <<sbufVars, fd, sum, countVars, conn, total, exited>>

\* A connection that fails: unix_error or SIGPIPE ends the process.
Fail(w) ==
  /\ pc[w] \in {"read", "write"}
  /\ Exit("read_or_write")
-----------------------------------------------------------------------------
\* What a worker does without waiting for its client.
Compute(w) ==
  \/ Removing(w) \/ TakeConn(w)
  \/ Once(w) \/ InitEchoCnt(w)
  \/ CntP(w) \/ CntLoad(w) \/ CntStore(w) \/ CntV(w)

Serve(w) ==
  \/ \E n \in 1..MaxLine : ReadLine(w, n)
  \/ WriteLine(w)
  \/ Close(w)
  \/ Fail(w)

Next ==
  /\ exited = "no"
  /\ \/ Accept
     \/ Inserting
     \/ \E w \in Workers : Compute(w) \/ Serve(w)

Spec == Init /\ [][Next]_vars

\* Threads that wait for no client run on; clients promise nothing.
FairSpec ==
  /\ Spec
  /\ WF_vars(exited = "no" /\ Inserting)
  /\ \A w \in Workers : WF_vars(exited = "no" /\ Compute(w))
-----------------------------------------------------------------------------
(* Properties.                                                             *)

\* Who holds descriptor f: main on its way into the buffer, a cell of the
\* ring, a worker on its way out of it or serving.
Holders(f) ==
  {<<"main", 0>> : t \in {u \in {Main} : item[u] = f}}
    \cup {<<"ring", k>> : k \in {i \in 1..(rear - front) : Waiting[i] = f}}
    \cup {<<"worker", w>> : w \in {u \in Workers : item[u] = f \/ fd[u] = f}}

\* Every open connection is held in exactly one place, from Accept to Close,
\* although descriptors are reused: none is served twice, none is forgotten.
OneHolder ==
  exited = "no" => \A f \in Items :
    IF conn[f] = NoClient THEN Holders(f) = {} ELSE Cardinality(Holders(f)) = 1

\* A line goes back to the client that sent it.
EchoesToSender ==
  \A w \in Workers :
    pc[w] \in Uncounted \cup {"cnt_V", "write"} => conn[fd[w]] = line[w].from

\* byte_cnt loses no update and is not reset while the server runs: it is
\* what was received, less the lines that are still to be counted.
CountExact ==
  once = "done" =>
    byte_cnt + MapThenSumSet(LAMBDA w : line[w].n, {w \in Workers : pc[w] \in Uncounted}) = total

\* A buffer of N cells and the workers bound the open connections, so the
\* server does not run out of a table of N + workers + 1 descriptors.
DescriptorsSuffice ==
  Cardinality(Items) > N + Cardinality(Workers) => exited # "accept"

Serving(c) == \E w \in Workers : fd[w] # NoItem /\ conn[fd[w]] = c
Connected(c) == \E f \in Items : conn[f] = c

\* No wakeup is lost: a client does not wait for ever beside a worker that
\* has nothing to do, however long other clients keep the other workers.
NoIdleWorker ==
  []<>~(/\ exited = "no"
        /\ \E c \in Clients : Connected(c) /\ ~Serving(c)
        /\ \E w \in Workers : fd[w] = NoItem)
=============================================================================
