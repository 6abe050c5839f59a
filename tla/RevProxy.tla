------------------------------ MODULE RevProxy ------------------------------
(***************************************************************************)
(* The HTTP reverse proxy                                                  *)
(* (csi/02-computer-networks/03-http-reverse-proxy/proxy/proxy.go): a      *)
(* goroutine that accepts, one that starts a goroutine for every client,   *)
(* one that drains the errors, and a cache of files, one for the last part *)
(* of a path, that outlives the process.  Sizes are in units; the buffers  *)
(* of the code (4096 bytes) hold BufSize units.                            *)
(***************************************************************************)
EXTENDS Integers, Sequences, FiniteSets, SequencesExt, FiniteSetsExt

CONSTANTS
  Clients,
  Names,         \* the last parts of the paths below /proxy
  Sizes,         \* lengths of the bodies that the origin may have
  BufSize,
  ChanCap,       \* capacity of clientSocketChannel, 3 in the code
  ErrCap         \* capacity of errorChannel, 30 in the code

VARIABLES
  file,          \* the files of the cache
  queue,         \* clientSocketChannel
  errs,          \* errors in errorChannel
  go,            \* what the goroutine of each client does
  spoilt,        \* names whose file was written by two, read while written,
                 \* or cut short by a crash or by the origin
  up,
  size           \* the length of the body that the origin has for each name

vars == <<file, queue, errs, go, spoilt, up, size>>

Absent == <<<<"absent", 0>>>>
Body(n) == [i \in 1..size[n] |-> <<n, i>>]

\* buf: what serverBuffer or serverData holds; size: cacheSize; off: file offset
Fresh == [at |-> "none", name |-> "none", buf |-> <<>>, size |-> 0, off |-> 0]

Stages == {"none", "queued", "recv", "open", "read", "fetch", "create", "append", "error", "done"}

TypeOK ==
  /\ \A n \in Names : file[n] = Absent \/ ToSet(file[n]) \subseteq UNION {ToSet(Body(m)) : m \in Names}
  /\ Len(queue) <= ChanCap /\ ToSet(queue) \subseteq Clients
  /\ errs \in 0..ErrCap
  /\ \A c \in Clients : go[c].at \in Stages /\ Len(go[c].buf) <= Max(Sizes \cup {BufSize})
  /\ spoilt \subseteq Names
  /\ up \in BOOLEAN /\ size \in [Names -> Sizes]

Init ==
  /\ file = [n \in Names |-> Absent]
  /\ queue = <<>> /\ errs = 0
  /\ go = [c \in Clients |-> Fresh]
  /\ spoilt = {}
  /\ up = TRUE /\ size \in [Names -> Sizes]
-----------------------------------------------------------------------------
At(c, stage) == up /\ go[c].at = stage
Goto(c, stage) == go' = [go EXCEPT ![c].at = stage]
Done(c) == go' = [go EXCEPT ![c] = [Fresh EXCEPT !.at = "done"]]

\* ConnectToClient: Accept, and the send on the channel
Accept(c) ==
  /\ At(c, "none") /\ Len(queue) < ChanCap
  /\ queue' = Append(queue, c)
  /\ Goto(c, "queued")
  /\ UNCHANGED <<file, errs, spoilt, up, size>>

\* ForwardClientToServer starts a goroutine; the deferred Close waits for the
\* end of the loop, which does not come.
Spawn ==
  /\ up /\ queue # <<>>
  /\ Goto(Head(queue), "recv")
  /\ queue' = Tail(queue)
  /\ UNCHANGED <<file, errs, spoilt, up, size>>

\* The end of the header has come; the last location that the path contains
\* is /proxy.
RecvProxy(c, n) ==
  /\ At(c, "recv")
  /\ go' = [go EXCEPT ![c].at = "open", ![c].name = n]
  /\ UNCHANGED <<file, queue, errs, spoilt, up, size>>

\* It is / or /local, and the file test7 is sent; or the client has closed
\* the connection before.
RecvOther(c) ==
  /\ At(c, "recv")
  /\ Done(c) \/ Goto(c, "error")
  /\ UNCHANGED <<file, queue, errs, spoilt, up, size>>

\* checkCacheAndServe: OpenFile.  A reader, or a second writer, that comes
\* while a file is written is remembered.
Writer(c) == go[c].at \in {"fetch", "create", "append"}
Open(c) ==
  /\ At(c, "open")
  /\ Goto(c, IF file[go[c].name] = Absent THEN "fetch" ELSE "read")
  /\ spoilt' = spoilt \cup {n \in {go[c].name} : \E d \in Clients : Writer(d) /\ go[d].name = n}
  /\ UNCHANGED <<file, queue, errs, up, size>>

\* One turn of its loop: Read overwrites the buffer from its beginning.
Read(c) ==
  LET g == go[c]
      got == SubSeq(file[g.name], g.off + 1, Min({g.off + BufSize, Len(file[g.name])}))
  IN  /\ At(c, "read") /\ got # <<>>
      /\ go' = [go EXCEPT ![c].buf = got \o SubSeq(@, Len(got) + 1, Len(@)),
                          ![c].size = @ + Len(got), ![c].off = @ + Len(got)]
      /\ UNCHANGED <<file, queue, errs, spoilt, up, size>>

\* serverBuffer[:cacheSize], which is more than the buffer holds if the file is
\* larger: the panic ends the proxy.
Overruns(c) == go[c].size > BufSize

AtEOF(c) == go[c].off = Len(file[go[c].name])

SendCached(c) ==
  /\ At(c, "read") /\ AtEOF(c) /\ ~Overruns(c)
  /\ Done(c)
  /\ UNCHANGED <<file, queue, errs, spoilt, up, size>>

\* What is lost with the process: everything but the files.
Down ==
  /\ up' = FALSE
  /\ queue' = <<>> /\ errs' = 0
  /\ spoilt' = spoilt \cup {go[c].name : c \in {d \in Clients : go[d].at = "append"}}
  /\ go' = [c \in Clients |-> Fresh]

Panic(c) ==
  /\ At(c, "read") /\ AtEOF(c) /\ Overruns(c)
  /\ Down
  /\ UNCHANGED <<file, size>>

\* proxyToServerAndGetRawResponse: the origin closes the connection, after k
\* units of the body; the client is sent what came.
Fetch(c, k) ==
  /\ At(c, "fetch") /\ k <= size[go[c].name]
  /\ go' = [go EXCEPT ![c].at = "create", ![c].buf = SubSeq(Body(go[c].name), 1, k)]
  /\ spoilt' = IF k < size[go[c].name] THEN spoilt \cup {go[c].name} ELSE spoilt
  /\ UNCHANGED <<file, queue, errs, up, size>>

\* It cannot be reached, or what came is no response.
FetchFails(c) ==
  /\ At(c, "fetch")
  /\ Goto(c, "error")
  /\ UNCHANGED <<file, queue, errs, spoilt, up, size>>

\* cacheResponse: OpenFile creates the file, or opens the one that is there.
Create(c) ==
  /\ At(c, "create")
  /\ file' = [file EXCEPT ![go[c].name] = IF @ = Absent THEN <<>> ELSE @]
  /\ go' = [go EXCEPT ![c].at = "append", ![c].off = 0]
  /\ UNCHANGED <<queue, errs, spoilt, up, size>>

AppendOne(c) ==
  LET g == go[c]
  IN  /\ At(c, "append") /\ g.off < Len(g.buf)
      /\ file' = [file EXCEPT ![g.name] = @ \o SubSeq(g.buf, g.off + 1, Min({g.off + BufSize, Len(g.buf)}))]
      /\ go' = [go EXCEPT ![c].off = Min({g.off + BufSize, Len(g.buf)})]
      /\ UNCHANGED <<queue, errs, spoilt, up, size>>

AppendEnd(c) ==
  /\ At(c, "append") /\ go[c].off = Len(go[c].buf)
  /\ Done(c)
  /\ UNCHANGED <<file, queue, errs, spoilt, up, size>>

\* A send on errorChannel, and handleErrors
Report(c) ==
  /\ At(c, "error") /\ errs < ErrCap
  /\ errs' = errs + 1
  /\ Done(c)
  /\ UNCHANGED <<file, queue, spoilt, up, size>>

\* Mutants: handleErrors takes errors that are not there, or none.
HandleErrorEmpty ==
  /\ up
  /\ errs' = errs - 1
  /\ UNCHANGED <<file, queue, go, spoilt, up, size>>
HandleErrorNever ==
  /\ up /\ errs > ErrCap
  /\ UNCHANGED vars

HandleError ==
  /\ up /\ errs > 0
  /\ errs' = errs - 1
  /\ UNCHANGED <<file, queue, go, spoilt, up, size>>

\* The client connects again.
Again(c) ==
  /\ At(c, "done")
  /\ go' = [go EXCEPT ![c] = Fresh]
  /\ UNCHANGED <<file, queue, errs, spoilt, up, size>>

Kill == up /\ Down /\ UNCHANGED <<file, size>>

Start ==
  /\ ~up
  /\ up' = TRUE
  /\ UNCHANGED <<file, queue, errs, go, spoilt, size>>

Goroutine(c) ==
  \/ Open(c) \/ Read(c) \/ SendCached(c) \/ Panic(c)
  \/ \E k \in 0..Max(Sizes) : Fetch(c, k)
  \/ FetchFails(c) \/ Create(c) \/ AppendOne(c) \/ AppendEnd(c) \/ Report(c)

Next ==
  \/ \E c \in Clients : Accept(c) \/ RecvOther(c) \/ Again(c)
  \/ \E c \in Clients, n \in Names : RecvProxy(c, n)
  \/ \E c \in Clients : Goroutine(c)
  \/ Spawn \/ HandleError
  \/ Kill \/ Start

Spec == Init /\ [][Next]_vars

\* Every goroutine is scheduled, and those that wait for room in a channel are
\* served in turn; the origin closes the connection after its answer, as
\* server.py does without --keepalive.
Fairness ==
  /\ WF_vars(Spawn) /\ WF_vars(HandleError)
  /\ \A c \in Clients : WF_vars(Goroutine(c)) /\ SF_vars(Report(c))

FairSpec == Spec /\ Fairness
-----------------------------------------------------------------------------
\* A file that nobody is writing holds the whole body of the origin, once,
\* unless requests for it have met (the second appends, for the file is opened
\* with O_APPEND) or a crash or the origin has cut it short.  In particular a
\* hit, a panic of another request and a restart leave it alone.
FilesWhole ==
  \A n \in Names \ spoilt :
    (\A c \in Clients : ~(Writer(c) /\ go[c].name = n)) => file[n] \in {Absent, Body(n)}

\* What is sent from the cache is the body of the origin, if nothing has
\* spoilt the file: checkCacheAndServe reads it into one buffer, so a body
\* that does not fit is never sent (it panics).
HitStep ==
  \A c \in Clients : SendCached(c) /\ go[c].name \notin spoilt =>
    SubSeq(go[c].buf, 1, go[c].size) = Body(go[c].name)


\* A request that has come is answered or refused, unless the proxy goes down:
\* no goroutine waits for ever on the channel of errors.
RequestsEnd ==
  \A c \in Clients : go[c].at = "open" ~> go[c].at \in {"done", "none"}
=============================================================================
