-------------------------------- MODULE Tiny --------------------------------
(***************************************************************************)
(* The Tiny web server: one connection after the other, static files sent  *)
(* from a mapping, CGI programs run in a child that is waited for.  Files  *)
(* may change and clients hang up at any time; the wrappers of csapp.c end *)
(* the program on an error, and writing to a client that is gone may end   *)
(* it too (SIGPIPE, EPIPE).                                                *)
(***************************************************************************)
EXTENDS Integers, Sequences, FiniteSets, SequencesExt

CONSTANTS Conns,
          Requests,     \* [method, file, cgi, complete] or NoRequest
          NoRequest,    \* the client closes without a word
          Files0,       \* the files in the beginning: [reg, user, size]
          MaxEdits
VARIABLES srv, want, out, gone, open, file, edits, child

vars == <<srv, want, out, gone, open, file, edits, child>>
Missing == [reg |-> FALSE, user |-> FALSE, size |-> -1]
Idle == [at |-> "accept", c |-> 0, size |-> 0]
Init == /\ srv = Idle /\ want \in [Conns -> Requests \cup {NoRequest}]
        /\ out = [c \in Conns |-> <<>>] /\ gone = {} /\ open = {}
        /\ file = Files0 /\ edits = 0 /\ child = "none"
R == want[srv.c]
Goto(l) == srv' = [srv EXCEPT !.at = l]
Die == Goto("dead")
\* Rio_writen of one item and then l.
Write(item, l) ==
  \/ out' = [out EXCEPT ![srv.c] = Append(@, item)] /\ Goto(l)
  \/ srv.c \in gone /\ Die /\ UNCHANGED out

Accept(c) == /\ srv.at = "accept" /\ c \notin open /\ out[c] = <<>>
             /\ srv' = [Idle EXCEPT !.at = "request", !.c = c] /\ open' = open \cup {c}
             /\ UNCHANGED <<want, out, gone, file, edits, child>>
clienterror(errnum) == Write([status |-> errnum, n |-> 0], "close")
doit == /\ srv.at = "request"
        /\ \/ R = NoRequest /\ Goto("close") /\ UNCHANGED out
           \/ R # NoRequest /\ R.method # "GET" /\ clienterror("501")
           \/ R # NoRequest /\ R.method = "GET" /\ Goto("headers") /\ UNCHANGED out
        /\ UNCHANGED <<want, gone, open, file, edits, child>>
\* At the end of the input Rio_readlineb leaves the last line in buf: without
\* the empty line that ends the headers the loop does not end.
\* Mutant: the loop looks for an empty line of another kind.
HeadersEndNever == FALSE
HeadersEnd == R.complete
read_requesthdrs == /\ srv.at = "headers" /\ HeadersEnd
                    /\ Goto("stat") /\ UNCHANGED <<want, out, gone, open, file, edits, child>>
\* Mutant: any file that is there is served.
UsableAny(f) == TRUE
Usable(f) == f.reg /\ f.user
Stat == LET f == file[R.file]
        IN /\ srv.at = "stat"
           /\ \/ f = Missing /\ clienterror("404")
              \/ f # Missing /\ ~Usable(f) /\ clienterror("403")
              \/ f # Missing /\ Usable(f) /\ UNCHANGED out
                   /\ srv' = [srv EXCEPT !.at = IF R.cgi THEN "dynamic" ELSE "static", !.size = f.size]
           /\ UNCHANGED <<want, gone, open, file, edits, child>>

\* The length in the headers is that of the stat.
\* Mutant: it is looked up again for the headers.
ContentNow(f, size) == f.size
Content(f, size) == size
ServeHeaders == /\ srv.at = "static"
                /\ Write([status |-> "200", n |-> Content(file[R.file], srv.size)], "open")
                /\ UNCHANGED <<want, gone, open, file, edits, child>>
\* Open fails on a file that is gone, Mmap on an empty one and on a directory.
OpenMap == /\ srv.at = "open"
           /\ IF ~file[R.file].reg \/ srv.size = 0 THEN Die ELSE Goto("body")
           /\ UNCHANGED <<want, out, gone, open, file, edits, child>>
\* The pages of a file that has shrunk cannot be read, or hold zeros.
Body == /\ srv.at = "body"
        /\ \/ Write([status |-> "body", n |-> srv.size], "close")
           \/ file[R.file].size < srv.size /\ Die /\ UNCHANGED out
        /\ UNCHANGED <<want, gone, open, file, edits, child>>

Fork == /\ srv.at = "dynamic" /\ Write([status |-> "200", n |-> 0], "wait")
        /\ child' = IF srv'.at = "wait" THEN "new" ELSE child
        /\ UNCHANGED <<want, gone, open, file, edits>>
\* The program's output, or nothing where Execve fails.
Execve == /\ child = "new" /\ child' = "exited"
          /\ \/ file[R.file] # Missing /\ out' = [out EXCEPT ![srv.c] = Append(@, [status |-> "cgi", n |-> 0])]
             \/ (file[R.file] = Missing \/ srv.c \in gone) /\ UNCHANGED out
          /\ UNCHANGED <<srv, want, gone, open, file, edits>>
\* Mutant: the parent does not wait.
ReapNow == TRUE
Reap == child = "exited"
Wait == /\ srv.at = "wait" /\ Reap /\ child' = IF child = "exited" THEN "none" ELSE child
        /\ Goto("close") /\ UNCHANGED <<want, out, gone, open, file, edits>>
\* A client that was given nothing is marked as served.
Close == /\ srv.at = "close" /\ srv' = Idle /\ open' = open \ {srv.c}
         /\ out' = IF out[srv.c] = <<>> THEN [out EXCEPT ![srv.c] = <<[status |-> "none", n |-> 0]>>] ELSE out
         /\ UNCHANGED <<want, gone, file, edits, child>>

Hangup == \E c \in open \ gone : gone' = gone \cup {c} /\ UNCHANGED <<srv, want, out, open, file, edits, child>>
Edit == \E f \in DOMAIN file, n \in {-1, 1} :
          /\ edits < MaxEdits /\ edits' = edits + 1
          /\ file' = [file EXCEPT ![f] = IF n = -1 THEN Missing ELSE [@ EXCEPT !.size = n]]
          /\ UNCHANGED <<srv, want, out, gone, open, child>>
Step == doit \/ read_requesthdrs \/ Stat \/ ServeHeaders \/ OpenMap \/ Body \/ Fork \/ Wait \/ Close
Next == (\E c \in Conns : Accept(c)) \/ Step \/ Execve \/ Hangup \/ Edit
-----------------------------------------------------------------------------
\* The server is at one of its calls, and writes to an open connection only.
TypeOK == /\ srv.at \in {"accept", "request", "headers", "stat", "static", "open", "body", "dynamic", "wait", "close", "dead"}
          /\ child \in {"none", "new", "exited"} /\ open \subseteq Conns
          /\ srv.at \notin {"accept", "dead"} => srv.c \in open

\* The body of a static answer has the length its headers announced, though the
\* file may have changed in between.
LengthTruth ==
  \A c \in Conns : \A i \in DOMAIN out[c] : out[c][i].status = "body" => i > 1 /\ out[c][i - 1] = [status |-> "200", n |-> out[c][i].n]

\* Back at accept the server holds no connection and no child, and every client
\* was given one status line at most.
CleanAtAccept ==
  /\ srv.at = "accept" => open = {} /\ child = "none"
  /\ \A c \in Conns : Cardinality({i \in DOMAIN out[c] : out[c][i].status \in {"200", "403", "404", "501"}}) <= 1

\* The server ends only because the client it serves hung up, a file changed
\* under it, or the static file asked for is empty.
DiesOnlyOn ==
  srv.at = "dead" => srv.c \in gone \/ edits > 0 \/ file[R.file].size = 0

\* The server comes back to accept from every client that ends its headers.
\* (It never does from one that closes before the empty line.)
ServesOn == \A c \in Conns :
  srv.at = "request" /\ srv.c = c /\ (want[c] = NoRequest \/ want[c].complete) ~> srv.at \in {"accept", "dead"}
=============================================================================
