-------------------------------- MODULE Csapp -------------------------------
(***************************************************************************)
(* csapp.c: the helpers that open sockets and print numbers, and the Rio   *)
(* package.                                                                *)
(***************************************************************************)
EXTENDS Integers, Sequences, SequencesExt, Naturals, FiniteSetsExt

(***************************************************************************)
(* The helpers of csapp.c that open a connection (open_clientfd) and a     *)
(* listening socket (open_listenfd) by walking the list of addresses of    *)
(* getaddrinfo, and its number output for signal handlers (sio_putl).      *)
(* An address is what happens to it: "nosocket", "refused", "stuck"        *)
(* (refused, and the close fails too) or "ok".  A descriptor is named      *)
(* after the position of its address.                                      *)
(***************************************************************************)

CONSTANTS LONG_MIN

Start == [fd |-> 0, open |-> {}, stop |-> FALSE]

\* Mutant: the descriptor of a refused connection is kept.
RefusedKeep(st, i) == [st EXCEPT !.open = @ \cup {i}]
\* The connect or bind of address i failed: its descriptor is closed.
Refused(st, i) == st

Try(st, i, a) ==
  IF st.stop THEN st
  ELSE CASE a = "nosocket" -> st
         [] a = "refused" -> Refused(st, i)
         [] a = "stuck" -> [st EXCEPT !.stop = TRUE, !.fd = -1, !.open = @ \cup {i}]
         [] a = "ok" -> [st EXCEPT !.stop = TRUE, !.fd = i, !.open = @ \cup {i}]

\* The loop over the list; fd is 0 when the list is used up, -1 when a
\* close failed.
Walk(list) == FoldLeft(LAMBDA st, i : Try(st, i, list[i]), Start, [i \in DOMAIN list |-> i])

Answer(ret, open, freed) == [ret |-> ret, open |-> open, freed |-> freed]
open_clientfd(found, list) ==
  LET w == Walk(list)
  IN  CASE ~found -> Answer(-2, {}, TRUE)
        [] found /\ w.fd = -1 -> Answer(-1, w.open, FALSE)
        [] OTHER -> Answer(IF w.fd = 0 THEN -1 ELSE w.fd, w.open, TRUE)
open_listenfd(found, list, listens) ==
  LET c == open_clientfd(found, list)
  IN  IF c.ret < 0 \/ listens THEN c ELSE Answer(-1, c.open \ {c.ret}, c.freed)
-----------------------------------------------------------------------------
\* Characters are their codes: 48 is '0' and 45 is '-'.  The digits come out
\* backwards and are reversed; -v of the least long is
\* that number again.
Minus(v) == IF v = LONG_MIN THEN v ELSE -v
Quot(v) == IF v >= 0 THEN v \div 10 ELSE -((-v) \div 10)
More(v) == v > 0
Digits[v \in LONG_MIN..(-LONG_MIN - 1)] ==
  <<48 + v - 10 * Quot(v)>> \o (IF More(Quot(v)) THEN Digits[Quot(v)] ELSE <<>>)
sio_ltoa(v) ==
  LET s == Digits[IF v < 0 THEN Minus(v) ELSE v]
  IN  Reverse(IF v < 0 THEN Append(s, 45) ELSE s)
-----------------------------------------------------------------------------
\* After open_clientfd and open_listenfd the caller holds exactly the
\* descriptor it was given, the one of the first address that works, and
\* after an error none; the list of addresses is given back.  Only a close
\* that fails leaves a descriptor and the list behind.
DescriptorsKept(q) ==
  LET works == {i \in DOMAIN q.list : q.list[i] = "ok"}
      stuck == {i \in DOMAIN q.list : q.list[i] = "stuck" /\ \A j \in works : i < j}
  IN \A r \in {open_clientfd(q.found, q.list), open_listenfd(q.found, q.list, q.listens)} :
       (q.found => stuck = {}) =>
         /\ r.open = IF r.ret >= 0 THEN {r.ret} ELSE {}
         /\ r.freed
         /\ r.ret >= 0 => r.ret \in works /\ \A i \in works : r.ret <= i
         /\ (q.found /\ q.listens /\ works # {}) => r.ret >= 0

\* sio_putl writes a number that reads back as the one it was given, for
\* every long but the least.
PutlReadsBack(v) ==
  LET s == sio_ltoa(v)
      ds == IF s[1] = 45 THEN Tail(s) ELSE s
      n == FoldLeft(LAMBDA m, d : 10 * m + d - 48, 0, ds)
  IN  v # LONG_MIN => /\ v = IF v < 0 THEN -n ELSE n
                      /\ \A i \in DOMAIN ds : ds[i] \in 48..57
                      /\ (Len(ds) > 1 => ds[1] # 48)

-----------------------------------------------------------------------------
(***************************************************************************)
(* The Rio package of csapp.c: a writer that sends Data with rio_writen    *)
(* and a reader that takes it with rio_readn (unbuffered) or with          *)
(* rio_readnb and rio_readlineb (which share one rio_t).  The kernel moves *)
(* as many bytes per call as it likes, calls are interrupted by signals,   *)
(* and a call may fail for good, on which the Rio_ wrappers exit.          *)
(***************************************************************************)

CONSTANTS Data,       \* what the writer sends; NL is the newline
          NL,
          RIO_BUFSIZE,
          KernelCap,  \* bytes the kernel buffers between the two ends
          Wants,      \* the n and maxlen arguments readers pass
          MaxCalls

VARIABLES left,    \* the bytes rio_writen has still to write (nleft, bufp)
          kernel,  \* written and not yet read
          rio,     \* the unread part of rio_buf (rio_bufptr, rio_cnt)
          call,    \* the reader's call: which, its n, and usrbuf so far
          out      \* what earlier calls returned, oldest first

vars == <<left, kernel, rio, call, out>>

Idle == [op |-> "none", n |-> 0, got |-> <<>>]
Dead == [op |-> "dead", n |-> 0, got |-> <<>>]

Init == /\ left = Data
        /\ kernel = <<>>
        /\ rio = <<>>
        /\ call = Idle
        /\ out = <<>>

(* The writer closes its end once rio_writen returns. *)
Eof == left = <<>> /\ kernel = <<>>

(* Each write() takes some of what is left; EINTR leaves everything for the *)
(* next turn of the loop.                                                   *)
rio_writen ==
    /\ left # <<>> /\ Len(kernel) < KernelCap
    /\ \E k \in 1..Min({Len(left), KernelCap - Len(kernel)}) :
          /\ kernel' = kernel \o SubSeq(left, 1, k)
          /\ left' = SubSeq(left, k + 1, Len(left))
    /\ UNCHANGED <<rio, call, out>>

(* The reader calls one of the three; rio_readn may not be mixed with the   *)
(* buffered calls, so it is made only while rio_buf holds nothing.          *)
Call(op, n) ==
    /\ call = Idle /\ Len(out) < MaxCalls
    /\ op = "readn" => rio = <<>>
    /\ call' = [op |-> op, n |-> n, got |-> <<>>]
    /\ UNCHANGED <<left, kernel, rio, out>>

Return ==
    /\ out' = Append(out, call)
    /\ call' = Idle

(* rio_readlineb counts from 1, so it copies at most maxlen - 1 bytes.      *)
Room == IF call.op = "readlineb" THEN call.n - 1 - Len(call.got)
                                 ELSE call.n - Len(call.got)

(* No test for the newline: the copy loop only stops at maxlen. *)
LineNeverDone == call.op = "readlineb" /\ Room = 0

LineDone == call.op = "readlineb" /\ call.got # <<>> /\ Last(call.got) = NL

Reading == call.op \in {"readn", "readnb", "readlineb"} /\ Room > 0 /\ ~LineDone

(* rio_readn: one read() straight into usrbuf. *)
rio_readn ==
    /\ Reading /\ call.op = "readn" /\ kernel # <<>>
    /\ \E k \in 1..Min({Room, Len(kernel)}) :
          /\ call' = [call EXCEPT !.got = @ \o SubSeq(kernel, 1, k)]
          /\ kernel' = SubSeq(kernel, k + 1, Len(kernel))
    /\ UNCHANGED <<left, rio, out>>

(* A Refill that forgets rio_cnt and reads over bytes not yet handed out. *)
RefillEarly ==
    /\ Reading /\ call.op # "readn" /\ Len(rio) <= 1 /\ kernel # <<>>
    /\ \E k \in 1..Min({RIO_BUFSIZE, Len(kernel)}) :
          /\ rio' = SubSeq(kernel, 1, k)
          /\ kernel' = SubSeq(kernel, k + 1, Len(kernel))
    /\ UNCHANGED <<left, call, out>>

(* rio_read with an empty rio_buf: one read() fills it from its start. *)
Refill ==
    /\ Reading /\ call.op # "readn" /\ rio = <<>> /\ kernel # <<>>
    /\ \E k \in 1..Min({RIO_BUFSIZE, Len(kernel)}) :
          /\ rio' = SubSeq(kernel, 1, k)
          /\ kernel' = SubSeq(kernel, k + 1, Len(kernel))
    /\ UNCHANGED <<left, call, out>>

(* rio_read's copy: min(n, rio_cnt) bytes, where rio_readlineb asks for 1. *)
Copy ==
    /\ Reading /\ call.op # "readn" /\ rio # <<>>
    /\ LET want == IF call.op = "readlineb" THEN 1 ELSE Room
           cnt == Min({want, Len(rio)})
       IN  /\ call' = [call EXCEPT !.got = @ \o SubSeq(rio, 1, cnt)]
           /\ rio' = SubSeq(rio, cnt + 1, Len(rio))
    /\ UNCHANGED <<left, kernel, out>>

(* A short read taken for the end of the file. *)
DoneShort ==
    /\ call.op \in {"readn", "readnb", "readlineb"}
    /\ call.got # <<>> \/ ~Reading \/ (Eof /\ rio = <<>>)
    /\ Return
    /\ UNCHANGED <<left, kernel, rio>>

(* The loops end when they have n bytes, a newline, or read() returned 0. *)
Done ==
    /\ call.op \in {"readn", "readnb", "readlineb"}
    /\ ~Reading \/ (Eof /\ rio = <<>>)
    /\ Return
    /\ UNCHANGED <<left, kernel, rio>>

(* read() or write() fails with something other than EINTR: the wrapper's  *)
(* unix_error exits.                                                       *)
unix_error ==
    /\ Reading /\ rio = <<>>
    /\ call' = Dead
    /\ UNCHANGED <<left, kernel, rio, out>>

Next == \/ rio_writen
        \/ \E op \in {"readn", "readnb", "readlineb"}, n \in Wants : Call(op, n)
        \/ rio_readn \/ Refill \/ Copy \/ Done \/ unix_error

Spec == Init /\ [][Next]_vars
-----------------------------------------------------------------------------
TypeOK ==
    /\ Len(kernel) <= KernelCap /\ Len(rio) <= RIO_BUFSIZE
    /\ call.op \in {"none", "dead", "readn", "readnb", "readlineb"}
    /\ Len(call.got) <= call.n
    /\ \A i \in 1..Len(out) : out[i].n \in Wants

Returned(k) == FlattenSeq([i \in 1..k |-> out[i].got])

(* However reads and writes are cut up and whatever calls share the rio_t,  *)
(* no byte is lost, repeated or reordered between rio_writen and the        *)
(* callers of the read functions.                                           *)
StreamConserved ==
    call # Dead => Returned(Len(out)) \o call.got \o rio \o kernel \o left = Data

(* rio_readn and rio_readnb return fewer than n bytes only when the file    *)
(* ended: everything that was sent has been returned by then.               *)
ShortMeansEof ==
    \A i \in 1..Len(out) :
        out[i].op # "readlineb" /\ Len(out[i].got) < out[i].n => Returned(i) = Data

(* rio_readlineb returns one line: no byte follows a newline, and only a    *)
(* full buffer (maxlen - 1 bytes) or the end of the file cuts a line short. *)
LinesWhole ==
    \A i \in 1..Len(out) : out[i].op = "readlineb" =>
        LET g == out[i].got IN
        /\ \A j \in 1..Len(g) : g[j] = NL => j = Len(g)
        /\ \/ g # <<>> /\ Last(g) = NL
           \/ Len(g) = out[i].n - 1
           \/ Returned(i) = Data
=============================================================================
