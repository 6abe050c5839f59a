------------------------------- MODULE KvFile -------------------------------
(***************************************************************************)
(* The key-value server                                                    *)
(* (csi/06-distributed-systems/01-distributed-kvstore): a goroutine for    *)
(* every connection, each with its own descriptor of one file of records,  *)
(* a record being a length and then the data, written by two calls.  There *)
(* is no lock.  A cell of the file is a length or a piece of data; what    *)
(* one call reads or writes is one step.                                   *)
(***************************************************************************)
EXTENDS Integers, Sequences, FiniteSets, SequencesExt, FiniteSetsExt

CONSTANTS
  Conns,           \* connections
  Keys, Values,    \* a value is the number of data cells of its record
  NoValue,
  MaxFile          \* bound: cells

VARIABLES
  file,
  req,       \* what each connection does
  first,     \* the value first set for each key
  safe       \* cells before the first record that a crash cut in two or that
             \* two Sets wrote at a time; All while there is none

vars == <<file, req, first, safe>>

All == MaxFile + 1

LenCell(n) == [t |-> "len", n |-> n]
DataCell(k, v, i) == [t |-> "data", key |-> k, val |-> v, i |-> i]

\* proto.Marshal
Marshal(k, v) == [i \in 1..v |-> DataCell(k, v, i)]

\* proto.Unmarshal: whether it succeeds
Parses(cells) ==
  cells # <<>> /\ cells[1].t = "data" /\ cells = Marshal(cells[1].key, cells[1].val)

Idle == [at |-> "idle", op |-> "get", key |-> NoValue, val |-> NoValue, pos |-> 0, n |-> 0]
Writing(c) == req[c].at \in {"length", "bytes"}

TypeOK ==
  /\ \A i \in DOMAIN file : file[i].t \in {"len", "data"}
  /\ \A c \in Conns : req[c] \in
       [at : {"idle", "prefix", "data", "seek", "length", "bytes"}, op : {"get", "set"},
        key : Keys \cup {NoValue}, val : Values \cup {NoValue}, pos : 0..(MaxFile + 1),
        n : Values \cup {0}]
  /\ first \in [Keys -> Values \cup {NoValue}]
  /\ safe \in 0..All

Init ==
  /\ file = <<>>
  /\ req = [c \in Conns |-> Idle]
  /\ first = [k \in Keys |-> NoValue]
  /\ safe = All
-----------------------------------------------------------------------------
Goto(c, at) == req' = [req EXCEPT ![c].at = at]
Answer(c) == req' = [req EXCEPT ![c] = Idle]

\* readData, processInstruction, FileKVStoreInstance and the Seek of Get
Request(c, op, k, v) ==
  /\ req[c].at = "idle"
  /\ req' = [req EXCEPT ![c] = [at |-> "prefix", op |-> op, key |-> k, val |-> v, pos |-> 1, n |-> 0]]
  /\ UNCHANGED <<file, first, safe>>

\* The key is not in the file: Get answers so, Set goes on to append.
ToAppend(c) == req' = [req EXCEPT ![c].at = "seek", ![c].pos = 0, ![c].n = 0]
NotFound(c) == IF req[c].op = "get" THEN Answer(c) ELSE ToAppend(c)

ReadPrefix(c) ==
  /\ req[c].at = "prefix"
  /\ IF req[c].pos > Len(file) THEN NotFound(c)
     ELSE /\ file[req[c].pos].t = "len"
          /\ req' = [req EXCEPT ![c].at = "data", ![c].n = file[req[c].pos].n]
  /\ UNCHANGED <<file, first, safe>>

\* A piece of data taken for a length asks for a slice that Go refuses to
\* make: the panic ends the server.
Panic(c) ==
  /\ req[c].at = "prefix"
  /\ req[c].pos <= Len(file) /\ file[req[c].pos].t # "len"
  /\ req' = [x \in Conns |-> Idle]
  /\ UNCHANGED <<file, first, safe>>

Cells(p, n) == SubSeq(file, p + 1, p + n)

\* The scan goes on behind the record of length n at p.  Mutant: it forgets
\* the length itself.
OnwardShort(c, p, n) == req' = [req EXCEPT ![c].at = "prefix", ![c].pos = p + n, ![c].n = 0]
Onward(c, p, n) == req' = [req EXCEPT ![c].at = "prefix", ![c].pos = p + n + 1, ![c].n = 0]

ReadData(c) ==
  /\ req[c].at = "data"
  /\ LET p == req[c].pos
         n == req[c].n
         data == Cells(p, n)
     IN  CASE Len(file) = p -> NotFound(c)
           [] Len(file) > p /\ (Len(file) < p + n \/ ~Parses(data)) -> Answer(c)    \* an error
           [] Len(file) >= p + n /\ Parses(data) ->
                IF data[1].key # req[c].key THEN Onward(c, p, n)
                ELSE IF req[c].op = "set" /\ data[1].val # req[c].val THEN ToAppend(c)
                ELSE Answer(c)
  /\ UNCHANGED <<file, first, safe>>
-----------------------------------------------------------------------------
\* The file with cells written at an offset
Written(cells, off) ==
  [i \in 1..Max({Len(file), off + Len(cells) - 1}) |->
     IF i \in off..(off + Len(cells) - 1) THEN cells[i - off + 1] ELSE file[i]]

SeekEnd(c) ==
  /\ req[c].at = "seek" /\ Len(file) + 1 + req[c].val <= MaxFile
  /\ req' = [req EXCEPT ![c].at = "length", ![c].pos = Len(file) + 1]
  /\ safe' = Min({safe} \cup {req[x].pos - 1 : x \in {y \in Conns : Writing(y)}})
  /\ UNCHANGED <<file, first>>

WriteLength(c) ==
  /\ req[c].at = "length"
  /\ file' = Written(<<LenCell(req[c].val)>>, req[c].pos)
  /\ Goto(c, "bytes")
  /\ UNCHANGED <<first, safe>>

\* Mutant: the bytes are written over the length.
WriteBytesAgain(c) ==
  /\ req[c].at = "bytes"
  /\ file' = Written(Marshal(req[c].key, req[c].val), Len(file))
  /\ first' = IF first[req[c].key] = NoValue THEN [first EXCEPT ![req[c].key] = req[c].val] ELSE first
  /\ Answer(c)
  /\ UNCHANGED safe

\* Write, Sync and the answer OK
WriteBytes(c) ==
  /\ req[c].at = "bytes"
  /\ file' = Written(Marshal(req[c].key, req[c].val), req[c].pos + 1)
  /\ first' = IF first[req[c].key] = NoValue THEN [first EXCEPT ![req[c].key] = req[c].val] ELSE first
  /\ Answer(c)
  /\ UNCHANGED safe

\* The server is killed and started again.
Restart ==
  /\ req' = [c \in Conns |-> Idle]
  /\ safe' = Min({safe} \cup {req[c].pos - 1 : c \in {x \in Conns : req[x].at = "bytes"}})
  /\ UNCHANGED <<file, first>>

Next ==
  \/ \E c \in Conns, k \in Keys : Request(c, "get", k, NoValue)
  \/ \E c \in Conns, k \in Keys, v \in Values : Request(c, "set", k, v)
  \/ \E c \in Conns : ReadPrefix(c)
  \/ \E c \in Conns : Panic(c)
  \/ \E c \in Conns : ReadData(c)
  \/ \E c \in Conns : SeekEnd(c)
  \/ \E c \in Conns : WriteLength(c)
  \/ \E c \in Conns : WriteBytes(c)
  \/ Restart

Spec == Init /\ [][Next]_vars
-----------------------------------------------------------------------------
\* The first cells of the whole records that begin in front of the limit
RECURSIVE RecordsFrom(_)
RecordsFrom(p) ==
  IF p > Min({Len(file), safe}) \/ file[p].t # "len" \/ p + file[p].n > Len(file) THEN <<>>
  ELSE <<file[p + 1]>> \o RecordsFrom(p + 1 + file[p].n)

\* Get returns for every key the value that was set FIRST, for Set appends
\* the new value behind the old record, where the scan does not get to.  It
\* keeps returning it after a crash in the middle of a Set and after two Sets
\* that wrote over each other, which only spoil what comes later.
FirstSetWins ==
  \A k \in Keys :
    LET rs == SelectSeq(RecordsFrom(1), LAMBDA d : d.key = k)
    IN  IF rs = <<>> THEN safe = All => first[k] = NoValue ELSE first[k] = rs[1].val

\* A scan that runs while other connections append is not thrown off by them
\* before it comes to a spoilt record: it stands on a length or at the end of
\* the file, and every record it reads whole is one that was written.
ScansAligned ==
  \A c \in Conns :
    LET p == req[c].pos
    IN  /\ req[c].at = "prefix" /\ p <= safe =>
             p = Len(file) + 1 \/ (p <= Len(file) /\ file[p].t = "len")
        /\ req[c].at = "data" /\ p <= safe =>
             file[p] = LenCell(req[c].n) /\ (Len(file) > p => Parses(Cells(p, req[c].n)))
=============================================================================
