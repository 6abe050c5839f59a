------------------------------- MODULE LevelDb ------------------------------
EXTENDS Integers, Sequences, FiniteSets, SequencesExt

(***************************************************************************)
(* The skip list of the log-structured store                               *)
(* (csi/05-storage-and-retrieval/03-leveldb-lsm/skiplist/skiplist.go) as   *)
(* operators on a record: the nodes that were ever made, node 1 the head,  *)
(* and the number of levels in use.  Levels are counted from 1; a node     *)
(* that was unlinked stays in memory, for an iterator may stand on it.     *)
(***************************************************************************)

CONSTANTS MaxLevel    \* 16 in the code

Head1 == 1            \* the head
NoNode == 0           \* nil

NewNode(key, val, fwd) == [key |-> key, val |-> val, fwd |-> fwd]

NewSkipList ==
  [node |-> <<NewNode(0, 0, [i \in 1..MaxLevel |-> NoNode])>>, level |-> 0]

Forward(sl, n, i) == sl.node[n].fwd[i]

\* The inner loop of Insert, Search and Delete.  Mutant: it passes the
\* nodes that have the key.
RECURSIVE AdvancePast(_, _, _, _), Advance(_, _, _, _)
AdvancePast(sl, n, i, key) ==
  LET f == Forward(sl, n, i)
  IN  IF f # NoNode /\ sl.node[f].key <= key THEN AdvancePast(sl, f, i, key) ELSE n

Advance(sl, n, i, key) ==
  LET f == Forward(sl, n, i)
  IN  IF f # NoNode /\ sl.node[f].key < key THEN Advance(sl, f, i, key) ELSE n

\* Their outer loop: update[i] is the last node of level i before the key.
Before(sl, key) ==
  LET update[i \in 1..sl.level] ==
        Advance(sl, IF i = sl.level THEN Head1 ELSE update[i+1], i, key)
  IN  update

\* The node that ends the descent.
LastBefore(sl, key) == IF sl.level = 0 THEN Head1 ELSE Before(sl, key)[1]

\* randomLevel has drawn level
Insert(sl, key, val, level) ==
  LET new == Len(sl.node) + 1
      upd == [i \in 1..level |-> IF i <= sl.level THEN Before(sl, key)[i] ELSE Head1]
      linked == [n \in DOMAIN sl.node |->
                   [sl.node[n] EXCEPT !.fwd =
                      [i \in DOMAIN @ |-> IF i <= level /\ upd[i] = n THEN new ELSE @[i]]]]
  IN  [node  |-> Append(linked, NewNode(key, val, [i \in 1..level |-> Forward(sl, upd[i], i)])),
       level |-> IF level > sl.level THEN level ELSE sl.level]

\* The match is any node whose key is not smaller.
Search(sl, key) == Forward(sl, LastBefore(sl, key), 1)

Found(sl, key) ==
  LET cur == Search(sl, key) IN cur # NoNode /\ sl.node[cur].key = key

\* Mutants: a deletion that forgets the upper levels, and one that clears
\* the node it unlinks.
DeleteCleared(sl, key) ==
  LET cur == Search(sl, key)
      unlinked == [n \in DOMAIN sl.node |->
        [sl.node[n] EXCEPT !.fwd = [i \in DOMAIN @ |-> IF @[i] = cur THEN Forward(sl, cur, i) ELSE @[i]]]]
  IN  [sl EXCEPT !.node = [unlinked EXCEPT ![cur].fwd = [i \in DOMAIN @ |-> NoNode]]]

DeleteBottom(sl, key) ==
  LET cur == Search(sl, key)
  IN  [sl EXCEPT !.node[LastBefore(sl, key)].fwd[1] = Forward(sl, cur, 1)]

RECURSIVE DropLevels(_)
DropLevels(sl) ==
  IF sl.level > 1 /\ Forward(sl, Head1, sl.level) = NoNode
  THEN DropLevels([sl EXCEPT !.level = @ - 1])
  ELSE sl

\* Unlinks the first node with the key, on the levels below the first one
\* on which it does not follow update[i]; the caller has seen Found.
Delete(sl, key) ==
  LET cur == Search(sl, key)
      upd == Before(sl, key)
      On(i) == \A j \in 1..i : Forward(sl, upd[j], j) = cur
  IN  DropLevels([sl EXCEPT !.node = [n \in DOMAIN @ |->
        [@[n] EXCEPT !.fwd = [i \in DOMAIN @ |->
           IF i <= sl.level /\ n = upd[i] /\ On(i) THEN Forward(sl, cur, i) ELSE @[i]]]]])
-----------------------------------------------------------------------------
\* The nodes that level i links, starting from node n.
RECURSIVE Chain(_, _, _)
Chain(sl, n, i) ==
  LET f == Forward(sl, n, i) IN IF f = NoNode THEN <<>> ELSE <<f>> \o Chain(sl, f, i)

Linked(sl) == Chain(sl, Head1, 1)

-----------------------------------------------------------------------------
(***************************************************************************)
(* The log-structured store                                                *)
(* (csi/05-storage-and-retrieval/03-leveldb-lsm): a skip list in memory, a *)
(* write-ahead log that is written first, an iterator on the list, and the *)
(* recovery that replays a file named wal.go.  The program may be killed   *)
(* between two system calls and in the middle of the write of a record;    *)
(* what was written stays in the file.                                     *)
(***************************************************************************)

CONSTANTS
  Keys, Values,
  MaxLog,        \* bound: records that clients have logged
  MaxCrashes     \* bound: with a second one a torn record may be inside the log

NoScan == [at |-> NoNode, todo |-> {}]

VARIABLES
  table,     \* ldb.entries
  log,       \* whole records of logs/leveldb.log; it may end with part of one
  walgo,     \* the records of the file wal.go that RecoverFromWAL opens
  at,        \* "down", "ready", "logged": the last record is not yet applied,
             \* or "recover"
  next,      \* the next record of wal.go to replay
  scan,      \* an iterator: where it stands, the nodes it has yet to visit
  crashes

vars == <<table, log, walgo, at, next, scan, crashes>>

Record == [op : {"put"}, key : Keys, val : Values] \cup [op : {"delete"}, key : Keys]

TypeOK ==
  /\ table.level \in 0..MaxLevel
  /\ \A n \in DOMAIN table.node : \A i \in DOMAIN table.node[n].fwd :
       table.node[n].fwd[i] \in {NoNode} \cup DOMAIN table.node
  /\ log \in Seq(Record) /\ walgo \in Seq(Record)
  /\ at \in {"down", "ready", "logged", "recover"}
  /\ next \in 1..(Len(walgo) + 1)
  /\ scan.at \in {NoNode} \cup DOMAIN table.node /\ scan.todo \subseteq DOMAIN table.node
  /\ crashes \in 0..MaxCrashes

Init ==
  /\ table = NewSkipList
  /\ log = <<>> /\ walgo = <<>>
  /\ at = "down" /\ next = 1
  /\ scan = NoScan
  /\ crashes = 0
-----------------------------------------------------------------------------
\* NewLevelDb(nil, nil)
NewLevelDb ==
  /\ at = "down"
  /\ at' = "ready"
  /\ UNCHANGED <<table, log, walgo, next, scan, crashes>>

\* wal.Write: one write of a whole record
WalWrite(r) ==
  /\ Len(log) < MaxLog
  /\ log' = Append(log, r)
  /\ at' = "logged"
  /\ UNCHANGED <<table, walgo, next, scan, crashes>>

\* NewLevelDb with a first pair, or Put
Put(k, v) ==
  /\ at \in {"down", "ready"}
  /\ v = Len(log) + 1    \* every Put is given a value of its own
  /\ WalWrite([op |-> "put", key |-> k, val |-> v])

Delete1(k) ==
  /\ at = "ready"
  /\ WalWrite([op |-> "delete", key |-> k])

\* Mutant: a Delete is logged and not applied.
AppliedPuts(r, level) == IF r.op = "put" THEN Insert(table, r.key, r.val, level) ELSE table

\* The change of the list; a Delete of an absent key only returns an error.
Applied(r, level) ==
  CASE r.op = "put" -> Insert(table, r.key, r.val, level)
    [] r.op = "delete" -> IF Found(table, r.key) THEN Delete(table, r.key) ELSE table

Apply(level) ==
  /\ at = "logged"
  /\ table' = Applied(log[Len(log)], level)
  /\ at' = "ready"
  /\ UNCHANGED <<log, walgo, next, scan, crashes>>

\* Get and Has
Get(k) == Search(table, k)

\* The end of the range is not looked at.
RangeScan(start) ==
  /\ at = "ready"
  /\ Get(start) # NoNode
  /\ scan' = [at |-> Get(start), todo |-> ToSet(Chain(table, Get(start), 1))]
  /\ UNCHANGED <<table, log, walgo, at, next, crashes>>

IterNext ==
  /\ at = "ready" /\ scan.at # NoNode
  /\ Forward(table, scan.at, 1) # NoNode
  /\ scan' = [at |-> Forward(table, scan.at, 1), todo |-> scan.todo \ {Forward(table, scan.at, 1)}]
  /\ UNCHANGED <<table, log, walgo, at, next, crashes>>
-----------------------------------------------------------------------------
\* The process is killed, and may have written part of a record; nobody but
\* the user gives RecoverFromWAL a file to read: a copy of the log.
Crash(copied) ==
  /\ at \in {"ready", "logged"} /\ crashes < MaxCrashes
  /\ walgo' = IF copied THEN log ELSE <<>>
  /\ table' = NewSkipList
  /\ at' = "down" /\ next' = 1 /\ scan' = NoScan
  /\ crashes' = crashes + 1
  /\ UNCHANGED log

\* RecoverFromWAL: with no wal.go it returns an error.
StartRecover ==
  /\ at = "ready" /\ Len(table.node) = 1 /\ walgo # <<>> /\ next = 1
  /\ at' = "recover"
  /\ UNCHANGED <<table, log, walgo, next, scan, crashes>>

\* One turn of its loop: Put or Delete, which log the record again.
ReplayStep(level) ==
  /\ at = "recover" /\ next <= Len(walgo)
  /\ table' = Applied(walgo[next], level)
  /\ log' = Append(log, walgo[next])
  /\ next' = next + 1
  /\ UNCHANGED <<walgo, at, scan, crashes>>

\* The end of the file; a part of a record ends the loop with an error.
EndRecover ==
  /\ at = "recover" /\ next = Len(walgo) + 1
  /\ at' = "ready"
  /\ UNCHANGED <<table, log, walgo, next, scan, crashes>>

Next ==
  \/ NewLevelDb
  \/ \E k \in Keys, v \in Values : Put(k, v)
  \/ \E k \in Keys : Delete1(k)
  \/ \E level \in 1..MaxLevel : Apply(level)
  \/ \E k \in Keys : RangeScan(k)
  \/ IterNext
  \/ \E copied \in BOOLEAN : Crash(copied)
  \/ StartRecover
  \/ \E level \in 1..MaxLevel : ReplayStep(level)
  \/ EndRecover

Spec == Init /\ [][Next]_vars
-----------------------------------------------------------------------------
\* The levels of the skip list are consistent: every level is the part of
\* the bottom one whose nodes are tall enough, in key order, and no level
\* above the first is empty.  Insert and Delete relink the levels one by one.
SkipListOrdered ==
  LET keys == [j \in DOMAIN Linked(table) |-> table.node[Linked(table)[j]].key]
  IN  /\ \A i \in 1..table.level :
           Chain(table, Head1, i)
             = SelectSeq(Linked(table), LAMBDA n : i \in DOMAIN table.node[n].fwd)
      /\ \A i \in DOMAIN keys, j \in DOMAIN keys : i < j => keys[i] <= keys[j]
      /\ \A n \in ToSet(Linked(table)) : Len(table.node[n].fwd) <= table.level
      /\ table.level > 1 => Forward(table, Head1, table.level) # NoNode

Versions ==
  [k \in Keys |->
     LET ns == SelectSeq(Linked(table), LAMBDA n : table.node[n].key = k)
     IN  [j \in DOMAIN ns |-> table.node[ns[j]].val]]

V == INSTANCE KvStore WITH versions <- Versions, Overwrites <- FALSE, Volatile <- TRUE
VersionStep == V!Next \/ UNCHANGED Versions

\* The store behaves as a store of versions: Put adds a value in front, Delete
\* takes the newest away and uncovers the one before it.
ImplementsVersions == V!Spec

\* The newest value of a key that the records of a log leave.
Newest(recs, k) ==
  LET Step(vs, r) == IF r.key # k THEN vs
                     ELSE IF r.op = "put" THEN <<r.val>> \o vs
                     ELSE IF vs = <<>> THEN vs ELSE Tail(vs)
      vs == FoldLeft(Step, <<>>, recs)
  IN  IF vs = <<>> THEN {} ELSE {Head(vs)}

\* Write-ahead logging: between two calls the newest value of every key is
\* the one that the log gives, and RecoverFromWAL with a copy of the log
\* brings it back after a crash, although it logs every record again.
LogGivesTable ==
  at = "ready" /\ (crashes = 0 \/ (walgo # <<>> /\ log = walgo \o walgo)) =>
    \A k \in Keys :
      Newest(log, k) = IF Versions[k] = <<>> THEN {} ELSE {Head(Versions[k])}

\* An iterator is not led astray by changes of the list: a node that was
\* there when the scan began, has not been visited and is still in the list
\* is yet to come, although the node the iterator stands on may be unlinked.
ScanMissesNothing ==
  scan.at # NoNode =>
    scan.todo \cap ToSet(Linked(table)) \subseteq ToSet(Chain(table, scan.at, 1))
=============================================================================
