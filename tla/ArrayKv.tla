------------------------------ MODULE ArrayKv -------------------------------
(***************************************************************************)
(* The in-memory store (csi/05-storage-and-retrieval/01-in-memory-kv): a   *)
(* slice of entries that Put sorts, found by binary search, and iterators  *)
(* that hold a copy of the entries they scan.                              *)
(***************************************************************************)
EXTENDS Integers, Sequences, SequencesExt

CONSTANTS Keys, Values, NoValue

VARIABLES
  entries,
  tuples, idx      \* an iterator: its copy, CurrIdx counted from 0 before the first

vars == <<entries, tuples, idx>>

Entry(k, v) == [key |-> k, val |-> v]

TypeOK ==
  /\ entries \in Seq([key : Keys, val : Values])
  /\ tuples \in Seq([key : Keys, val : Values])
  /\ idx \in 0..(Len(tuples) + 1)

Init == entries = <<>> /\ tuples = <<>> /\ idx = 0

\* slices.BinarySearchFunc: the interval lo..hi-1 is halved
RECURSIVE BinarySearch(_, _, _)
BinarySearch(key, lo, hi) ==
  IF lo >= hi THEN lo
  ELSE LET h == (lo + hi) \div 2
       IN  IF entries[h].key < key THEN BinarySearch(key, h + 1, hi) ELSE BinarySearch(key, lo, h)

Pos(key) == BinarySearch(key, 1, Len(entries) + 1)
Found(key) == Pos(key) <= Len(entries) /\ entries[Pos(key)].key = key

Get(key) == IF Found(key) THEN entries[Pos(key)].val ELSE NoValue

\* slices.SortFunc
Sorted(es) == SortSeq(es, LAMBDA a, b : a.key < b.key)

\* Mutant: the entries are not sorted again.
PutUnsorted(key, val) ==
  /\ entries' = IF Found(key) THEN [entries EXCEPT ![Pos(key)].val = val]
                ELSE Append(entries, Entry(key, val))
  /\ UNCHANGED <<tuples, idx>>
Put(key, val) ==
  /\ entries' = Sorted(IF Found(key) THEN [entries EXCEPT ![Pos(key)].val = val]
                       ELSE Append(entries, Entry(key, val)))
  /\ UNCHANGED <<tuples, idx>>

Delete(key) ==
  /\ Found(key)
  /\ entries' = RemoveAt(entries, Pos(key))
  /\ UNCHANGED <<tuples, idx>>

\* Mutant: the end of the range is left out.
RangeScanOpen(start, end) ==
  /\ Found(start) /\ Found(end) /\ Pos(start) <= Pos(end) + 1
  /\ tuples' = SubSeq(entries, Pos(start), Pos(end) - 1)
  /\ idx' = 0
  /\ UNCHANGED entries

\* Both ends must be present; a range that ends before the entry in front of
\* its start panics.
RangeScan(start, end) ==
  /\ Found(start) /\ Found(end) /\ Pos(start) <= Pos(end) + 1
  /\ tuples' = SubSeq(entries, Pos(start), Pos(end))
  /\ idx' = 0
  /\ UNCHANGED entries

Dump ==
  /\ tuples' = entries
  /\ idx' = 0
  /\ UNCHANGED entries

\* Mutant: the iterator moves on at the end of its copy.
IterNextPast ==
  /\ idx <= Len(tuples) + 1
  /\ idx' = idx + 1
  /\ UNCHANGED <<entries, tuples>>

\* Next of the iterator
IterNext ==
  /\ idx <= Len(tuples)
  /\ idx' = idx + 1
  /\ UNCHANGED <<entries, tuples>>

Next ==
  \/ \E k \in Keys, v \in Values : Put(k, v)
  \/ \E k \in Keys : Delete(k)
  \/ \E s, e \in Keys : RangeScan(s, e)
  \/ Dump
  \/ IterNext

Spec == Init /\ [][Next]_vars
-----------------------------------------------------------------------------
MapNow == [k \in Keys |-> IF Get(k) = NoValue THEN <<>> ELSE <<Get(k)>>]
M == INSTANCE KvStore WITH versions <- MapNow, Overwrites <- TRUE, Volatile <- FALSE
MapStep == M!Next \/ UNCHANGED MapNow

\* What the binary search finds behaves as a map: Put overwrites and adds,
\* Delete removes, and no other key is lost from sight; the search relies on
\* the order that Put restores and Delete keeps.
ImplementsMap == M!Spec

\* A scan yields exactly the pairs whose keys are in its range, both ends
\* included: the positions the searches return are those of the keys.
ScanStep ==
  \A s, e \in Keys :
    RangeScan(s, e) => ToSet(tuples') = {Entry(k, Get(k)) : k \in {x \in s..e : Found(x)}}

ScanExact == [][ScanStep]_vars
=============================================================================
