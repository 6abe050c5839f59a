------------------------------ MODULE LinkedKv ------------------------------
(***************************************************************************)
(* The sorted linked-list store                                            *)
(* (csi/05-storage-and-retrieval/02-linked-list-kv) and its iterator, which*)
(* holds two nodes of the list.  Nodes are numbered as they are made; one  *)
(* that was unlinked keeps its Next.                                       *)
(***************************************************************************)
EXTENDS Integers, Sequences, FiniteSets, SequencesExt

CONSTANTS
  Keys, Values,
  MaxNodes         \* bound: nodes made

NoNode == 0

VARIABLES
  node,            \* every node made: key, value, next
  entries,         \* the first node
  cur, end         \* the iterator

vars == <<node, entries, cur, end>>

Node(k, v, n) == [key |-> k, val |-> v, next |-> n]

TypeOK ==
  /\ \A n \in DOMAIN node : node[n] \in [key : Keys, val : Values, next : 0..Len(node)]
  /\ entries \in 0..Len(node) /\ cur \in 0..Len(node) /\ end \in 0..Len(node)

\* NewNode
Init ==
  /\ \E k \in Keys, v \in Values : node = <<Node(k, v, NoNode)>>
  /\ entries = 1
  /\ cur = NoNode /\ end = NoNode

\* The nodes from n on, in the order of the list.
RECURSIVE From(_)
From(n) == IF n = NoNode THEN <<>> ELSE <<n>> \o From(node[n].next)

\* The first node from n on that satisfies a condition, NoNode if none does.
FirstIn(nodes, OK(_)) ==
  IF \E i \in DOMAIN nodes : OK(nodes[i])
  THEN nodes[CHOOSE i \in DOMAIN nodes : OK(nodes[i]) /\ \A j \in 1..(i-1) : ~OK(nodes[j])]
  ELSE NoNode

Get(key) == FirstIn(From(entries), LAMBDA n : node[n].key = key)

\* The node after which n stands; the last one of the list if n is NoNode.
Prev(n) == FirstIn(From(entries), LAMBDA p : node[p].next = n)

\* Mutant: the new node is the last one.
MakeAfterCut(p, key, val) ==
  /\ Len(node) < MaxNodes
  /\ node' = Append([node EXCEPT ![p].next = Len(node) + 1], Node(key, val, NoNode))
  /\ UNCHANGED entries

MakeAfter(p, key, val) ==
  /\ Len(node) < MaxNodes
  /\ node' = Append([node EXCEPT ![p].next = Len(node) + 1], Node(key, val, node[p].next))
  /\ UNCHANGED entries

\* A new first node
PutFirst(key, val) ==
  /\ entries # NoNode => node[entries].key > key
  /\ Len(node) < MaxNodes
  /\ node' = Append(node, Node(key, val, entries))
  /\ entries' = Len(node) + 1
  /\ UNCHANGED <<cur, end>>

\* The loop starts behind the first node.  Mutant: it looks for the key only.
PutLaterUnordered(key, val) ==
  /\ entries # NoNode /\ node[entries].key <= key
  /\ LET c == FirstIn(From(node[entries].next), LAMBDA n : node[n].key = key)
     IN  IF c # NoNode
         THEN node' = [node EXCEPT ![c].val = val] /\ UNCHANGED entries
         ELSE MakeAfter(Prev(NoNode), key, val)
  /\ UNCHANGED <<cur, end>>
PutLater(key, val) ==
  /\ entries # NoNode /\ node[entries].key <= key
  /\ LET c == FirstIn(From(node[entries].next), LAMBDA n : node[n].key >= key)
     IN  IF c # NoNode /\ node[c].key = key
         THEN node' = [node EXCEPT ![c].val = val] /\ UNCHANGED entries
         ELSE MakeAfter(Prev(c), key, val)
  /\ UNCHANGED <<cur, end>>

\* An absent key is an error and changes nothing.
Delete(key) ==
  /\ Get(key) # NoNode
  /\ LET d == Get(key)
     IN  IF d = entries
         THEN entries' = node[d].next /\ UNCHANGED node
         ELSE node' = [node EXCEPT ![Prev(d)].next = node[d].next] /\ UNCHANGED entries
  /\ UNCHANGED <<cur, end>>

\* No node from start on, or none up to the end, is an error.
RangeScan(start, stop) ==
  LET first == FirstIn(From(entries), LAMBDA n : node[n].key >= start)
  IN  /\ first # NoNode /\ node[first].key <= stop
      /\ cur' = first
      /\ end' = FirstIn(From(first), LAMBDA n : node[n].key > stop)
      /\ UNCHANGED <<node, entries>>

\* Next of the iterator
IterNext ==
  /\ cur # NoNode /\ cur # end
  /\ cur' = node[cur].next
  /\ UNCHANGED <<node, entries, end>>

Next ==
  \/ \E k \in Keys, v \in Values : PutFirst(k, v)
  \/ \E k \in Keys, v \in Values : PutLater(k, v)
  \/ \E k \in Keys : Delete(k)
  \/ \E s, e \in Keys : RangeScan(s, e)
  \/ IterNext

Spec == Init /\ [][Next]_vars
-----------------------------------------------------------------------------
\* The list is in key order, and a key is held by at most two nodes: Put
\* does not look at the first node, so that the key of the first node may
\* get a second one, but never a third.
SortedTwice ==
  LET keys == [i \in DOMAIN From(entries) |-> node[From(entries)[i]].key]
  IN  /\ \A i, j \in DOMAIN keys : i < j => keys[i] <= keys[j]
      /\ \A k \in Keys : Cardinality({i \in DOMAIN keys : keys[i] = k}) <= 2

\* Put never changes what Get returns for another key, and after
\* it the key has the value given, except when it was the key of the first
\* node: then the first node, and what Get returns, stays as it was.
PutStep ==
  LET Val(k) == IF Get(k) = NoNode THEN {} ELSE {node[Get(k)].val}
  IN  \A k \in Keys, v \in Values :
        (PutFirst(k, v) \/ PutLater(k, v)) =>
          /\ \A x \in Keys \ {k} : Val(x)' = Val(x)
          /\ IF entries # NoNode /\ node[entries].key = k
             THEN Val(k)' = Val(k) ELSE Val(k)' = {v}

OneKeyAtATime == [][PutStep]_vars

\* An iterator only goes forward in key order, also from a node that was
\* deleted under it, so a scan ends.
IterStep == IterNext /\ cur' # NoNode => node[cur'].key >= node[cur].key

ScanAscends == [][IterStep]_vars
=============================================================================
