---------------------------- MODULE BoundedQueue ----------------------------
(***************************************************************************)
(* What a bounded FIFO buffer promises: items are taken in the order in    *)
(* which they were put, each once, and never more than N wait.             *)
(***************************************************************************)
EXTENDS Naturals, Sequences

CONSTANTS Threads, Items, NoItem, N

VARIABLES
  queue,    \* the items that wait, first one first
  giving,   \* the item each thread is putting
  taken     \* the item each thread has taken and not returned yet

queueVars == <<queue, giving, taken>>

QueueInit ==
  /\ queue = <<>>
  /\ giving = [t \in Threads |-> NoItem]
  /\ taken = [t \in Threads |-> NoItem]

Offer(t) ==
  /\ giving[t] = NoItem
  /\ \E x \in Items : giving' = [giving EXCEPT ![t] = x]
  /\ UNCHANGED <<queue, taken>>

Put(t) ==
  /\ giving[t] # NoItem
  /\ Len(queue) < N
  /\ queue' = Append(queue, giving[t])
  /\ giving' = [giving EXCEPT ![t] = NoItem]
  /\ UNCHANGED taken

Take(t) ==
  /\ taken[t] = NoItem
  /\ queue # <<>>
  /\ taken' = [taken EXCEPT ![t] = Head(queue)]
  /\ queue' = Tail(queue)
  /\ UNCHANGED giving

Deliver(t) ==
  /\ taken[t] # NoItem
  /\ taken' = [taken EXCEPT ![t] = NoItem]
  /\ UNCHANGED <<queue, giving>>

QueueNext == \E t \in Threads : Offer(t) \/ Put(t) \/ Take(t) \/ Deliver(t)

QueueSpec == QueueInit /\ [][QueueNext]_queueVars
=============================================================================
