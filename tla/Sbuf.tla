-------------------------------- MODULE Sbuf --------------------------------
(***************************************************************************)
(* The bounded buffer of the prethreaded echo server                       *)
(* (csi/03-languages-and-compilers/04-threads-and-shared-memory/csapp/     *)
(* sbuf.c): a ring of n cells, two counters that only grow, a mutex and    *)
(* two counting semaphores.  Every semaphore operation and every access to *)
(* the ring is a step of its own.                                          *)
(***************************************************************************)
EXTENDS Integers, Sequences, FiniteSets

CONSTANTS
  Threads,
  Items,       \* what is put: descriptors of connections
  NoItem,      \* not an item
  N            \* the number of cells

ASSUME SbufAssumption ==
  /\ IsFiniteSet(Threads)
  /\ NoItem \notin Items
  /\ N \in Nat \ {0}

VARIABLES
  buf,
  front, rear,           \* ints that only grow; fewer than 2^31 insertions
  mutex, slots, items,   \* semaphores
  at,                    \* where each thread is in sbuf_insert or sbuf_remove
  item,                  \* their argument or result
  idx                    \* the counter a thread has read and not stored yet

ringVars == <<buf, front, rear>>
sbufVars == <<ringVars, mutex, slots, items, at, item, idx>>

\* A thread waits at a location named after the operation it does next.
InsertPcs == {"ins_P_slots", "ins_P_mutex", "ins_load", "ins_store", "ins_V_mutex", "ins_V_items"}
RemovePcs == {"rem_P_items", "rem_P_mutex", "rem_load", "rem_store", "rem_V_mutex", "rem_V_slots"}

SbufTypeOK ==
  /\ buf \in [0..(N-1) -> Items \cup {NoItem}]
  /\ front \in Nat /\ rear \in Nat
  /\ mutex \in {0, 1}
  /\ slots \in 0..N /\ items \in 0..N
  /\ at \in [Threads -> {"out"} \cup InsertPcs \cup RemovePcs]
  /\ item \in [Threads -> Items \cup {NoItem}]
  /\ idx \in [Threads -> Nat]

\* sbuf_init
SbufInit ==
  /\ buf = [i \in 0..(N-1) |-> NoItem]
  /\ front = 0 /\ rear = 0
  /\ mutex = 1 /\ slots = N /\ items = 0
  /\ at = [t \in Threads |-> "out"]
  /\ item = [t \in Threads |-> NoItem]
  /\ idx = [t \in Threads |-> 0]
-----------------------------------------------------------------------------
Move(t, from, to) == at[t] = from /\ at' = [at EXCEPT ![t] = to]

\* P and V of csapp.c
P(s) == s > 0 /\ s' = s - 1
V(s) == s' = s + 1

\* sbuf_insert
Insert(t, x) ==
  /\ Move(t, "out", "ins_P_slots")
  /\ item' = [item EXCEPT ![t] = x]
  /\ UNCHANGED <<ringVars, mutex, slots, items, idx>>
InsPSlotsNever(t) ==
  /\ Move(t, "ins_P_slots", "ins_P_mutex")
  /\ UNCHANGED <<ringVars, mutex, slots, items, item, idx>>
InsPSlots(t) ==
  /\ Move(t, "ins_P_slots", "ins_P_mutex")
  /\ P(slots)
  /\ UNCHANGED <<ringVars, mutex, items, item, idx>>
InsPMutex(t) ==
  /\ Move(t, "ins_P_mutex", "ins_load")
  /\ P(mutex)
  /\ UNCHANGED <<ringVars, slots, items, item, idx>>
\* ++rear and the store into the ring; the mutex makes them one unit.
InsLoad(t) ==
  /\ Move(t, "ins_load", "ins_store")
  /\ idx' = [idx EXCEPT ![t] = rear + 1]
  /\ UNCHANGED <<ringVars, mutex, slots, items, item>>
InsStore(t) ==
  /\ Move(t, "ins_store", "ins_V_mutex")
  /\ rear' = idx[t]
  /\ buf' = [buf EXCEPT ![idx[t] % N] = item[t]]
  /\ idx' = [idx EXCEPT ![t] = 0]
  /\ item' = [item EXCEPT ![t] = NoItem]
  /\ UNCHANGED <<front, mutex, slots, items>>
InsVMutex(t) ==
  /\ Move(t, "ins_V_mutex", "ins_V_items")
  /\ V(mutex)
  /\ UNCHANGED <<ringVars, slots, items, item, idx>>
InsVItemsNever(t) ==
  /\ Move(t, "ins_V_items", "out")
  /\ UNCHANGED <<ringVars, mutex, slots, items, item, idx>>
InsVItems(t) ==
  /\ Move(t, "ins_V_items", "out")
  /\ V(items)
  /\ UNCHANGED <<ringVars, mutex, slots, item, idx>>

\* sbuf_remove
Remove(t) ==
  /\ Move(t, "out", "rem_P_items")
  /\ UNCHANGED <<ringVars, mutex, slots, items, item, idx>>
RemPItems(t) ==
  /\ Move(t, "rem_P_items", "rem_P_mutex")
  /\ P(items)
  /\ UNCHANGED <<ringVars, mutex, slots, item, idx>>
RemPMutexNever(t) ==
  /\ Move(t, "rem_P_mutex", "rem_load")
  /\ UNCHANGED <<ringVars, mutex, slots, items, item, idx>>
RemPMutex(t) ==
  /\ Move(t, "rem_P_mutex", "rem_load")
  /\ P(mutex)
  /\ UNCHANGED <<ringVars, slots, items, item, idx>>
RemLoad(t) ==
  /\ Move(t, "rem_load", "rem_store")
  /\ idx' = [idx EXCEPT ![t] = front + 1]
  /\ UNCHANGED <<ringVars, mutex, slots, items, item>>
RemStore(t) ==
  /\ Move(t, "rem_store", "rem_V_mutex")
  /\ front' = idx[t]
  /\ item' = [item EXCEPT ![t] = buf[idx[t] % N]]
  /\ idx' = [idx EXCEPT ![t] = 0]
  /\ UNCHANGED <<buf, rear, mutex, slots, items>>
RemVMutex(t) ==
  /\ Move(t, "rem_V_mutex", "rem_V_slots")
  /\ V(mutex)
  /\ UNCHANGED <<ringVars, slots, items, item, idx>>
RemVSlots(t) ==
  /\ Move(t, "rem_V_slots", "out")
  /\ V(slots)
  /\ item' = [item EXCEPT ![t] = NoItem]
  /\ UNCHANGED <<ringVars, mutex, items, idx>>

InsertStep(t) ==
  InsPSlots(t) \/ InsPMutex(t) \/ InsLoad(t) \/ InsStore(t) \/ InsVMutex(t) \/ InsVItems(t)
RemoveStep(t) ==
  RemPItems(t) \/ RemPMutex(t) \/ RemLoad(t) \/ RemStore(t) \/ RemVMutex(t) \/ RemVSlots(t)

SbufNext ==
  \E t \in Threads :
    \/ \E x \in Items : Insert(t, x)
    \/ Remove(t)
    \/ InsertStep(t)
    \/ RemoveStep(t)

SbufSpec == SbufInit /\ [][SbufNext]_sbufVars
-----------------------------------------------------------------------------
(* Properties.                                                             *)

\* "buf[(front+1)%n] is first item", "buf[rear%n] is last item" (sbuf.h:10).
Waiting == [k \in 1..(rear - front) |-> buf[(front + k) % N]]

\* The semaphores bound the counters: no insertion overwrites an item that
\* waits, no removal reads a cell that holds none.
RingBounded == 0 <= rear - front /\ rear - front <= N

Queue == INSTANCE BoundedQueue WITH
  queue <- Waiting,
  giving <- [t \in Threads |->
    IF at[t] \in {"ins_P_slots", "ins_P_mutex", "ins_load", "ins_store"} THEN item[t] ELSE NoItem],
  taken <- [t \in Threads |->
    IF at[t] \in {"rem_V_mutex", "rem_V_slots"} THEN item[t] ELSE NoItem]

\* "bounded, shared FIFO buffer" (sbuf.c:5): the ring, the counters and the
\* three semaphores implement a bounded queue.  An item is put at the store
\* of rear and taken at the store of front.
ImplementsQueue == Queue!QueueSpec
=============================================================================
