-------------------------- MODULE EchoServerProofs --------------------------
(***************************************************************************)
(* The bounded buffer implements a bounded FIFO queue, by itself and as    *)
(* the echo server uses it, for any number of threads and cells. In the    *)
(* server each descriptor has one holder, lines go back to their sender,   *)
(* no update of byte_cnt is lost, and N + the number of workers            *)
(* descriptors are always enough, for any number of each.                  *)
(***************************************************************************)
EXTENDS EchoServer, FiniteSetTheorems, NatLemmas
USE SMTT(60), ZenonT(60), Z3T(60)

\* Threads between P(mutex) and V(mutex).
InMutex ==
  {t \in Threads : at[t] \in {"ins_load", "ins_store", "ins_V_mutex",
                              "rem_load", "rem_store", "rem_V_mutex"}}
\* Threads that have taken a slot and not filled it, or filled it and not
\* announced the item; and the same for removals.
SlotTaken == {t \in Threads : at[t] \in {"ins_P_mutex", "ins_load", "ins_store"}}
ItemSoon == {t \in Threads : at[t] \in {"ins_V_mutex", "ins_V_items"}}
ItemTaken == {t \in Threads : at[t] \in {"rem_P_mutex", "rem_load", "rem_store"}}
SlotSoon == {t \in Threads : at[t] \in {"rem_V_mutex", "rem_V_slots"}}
\* Threads whose item is still to be inserted.
Giving == {t \in Threads : at[t] \in {"ins_P_slots", "ins_P_mutex", "ins_load", "ins_store"}}

Types ==
  /\ buf \in [0..(N-1) -> Items \cup {NoItem}]
  /\ front \in Nat /\ rear \in Nat
  /\ mutex \in {0, 1}
  /\ slots \in Nat /\ items \in Nat
  /\ at \in [Threads -> {"out"} \cup InsertPcs \cup RemovePcs]
  /\ item \in [Threads -> Items \cup {NoItem}]
  /\ idx \in [Threads -> Nat]
MutexHeld ==
  /\ \A t, u \in InMutex : t = u
  /\ InMutex # {} => mutex = 0
IdxRight ==
  \A t \in Threads :
    /\ at[t] = "ins_store" => idx[t] = rear + 1
    /\ at[t] = "rem_store" => idx[t] = front + 1
\* What the semaphores count.
ItemsRight == rear - front = items + Cardinality(ItemSoon) + Cardinality(ItemTaken)
SlotsRight == N - (rear - front) = slots + Cardinality(SlotTaken) + Cardinality(SlotSoon)
\* Where items are.
ItemsThere ==
  /\ \A t \in Threads : item[t] # NoItem <=> t \in Giving \cup SlotSoon
  /\ \A k \in 1..(rear - front) : buf[(front + k) % N] \in Items

SInv == Types /\ MutexHeld /\ IdxRight /\ ItemsRight /\ SlotsRight /\ ItemsThere
-----------------------------------------------------------------------------
\* Sizes of sets of threads are natural numbers.
LEMMA SizeType ==
  ASSUME NEW S, S \subseteq Threads
  PROVE  IsFiniteSet(S) /\ Cardinality(S) \in Nat
<1>1. IsFiniteSet(S)
  BY SbufAssumption, FS_Subset
<1>. QED  BY <1>1, FS_CardinalityType

\* A thread joins a set of threads.
LEMMA SizeAdd ==
  ASSUME NEW S, S \subseteq Threads, NEW t \in Threads, t \notin S
  PROVE  Cardinality(S \cup {t}) = Cardinality(S) + 1
BY SizeType, FS_AddElement
\* A thread leaves one.
LEMMA SizeRemove ==
  ASSUME NEW S, S \subseteq Threads, NEW t \in S
  PROVE  Cardinality(S \ {t}) = Cardinality(S) - 1 /\ Cardinality(S) >= 1
<1>1. IsFiniteSet(S) /\ Cardinality(S) \in Nat /\ IsFiniteSet(S \ {t}) /\ Cardinality(S \ {t}) \in Nat
  <2>1. S \ {t} \subseteq Threads
    OBVIOUS
  <2>. QED  BY <2>1, SizeType
<1>2. Cardinality(S \ {t}) = Cardinality(S) - 1
  BY <1>1, FS_RemoveElement
<1>. QED  BY <1>1, <1>2

\* The sets are sets of threads.
LEMMA SetsOfThreads ==
  /\ SlotTaken \subseteq Threads /\ ItemSoon \subseteq Threads
  /\ ItemTaken \subseteq Threads /\ SlotSoon \subseteq Threads
  /\ Cardinality(SlotTaken) \in Nat /\ Cardinality(ItemSoon) \in Nat
  /\ Cardinality(ItemTaken) \in Nat /\ Cardinality(SlotSoon) \in Nat
<1>1. /\ SlotTaken \subseteq Threads /\ ItemSoon \subseteq Threads
      /\ ItemTaken \subseteq Threads /\ SlotSoon \subseteq Threads
  BY DEF SlotTaken, ItemSoon, ItemTaken, SlotSoon
<1>. QED  BY <1>1, SizeType

\* The semaphores keep the ring within its bounds.
LEMMA Bounds ==
  ASSUME SInv
  PROVE  /\ rear - front \in 0..N
         /\ slots \in 0..N /\ items \in 0..N
         /\ SlotTaken # {} => rear - front < N
         /\ ItemTaken # {} => rear - front > 0
<1>. USE SetsOfThreads, SbufAssumption DEF SInv, Types, ItemsRight, SlotsRight
<1>1. rear - front \in 0..N /\ slots \in 0..N /\ items \in 0..N
  OBVIOUS
<1>2. ASSUME SlotTaken # {} PROVE rear - front < N
  <2>1. PICK t \in SlotTaken : TRUE
    BY <1>2
  <2>2. Cardinality(SlotTaken) >= 1
    BY <2>1, SizeRemove, ZenonT(60)
  <2>. QED  BY <2>2
<1>3. ASSUME ItemTaken # {} PROVE rear - front > 0
  <2>1. PICK t \in ItemTaken : TRUE
    BY <1>3
  <2>2. Cardinality(ItemTaken) >= 1
    BY <2>1, SizeRemove, ZenonT(60)
  <2>. QED  BY <2>2
<1>. QED  BY <1>1, <1>2, <1>3

\* The buffer as sbuf_init leaves it.
LEMMA SbufInitInv == SbufInit => SInv
<1>. SUFFICES ASSUME SbufInit PROVE SInv
  OBVIOUS
<1>. USE SbufAssumption DEF SbufInit
<1>1. SlotTaken = {} /\ ItemSoon = {} /\ ItemTaken = {} /\ SlotSoon = {} /\ InMutex = {} /\ Giving = {}
  BY DEF SlotTaken, ItemSoon, ItemTaken, SlotSoon, InMutex, Giving
<1>2. Types
  BY DEF Types
<1>3. MutexHeld /\ IdxRight
  BY <1>1 DEF MutexHeld, IdxRight
<1>4. ItemsRight /\ SlotsRight
  BY <1>1, FS_EmptySet DEF ItemsRight, SlotsRight
<1>5. ItemsThere
  BY <1>1 DEF ItemsThere
<1>. QED  BY <1>2, <1>3, <1>4, <1>5 DEF SInv
-----------------------------------------------------------------------------
(* One lemma per step.  Each says how the sets of threads change, and      *)
(* then why every conjunct still holds.                                    *)

\* A thread enters sbuf_insert.
LEMMA InsertKeeps ==
  ASSUME SInv, NEW t \in Threads, NEW x \in Items, Insert(t, x)
  PROVE  SInv'
<1>. USE SbufAssumption DEF Insert, Move
<1>1. Types'
  BY DEF SInv, Types, InsertPcs, RemovePcs, ringVars
<1>2. /\ SlotTaken' = SlotTaken
      /\ ItemSoon' = ItemSoon
      /\ ItemTaken' = ItemTaken
      /\ SlotSoon' = SlotSoon
      /\ InMutex' = InMutex
      /\ Giving' = Giving \cup {t} /\ t \notin Giving
  BY DEF SInv, Types, SlotTaken, ItemSoon, ItemTaken, SlotSoon, InMutex, Giving
<1>3. MutexHeld'
  BY <1>2 DEF SInv, Types, MutexHeld, P, V, ringVars
<1>4. IdxRight'
  BY DEF SInv, Types, IdxRight, ringVars
<1>5. ItemsRight' /\ SlotsRight'
  BY <1>2 DEF SInv, ItemsRight, SlotsRight, ringVars
<1>6. ItemsThere'
  BY <1>2 DEF SInv, Types, ItemsThere, ringVars
<1>. QED  BY <1>1, <1>3, <1>4, <1>5, <1>6 DEF SInv

\* It takes a slot.
LEMMA InsPSlotsKeeps ==
  ASSUME SInv, NEW t \in Threads, InsPSlots(t)
  PROVE  SInv'
<1>. USE SbufAssumption DEF InsPSlots, Move
<1>1. Types'
  BY DEF SInv, Types, InsertPcs, RemovePcs, ringVars, P
<1>2. /\ SlotTaken' = SlotTaken \cup {t} /\ t \notin SlotTaken
      /\ ItemSoon' = ItemSoon
      /\ ItemTaken' = ItemTaken
      /\ SlotSoon' = SlotSoon
      /\ InMutex' = InMutex
      /\ Giving' = Giving
  BY DEF SInv, Types, SlotTaken, ItemSoon, ItemTaken, SlotSoon, InMutex, Giving
<1>3. MutexHeld'
  BY <1>2 DEF SInv, Types, MutexHeld, P, V, ringVars
<1>4. IdxRight'
  BY DEF SInv, Types, IdxRight, ringVars
<1>5. ItemsRight' /\ SlotsRight'
  <2>1. Cardinality(SlotTaken') = Cardinality(SlotTaken) + 1
    BY <1>2, SetsOfThreads, SizeAdd
  <2>. QED  BY <1>2, <2>1, SetsOfThreads DEF SInv, Types, ItemsRight, SlotsRight, P, V, ringVars
<1>6. ItemsThere'
  BY <1>2 DEF SInv, Types, ItemsThere, ringVars
<1>. QED  BY <1>1, <1>3, <1>4, <1>5, <1>6 DEF SInv

\* It locks the buffer.
LEMMA InsPMutexKeeps ==
  ASSUME SInv, NEW t \in Threads, InsPMutex(t)
  PROVE  SInv'
<1>. USE SbufAssumption DEF InsPMutex, Move
<1>1. Types'
  BY DEF SInv, Types, InsertPcs, RemovePcs, ringVars, P
<1>2. /\ SlotTaken' = SlotTaken
      /\ ItemSoon' = ItemSoon
      /\ ItemTaken' = ItemTaken
      /\ SlotSoon' = SlotSoon
      /\ InMutex' = InMutex \cup {t} /\ t \notin InMutex
      /\ Giving' = Giving
  BY DEF SInv, Types, SlotTaken, ItemSoon, ItemTaken, SlotSoon, InMutex, Giving
<1>3. MutexHeld'
  BY <1>2 DEF SInv, Types, MutexHeld, P, V, ringVars
<1>4. IdxRight'
  BY DEF SInv, Types, IdxRight, ringVars
<1>5. ItemsRight' /\ SlotsRight'
  BY <1>2 DEF SInv, ItemsRight, SlotsRight, ringVars
<1>6. ItemsThere'
  BY <1>2 DEF SInv, Types, ItemsThere, ringVars
<1>. QED  BY <1>1, <1>3, <1>4, <1>5, <1>6 DEF SInv

\* It reads rear.
LEMMA InsLoadKeeps ==
  ASSUME SInv, NEW t \in Threads, InsLoad(t)
  PROVE  SInv'
<1>. USE SbufAssumption DEF InsLoad, Move
<1>1. Types'
  BY DEF SInv, Types, InsertPcs, RemovePcs, ringVars
<1>2. /\ SlotTaken' = SlotTaken
      /\ ItemSoon' = ItemSoon
      /\ ItemTaken' = ItemTaken
      /\ SlotSoon' = SlotSoon
      /\ InMutex' = InMutex
      /\ Giving' = Giving
  BY DEF SInv, Types, SlotTaken, ItemSoon, ItemTaken, SlotSoon, InMutex, Giving
<1>3. MutexHeld'
  BY <1>2 DEF SInv, Types, MutexHeld, P, V, ringVars
<1>4. IdxRight'
  BY DEF SInv, Types, IdxRight, ringVars
<1>5. ItemsRight' /\ SlotsRight'
  BY <1>2 DEF SInv, ItemsRight, SlotsRight, ringVars
<1>6. ItemsThere'
  BY <1>2 DEF SInv, Types, ItemsThere, ringVars
<1>. QED  BY <1>1, <1>3, <1>4, <1>5, <1>6 DEF SInv

\* It stores rear and its item: the cell is none of those that wait.
LEMMA InsStoreKeeps ==
  ASSUME SInv, NEW t \in Threads, InsStore(t)
  PROVE  SInv'
<1>. USE SbufAssumption DEF InsStore, Move
<1>1. Types'
  BY ModRange, ZenonT(60) DEF SInv, Types, InsertPcs, RemovePcs, ringVars
<1>2. /\ SlotTaken' = SlotTaken \ {t} /\ t \in SlotTaken
      /\ ItemSoon' = ItemSoon \cup {t} /\ t \notin ItemSoon
      /\ ItemTaken' = ItemTaken
      /\ SlotSoon' = SlotSoon
      /\ InMutex' = InMutex
      /\ Giving' = Giving \ {t} /\ t \in Giving
  BY DEF SInv, Types, SlotTaken, ItemSoon, ItemTaken, SlotSoon, InMutex, Giving
<1>3. MutexHeld'
  BY <1>2 DEF SInv, Types, MutexHeld, P, V, ringVars
<1>4. IdxRight'
  <2>1. \A u \in Threads : at[u] \in {"ins_store", "rem_store"} => u = t
    BY DEF SInv, MutexHeld, InMutex
  <2>. QED  BY <2>1 DEF SInv, Types, IdxRight
<1>5. ItemsRight' /\ SlotsRight'
  <2>1. Cardinality(SlotTaken') = Cardinality(SlotTaken) - 1
    BY <1>2, SetsOfThreads, SizeRemove
  <2>2. Cardinality(ItemSoon') = Cardinality(ItemSoon) + 1
    BY <1>2, SetsOfThreads, SizeAdd
  <2>3. rear' = rear + 1 /\ front' = front /\ rear \in Nat /\ front \in Nat /\ slots' = slots /\ items' = items
    BY DEF SInv, Types, IdxRight
  <2>4. slots \in Nat /\ items \in Nat /\ N \in Nat
    BY DEF SInv, Types
  <2>5. /\ rear - front = items + Cardinality(ItemSoon) + Cardinality(ItemTaken)
       /\ N - (rear - front) = slots + Cardinality(SlotTaken) + Cardinality(SlotSoon)
    BY DEF SInv, ItemsRight, SlotsRight
  <2>. HIDE DEF InsStore
  <2>6. ItemsRight'
    BY <1>2, <2>1, <2>2, <2>3, <2>4, <2>5, SetsOfThreads DEF ItemsRight
  <2>7. SlotsRight'
    BY <1>2, <2>1, <2>2, <2>3, <2>4, <2>5, SetsOfThreads DEF SlotsRight
  <2>. QED  BY <2>6, <2>7
<1>6. ItemsThere'
  <2>1. item[t] \in Items /\ rear' = rear + 1 /\ front' = front
    BY <1>2 DEF SInv, Types, ItemsThere, IdxRight
  <2>2. \A u \in Threads : (item[u] # NoItem)' <=> u \in (Giving \cup SlotSoon)'
    BY <1>2 DEF SInv, Types, ItemsThere, Giving, SlotSoon
  <2>3. rear - front \in Nat /\ rear - front < N
    BY <1>2, Bounds
  <2>4. ASSUME NEW k \in 1..((rear + 1) - front) PROVE buf'[(front + k) % N] \in Items
    <3>1. k \in Nat /\ front + k \in Nat /\ rear + 1 \in Nat /\ rear \in Nat /\ front \in Nat
      BY DEF SInv, Types
    <3>2. (front + k) % N \in 0..(N-1) /\ (rear + 1) % N \in 0..(N-1)
      BY <3>1, ModRange
    <3>3. buf' = [buf EXCEPT ![(rear + 1) % N] = item[t]]
      BY ZenonT(60) DEF SInv, IdxRight
    <3>4. CASE k = (rear + 1) - front
      BY <2>1, <3>1, <3>2, <3>3, <3>4 DEF SInv, Types
    <3>5. CASE k # (rear + 1) - front
      <4>1. k \in 1..(rear - front) /\ front + k < rear + 1 /\ (rear + 1) - (front + k) < N
        BY <2>3, <3>1, <3>5
      <4>2. (front + k) % N # (rear + 1) % N
        BY <3>1, <4>1, ModDistinct, ZenonT(60)
      <4>. QED  BY <3>2, <3>3, <4>1, <4>2, ZenonT(60) DEF SInv, Types, ItemsThere
    <3>. QED  BY <3>4, <3>5
  <2>5. \A k \in 1..(rear' - front') : buf'[(front' + k) % N] \in Items
    <3>. HIDE DEF InsStore
    <3>1. rear' - front' = (rear + 1) - front
      BY <2>1
    <3>. QED  BY <2>1, <2>4, <3>1
  <2>. QED  BY <2>2, <2>5 DEF ItemsThere
<1>. QED  BY <1>1, <1>3, <1>4, <1>5, <1>6 DEF SInv

\* It unlocks the buffer.
LEMMA InsVMutexKeeps ==
  ASSUME SInv, NEW t \in Threads, InsVMutex(t)
  PROVE  SInv'
<1>. USE SbufAssumption DEF InsVMutex, Move
<1>1. Types'
  BY DEF SInv, Types, InsertPcs, RemovePcs, ringVars, V, MutexHeld, InMutex
<1>2. /\ SlotTaken' = SlotTaken
      /\ ItemSoon' = ItemSoon
      /\ ItemTaken' = ItemTaken
      /\ SlotSoon' = SlotSoon
      /\ InMutex' = InMutex \ {t} /\ t \in InMutex
      /\ Giving' = Giving
  BY DEF SInv, Types, SlotTaken, ItemSoon, ItemTaken, SlotSoon, InMutex, Giving
<1>3. MutexHeld'
  BY <1>2 DEF SInv, Types, MutexHeld, P, V, ringVars
<1>4. IdxRight'
  BY DEF SInv, Types, IdxRight, ringVars
<1>5. ItemsRight' /\ SlotsRight'
  BY <1>2 DEF SInv, ItemsRight, SlotsRight, ringVars
<1>6. ItemsThere'
  BY <1>2 DEF SInv, Types, ItemsThere, ringVars
<1>. QED  BY <1>1, <1>3, <1>4, <1>5, <1>6 DEF SInv

\* It announces its item.
LEMMA InsVItemsKeeps ==
  ASSUME SInv, NEW t \in Threads, InsVItems(t)
  PROVE  SInv'
<1>. USE SbufAssumption DEF InsVItems, Move
<1>1. Types'
  BY DEF SInv, Types, InsertPcs, RemovePcs, ringVars, V, MutexHeld, InMutex
<1>2. /\ SlotTaken' = SlotTaken
      /\ ItemSoon' = ItemSoon \ {t} /\ t \in ItemSoon
      /\ ItemTaken' = ItemTaken
      /\ SlotSoon' = SlotSoon
      /\ InMutex' = InMutex
      /\ Giving' = Giving
  BY DEF SInv, Types, SlotTaken, ItemSoon, ItemTaken, SlotSoon, InMutex, Giving
<1>3. MutexHeld'
  BY <1>2 DEF SInv, Types, MutexHeld, P, V, ringVars
<1>4. IdxRight'
  BY DEF SInv, Types, IdxRight, ringVars
<1>5. ItemsRight' /\ SlotsRight'
  <2>1. Cardinality(ItemSoon') = Cardinality(ItemSoon) - 1
    BY <1>2, SetsOfThreads, SizeRemove
  <2>. QED  BY <1>2, <2>1, SetsOfThreads DEF SInv, Types, ItemsRight, SlotsRight, P, V, ringVars
<1>6. ItemsThere'
  BY <1>2 DEF SInv, Types, ItemsThere, ringVars
<1>. QED  BY <1>1, <1>3, <1>4, <1>5, <1>6 DEF SInv

\* A thread enters sbuf_remove.
LEMMA RemoveKeeps ==
  ASSUME SInv, NEW t \in Threads, Remove(t)
  PROVE  SInv'
<1>. USE SbufAssumption DEF Remove, Move
<1>1. Types'
  BY DEF SInv, Types, InsertPcs, RemovePcs, ringVars
<1>2. /\ SlotTaken' = SlotTaken
      /\ ItemSoon' = ItemSoon
      /\ ItemTaken' = ItemTaken
      /\ SlotSoon' = SlotSoon
      /\ InMutex' = InMutex
      /\ Giving' = Giving
  BY DEF SInv, Types, SlotTaken, ItemSoon, ItemTaken, SlotSoon, InMutex, Giving
<1>3. MutexHeld'
  BY <1>2 DEF SInv, Types, MutexHeld, P, V, ringVars
<1>4. IdxRight'
  BY DEF SInv, Types, IdxRight, ringVars
<1>5. ItemsRight' /\ SlotsRight'
  BY <1>2 DEF SInv, ItemsRight, SlotsRight, ringVars
<1>6. ItemsThere'
  BY <1>2 DEF SInv, Types, ItemsThere, ringVars
<1>. QED  BY <1>1, <1>3, <1>4, <1>5, <1>6 DEF SInv

\* It takes an item.
LEMMA RemPItemsKeeps ==
  ASSUME SInv, NEW t \in Threads, RemPItems(t)
  PROVE  SInv'
<1>. USE SbufAssumption DEF RemPItems, Move
<1>1. Types'
  BY DEF SInv, Types, InsertPcs, RemovePcs, ringVars, P
<1>2. /\ SlotTaken' = SlotTaken
      /\ ItemSoon' = ItemSoon
      /\ ItemTaken' = ItemTaken \cup {t} /\ t \notin ItemTaken
      /\ SlotSoon' = SlotSoon
      /\ InMutex' = InMutex
      /\ Giving' = Giving
  BY DEF SInv, Types, SlotTaken, ItemSoon, ItemTaken, SlotSoon, InMutex, Giving
<1>3. MutexHeld'
  BY <1>2 DEF SInv, Types, MutexHeld, P, V, ringVars
<1>4. IdxRight'
  BY DEF SInv, Types, IdxRight, ringVars
<1>5. ItemsRight' /\ SlotsRight'
  <2>1. Cardinality(ItemTaken') = Cardinality(ItemTaken) + 1
    BY <1>2, SetsOfThreads, SizeAdd
  <2>. QED  BY <1>2, <2>1, SetsOfThreads DEF SInv, Types, ItemsRight, SlotsRight, P, V, ringVars
<1>6. ItemsThere'
  BY <1>2 DEF SInv, Types, ItemsThere, ringVars
<1>. QED  BY <1>1, <1>3, <1>4, <1>5, <1>6 DEF SInv

\* It locks the buffer.
LEMMA RemPMutexKeeps ==
  ASSUME SInv, NEW t \in Threads, RemPMutex(t)
  PROVE  SInv'
<1>. USE SbufAssumption DEF RemPMutex, Move
<1>1. Types'
  BY DEF SInv, Types, InsertPcs, RemovePcs, ringVars, P
<1>2. /\ SlotTaken' = SlotTaken
      /\ ItemSoon' = ItemSoon
      /\ ItemTaken' = ItemTaken
      /\ SlotSoon' = SlotSoon
      /\ InMutex' = InMutex \cup {t} /\ t \notin InMutex
      /\ Giving' = Giving
  BY DEF SInv, Types, SlotTaken, ItemSoon, ItemTaken, SlotSoon, InMutex, Giving
<1>3. MutexHeld'
  BY <1>2 DEF SInv, Types, MutexHeld, P, V, ringVars
<1>4. IdxRight'
  BY DEF SInv, Types, IdxRight, ringVars
<1>5. ItemsRight' /\ SlotsRight'
  BY <1>2 DEF SInv, ItemsRight, SlotsRight, ringVars
<1>6. ItemsThere'
  BY <1>2 DEF SInv, Types, ItemsThere, ringVars
<1>. QED  BY <1>1, <1>3, <1>4, <1>5, <1>6 DEF SInv

\* It reads front.
LEMMA RemLoadKeeps ==
  ASSUME SInv, NEW t \in Threads, RemLoad(t)
  PROVE  SInv'
<1>. USE SbufAssumption DEF RemLoad, Move
<1>1. Types'
  BY DEF SInv, Types, InsertPcs, RemovePcs, ringVars
<1>2. /\ SlotTaken' = SlotTaken
      /\ ItemSoon' = ItemSoon
      /\ ItemTaken' = ItemTaken
      /\ SlotSoon' = SlotSoon
      /\ InMutex' = InMutex
      /\ Giving' = Giving
  BY DEF SInv, Types, SlotTaken, ItemSoon, ItemTaken, SlotSoon, InMutex, Giving
<1>3. MutexHeld'
  BY <1>2 DEF SInv, Types, MutexHeld, P, V, ringVars
<1>4. IdxRight'
  BY DEF SInv, Types, IdxRight, ringVars
<1>5. ItemsRight' /\ SlotsRight'
  BY <1>2 DEF SInv, ItemsRight, SlotsRight, ringVars
<1>6. ItemsThere'
  BY <1>2 DEF SInv, Types, ItemsThere, ringVars
<1>. QED  BY <1>1, <1>3, <1>4, <1>5, <1>6 DEF SInv

\* It stores front and reads the cell, which holds an item.
LEMMA RemStoreKeeps ==
  ASSUME SInv, NEW t \in Threads, RemStore(t)
  PROVE  SInv'
<1>. USE SbufAssumption DEF RemStore, Move
<1>1. Types'
  BY ModRange, ZenonT(60) DEF SInv, Types, InsertPcs, RemovePcs, ringVars
<1>2. /\ SlotTaken' = SlotTaken
      /\ ItemSoon' = ItemSoon
      /\ ItemTaken' = ItemTaken \ {t} /\ t \in ItemTaken
      /\ SlotSoon' = SlotSoon \cup {t} /\ t \notin SlotSoon
      /\ InMutex' = InMutex
      /\ Giving' = Giving
  BY DEF SInv, Types, SlotTaken, ItemSoon, ItemTaken, SlotSoon, InMutex, Giving
<1>3. MutexHeld'
  BY <1>2 DEF SInv, Types, MutexHeld, P, V, ringVars
<1>4. IdxRight'
  <2>1. \A u \in Threads : at[u] \in {"ins_store", "rem_store"} => u = t
    BY DEF SInv, MutexHeld, InMutex
  <2>. QED  BY <2>1 DEF SInv, Types, IdxRight
<1>5. ItemsRight' /\ SlotsRight'
  <2>1. Cardinality(ItemTaken') = Cardinality(ItemTaken) - 1
    BY <1>2, SetsOfThreads, SizeRemove
  <2>2. Cardinality(SlotSoon') = Cardinality(SlotSoon) + 1
    BY <1>2, SetsOfThreads, SizeAdd
  <2>3. front' = front + 1 /\ rear' = rear /\ rear \in Nat /\ front \in Nat /\ slots' = slots /\ items' = items
    BY DEF SInv, Types, IdxRight
  <2>4. slots \in Nat /\ items \in Nat /\ N \in Nat
    BY DEF SInv, Types
  <2>5. /\ rear - front = items + Cardinality(ItemSoon) + Cardinality(ItemTaken)
       /\ N - (rear - front) = slots + Cardinality(SlotTaken) + Cardinality(SlotSoon)
    BY DEF SInv, ItemsRight, SlotsRight
  <2>. HIDE DEF RemStore
  <2>6. ItemsRight'
    BY <1>2, <2>1, <2>2, <2>3, <2>4, <2>5, SetsOfThreads DEF ItemsRight
  <2>7. SlotsRight'
    BY <1>2, <2>1, <2>2, <2>3, <2>4, <2>5, SetsOfThreads DEF SlotsRight
  <2>. QED  BY <2>6, <2>7
<1>6. ItemsThere'
  <2>1. front' = front + 1 /\ rear' = rear /\ front \in Nat /\ rear \in Nat
    BY DEF SInv, Types, IdxRight
  <2>2. rear - front > 0
    BY <1>2, Bounds
  <2>3. item' = [item EXCEPT ![t] = buf[(front + 1) % N]] /\ buf[(front + 1) % N] \in Items
    BY <2>1, <2>2 DEF SInv, IdxRight, ItemsThere
  <2>4. \A u \in Threads : (item[u] # NoItem)' <=> u \in (Giving \cup SlotSoon)'
    BY <1>2, <2>3 DEF SInv, Types, ItemsThere
  <2>5. ASSUME NEW k \in 1..(rear' - front') PROVE buf'[(front' + k) % N] \in Items
    <3>1. k + 1 \in 1..(rear - front) /\ front' + k = front + (k + 1)
      BY <2>1
    <3>. QED  BY <3>1 DEF SInv, ItemsThere
  <2>. QED  BY <2>4, <2>5 DEF ItemsThere
<1>. QED  BY <1>1, <1>3, <1>4, <1>5, <1>6 DEF SInv

\* It unlocks the buffer.
LEMMA RemVMutexKeeps ==
  ASSUME SInv, NEW t \in Threads, RemVMutex(t)
  PROVE  SInv'
<1>. USE SbufAssumption DEF RemVMutex, Move
<1>1. Types'
  BY DEF SInv, Types, InsertPcs, RemovePcs, ringVars, V, MutexHeld, InMutex
<1>2. /\ SlotTaken' = SlotTaken
      /\ ItemSoon' = ItemSoon
      /\ ItemTaken' = ItemTaken
      /\ SlotSoon' = SlotSoon
      /\ InMutex' = InMutex \ {t} /\ t \in InMutex
      /\ Giving' = Giving
  BY DEF SInv, Types, SlotTaken, ItemSoon, ItemTaken, SlotSoon, InMutex, Giving
<1>3. MutexHeld'
  BY <1>2 DEF SInv, Types, MutexHeld, P, V, ringVars
<1>4. IdxRight'
  BY DEF SInv, Types, IdxRight, ringVars
<1>5. ItemsRight' /\ SlotsRight'
  BY <1>2 DEF SInv, ItemsRight, SlotsRight, ringVars
<1>6. ItemsThere'
  BY <1>2 DEF SInv, Types, ItemsThere, ringVars
<1>. QED  BY <1>1, <1>3, <1>4, <1>5, <1>6 DEF SInv

\* It announces its slot.
LEMMA RemVSlotsKeeps ==
  ASSUME SInv, NEW t \in Threads, RemVSlots(t)
  PROVE  SInv'
<1>. USE SbufAssumption DEF RemVSlots, Move
<1>1. Types'
  BY DEF SInv, Types, InsertPcs, RemovePcs, ringVars, V, MutexHeld, InMutex
<1>2. /\ SlotTaken' = SlotTaken
      /\ ItemSoon' = ItemSoon
      /\ ItemTaken' = ItemTaken
      /\ SlotSoon' = SlotSoon \ {t} /\ t \in SlotSoon
      /\ InMutex' = InMutex
      /\ Giving' = Giving
  BY DEF SInv, Types, SlotTaken, ItemSoon, ItemTaken, SlotSoon, InMutex, Giving
<1>3. MutexHeld'
  BY <1>2 DEF SInv, Types, MutexHeld, P, V, ringVars
<1>4. IdxRight'
  BY DEF SInv, Types, IdxRight, ringVars
<1>5. ItemsRight' /\ SlotsRight'
  <2>1. Cardinality(SlotSoon') = Cardinality(SlotSoon) - 1
    BY <1>2, SetsOfThreads, SizeRemove
  <2>. QED  BY <1>2, <2>1, SetsOfThreads DEF SInv, Types, ItemsRight, SlotsRight, P, V, ringVars
<1>6. ItemsThere'
  <2>1. t \notin Giving
    BY DEF Giving
  <2>. QED  BY <1>2, <2>1 DEF SInv, Types, ItemsThere, ringVars
<1>. QED  BY <1>1, <1>3, <1>4, <1>5, <1>6 DEF SInv
-----------------------------------------------------------------------------
\* Every step of every thread preserves the invariant.
LEMMA NextKeeps == SInv /\ [SbufNext]_sbufVars => SInv'
<1>. SUFFICES ASSUME SInv, [SbufNext]_sbufVars PROVE SInv'
  OBVIOUS
<1>1. CASE UNCHANGED sbufVars
  BY <1>1 DEF sbufVars, ringVars, SInv, Types, MutexHeld, IdxRight, ItemsRight, SlotsRight, ItemsThere,
       InMutex, SlotTaken, ItemSoon, ItemTaken, SlotSoon, Giving
<1>2. ASSUME NEW t \in Threads, NEW x \in Items, Insert(t, x) PROVE SInv'
  BY <1>2, InsertKeeps
<1>3. ASSUME NEW t \in Threads, Remove(t) PROVE SInv'
  BY <1>3, RemoveKeeps
<1>4. ASSUME NEW t \in Threads, InsertStep(t) PROVE SInv'
  BY <1>4, InsPSlotsKeeps, InsPMutexKeeps, InsLoadKeeps, InsStoreKeeps, InsVMutexKeeps, InsVItemsKeeps
     DEF InsertStep
<1>5. ASSUME NEW t \in Threads, RemoveStep(t) PROVE SInv'
  BY <1>5, RemPItemsKeeps, RemPMutexKeeps, RemLoadKeeps, RemStoreKeeps, RemVMutexKeeps, RemVSlotsKeeps
     DEF RemoveStep
<1>. QED  BY <1>1, <1>2, <1>3, <1>4, <1>5 DEF SbufNext

\* The counters count.
LEMMA Invariant == SbufSpec => []SInv
BY SbufInitInv, NextKeeps, PTL DEF SbufSpec

\* The buffer keeps its types; the semaphores slots and items stay within
\* 0..n and the mutex stays binary.
THEOREM SbufTypeCorrect == SbufSpec => []SbufTypeOK
<1>1. SInv => SbufTypeOK
  BY Bounds DEF SInv, Types, SbufTypeOK
<1>. QED  BY <1>1, Invariant, PTL

\* At most n items wait, and never fewer than none.
THEOREM RingStaysBounded == SbufSpec => []RingBounded
<1>1. SInv => RingBounded
  BY Bounds DEF SInv, Types, RingBounded
<1>. QED  BY <1>1, Invariant, PTL
-----------------------------------------------------------------------------
(* Refinement.                                                             *)

Gives == [t \in Threads |->
  IF at[t] \in {"ins_P_slots", "ins_P_mutex", "ins_load", "ins_store"} THEN item[t] ELSE NoItem]
Takes == [t \in Threads |->
  IF at[t] \in {"rem_V_mutex", "rem_V_slots"} THEN item[t] ELSE NoItem]

\* The store of rear appends the item to those that wait.
LEMMA InsStorePuts ==
  ASSUME SInv, NEW t \in Threads, InsStore(t)
  PROVE  Waiting' = Append(Waiting, item[t]) /\ Len(Waiting) < N
<1>1. /\ rear \in Nat /\ front \in Nat /\ N \in Nat \ {0}
      /\ buf \in [0..(N-1) -> Items \cup {NoItem}]
      /\ rear' = rear + 1 /\ front' = front
      /\ buf' = [buf EXCEPT ![(rear + 1) % N] = item[t]]
  BY SbufAssumption, ZenonT(60) DEF SInv, Types, IdxRight, InsStore, Move
<1>2. rear - front \in Nat /\ rear - front < N
  <2>1. t \in SlotTaken
    BY DEF SlotTaken, InsStore, Move
  <2>. QED  BY <2>1, Bounds
<1>. DEFINE n == rear - front
<1>3. Waiting' = [k \in 1..(n + 1) |-> buf'[(front + k) % N]]
  <2>1. rear' - front' = n + 1
    BY <1>1
  <2>. QED  BY <1>1, <2>1 DEF Waiting
<1>4. ASSUME NEW k \in 1..n PROVE buf'[(front + k) % N] = buf[(front + k) % N]
  <2>1. front + k \in Nat /\ rear + 1 \in Nat /\ front + k < rear + 1 /\ (rear + 1) - (front + k) < N
    BY <1>1, <1>2
  <2>2. (front + k) % N # (rear + 1) % N
    BY <1>1, <2>1, ModDistinct, ZenonT(60)
  <2>3. (front + k) % N \in 0..(N-1)
    BY <1>1, <2>1, ModRange
  <2>. QED  BY <1>1, <2>2, <2>3
<1>5. buf'[(front + (n + 1)) % N] = item[t]
  <2>1. front + (n + 1) = rear + 1 /\ rear + 1 \in Nat
    BY <1>1
  <2>2. (rear + 1) % N \in 0..(N-1)
    BY <1>1, <2>1, ModRange
  <2>. QED  BY <1>1, <2>1, <2>2
<1>6. Waiting = [k \in 1..n |-> buf[(front + k) % N]]
  BY DEF Waiting
<1>. HIDE DEF n
<1>7. n \in Nat /\ n < N
  BY <1>2 DEF n
<1>8. Len(Waiting) = n
  BY <1>6, <1>7
<1>9. Waiting' = Append(Waiting, item[t])
  BY <1>3, <1>4, <1>5, <1>6, <1>7
<1>. QED  BY <1>7, <1>8, <1>9

\* The store of front takes the first of those that wait.
LEMMA RemStoreTakes ==
  ASSUME SInv, NEW t \in Threads, RemStore(t)
  PROVE  /\ Waiting # <<>>
         /\ Waiting' = Tail(Waiting)
         /\ item' = [item EXCEPT ![t] = Head(Waiting)]
         /\ Head(Waiting) \in Items
<1>1. /\ rear \in Nat /\ front \in Nat /\ N \in Nat \ {0}
      /\ front' = front + 1 /\ rear' = rear /\ buf' = buf
      /\ item' = [item EXCEPT ![t] = buf[(front + 1) % N]]
  BY SbufAssumption, ZenonT(60) DEF SInv, Types, IdxRight, RemStore, Move
<1>2. rear - front \in Nat /\ rear - front > 0
  <2>1. t \in ItemTaken
    BY DEF ItemTaken, RemStore, Move
  <2>. QED  BY <2>1, Bounds
<1>. DEFINE n == rear - front
<1>3. \A k \in 1..n : buf[(front + k) % N] \in Items
  BY DEF SInv, ItemsThere
<1>4. Waiting' = [k \in 1..(n - 1) |-> buf[(front + (k + 1)) % N]]
  <2>1. rear' - front' = n - 1
    BY <1>1
  <2>2. \A k \in 1..(n - 1) : front' + k = front + (k + 1)
    BY <1>1
  <2>. QED  BY <1>1, <2>1, <2>2 DEF Waiting
<1>5. Waiting = [k \in 1..n |-> buf[(front + k) % N]]
  BY DEF Waiting
<1>. HIDE DEF n
<1>6. n \in Nat /\ n > 0
  BY <1>2 DEF n
<1>7. Waiting \in Seq(Items) /\ Len(Waiting) = n
  BY <1>3, <1>5, <1>6
<1>8. Waiting # <<>> /\ Head(Waiting) = buf[(front + 1) % N]
  BY <1>5, <1>6, <1>7
<1>9. Waiting' = Tail(Waiting)
  BY <1>4, <1>5, <1>6, <1>7
<1>10. Head(Waiting) \in Items
  BY <1>3, <1>6, <1>8
<1>. QED  BY <1>1, <1>8, <1>9, <1>10, ZenonT(60)

\* A step that moves no item is invisible.
LEMMA InvisibleStep ==
  ASSUME SInv, NEW t \in Threads,
         \/ InsPSlots(t) \/ InsPMutex(t) \/ InsLoad(t) \/ InsVMutex(t) \/ InsVItems(t)
         \/ Remove(t) \/ RemPItems(t) \/ RemPMutex(t) \/ RemLoad(t) \/ RemVMutex(t)
  PROVE  Waiting' = Waiting /\ Gives' = Gives /\ Takes' = Takes
<1>1. buf' = buf /\ front' = front /\ rear' = rear /\ item' = item
  BY DEF InsPSlots, InsPMutex, InsLoad, InsVMutex, InsVItems,
         Remove, RemPItems, RemPMutex, RemLoad, RemVMutex, ringVars
<1>2. at \in [Threads -> {"out"} \cup InsertPcs \cup RemovePcs]
  BY DEF SInv, Types
<1>3. Gives' = Gives
  BY <1>1, <1>2 DEF Gives, Move, InsPSlots, InsPMutex, InsLoad, InsVMutex, InsVItems,
         Remove, RemPItems, RemPMutex, RemLoad, RemVMutex
<1>4. Takes' = Takes
  BY <1>1, <1>2 DEF Takes, Move, InsPSlots, InsPMutex, InsLoad, InsVMutex, InsVItems,
         Remove, RemPItems, RemPMutex, RemLoad, RemVMutex
<1>5. Waiting' = Waiting
  BY <1>1 DEF Waiting
<1>. QED  BY <1>3, <1>4, <1>5

\* The four visible steps: the call of sbuf_insert, the two stores, the
\* return of sbuf_remove.
LEMMA VisibleStep ==
  ASSUME SInv, NEW t \in Threads
  PROVE  /\ (\E x \in Items : Insert(t, x)) => Queue!Offer(t)
         /\ InsStore(t) => Queue!Put(t)
         /\ RemStore(t) => Queue!Take(t)
         /\ RemVSlots(t) => Queue!Deliver(t)
<1>0. /\ at \in [Threads -> {"out"} \cup InsertPcs \cup RemovePcs]
      /\ item \in [Threads -> Items \cup {NoItem}]
  BY DEF SInv, Types
<1>1. ASSUME NEW x \in Items, Insert(t, x) PROVE Queue!Offer(t)
  <2>1. Waiting' = Waiting
    BY <1>1 DEF Insert, Waiting, ringVars
  <2>2. Takes' = Takes
    BY <1>0, <1>1 DEF Insert, Move, Takes
  <2>3. Gives[t] = NoItem /\ Gives' = [Gives EXCEPT ![t] = x]
    BY <1>0, <1>1, ZenonT(60) DEF Insert, Move, Gives
  <2>. QED  BY <2>1, <2>2, <2>3, ZenonT(60) DEF Queue!Offer, Gives, Takes
<1>2. ASSUME InsStore(t) PROVE Queue!Put(t)
  <2>1. Waiting' = Append(Waiting, item[t]) /\ Len(Waiting) < N
    BY <1>2, InsStorePuts
  <2>2. Takes' = Takes
    BY <1>0, <1>2 DEF InsStore, Move, Takes
  <2>3. Gives[t] = item[t] /\ Gives' = [Gives EXCEPT ![t] = NoItem]
    BY <1>0, <1>2, ZenonT(60) DEF InsStore, Move, Gives
  <2>4. item[t] # NoItem
    BY <1>2 DEF SInv, ItemsThere, Giving, InsStore, Move
  <2>. QED  BY <2>1, <2>2, <2>3, <2>4 DEF Queue!Put, Gives, Takes
<1>3. ASSUME RemStore(t) PROVE Queue!Take(t)
  <2>1. Waiting # <<>> /\ Waiting' = Tail(Waiting) /\ item' = [item EXCEPT ![t] = Head(Waiting)]
    BY <1>3, RemStoreTakes
  <2>2. Gives' = Gives
    BY <1>0, <1>3, <2>1 DEF RemStore, Move, Gives
  <2>3. Takes[t] = NoItem /\ Takes' = [Takes EXCEPT ![t] = Head(Waiting)]
    BY <1>0, <1>3, <2>1, ZenonT(60) DEF RemStore, Move, Takes
  <2>. QED  BY <2>1, <2>2, <2>3 DEF Queue!Take, Gives, Takes
<1>4. ASSUME RemVSlots(t) PROVE Queue!Deliver(t)
  <2>1. Waiting' = Waiting
    BY <1>4 DEF RemVSlots, Waiting, ringVars
  <2>2. Gives' = Gives
    BY <1>0, <1>4 DEF RemVSlots, Move, Gives
  <2>3. Takes[t] # NoItem /\ Takes' = [Takes EXCEPT ![t] = NoItem]
    BY <1>0, <1>4, ZenonT(60) DEF RemVSlots, Move, Takes, SInv, ItemsThere, SlotSoon
  <2>. QED  BY <2>1, <2>2, <2>3 DEF Queue!Deliver, Gives, Takes
<1>. QED  BY <1>1, <1>2, <1>3, <1>4

\* The ring, the counters and the semaphores implement the bounded queue.
THEOREM BufferIsQueue == SbufSpec => ImplementsQueue
<1>1. SbufInit => Queue!QueueInit
  BY DEF SbufInit, Queue!QueueInit, Waiting
<1>2. SInv /\ [SbufNext]_sbufVars => [Queue!QueueNext]_(Queue!queueVars)
  <2>. SUFFICES ASSUME SInv, [SbufNext]_sbufVars
                PROVE  Queue!QueueNext \/ (Waiting' = Waiting /\ Gives' = Gives /\ Takes' = Takes)
    BY DEF Queue!queueVars, Gives, Takes
  <2>1. CASE UNCHANGED sbufVars
    BY <2>1 DEF sbufVars, ringVars, Waiting, Gives, Takes
  <2>2. ASSUME NEW t \in Threads,
               \/ \E x \in Items : Insert(t, x)
               \/ Remove(t)
               \/ InsertStep(t)
               \/ RemoveStep(t)
        PROVE  Queue!QueueNext \/ (Waiting' = Waiting /\ Gives' = Gives /\ Takes' = Takes)
    BY <2>2, InvisibleStep, VisibleStep DEF InsertStep, RemoveStep, Queue!QueueNext
  <2>. QED  BY <2>1, <2>2 DEF SbufNext
<1>. QED  BY <1>1, <1>2, Invariant, PTL DEF SbufSpec, ImplementsQueue, Queue!QueueSpec
-----------------------------------------------------------------------------
(* The echo server.                                                        *)

\* Accept inserts a descriptor, the lowest free one.
LEMMA LowestFree ==
  ASSUME FreeFds # {}
  PROVE  Min(FreeFds) \in Items /\ Min(FreeFds) \in FreeFds
<1>1. FreeFds \subseteq Items /\ FreeFds \subseteq Nat
  BY ServerAssumption, ZenonT(60) DEF FreeFds
<1>2. PICK f \in FreeFds : \A g \in FreeFds : ~(g < f)
  BY <1>1, LeastExists, ZenonT(60)
<1>3. \E least \in FreeFds : \A g \in FreeFds : least <= g
  BY <1>1, <1>2
<1>. QED  BY <1>1, <1>3, ZenonT(60) DEF Min

\* main and the workers use the buffer only through sbuf_insert and
\* sbuf_remove, so whatever holds of the buffer holds of the server.
THEOREM ServerUsesBuffer == Spec => SbufSpec
<1>1. Init => SbufInit
  BY DEF Init
<1>2. [Next]_vars => [SbufNext]_sbufVars
  <2>. SUFFICES ASSUME [Next]_vars PROVE SbufNext \/ UNCHANGED sbufVars
    OBVIOUS
  <2>1. CASE UNCHANGED vars
    BY <2>1 DEF vars
  <2>2. ASSUME Accept PROVE SbufNext \/ UNCHANGED sbufVars
    BY <2>2, LowestFree, ServerAssumption DEF Accept, Exit, SbufNext
  <2>3. ASSUME Inserting PROVE SbufNext
    BY <2>3, ServerAssumption DEF Inserting, SbufNext
  <2>4. ASSUME NEW w \in Workers, Compute(w) PROVE SbufNext \/ UNCHANGED sbufVars
    <3>1. w \in Threads
      BY DEF Workers
    <3>2. CASE Removing(w)
      <4>1. Remove(w) \/ RemPItems(w) \/ RemPMutex(w) \/ RemLoad(w) \/ RemStore(w) \/ RemVMutex(w)
        BY <3>2, ZenonT(60) DEF Removing
      <4>. QED  BY <3>1, <4>1, ZenonT(60) DEF SbufNext, RemoveStep
    <3>3. CASE TakeConn(w)
      <4>1. RemVSlots(w)
        BY <3>3, ZenonT(60) DEF TakeConn
      <4>. QED  BY <3>1, <4>1, ZenonT(60) DEF SbufNext, RemoveStep
    <3>4. CASE Once(w) \/ InitEchoCnt(w)
      BY <3>4 DEF Once, InitEchoCnt
    <3>5. CASE CntP(w) \/ CntLoad(w) \/ CntStore(w) \/ CntV(w)
      BY <3>5 DEF CntP, CntLoad, CntStore, CntV
    <3>. QED  BY <2>4, <3>2, <3>3, <3>4, <3>5, ZenonT(60) DEF Compute
  <2>5. ASSUME NEW w \in Workers, Serve(w) PROVE UNCHANGED sbufVars
    BY <2>5 DEF Serve, ReadLine, WriteLine, Close, Fail, Exit
  <2>. QED  BY <2>1, <2>2, <2>3, <2>4, <2>5 DEF Next
<1>. QED  BY <1>1, <1>2, PTL DEF Spec, SbufSpec

\* In the server the buffer stays within its bounds ...
THEOREM ServerRingBounded == Spec => []RingBounded
BY ServerUsesBuffer, RingStaysBounded, PTL

\* ... and hands connections on in the order in which main accepted them.
THEOREM ServerQueue == Spec => ImplementsQueue
BY ServerUsesBuffer, BufferIsQueue, PTL

\* Workers between P(&mutex) and V(&mutex) of echo_cnt.
InCount == {"cnt_load", "cnt_store", "cnt_V"}

\* TypeOK without the bounds on what is counted, which need CountRight.
ServerTypes ==
  /\ pc \in [Workers -> {"loop", "once", "init", "read", "cnt_V", "write"} \cup Uncounted]
  /\ fd \in [Workers -> Items \cup {NoItem}]
  /\ conn \in [Items -> Clients \cup {NoClient}]
  /\ line \in [Workers -> [from : Clients \cup {NoClient}, n : 0..MaxLine]]
  /\ sum \in [Workers -> Nat]
  /\ once \in {"never", "running", "done"}
  /\ cmutex \in {0, 1}
  /\ byte_cnt \in Nat
  /\ total \in 0..MaxBytes
  /\ exited \in {"no", "accept", "read_or_write"}
\* main only inserts and workers only remove; a worker that serves a
\* connection is outside the buffer's operations.
Roles ==
  /\ at[Main] \in {"out"} \cup InsertPcs
  /\ \A w \in Workers :
       /\ at[w] \in {"out"} \cup RemovePcs
       /\ pc[w] # "loop" => at[w] = "out"
       /\ fd[w] # NoItem <=> pc[w] # "loop"
\* The mutex of echo_cnt excludes.
CountLocked ==
  /\ \A u, v \in Workers : pc[u] \in InCount /\ pc[v] \in InCount => u = v
  /\ \A u \in Workers : pc[u] \in InCount => cmutex = 0
\* Nobody reads a line before init_echo_cnt has returned, and one runs it.
OnceRight ==
  /\ once # "done" => /\ \A w \in Workers : pc[w] \in {"loop", "once", "init"}
                      /\ byte_cnt = 0 /\ total = 0
  /\ once # "running" => \A w \in Workers : pc[w] # "init"
  /\ \A u, v \in Workers : pc[u] = "init" /\ pc[v] = "init" => u = v
\* CountExact with the sum as Total; what a worker has loaded is byte_cnt.
Pending == {w \in Workers : pc[w] \in Uncounted}
Lens == [w \in Workers |-> line[w].n]
CountRight == once = "done" => byte_cnt + Total(Lens, Pending) = total
SumRight ==
  \A w \in Workers : sum[w] = IF pc[w] = "cnt_store" THEN byte_cnt + line[w].n ELSE 0

\* A descriptor is in use exactly when main is about to insert it, it is in
\* the ring or a worker has it, and it is in one of these places, once.
Has(w, f) == item[w] = f \/ fd[w] = f
Occurs(f, q) == \E k \in 1..Len(q) : q[k] = f
Distinct(q) == \A j, k \in 1..Len(q) : q[j] = q[k] => j = k
InRing(f) == Occurs(f, Waiting)
Accounted ==
  \A f \in Items : conn[f] # NoClient <=>
    item[Main] = f \/ InRing(f) \/ \E w \in Workers : Has(w, f)
Apart ==
  \A f \in Items :
    /\ item[Main] = f => ~InRing(f) /\ \A w \in Workers : ~Has(w, f)
    /\ InRing(f) => \A w \in Workers : ~Has(w, f)
    /\ \A u, v \in Workers : Has(u, f) /\ Has(v, f) => u = v
RingOnce == Distinct(Waiting)

\* The inductive invariant of the server, relative to the buffer's SInv.
ServerInv ==
  /\ ServerTypes /\ Roles
  /\ exited = "no" => Accounted /\ Apart /\ RingOnce
  /\ EchoesToSender
  /\ OnceRight /\ CountLocked /\ SumRight /\ CountRight
  /\ DescriptorsSuffice
-----------------------------------------------------------------------------
\* When the process ends its descriptors are closed and nobody runs.
LEMMA ExitKeeps ==
  ASSUME ServerTypes, Roles, NEW reason \in {"accept", "read_or_write"}, Exit(reason)
  PROVE  ServerTypes' /\ Roles' /\ CountLocked' /\ SumRight' /\ EchoesToSender' 
<1>. USE ServerAssumption DEF Exit, sbufVars, NoLine, NoClient
<1>1. ServerTypes'
  BY DEF ServerTypes
<1>2. Roles'
  BY DEF Roles
<1>3. CountLocked' /\ SumRight'
  BY DEF CountLocked, SumRight, InCount
<1>4. EchoesToSender'
  BY DEF EchoesToSender, Uncounted
<1>. QED  BY <1>1, <1>2, <1>3, <1>4

\* Every step keeps the types and the roles.
LEMMA TypesStep ==
  ASSUME SInv, ServerTypes, Roles, CountLocked, [Next]_vars
  PROVE  ServerTypes' /\ Roles'
<1>. USE ServerAssumption
<1>a. \A t \in Threads : at[t] \in {"out"} \cup InsertPcs \cup RemovePcs
  BY DEF SInv, Types
<1>1. CASE UNCHANGED vars
  BY <1>1 DEF vars, sbufVars, workerVars, countVars, ServerTypes, Roles
<1>2. CASE Accept /\ FreeFds = {}
  BY <1>2, ExitKeeps DEF Accept
<1>3. CASE Accept /\ FreeFds # {}
  <2>1. Min(FreeFds) \in Items
    BY <1>3, LowestFree
  <2>2. rear \in Nat /\ at \in [Threads -> {"out"} \cup InsertPcs \cup RemovePcs]
    BY DEF SInv, Types
  <2>3. rear + 1 \in Clients
    BY <1>3, <2>2 DEF Accept, Clients
  <2>4. ServerTypes'
    BY <1>3, <2>1, <2>3 DEF Accept, ServerTypes, workerVars, countVars
  <2>5. Roles'
    BY <1>3, <2>2 DEF Accept, Insert, Move, Roles, InsertPcs, RemovePcs, workerVars, Workers
  <2>. QED  BY <2>4, <2>5
<1>4. CASE Inserting
  <2>1. ServerTypes'
    BY <1>4 DEF Inserting, ServerTypes, workerVars, countVars
  <2>2. at \in [Threads -> {"out"} \cup InsertPcs \cup RemovePcs]
    BY DEF SInv, Types
  <2>3. Roles'
    BY <1>4, <2>2 DEF Inserting, InsertStep, Move, Roles, InsertPcs, RemovePcs, workerVars, Workers,
           InsPSlots, InsPMutex, InsLoad, InsStore, InsVMutex, InsVItems
  <2>. QED  BY <2>1, <2>3
<1>5. ASSUME NEW w \in Workers, Removing(w) PROVE ServerTypes' /\ Roles'
  <2>1. ServerTypes'
    BY <1>5 DEF Removing, ServerTypes, workerVars, countVars
  <2>2. at \in [Threads -> {"out"} \cup InsertPcs \cup RemovePcs]
    BY DEF SInv, Types
  <2>3. Roles'
    BY <1>5, <2>2 DEF Removing, Move, Roles, InsertPcs, RemovePcs, workerVars, Workers,
           Remove, RemPItems, RemPMutex, RemLoad, RemStore, RemVMutex
  <2>. QED  BY <2>1, <2>3
<1>6. ASSUME NEW w \in Workers, TakeConn(w) PROVE ServerTypes' /\ Roles'
  <2>1. item[w] \in Items
    BY <1>6 DEF TakeConn, RemVSlots, Move, SInv, Types, ItemsThere, SlotSoon, Workers
  <2>2. at \in [Threads -> {"out"} \cup InsertPcs \cup RemovePcs]
    BY DEF SInv, Types
  <2>3. ServerTypes'
    BY <1>6, <2>1 DEF TakeConn, Go, ServerTypes, countVars
  <2>4. Roles'
    BY <1>6, <2>1, <2>2, SbufAssumption
       DEF TakeConn, Go, RemVSlots, Move, Roles, InsertPcs, RemovePcs, Workers, ServerTypes
  <2>. QED  BY <2>3, <2>4
<1>7. ASSUME NEW w \in Workers, Close(w) PROVE ServerTypes' /\ Roles'
  <2>1. fd[w] \in Items
    BY <1>7 DEF Close, Go, Roles, ServerTypes
  <2>2. ServerTypes'
    BY <1>7, <2>1 DEF Close, Go, ServerTypes, countVars
  <2>3. Roles'
    BY <1>7 DEF Close, Go, Roles, sbufVars, ServerTypes
  <2>. QED  BY <2>2, <2>3
<1>8. ASSUME NEW w \in Workers, NEW n \in 1..MaxLine, ReadLine(w, n) PROVE ServerTypes' /\ Roles'
  <2>1. fd[w] \in Items
    BY <1>8 DEF ReadLine, Go, Roles, ServerTypes
  <2>2. [from |-> conn[fd[w]], n |-> n] \in [from : Clients \cup {NoClient}, n : 0..MaxLine]
    <3>1. conn[fd[w]] \in Clients \cup {NoClient}
      BY <2>1, ZenonT(60) DEF ServerTypes
    <3>2. n \in 0..MaxLine
      OBVIOUS
    <3>. QED  BY <3>1, <3>2
  <2>3. ServerTypes'
    <3>. DEFINE l == [from |-> conn[fd[w]], n |-> n]
    <3>1. line' = [line EXCEPT ![w] = l] /\ total' = total + n /\ total + n <= MaxBytes
      BY <1>8, ZenonT(60) DEF ReadLine
    <3>. HIDE DEF l
    <3>2. line' \in [Workers -> [from : Clients \cup {NoClient}, n : 0..MaxLine]]
      BY <2>2, <3>1 DEF l, ServerTypes
    <3>3. total' \in 0..MaxBytes
      BY <3>1 DEF ServerTypes
    <3>4. pc' \in [Workers -> {"loop", "once", "init", "read", "cnt_V", "write"} \cup Uncounted]
      BY <1>8 DEF ReadLine, Go, ServerTypes, Uncounted
    <3>. QED  BY <1>8, <3>2, <3>3, <3>4 DEF ReadLine, ServerTypes, countVars
  <2>4. Roles'
    BY <1>8 DEF ReadLine, Go, Roles, sbufVars, ServerTypes
  <2>. QED  BY <2>3, <2>4
<1>9. ASSUME NEW w \in Workers, Fail(w) PROVE ServerTypes' /\ Roles'
  BY <1>9, ExitKeeps DEF Fail
<1>10. ASSUME NEW w \in Workers, CntLoad(w) \/ CntStore(w) PROVE ServerTypes' /\ Roles'
  <2>1. ServerTypes'
    BY <1>10 DEF CntLoad, CntStore, Go, ServerTypes, Uncounted, countVars
  <2>2. Roles'
    BY <1>10 DEF CntLoad, CntStore, Go, ServerTypes, Roles, sbufVars
  <2>. QED  BY <2>1, <2>2
<1>11. ASSUME NEW w \in Workers, Once(w) \/ InitEchoCnt(w) \/ CntP(w) \/ CntV(w) \/ WriteLine(w)
       PROVE ServerTypes' /\ Roles'
  <2>1. NoLine \in [from : Clients \cup {NoClient}, n : 0..MaxLine]
    BY DEF NoLine, NoClient
  <2>2. CntV(w) => cmutex = 0
    BY DEF CntV, Go, CountLocked, InCount
  <2>3. ServerTypes'
    <3>1. line' \in [Workers -> [from : Clients \cup {NoClient}, n : 0..MaxLine]]
      BY <1>11, <2>1 DEF ServerTypes, Once, InitEchoCnt, CntP, CntV, WriteLine
    <3>2. cmutex' \in {0, 1} /\ byte_cnt' \in Nat /\ once' \in {"never", "running", "done"}
      BY <1>11, <2>2 DEF ServerTypes, Once, InitEchoCnt, CntP, CntV, P, V, WriteLine, countVars
    <3>3. pc' \in [Workers -> {"loop", "once", "init", "read", "cnt_V", "write"} \cup Uncounted]
      BY <1>11 DEF ServerTypes, Once, InitEchoCnt, CntP, CntV, WriteLine, Go, Uncounted
    <3>. QED  BY <1>11, <3>1, <3>2, <3>3 DEF ServerTypes, Once, InitEchoCnt, CntP, CntV, WriteLine
  <2>4. Roles'
    BY <1>11 DEF Once, InitEchoCnt, CntP, CntV, WriteLine, Go, ServerTypes, Roles, sbufVars
  <2>. QED  BY <2>3, <2>4
<1>. QED  BY <1>1, <1>2, <1>3, <1>4, <1>5, <1>6, <1>7, <1>8, <1>9, <1>10, <1>11 DEF Next, Compute, Serve

\* The bytes that workers have read and not counted: a worker can be taken
\* out of the sum.
LEMMA PendingTotal ==
  ASSUME ServerTypes
  PROVE  /\ Pending \subseteq Workers /\ IsFiniteSet(Pending)
         /\ \A w \in Workers : Lens[w] \in Nat
         /\ Total(Lens, Pending) \in Nat
         /\ Pending = {} => Total(Lens, Pending) = 0
         /\ \A w \in Pending : Total(Lens, Pending) = Lens[w] + Total(Lens, Pending \ {w})
<1>1. Pending \subseteq Workers /\ Workers \subseteq Threads
  BY DEF Pending, Workers
<1>2. IsFiniteSet(Pending)
  BY <1>1, SbufAssumption, FS_Subset
<1>3. \A w \in Workers : Lens[w] \in Nat
  BY ServerAssumption DEF Lens, ServerTypes
<1>. QED  BY <1>1, <1>2, <1>3, TotalRules

\* Every step keeps the count exact: a line read joins the uncounted, and
\* the store of echo_cnt moves it into byte_cnt, which no other worker has
\* changed since it was loaded.
LEMMA CountStep ==
  ASSUME ServerTypes, ServerTypes', OnceRight, CountLocked, SumRight, CountRight, [Next]_vars
  PROVE  OnceRight' /\ CountLocked' /\ SumRight' /\ CountRight'
<1>. DEFINE Goal == OnceRight' /\ CountLocked' /\ SumRight' /\ CountRight'
<1>0. /\ pc \in [Workers -> {"loop", "once", "init", "read", "cnt_V", "write"} \cup Uncounted]
      /\ line \in [Workers -> [from : Clients \cup {NoClient}, n : 0..MaxLine]]
      /\ sum \in [Workers -> Nat] /\ byte_cnt \in Nat /\ total \in Nat
  BY ServerAssumption DEF ServerTypes
<1>1. ASSUME UNCHANGED <<pc, line, sum, once, cmutex, byte_cnt, total>> PROVE Goal
  BY <1>1 DEF OnceRight, CountLocked, SumRight, CountRight, Pending, Lens
<1>2. ASSUME NEW r, Exit(r) PROVE Goal
  BY <1>2, ZenonT(60) DEF Exit, OnceRight, CountLocked, SumRight, CountRight, InCount
<1>3. ASSUME NEW w \in Workers, 
             \/ Go(w, "loop", "once") /\ UNCHANGED <<line, sum, once, cmutex, byte_cnt, total>>
             \/ Go(w, "read", "loop") /\ UNCHANGED <<line, sum, once, cmutex, byte_cnt, total>>
             \/ Once(w)
      PROVE  Goal
  <2>1. OnceRight' /\ CountLocked'
    BY <1>0, <1>3 DEF Go, Once, OnceRight, CountLocked, InCount
  <2>2. SumRight'
    BY <1>0, <1>3 DEF Go, Once, SumRight
  <2>3. Pending' = Pending /\ Lens' = Lens
    BY <1>0, <1>3 DEF Go, Once, Pending, Lens, Uncounted
  <2>4. CountRight'
    <3>1. CASE once' = once
      BY <1>3, <2>3, <3>1 DEF CountRight, Once
    <3>2. CASE once' # once
      BY <1>3, <3>2 DEF CountRight, Once
    <3>. QED  BY <3>1, <3>2
  <2>. QED  BY <2>1, <2>2, <2>4
<1>4. ASSUME NEW w \in Workers, InitEchoCnt(w) PROVE Goal
  <2>1. once = "running" /\ \A u \in Workers : pc[u] \in {"loop", "once", "init"}
    BY <1>4 DEF InitEchoCnt, Go, OnceRight, ServerTypes
  <2>2. OnceRight' /\ CountLocked'
    BY <1>0, <1>4, <2>1 DEF InitEchoCnt, Go, OnceRight, CountLocked, InCount
  <2>3. SumRight'
    BY <1>0, <1>4, <2>1 DEF InitEchoCnt, Go, SumRight
  <2>4. Pending' = {}
    BY <1>0, <1>4, <2>1 DEF InitEchoCnt, Go, Pending, Uncounted
  <2>5. total' = 0 /\ byte_cnt' = 0
    BY <1>4, <2>1 DEF InitEchoCnt, OnceRight
  <2>6. Total(Lens', Pending') = 0
    BY <2>4, FS_EmptySet, TotalRules
  <2>7. CountRight'
    BY <2>5, <2>6 DEF CountRight
  <2>. QED  BY <2>2, <2>3, <2>7
<1>5. ASSUME NEW w \in Workers, NEW n \in 1..MaxLine, ReadLine(w, n) PROVE Goal
  <2>1. once = "done" /\ once' = "done" /\ pc[w] = "read"
    BY <1>5 DEF ReadLine, Go, OnceRight, countVars
  <2>2. OnceRight' /\ CountLocked'
    BY <1>0, <1>5, <2>1 DEF ReadLine, Go, OnceRight, CountLocked, InCount, countVars
  <2>3. SumRight'
    BY <1>0, <1>5, <2>1 DEF ReadLine, Go, SumRight, countVars
  <2>4. Pending' = Pending \cup {w} /\ w \notin Pending
    BY <1>0, <1>5 DEF ReadLine, Go, Pending, Uncounted
  <2>5. Lens'[w] = n /\ \A u \in Workers \ {w} : Lens'[u] = Lens[u]
    BY <1>0, <1>5 DEF ReadLine, Lens
  <2>6. \A u \in Pending : Lens[u] \in Nat /\ Lens[u] = Lens'[u]
    BY <2>4, <2>5, PendingTotal
  <2>7. Total(Lens', Pending) = Total(Lens, Pending) /\ Total(Lens, Pending) \in Nat
    BY <2>6, PendingTotal, TotalSame
  <2>8. Total(Lens', Pending') = n + Total(Lens', Pending)
    <3>1. IsFiniteSet(Pending') /\ w \in Pending' /\ Pending' \ {w} = Pending
      BY <2>4, PendingTotal, FS_AddElement
    <3>2. \A u \in Pending' : Lens'[u] \in Nat
      BY <2>4, <2>5, <2>6
    <3>. QED  BY <2>5, <3>1, <3>2, TotalRules
  <2>9. byte_cnt' = byte_cnt /\ total' = total + n
    BY <1>5 DEF ReadLine, countVars
  <2>10. CountRight'
    BY <1>0, <2>1, <2>7, <2>8, <2>9 DEF CountRight
  <2>. QED  BY <2>2, <2>3, <2>10
<1>6. ASSUME NEW w \in Workers, CntP(w) \/ CntLoad(w) \/ CntV(w) PROVE Goal
  <2>1. once = "done" /\ once' = "done"
    BY <1>6 DEF CntP, CntLoad, CntV, Go, OnceRight, countVars
  <2>2. OnceRight'
    BY <1>0, <1>6, <2>1 DEF CntP, CntLoad, CntV, Go, OnceRight
  <2>3. CountLocked'
    <3>1. CASE CntP(w)
      BY <1>0, <3>1 DEF ServerTypes, CntP, P, Go, CountLocked, InCount
    <3>2. CASE CntLoad(w) 
      BY <1>0, <3>2 DEF CntLoad, Go, CountLocked, InCount, countVars
    <3>3. CASE CntV(w)
      BY <1>0, <3>3 DEF CntV, V, Go, CountLocked, InCount
    <3>. QED  BY <1>6, <3>1, <3>2, <3>3
  <2>4. SumRight'
    BY <1>0, <1>6 DEF CntP, CntLoad, CntV, Go, SumRight, countVars
  <2>5. Pending' = Pending /\ Lens' = Lens
    BY <1>0, <1>6 DEF CntP, CntLoad, CntV, Go, Pending, Lens, Uncounted
  <2>6. CountRight'
    BY ZenonT(60), <1>6, <2>1, <2>5 DEF CountRight, CntP, CntLoad, CntV, countVars
  <2>. QED  BY <2>2, <2>3, <2>4, <2>6
<1>7. ASSUME NEW w \in Workers, CntStore(w) PROVE Goal
  <2>1. once = "done" /\ once' = "done" /\ pc[w] = "cnt_store"
    BY <1>7 DEF CntStore, Go, OnceRight
  <2>2. OnceRight' /\ CountLocked'
    BY <1>0, <1>7, <2>1 DEF CntStore, Go, OnceRight, CountLocked, InCount
  <2>3. SumRight'
    <3>1. \A u \in Workers \ {w} : pc[u] # "cnt_store"
      BY <2>1 DEF CountLocked, InCount
    <3>. QED  BY <1>0, <1>7, <3>1 DEF CntStore, Go, SumRight
  <2>4. Pending' = Pending \ {w} /\ w \in Pending /\ Lens' = Lens
    BY <1>0, <1>7 DEF CntStore, Go, Pending, Lens, Uncounted
  <2>5. byte_cnt' = byte_cnt + Lens[w] /\ total' = total
    BY <1>7, <2>1, ZenonT(60) DEF CntStore, SumRight, Lens
  <2>6. Total(Lens, Pending) = Lens[w] + Total(Lens', Pending')
    BY <2>4, PendingTotal
  <2>7. Total(Lens', Pending') \in Nat /\ Lens[w] \in Nat
    <3>1. IsFiniteSet(Pending') /\ \A u \in Pending' : Lens'[u] \in Nat
      BY <2>4, PendingTotal, FS_Subset
    <3>. QED  BY <3>1, PendingTotal, TotalRules
  <2>8. CountRight'
    BY <1>0, <2>1, <2>5, <2>6, <2>7 DEF CountRight
  <2>. QED  BY <2>2, <2>3, <2>8
<1>8. ASSUME NEW w \in Workers, WriteLine(w) PROVE Goal
  <2>1. OnceRight' /\ CountLocked'
    BY <1>0, <1>8 DEF WriteLine, Go, OnceRight, CountLocked, InCount, countVars
  <2>2. SumRight'
    BY <1>0, <1>8 DEF WriteLine, Go, SumRight, countVars
  <2>3. Pending' = Pending /\ w \notin Pending
    BY <1>0, <1>8 DEF WriteLine, Go, Pending, Uncounted
  <2>4. \A u \in Pending : Lens[u] \in Nat /\ Lens[u] = Lens'[u]
    BY <1>0, <1>8, <2>3, PendingTotal DEF WriteLine, Lens
  <2>5. Total(Lens', Pending) = Total(Lens, Pending)
    BY <2>4, PendingTotal, TotalSame
  <2>6. CountRight'
    BY <1>8, <2>3, <2>5 DEF CountRight, WriteLine, countVars
  <2>. QED  BY <2>1, <2>2, <2>6
<1>9. CASE UNCHANGED vars
  BY <1>1, <1>9 DEF vars, workerVars, countVars
<1>10. CASE Accept
  BY <1>1, <1>2, <1>10 DEF Accept, workerVars, countVars
<1>11. CASE Inserting
  BY <1>1, <1>11 DEF Inserting, workerVars, countVars
<1>12. ASSUME NEW w \in Workers, Compute(w) PROVE Goal
  <2>1. CASE Removing(w)
    BY <1>1, <2>1 DEF Removing, workerVars, countVars
  <2>2. CASE TakeConn(w)
    BY <1>3, <2>2 DEF TakeConn, countVars
  <2>. QED  BY <1>3, <1>4, <1>6, <1>7, <1>12, <2>1, <2>2 DEF Compute
<1>13. ASSUME NEW w \in Workers, Serve(w) PROVE Goal
  <2>1. CASE Close(w)
    BY <1>3, <2>1 DEF Close, countVars
  <2>2. CASE Fail(w)
    BY <1>2, <2>2 DEF Fail
  <2>. QED  BY <1>5, <1>8, <1>13, <2>1, <2>2 DEF Serve
<1>. QED  BY <1>9, <1>10, <1>11, <1>12, <1>13 DEF Next

\* The ring holds a sequence of at most N descriptors.
LEMMA WaitingSeq ==
  ASSUME SInv
  PROVE  Waiting \in Seq(Items) /\ Len(Waiting) = rear - front /\ Len(Waiting) \in 0..N
<1>1. rear - front \in 0..N
  BY Bounds
<1>2. \A k \in 1..(rear - front) : buf[(front + k) % N] \in Items
  BY DEF SInv, ItemsThere
<1>. DEFINE n == rear - front
<1>3. Waiting = [k \in 1..n |-> buf[(front + k) % N]]
  BY DEF Waiting
<1>4. n \in 0..N /\ n \in Nat /\ \A k \in 1..n : buf[(front + k) % N] \in Items
  BY <1>1, <1>2, SbufAssumption
<1>. HIDE DEF n
<1>5. Waiting \in Seq(Items) /\ Len(Waiting) = n
  BY <1>3, <1>4
<1>. QED  BY <1>4, <1>5 DEF n

\* Append adds one element to what is in a sequence.
LEMMA AppendHolds ==
  ASSUME NEW S, NEW q \in Seq(S), NEW x \in S
  PROVE  /\ \A f : Occurs(f, Append(q, x)) <=> Occurs(f, q) \/ f = x
         /\ Distinct(q) /\ ~Occurs(x, q) => Distinct(Append(q, x))
<1>. DEFINE a == Append(q, x)
<1>1. Len(a) = Len(q) + 1 /\ Len(q) \in Nat /\ a[Len(q) + 1] = x /\ \A k \in 1..Len(q) : a[k] = q[k]
  OBVIOUS
<1>. HIDE DEF a
<1>2. 1..Len(a) = 1..Len(q) \cup {Len(q) + 1}
  BY <1>1
<1>3. ASSUME NEW f PROVE Occurs(f, a) <=> Occurs(f, q) \/ f = x
  BY <1>1, <1>2 DEF Occurs
<1>4. ASSUME Distinct(q), ~Occurs(x, q) PROVE Distinct(a)
  BY <1>1, <1>2, <1>4 DEF Distinct, Occurs
<1>. QED  BY <1>3, <1>4 DEF a

\* Tail takes its head away.
LEMMA TailHolds ==
  ASSUME NEW S, NEW q \in Seq(S), q # <<>>, Distinct(q)
  PROVE  /\ \A f : Occurs(f, Tail(q)) <=> Occurs(f, q) /\ f # Head(q)
         /\ Occurs(Head(q), q)
         /\ Distinct(Tail(q))
<1>. DEFINE a == Tail(q)
<1>1. Len(q) \in Nat \ {0} /\ Len(a) = Len(q) - 1 /\ Head(q) = q[1] /\ \A k \in 1..Len(a) : a[k] = q[k + 1]
  OBVIOUS
<1>. HIDE DEF a
<1>. USE DEF Occurs, Distinct
<1>2. Occurs(Head(q), q)
  BY <1>1
<1>3. \A k \in 1..Len(a) : k + 1 \in 1..Len(q)
  BY <1>1
<1>4. ASSUME NEW f PROVE Occurs(f, a) <=> Occurs(f, q) /\ f # Head(q)
  <2>1. ASSUME NEW k \in 1..Len(a), a[k] = f PROVE Occurs(f, q) /\ f # Head(q)
    <3>1. k + 1 \in 1..Len(q) /\ 1 \in 1..Len(q) /\ k + 1 # 1 /\ q[k + 1] = f
      BY <1>1, <2>1
    <3>. QED  BY <1>1, <3>1
  <2>2. ASSUME NEW k \in 1..Len(q), q[k] = f, f # Head(q) PROVE Occurs(f, a)
    <3>1. k - 1 \in 1..Len(a) /\ (k - 1) + 1 = k
      BY <1>1, <2>2
    <3>. QED  BY <1>1, <2>2, <3>1, ZenonT(60)
  <2>. QED  BY <2>1, <2>2
<1>5. ASSUME NEW j \in 1..Len(a), NEW k \in 1..Len(a), a[j] = a[k] PROVE j = k
  <2>1. q[j + 1] = q[k + 1] /\ j + 1 \in 1..Len(q) /\ k + 1 \in 1..Len(q)
    BY <1>1, <1>3, <1>5
  <2>2. j + 1 = k + 1
    BY <2>1
  <2>. QED  BY <1>1, <2>2
<1>. QED  BY <1>2, <1>4, <1>5 DEF a

\* Every step that does not end the process keeps descriptors accounted for
\* and apart: accept takes a free one, sbuf_insert and sbuf_remove move it
\* between main, the ring and a worker, and close frees it.
LEMMA HoldStep ==
  ASSUME SInv, ServerTypes, Roles, Accounted, Apart, RingOnce, Next, exited' = "no"
  PROVE  Accounted' /\ Apart' /\ RingOnce'
<1>. DEFINE Goal == Accounted' /\ Apart' /\ RingOnce'
<1>. USE ServerAssumption, SbufAssumption DEF NoClient
<1>0. /\ item \in [Threads -> Items \cup {NoItem}] /\ at \in [Threads -> {"out"} \cup InsertPcs \cup RemovePcs]
      /\ rear \in Nat
      /\ \A t \in Threads : item[t] # NoItem <=> t \in Giving \cup SlotSoon
      /\ fd \in [Workers -> Items \cup {NoItem}]
      /\ conn \in [Items -> Clients \cup {NoClient}]
      /\ Workers \subseteq Threads /\ Main \in Threads /\ Main \notin Workers
  BY DEF SInv, Types, ItemsThere, ServerTypes, Workers
<1>1. ASSUME Waiting' = Waiting, item' = item, fd' = fd, conn' = conn PROVE Goal
  BY ZenonT(60), <1>1 DEF Accounted, Apart, RingOnce, InRing, Has
<1>2. ASSUME Accept PROVE Goal
  <2>1. FreeFds # {}
    BY <1>2 DEF Accept, Exit
  <2>. DEFINE f == Min(FreeFds)
  <2>2. f \in Items
    BY <2>1, LowestFree
  <2>3. conn[f] = 0
    <3>1. f \in FreeFds
      BY <2>1, LowestFree
    <3>. QED  BY <3>1 DEF FreeFds
  <2>4. /\ conn' = [conn EXCEPT ![f] = rear + 1] /\ item' = [item EXCEPT ![Main] = f]
        /\ fd' = fd /\ buf' = buf /\ front' = front /\ rear' = rear /\ at[Main] = "out"
    BY <1>2, <2>1 DEF Accept, Insert, workerVars, ringVars
  <2>. HIDE DEF f
  <2>5. Waiting' = Waiting /\ item[Main] = NoItem
    BY <1>0, <2>4 DEF Waiting, Giving, SlotSoon
  <2>6. ~InRing(f) /\ \A w \in Workers : ~Has(w, f)
    BY <2>2, <2>3 DEF Accounted
  <2>7. /\ \A g : InRing(g)' <=> InRing(g)
        /\ \A g : \A w \in Workers : Has(w, g)' <=> Has(w, g)
    BY <1>0, <2>4, <2>5 DEF InRing, Has
  <2>8. RingOnce'
    BY <2>5 DEF RingOnce
  <2>9. ASSUME NEW g \in Items
        PROVE  conn'[g] # 0 <=> item'[Main] = g \/ InRing(g)' \/ \E w \in Workers : Has(w, g)'
    <3>1. CASE g = f
      BY <1>0, <2>2, <2>4, <3>1
    <3>2. CASE g # f
      BY <1>0, <2>4, <2>5, <2>7, <3>2 DEF Accounted
    <3>. QED  BY <3>1, <3>2
  <2>10. Accounted'
    BY ZenonT(60), <2>9 DEF Accounted
  <2>11. Apart'
    BY <1>0, <2>2, <2>4, <2>6, <2>7 DEF Apart
  <2>. QED  BY <2>8, <2>10, <2>11
<1>3. ASSUME InsStore(Main), fd' = fd, conn' = conn PROVE Goal
  <2>1. Waiting' = Append(Waiting, item[Main])
    BY <1>3, InsStorePuts
  <2>2. item[Main] \in Items /\ item' = [item EXCEPT ![Main] = NoItem]
    BY <1>0, <1>3 DEF InsStore, Move, Giving
  <2>3. /\ \A g : InRing(g)' <=> InRing(g) \/ g = item[Main]
        /\ \A g : \A w \in Workers : Has(w, g)' <=> Has(w, g)
    <3>1. \A g : InRing(g)' <=> InRing(g) \/ g = item[Main]
      BY <2>1, <2>2, WaitingSeq, AppendHolds DEF InRing
    <3>2. \A g : \A w \in Workers : Has(w, g)' <=> Has(w, g)
      BY <1>0, <1>3, <2>2 DEF Has
    <3>. QED  BY <3>1, <3>2
  <2>4. ~InRing(item[Main])
    BY ZenonT(60), <2>2 DEF Apart
  <2>5. RingOnce'
    BY <2>1, <2>2, <2>4, WaitingSeq, AppendHolds DEF RingOnce, InRing
  <2>6. Accounted' /\ Apart'
    BY <1>0, <1>3, <2>2, <2>3 DEF Accounted, Apart
  <2>. QED  BY <2>5, <2>6
<1>4. ASSUME NEW w \in Workers, RemStore(w), fd' = fd, conn' = conn PROVE Goal
  <2>1. Waiting # <<>> /\ Waiting' = Tail(Waiting) /\ item' = [item EXCEPT ![w] = Head(Waiting)]
        /\ Head(Waiting) \in Items
    BY <1>0, <1>4, RemStoreTakes
  <2>. DEFINE h == Head(Waiting)
  <2>2. item[w] = NoItem /\ w # Main
    BY <1>0, <1>4 DEF RemStore, Move, Giving, SlotSoon
  <2>3. /\ \A g : InRing(g)' <=> InRing(g) /\ g # h
        /\ InRing(h)
        /\ RingOnce'
    BY <2>1, WaitingSeq, TailHolds DEF InRing, RingOnce
  <2>. HIDE DEF h
  <2>4. \A g \in Items : \A u \in Workers : Has(u, g)' <=> Has(u, g) \/ (u = w /\ g = h)
    BY <1>0, <1>4, <2>1, <2>2 DEF Has, h
  <2>5. item'[Main] = item[Main] /\ h \in Items
    BY <1>0, <2>1, <2>2 DEF h
  <2>6. Accounted'
    BY ZenonT(60), <1>4, <2>3, <2>4, <2>5 DEF Accounted
  <2>7. Apart'
    BY ZenonT(60), <1>4, <2>3, <2>4, <2>5 DEF Apart
  <2>. QED  BY <2>3, <2>6, <2>7
<1>5. ASSUME NEW w \in Workers, TakeConn(w) PROVE Goal
  <2>1. fd[w] = NoItem /\ fd' = [fd EXCEPT ![w] = item[w]] /\ item' = [item EXCEPT ![w] = NoItem]
        /\ conn' = conn /\ Waiting' = Waiting
    BY <1>5 DEF TakeConn, Go, RemVSlots, Roles, Waiting, ringVars
  <2>2. \A g \in Items : \A u \in Workers : Has(u, g)' <=> Has(u, g)
    BY <1>0, <2>1 DEF Has
  <2>3. item'[Main] = item[Main] /\ (\A g : InRing(g)' <=> InRing(g)) /\ RingOnce'
    BY <1>0, <2>1 DEF InRing, RingOnce
  <2>4. Accounted' /\ Apart'
    BY <2>1, <2>2, <2>3 DEF Accounted, Apart
  <2>. QED  BY <2>3, <2>4, ZenonT(60)
<1>6. ASSUME NEW w \in Workers, Close(w) PROVE Goal
  <2>. DEFINE f == fd[w]
  <2>1. /\ f \in Items /\ pc[w] = "read"
        /\ fd' = [fd EXCEPT ![w] = NoItem] /\ conn' = [conn EXCEPT ![f] = 0]
        /\ item' = item /\ Waiting' = Waiting
    BY <1>0, <1>6 DEF Close, Go, Roles, sbufVars, ringVars, Waiting
  <2>2. item[w] = NoItem
    BY <1>0, <2>1 DEF Roles, Giving, SlotSoon
  <2>3. (\A g : InRing(g)' <=> InRing(g)) /\ RingOnce'
    BY ZenonT(60), <2>1 DEF InRing, RingOnce
  <2>4. Has(w, f) /\ \A g \in Items : g # f => ~Has(w, g)
    BY <2>2 DEF Has
  <2>5. \A g \in Items : \A u \in Workers : Has(u, g)' <=> Has(u, g) /\ u # w
    BY <1>0, <2>1, <2>2 DEF Has
  <2>. HIDE DEF f
  <2>6. Apart'
    BY <2>1, <2>3, <2>5 DEF Apart
  <2>7. item[Main] # f /\ ~InRing(f) /\ \A u \in Workers : Has(u, f) => u = w
    BY <2>1, <2>4 DEF Apart
  <2>8. ASSUME NEW g \in Items
        PROVE  conn'[g] # 0 <=> item'[Main] = g \/ InRing(g)' \/ \E u \in Workers : Has(u, g)'
    <3>1. CASE g = f
      BY <1>0, <2>1, <2>3, <2>5, <2>7, <3>1
    <3>2. CASE g # f
      <4>1. conn'[g] = conn[g]
        BY <1>0, <2>1, <3>2
      <4>2. (\E u \in Workers : Has(u, g)') <=> (\E u \in Workers : Has(u, g))
        BY <2>4, <2>5, <3>2
      <4>. QED  BY <2>1, <2>3, <4>1, <4>2 DEF Accounted
    <3>. QED  BY <3>1, <3>2
  <2>9. Accounted'
    BY ZenonT(60), <2>8 DEF Accounted
  <2>. QED  BY <2>3, <2>6, <2>9
<1>7. ASSUME Inserting PROVE Goal
  <2>1. fd' = fd /\ conn' = conn
    BY <1>7 DEF Inserting, workerVars
  <2>2. CASE InsStore(Main)
    BY <1>3, <2>1, <2>2
  <2>3. CASE InsPSlots(Main) \/ InsPMutex(Main) \/ InsLoad(Main) \/ InsVMutex(Main) \/ InsVItems(Main)
    <3>1. Waiting' = Waiting
      BY <1>0, <2>3, InvisibleStep
    <3>2. item' = item
      BY <2>3 DEF InsPSlots, InsPMutex, InsLoad, InsVMutex, InsVItems
    <3>. QED  BY <1>1, <2>1, <3>1, <3>2
  <2>. QED  BY <1>7, <2>2, <2>3 DEF Inserting, InsertStep
<1>8. ASSUME NEW w \in Workers, Removing(w) PROVE Goal
  <2>1. fd' = fd /\ conn' = conn
    BY <1>8 DEF Removing, workerVars
  <2>2. CASE RemStore(w)
    BY <1>4, <2>1, <2>2
  <2>3. CASE Remove(w) \/ RemPItems(w) \/ RemPMutex(w) \/ RemLoad(w) \/ RemVMutex(w)
    <3>1. Waiting' = Waiting
      BY <1>0, <2>3, InvisibleStep
    <3>2. item' = item
      BY <2>3 DEF Remove, RemPItems, RemPMutex, RemLoad, RemVMutex
    <3>. QED  BY <1>1, <2>1, <3>1, <3>2
  <2>. QED  BY <1>8, <2>2, <2>3 DEF Removing
<1>9. ASSUME NEW w \in Workers, Compute(w) PROVE Goal
  <2>1. CASE Once(w) \/ InitEchoCnt(w) \/ CntP(w) \/ CntLoad(w) \/ CntStore(w) \/ CntV(w)
    <3>1. UNCHANGED <<buf, front, rear, item, fd, conn>>
      BY ZenonT(60), <2>1 DEF Once, InitEchoCnt, CntP, CntLoad, CntStore, CntV, sbufVars, ringVars
    <3>. QED  BY <1>1, <3>1 DEF Waiting
  <2>. QED  BY <1>5, <1>8, <1>9, <2>1 DEF Compute
<1>10. ASSUME NEW w \in Workers, Serve(w) PROVE Goal
  <2>1. ~Fail(w)
    BY DEF Fail, Exit
  <2>2. CASE WriteLine(w) \/ \E n \in 1..MaxLine : ReadLine(w, n)
    <3>1. UNCHANGED <<buf, front, rear, item, fd, conn>>
      BY ZenonT(60), <2>2 DEF WriteLine, ReadLine, sbufVars, ringVars
    <3>. QED  BY <1>1, <3>1 DEF Waiting
  <2>. QED  BY <1>6, <1>10, <2>1, <2>2 DEF Serve
<1>. QED  BY <1>2, <1>7, <1>9, <1>10 DEF Next

\* Every step keeps a line with the connection it came from: the descriptor
\* of a worker that carries a line is not free, so accept does not give it
\* away, and no other worker closes it.
LEMMA EchoStep ==
  ASSUME SInv, ServerTypes, Roles, Accounted, Apart, EchoesToSender, Next
  PROVE  EchoesToSender'
<1>. USE ServerAssumption, SbufAssumption
<1>. DEFINE Carrying == Uncounted \cup {"cnt_V", "write"}
<1>0. /\ pc \in [Workers -> {"loop", "once", "init", "read", "cnt_V", "write"} \cup Uncounted]
      /\ fd \in [Workers -> Items \cup {NoItem}]
      /\ conn \in [Items -> Clients \cup {NoClient}]
      /\ line \in [Workers -> [from : Clients \cup {NoClient}, n : 0..MaxLine]]
  BY DEF ServerTypes
<1>1. \A w \in Workers : pc[w] # "loop" => fd[w] \in Items /\ conn[fd[w]] # NoClient
  BY <1>0, ZenonT(60) DEF Roles, Accounted, Has
<1>2. ASSUME NEW r, Exit(r) PROVE EchoesToSender'
  BY <1>2 DEF Exit, EchoesToSender, Uncounted
<1>3. ASSUME Accept, FreeFds # {} PROVE EchoesToSender'
  <2>1. /\ conn' = [conn EXCEPT ![Min(FreeFds)] = rear + 1]
        /\ pc' = pc /\ fd' = fd /\ line' = line
    BY <1>3 DEF Accept, workerVars
  <2>2. conn[Min(FreeFds)] = NoClient
    BY <1>3, LowestFree DEF FreeFds
  <2>3. \A w \in Workers : pc[w] # "loop" => conn'[fd[w]] = conn[fd[w]]
    BY <1>0, <1>1, <2>1, <2>2
  <2>. QED  BY ZenonT(60), <2>1, <2>3 DEF EchoesToSender, Uncounted
<1>4. ASSUME NEW w \in Workers, Close(w) PROVE EchoesToSender'
  <2>1. /\ pc[w] = "read" /\ pc' = [pc EXCEPT ![w] = "loop"] /\ line' = line
        /\ conn' = [conn EXCEPT ![fd[w]] = NoClient] /\ fd' = [fd EXCEPT ![w] = NoItem]
    BY <1>4 DEF Close, Go
  <2>2. ASSUME NEW u \in Workers, pc'[u] \in Carrying PROVE conn'[fd'[u]] = line'[u].from
    <3>1. u # w /\ pc[u] \in Carrying /\ pc[u] # "loop"
      BY <1>0, <2>1, <2>2 DEF Uncounted
    <3>2. fd[u] \in Items /\ fd[w] \in Items
      BY <1>1, <2>1, <3>1
    <3>3. fd[u] # fd[w]
      BY ZenonT(60), <3>1, <3>2 DEF Apart, Has
    <3>. QED  BY <1>0, <2>1, <3>1, <3>2, <3>3 DEF EchoesToSender
  <2>. QED  BY <2>2, ZenonT(60) DEF EchoesToSender
<1>5. ASSUME NEW w \in Workers, NEW n \in 1..MaxLine, ReadLine(w, n) PROVE EchoesToSender'
  <2>1. /\ pc' = [pc EXCEPT ![w] = "cnt_P"] /\ conn' = conn /\ fd' = fd
        /\ line' = [line EXCEPT ![w] = [from |-> conn[fd[w]], n |-> n]]
    BY <1>5 DEF ReadLine, Go
  <2>2. ASSUME NEW u \in Workers, pc'[u] \in Carrying PROVE conn'[fd'[u]] = line'[u].from
    <3>1. CASE u = w
      BY <1>0, <2>1, <3>1
    <3>2. CASE u # w
      BY <1>0, <2>1, <2>2, <3>2 DEF EchoesToSender
    <3>. QED  BY <3>1, <3>2
  <2>. QED  BY <2>2 DEF EchoesToSender
<1>6. ASSUME NEW w \in Workers, TakeConn(w) PROVE EchoesToSender'
  <2>1. /\ pc' = [pc EXCEPT ![w] = "once"] /\ conn' = conn /\ line' = line
        /\ fd' = [fd EXCEPT ![w] = item[w]]
    BY <1>6 DEF TakeConn, Go
  <2>. QED  BY <1>0, <2>1 DEF EchoesToSender, Uncounted
<1>7. ASSUME NEW w \in Workers, WriteLine(w) PROVE EchoesToSender'
  <2>1. pc' = [pc EXCEPT ![w] = "read"] /\ conn' = conn /\ fd' = fd /\ line' = [line EXCEPT ![w] = NoLine]
    BY <1>7 DEF WriteLine, Go
  <2>. QED  BY <1>0, <2>1 DEF EchoesToSender, Uncounted
<1>8. ASSUME UNCHANGED <<fd, conn, line>>,
             \/ pc' = pc
             \/ \E w \in Workers : \/ Go(w, "once", "init") \/ Go(w, "once", "read") \/ Go(w, "init", "read")
                                   \/ Go(w, "cnt_P", "cnt_load") \/ Go(w, "cnt_load", "cnt_store")
                                   \/ Go(w, "cnt_store", "cnt_V") \/ Go(w, "cnt_V", "write")
      PROVE  EchoesToSender'
  BY <1>0, <1>8 DEF Go, EchoesToSender, Uncounted
<1>9. ASSUME Accept PROVE EchoesToSender'
  BY <1>2, <1>3, <1>9 DEF Accept
<1>10. ASSUME Inserting PROVE EchoesToSender'
  BY <1>8, <1>10 DEF Inserting, workerVars
<1>11. ASSUME NEW w \in Workers, Compute(w) PROVE EchoesToSender'
  <2>1. CASE Removing(w)
    BY <1>8, <2>1 DEF Removing, workerVars
  <2>2. CASE Once(w) \/ InitEchoCnt(w) \/ CntP(w) \/ CntLoad(w) \/ CntStore(w) \/ CntV(w)
    BY ZenonT(60), <1>8, <2>2 DEF Once, InitEchoCnt, CntP, CntLoad, CntStore, CntV
  <2>. QED  BY <1>6, <1>11, <2>1, <2>2 DEF Compute
<1>12. ASSUME NEW w \in Workers, Serve(w) PROVE EchoesToSender'
  BY <1>2, <1>4, <1>5, <1>7, <1>12 DEF Serve, Fail
<1>. QED  BY <1>9, <1>10, <1>11, <1>12 DEF Next

\* When main finds no free descriptor each is in the ring, which holds N, or
\* with a worker, which has one.
LEMMA TableFull ==
  ASSUME SInv, Roles, Accounted, at[Main] = "out", FreeFds = {}
  PROVE  /\ Cardinality(Items) \in Nat /\ Cardinality(Workers) \in Nat
         /\ Cardinality(Items) <= N + Cardinality(Workers)
<1>. USE ServerAssumption, SbufAssumption
<1>1. /\ Waiting \in Seq(Items) /\ Len(Waiting) \in 0..N /\ N \in Nat
      /\ \A t \in Threads : at[t] = "out" => item[t] = NoItem
      /\ IsFiniteSet(Workers) /\ Cardinality(Workers) \in Nat /\ Workers \subseteq Threads
  <2>1. Workers \subseteq Threads
    BY DEF Workers
  <2>2. \A t \in Threads : at[t] = "out" => item[t] = NoItem
    BY ZenonT(60) DEF SInv, ItemsThere, Giving, SlotSoon
  <2>3. IsFiniteSet(Workers) /\ Cardinality(Workers) \in Nat
    <3>1. Workers \in SUBSET Threads
      BY <2>1
    <3>. QED  BY <3>1, FS_Subset, FS_CardinalityType
  <2>4. Waiting \in Seq(Items) /\ Len(Waiting) \in 0..N
    BY WaitingSeq
  <2>. QED  BY <2>1, <2>2, <2>3, <2>4, ZenonT(60)
<1>. DEFINE has == [w \in Workers |-> IF fd[w] = NoItem THEN item[w] ELSE fd[w]]
            ring == {Waiting[k] : k \in 1..Len(Waiting)}
            held == {has[w] : w \in Workers}
<1>2. IsFiniteSet(ring) /\ Cardinality(ring) <= N /\ Cardinality(ring) \in Nat
  <2>1. IsFiniteSet(1..Len(Waiting)) /\ Cardinality(1..Len(Waiting)) = Len(Waiting)
    <3>. DEFINE n == Len(Waiting)
    <3>1. n \in Int /\ 1 \in Int /\ n >= 0
      BY <1>1
    <3>. HIDE DEF n
    <3>2. IsFiniteSet(1..n) /\ Cardinality(1..n) = IF 1 > n THEN 0 ELSE n - 1 + 1
      BY <3>1, FS_Interval
    <3>3. IsFiniteSet(1..n) /\ Cardinality(1..n) = n
      BY <3>1, <3>2
    <3>. QED  BY <3>3 DEF n
  <2>2. Waiting = [k \in 1..Len(Waiting) |-> Waiting[k]]
    BY <1>1
  <2>3. IsFiniteSet(ring) /\ Cardinality(ring) <= Cardinality(1..Len(Waiting))
    BY <2>1, <2>2, ImageSize
  <2>. QED  BY <1>1, <2>1, <2>3, FS_CardinalityType
<1>3. IsFiniteSet(held) /\ Cardinality(held) <= Cardinality(Workers) /\ Cardinality(held) \in Nat
  <2>1. has = [w \in Workers |-> has[w]]
    OBVIOUS
  <2>. HIDE DEF has
  <2>2. IsFiniteSet(held) /\ Cardinality(held) <= Cardinality(Workers)
    BY <1>1, <2>1, ImageSize
  <2>. QED  BY <2>2, FS_CardinalityType
<1>4. Items \subseteq ring \cup held
  <2>. SUFFICES ASSUME NEW f \in Items PROVE f \in ring \cup held
    OBVIOUS
  <2>1. conn[f] # NoClient
    BY DEF FreeFds
  <2>2. CASE Occurs(f, Waiting)
    BY <2>2 DEF Occurs
  <2>3. ASSUME NEW w \in Workers, item[w] = f \/ fd[w] = f PROVE f \in held
    <3>1. fd[w] # NoItem => item[w] = NoItem
      BY <1>1 DEF Roles
    <3>2. has[w] = f
      BY <2>3, <3>1
    <3>. QED  BY <3>2
  <2>. QED  BY <1>1, <2>1, <2>2, <2>3 DEF Accounted, InRing, Has
<1>. HIDE DEF ring, held
<1>5. /\ IsFiniteSet(ring \cup held) /\ IsFiniteSet(ring \cap held)
      /\ Cardinality(ring \cup held) = Cardinality(ring) + Cardinality(held) - Cardinality(ring \cap held)
      /\ Cardinality(ring \cap held) \in Nat
  BY <1>2, <1>3, FS_Union, FS_Intersection, FS_CardinalityType, ZenonT(60)
<1>6. Cardinality(Items) <= Cardinality(ring \cup held) /\ Cardinality(Items) \in Nat
  BY <1>4, <1>5, FS_Subset, FS_CardinalityType, ZenonT(60)
<1>. QED  BY <1>1, <1>2, <1>3, <1>5, <1>6

\* A descriptor that is accounted for and in one place has one holder.
LEMMA HeldOnce ==
  ASSUME SInv, Accounted, Apart, RingOnce
  PROVE  \A f \in Items : IF conn[f] = NoClient THEN Holders(f) = {} ELSE Cardinality(Holders(f)) = 1
<1>. SUFFICES ASSUME NEW f \in Items
              PROVE  IF conn[f] = NoClient THEN Holders(f) = {} ELSE Cardinality(Holders(f)) = 1
  OBVIOUS
<1>. DEFINE m == {<<"main", 0>> : t \in {u \in {Main} : item[u] = f}}
            r == {<<"ring", k>> : k \in {i \in 1..(rear - front) : Waiting[i] = f}}
            h == {<<"worker", w>> : w \in {u \in Workers : item[u] = f \/ fd[u] = f}}
<1>0. Holders(f) = m \cup r \cup h
  BY DEF Holders
<1>1. /\ m # {} <=> item[Main] = f
      /\ r # {} <=> InRing(f)
      /\ h # {} <=> \E w \in Workers : Has(w, f)
  BY WaitingSeq, ZenonT(60) DEF InRing, Occurs, Has
<1>2. item[Main] = f => m = {<<"main", 0>>}
  OBVIOUS
<1>3. InRing(f) => \E x : r = {x}
  <2>. SUFFICES ASSUME InRing(f) PROVE \E x : r = {x}
    OBVIOUS
  <2>1. PICK k \in 1..(rear - front) : Waiting[k] = f
    BY WaitingSeq DEF InRing, Occurs
  <2>2. \A i \in 1..(rear - front) : Waiting[i] = f => i = k
    BY <2>1, WaitingSeq DEF RingOnce, Distinct
  <2>3. r = {<<"ring", k>>}
    BY <2>1, <2>2
  <2>. QED  BY <2>3, ZenonT(60)
<1>4. ASSUME NEW w \in Workers, Has(w, f) PROVE \E x : h = {x}
  <2>1. \A u \in Workers : Has(u, f) => u = w
    BY <1>4 DEF Apart
  <2>2. h = {<<"worker", w>>}
    BY <1>4, <2>1 DEF Has
  <2>. QED  BY ZenonT(60), <2>2
<1>. HIDE DEF m, r, h
<1>5. CASE conn[f] = NoClient
  BY <1>0, <1>1, <1>5 DEF Accounted
<1>6. CASE conn[f] # NoClient
  <2>1. \E x : Holders(f) = {x}
    <3>1. CASE item[Main] = f
      BY <1>0, <1>1, <1>2, <3>1 DEF Apart
    <3>2. CASE InRing(f)
      BY <1>0, <1>1, <1>3, <3>2 DEF Apart
    <3>3. ASSUME NEW w \in Workers, Has(w, f) PROVE \E x : Holders(f) = {x}
      <4>1. m = {} /\ r = {}
        BY <1>1, <3>3 DEF Apart
      <4>. QED  BY <1>0, <1>4, <3>3, <4>1, ZenonT(60)
    <3>. QED  BY <1>6, <3>1, <3>2, <3>3, ZenonT(60) DEF Accounted
  <2>. QED  BY <1>6, <2>1, FS_Singleton, ZenonT(60)
<1>. QED  BY <1>5, <1>6

\* The invariant holds at the start.
LEMMA ServerInitInv == Init => ServerInv
<1>. SUFFICES ASSUME Init PROVE ServerInv
  OBVIOUS
<1>. USE ServerAssumption, SbufAssumption DEF Init, SbufInit, NoLine, NoClient
<1>1. ServerTypes
  BY DEF ServerTypes
<1>2. Roles
  BY DEF Roles, Workers
<1>3. Accounted /\ Apart /\ RingOnce
  <2>1. Waiting = <<>>
    BY DEF Waiting
  <2>2. RingOnce /\ \A f : ~InRing(f)
    BY <2>1 DEF RingOnce, Distinct, InRing, Occurs
  <2>3. \A f \in Items : item[Main] # f /\ \A w \in Workers : ~Has(w, f)
    BY DEF Has, Workers
  <2>. QED  BY <2>2, <2>3 DEF Accounted, Apart
<1>4. EchoesToSender
  BY DEF EchoesToSender, Uncounted
<1>5. OnceRight /\ CountLocked /\ SumRight /\ CountRight
  BY DEF OnceRight, CountLocked, InCount, SumRight, CountRight
<1>6. DescriptorsSuffice
  BY DEF DescriptorsSuffice
<1>. QED  BY <1>1, <1>2, <1>3, <1>4, <1>5, <1>6 DEF ServerInv

\* Every step of main and of the workers keeps it.
LEMMA ServerStep == SInv /\ ServerInv /\ [Next]_vars => ServerInv'
<1>. SUFFICES ASSUME SInv, ServerInv, [Next]_vars PROVE ServerInv'
  OBVIOUS
<1>1. ServerTypes' /\ Roles'
  BY TypesStep DEF ServerInv
<1>2. OnceRight' /\ CountLocked' /\ SumRight' /\ CountRight'
  BY <1>1, CountStep DEF ServerInv
<1>3. CASE UNCHANGED vars
  <2>1. UNCHANGED <<exited, item, fd, conn, pc, line>> /\ Waiting' = Waiting
    BY <1>3 DEF vars, sbufVars, ringVars, workerVars, Waiting
  <2>2. (Accounted /\ Apart /\ RingOnce) => (Accounted /\ Apart /\ RingOnce)'
    BY ZenonT(60), <2>1 DEF Accounted, Apart, RingOnce, InRing, Has
  <2>3. EchoesToSender' /\ DescriptorsSuffice'
    BY ZenonT(60), <2>1 DEF ServerInv, EchoesToSender, DescriptorsSuffice
  <2>. QED  BY <1>1, <1>2, <2>1, <2>2, <2>3 DEF ServerInv
<1>4. CASE Next
  <2>0. exited = "no" /\ Accounted /\ Apart /\ RingOnce
    BY <1>4 DEF Next, ServerInv
  <2>1. exited' = "no" => (Accounted /\ Apart /\ RingOnce)'
    BY <1>4, <2>0, HoldStep DEF ServerInv
  <2>2. EchoesToSender'
    BY <1>4, <2>0, EchoStep DEF ServerInv
  <2>3. DescriptorsSuffice'
    <3>1. CASE exited' = "accept"
      <4>1. Accept /\ FreeFds = {}
        <5>1. ~Inserting /\ (Accept => FreeFds = {})
          BY <2>0, <3>1 DEF Inserting, Accept
        <5>2. ASSUME NEW w \in Workers PROVE ~Compute(w)
          BY ZenonT(60), <2>0, <3>1 DEF Compute, Removing, TakeConn, Once, InitEchoCnt, CntP, CntLoad, CntStore, CntV
        <5>3. ASSUME NEW w \in Workers PROVE ~Serve(w)
          BY ZenonT(60), <2>0, <3>1 DEF Serve, ReadLine, WriteLine, Close, Fail, Exit
        <5>. QED  BY <1>4, <5>1, <5>2, <5>3 DEF Next
      <4>2. /\ Cardinality(Items) \in Nat /\ Cardinality(Workers) \in Nat
            /\ Cardinality(Items) <= N + Cardinality(Workers)
        BY <2>0, <4>1, TableFull DEF ServerInv, Accept
      <4>. QED  BY <4>2, SbufAssumption DEF DescriptorsSuffice
    <3>2. CASE exited' # "accept"
      BY <3>2 DEF DescriptorsSuffice
    <3>. QED  BY <3>1, <3>2
  <2>. QED  BY <1>1, <1>2, <2>1, <2>2, <2>3 DEF ServerInv
<1>. QED  BY <1>3, <1>4

\* It holds in every state of the server.
THEOREM ServerInvariant == Spec => []ServerInv
BY ServerInitInv, ServerStep, ServerUsesBuffer, Invariant, PTL DEF Spec

\* Between accept and close exactly one of main, a cell of the ring and a
\* worker holds a descriptor: it is neither lost nor served by two workers.
THEOREM OneHolderAlways == Spec => []OneHolder
<1>1. SInv /\ ServerInv => OneHolder
  BY HeldOnce DEF ServerInv, OneHolder
<1>. QED  BY <1>1, ServerInvariant, ServerUsesBuffer, Invariant, PTL

\* echo_cnt writes a line to the connection it was read from.
THEOREM LinesGoBack == Spec => []EchoesToSender
<1>1. ServerInv => EchoesToSender
  BY DEF ServerInv
<1>. QED  BY <1>1, ServerInvariant, PTL

\* accept fails for want of a descriptor only when the table has no more than
\* N plus one for each worker.
THEOREM TableSuffices == Spec => []DescriptorsSuffice
<1>1. ServerInv => DescriptorsSuffice
  BY DEF ServerInv
<1>. QED  BY <1>1, ServerInvariant, PTL

\* CountRight is CountExact, its sum written out.
LEMMA CountIsExact == ServerInv => CountExact
<1>. SUFFICES ASSUME CountRight PROVE CountExact
  BY DEF ServerInv
<1>1. Pending = {w \in Workers : pc[w] \in Uncounted}
  BY DEF Pending
<1>2. \A w \in Pending : Lens[w] = line[w].n
  BY DEF Lens, Pending
<1>3. MapThenSumSet(LAMBDA w : line[w].n, Pending) = Total(Lens, Pending)
  BY <1>2, TotalN, ZenonT(60)
<1>. QED  BY <1>1, <1>3 DEF CountRight, CountExact

\* No update of byte_cnt is lost, whichever workers count at a time: it is
\* what was read less what workers are still to add.
THEOREM NoUpdateLost == Spec => []CountExact
BY CountIsExact, ServerInvariant, PTL

\* What is counted is at most what was read.
LEMMA CountsBounded ==
  ASSUME ServerInv
  PROVE  byte_cnt \in 0..MaxBytes /\ \A w \in Workers : sum[w] \in 0..MaxBytes
<1>1. byte_cnt \in Nat /\ total \in 0..MaxBytes /\ MaxBytes \in Nat /\ Total(Lens, Pending) \in Nat
  <2>1. ServerTypes
    BY DEF ServerInv
  <2>2. Total(Lens, Pending) \in Nat
    BY <2>1, PendingTotal
  <2>. QED  BY <2>1, <2>2, ServerAssumption DEF ServerTypes
<1>2. byte_cnt + Total(Lens, Pending) <= MaxBytes
  <2>1. CASE once = "done"
    BY <1>1, <2>1 DEF ServerInv, CountRight
  <2>2. CASE once # "done"
    <3>1. byte_cnt = 0 /\ Pending = {}
      BY <2>2 DEF ServerInv, OnceRight, Pending, Uncounted
    <3>2. Total(Lens, Pending) = 0
      BY <3>1, PendingTotal DEF ServerInv
    <3>. QED  BY <1>1, <3>1, <3>2
  <2>. QED  BY <2>1, <2>2
<1>3. ASSUME NEW w \in Workers PROVE sum[w] \in 0..MaxBytes
  <2>1. CASE pc[w] # "cnt_store"
    BY <1>1, <2>1 DEF ServerInv, SumRight
  <2>2. CASE pc[w] = "cnt_store"
    <3>1. w \in Pending
      BY <2>2 DEF Pending, Uncounted
    <3>2. Lens[w] \in Nat /\ Total(Lens, Pending) = Lens[w] + Total(Lens, Pending \ {w})
      BY <3>1, PendingTotal DEF ServerInv
    <3>3. Total(Lens, Pending \ {w}) \in Nat
      <4>1. IsFiniteSet(Pending \ {w}) /\ \A u \in Pending \ {w} : Lens[u] \in Nat
        BY PendingTotal, FS_Subset DEF ServerInv
      <4>. QED  BY <4>1, TotalRules
    <3>4. sum[w] = byte_cnt + Lens[w]
      BY <2>2 DEF ServerInv, SumRight, Lens
    <3>. QED  BY <1>1, <1>2, <3>2, <3>3, <3>4
  <2>. QED  BY <2>1, <2>2
<1>. QED  BY <1>1, <1>2, <1>3

\* Types are kept, the bounds of the counts included.
THEOREM ServerTypeCorrect == Spec => []TypeOK
<1>1. ASSUME SbufTypeOK, ServerInv PROVE TypeOK
  <2>1. sum \in [Workers -> 0..MaxBytes] /\ byte_cnt \in 0..MaxBytes
    BY <1>1, CountsBounded DEF ServerInv, ServerTypes
  <2>. QED  BY <1>1, <2>1 DEF TypeOK, ServerInv, ServerTypes
<1>. QED  BY <1>1, ServerInvariant, ServerUsesBuffer, SbufTypeCorrect, PTL
=============================================================================
