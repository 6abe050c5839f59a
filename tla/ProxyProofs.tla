----------------------------- MODULE ProxyProofs -----------------------------
(***************************************************************************)
(* The proxy's lock excludes writers from readers, lets readers in first,  *)
(* and implements the abstract read-write lock, for any number of threads. *)
(* The caching proxy, for any number of threads, keys and cache slots,     *)
(* uses its lock as the lock's specification allows, and what is in the    *)
(* cache, and what a hit sends, is a whole answer to its URI.              *)
(***************************************************************************)
EXTENDS Proxy, FiniteSetTheorems, NatLemmas, TLAPS
USE SMTT(60), ZenonT(60), Z3T(60)
-----------------------------------------------------------------------------
(* The lock                                                                *)

\* Threads between P(mutex) and V(mutex).
InMutex ==
  {t \in Threads : at[t] \in {"rd_count", "rd_P_w", "rd_V_mutex",
                              "ru_count", "ru_V_w", "ru_V_mutex"}}
\* Threads counted in readcnt.
Counted ==
  {t \in Threads : at[t] \in {"rd_P_w", "rd_V_mutex", "reading", "ru_P_mutex", "ru_count"}}
\* Threads on whose behalf the readers hold w.
Holders ==
  {t \in Threads : at[t] \in {"rd_V_mutex", "reading", "ru_P_mutex", "ru_count", "ru_V_w"}}

Types ==
  /\ mutex \in {0, 1}
  /\ w \in {0, 1}
  /\ at \in [Threads -> LockPcs]
MutexHeld ==
  /\ \A t, u \in InMutex : t = u
  /\ InMutex # {} => mutex = 0
CountRight == readcnt = Cardinality(Counted)
WHeld ==
  /\ Holders # {} => w = 0 /\ Writers = {}
  /\ Writers # {} => w = 0
  /\ \A t, u \in Writers : t = u
\* The reader that waits for w is the only one counted, and the reader that
\* gives w back was the last.
FirstAndLast ==
  \A t \in Threads :
    /\ at[t] = "rd_P_w" => Counted = {t}
    /\ at[t] = "ru_V_w" => Counted = {}

LInv == Types /\ MutexHeld /\ CountRight /\ WHeld /\ FirstAndLast
-----------------------------------------------------------------------------
\* Counted is finite, so that its size can be compared with readcnt.
LEMMA CountedFinite ==
  /\ IsFiniteSet(Counted)
  /\ Cardinality(Counted) \in 0..Cardinality(Threads)
<1>1. Counted \subseteq Threads
  BY DEF Counted
<1>2. IsFiniteSet(Counted) /\ Cardinality(Counted) <= Cardinality(Threads)
  BY <1>1, ThreadsAssumption, FS_Subset
<1>3. Cardinality(Counted) \in Nat /\ Cardinality(Threads) \in Nat
  BY <1>2, ThreadsAssumption, FS_CardinalityType
<1>. QED  BY <1>2, <1>3

\* The lock as rwlock_init leaves it.
LEMMA LockInitInv == LockInit => LInv
<1>. SUFFICES ASSUME LockInit PROVE LInv
  OBVIOUS
<1>. USE DEF LockInit
<1>1. Counted = {} /\ InMutex = {} /\ Holders = {} /\ Writers = {}
  BY DEF Counted, InMutex, Holders, Writers
<1>. QED  BY <1>1, FS_EmptySet DEF LInv, Types, LockPcs, MutexHeld, CountRight, WHeld, FirstAndLast

\* A reader counts itself.
LEMMA RdCountStep ==
  ASSUME LInv, NEW t \in Threads, RdCount(t)
  PROVE  LInv'
<1>1. Types'
  BY DEF LInv, Types, RdCount, Move, LockPcs, RdLockPcs
<1>2. Counted' = Counted \cup {t} /\ t \notin Counted /\ InMutex' = InMutex /\ Writers' = Writers
  BY DEF LInv, Types, RdCount, Move, Counted, InMutex, Writers
<1>3. readcnt' = Cardinality(Counted') /\ readcnt \in Nat /\ readcnt = Cardinality(Counted)
  <2>1. Cardinality(Counted \cup {t}) = Cardinality(Counted) + 1
    BY <1>2, CountedFinite, FS_AddElement
  <2>2. readcnt \in Nat
    BY CountedFinite, FS_CardinalityType DEF LInv, CountRight
  <2>. QED  BY <1>2, <2>1, <2>2 DEF LInv, CountRight, RdCount
<1>4. MutexHeld'
  BY <1>2 DEF LInv, MutexHeld, RdCount
<1>5. t \in InMutex
  BY DEF InMutex, RdCount, Move
<1>6. CASE readcnt = 0
  <2>1. Counted = {}
    BY <1>3, <1>6, CountedFinite, FS_EmptySet, ZenonT(60)
  <2>2. at' = [at EXCEPT ![t] = "rd_P_w"]
    <3>1. readcnt' = 1
      BY <1>6 DEF RdCount, Move
    <3>. QED  BY <3>1, ZenonT(60) DEF RdCount, Move
  <2>3. Holders' = Holders
    BY <2>2 DEF Holders, LInv, Types, RdCount, Move
  <2>4. WHeld'
    BY <1>2, <2>3 DEF LInv, WHeld, RdCount
  <2>5. FirstAndLast'
    BY <1>2, <1>5, <2>1, <2>2 DEF FirstAndLast, LInv, Types, MutexHeld, InMutex
  <2>. QED  BY <1>1, <1>3, <1>4, <2>4, <2>5 DEF LInv, CountRight
<1>7. CASE readcnt # 0
  <2>1. PICK u \in Counted : TRUE
    BY <1>3, <1>7, FS_EmptySet
  <2>2. u \in Holders
    BY <2>1, <1>5, <1>2 DEF Counted, Holders, InMutex, LInv, MutexHeld
  <2>3. at' = [at EXCEPT ![t] = "rd_V_mutex"]
    <3>1. readcnt' # 1
      BY <1>3, <1>7 DEF RdCount, Move
    <3>. QED  BY <3>1 DEF RdCount, Move
  <2>4. WHeld'
    BY <1>2, <2>2 DEF LInv, WHeld, RdCount
  <2>5. FirstAndLast'
    BY <1>5, <2>3 DEF FirstAndLast, LInv, Types, MutexHeld, InMutex
  <2>. QED  BY <1>1, <1>3, <1>4, <2>4, <2>5 DEF LInv, CountRight
<1>. QED  BY <1>6, <1>7

\* A reader takes itself out of the count.
LEMMA RuCountStep ==
  ASSUME LInv, NEW t \in Threads, RuCount(t)
  PROVE  LInv'
<1>1. Types'
  BY DEF LInv, Types, RuCount, Move, LockPcs, RdUnlockPcs
<1>2. Counted' = Counted \ {t} /\ t \in Counted /\ InMutex' = InMutex /\ Writers' = Writers
  BY DEF LInv, Types, RuCount, Move, Counted, InMutex, Writers
<1>3. readcnt' = Cardinality(Counted')
  <2>1. Cardinality(Counted \ {t}) = Cardinality(Counted) - 1
    BY <1>2, CountedFinite, FS_RemoveElement
  <2>. QED  BY <1>2, <2>1 DEF LInv, CountRight, RuCount
<1>4. MutexHeld'
  BY <1>2 DEF LInv, MutexHeld, RuCount
<1>5. t \in InMutex
  BY DEF InMutex, RuCount, Move
<1>6. Holders' \subseteq Holders
  BY DEF Holders, LInv, Types, RuCount, Move
<1>7. WHeld'
  BY <1>2, <1>6 DEF LInv, WHeld, RuCount
<1>8. FirstAndLast'
  <2>1. \A u \in Threads : at'[u] = "rd_P_w" => FALSE
    BY <1>5 DEF LInv, Types, MutexHeld, InMutex, RuCount, Move
  <2>2. \A u \in Threads : at'[u] = "ru_V_w" => readcnt' = 0
    BY <1>5 DEF LInv, Types, MutexHeld, InMutex, RuCount, Move
  <2>3. readcnt' = 0 => Counted' = {}
    <3>1. IsFiniteSet(Counted')
      BY <1>2, CountedFinite, FS_RemoveElement
    <3>. QED  BY <1>3, <3>1, FS_EmptySet, ZenonT(60)
  <2>. QED  BY <2>1, <2>2, <2>3 DEF FirstAndLast
<1>. QED  BY <1>1, <1>3, <1>4, <1>7, <1>8 DEF LInv, CountRight

\* Every other step keeps Counted and readcnt as they are.
LEMMA OtherStep ==
  ASSUME LInv, NEW t \in Threads,
         \/ LockCall(t)
         \/ RdPMutex(t) \/ RdPW(t) \/ RdVMutex(t)
         \/ RuPMutex(t) \/ RuVW(t) \/ RuVMutex(t) \/ WrPW(t)
  PROVE  LInv'
<1>. USE DEF LockCall, RdLock, RdUnlock, WrLock, WrUnlock, RdPMutex, RdPW, RdVMutex,
             RuPMutex, RuVW, RuVMutex, WrPW, Move, P, V
<1>1. Counted' = Counted /\ readcnt' = readcnt
  BY DEF LInv, Types, Counted
<1>2. at' \in [Threads -> LockPcs]
  BY DEF LInv, Types, LockPcs, RdLockPcs, RdUnlockPcs
<1>3. mutex' \in {0, 1} /\ MutexHeld'
  <2>1. CASE RdPMutex(t) \/ RuPMutex(t)
    <3>1. InMutex = {}
      BY <2>1 DEF LInv, MutexHeld
    <3>2. InMutex' = {t}
      BY <2>1, <3>1 DEF LInv, Types, InMutex
    <3>. QED  BY <2>1, <3>2 DEF MutexHeld
  <2>2. CASE RdVMutex(t) \/ RuVMutex(t)
    <3>1. t \in InMutex
      BY <2>2 DEF InMutex
    <3>2. InMutex' = {}
      BY <2>2, <3>1 DEF LInv, Types, MutexHeld, InMutex
    <3>3. mutex' = 1
      BY <2>2, <3>1 DEF LInv, MutexHeld
    <3>. QED  BY <3>2, <3>3 DEF MutexHeld
  <2>3. CASE LockCall(t) \/ RdPW(t) \/ RuVW(t) \/ WrPW(t)
    <3>1. InMutex' = InMutex /\ mutex' = mutex
      BY <2>3 DEF LInv, Types, InMutex
    <3>. QED  BY <3>1 DEF LInv, Types, MutexHeld
  <2>. QED  BY <2>1, <2>2, <2>3
<1>5. w' \in {0, 1} /\ WHeld'
  <2>1. CASE RuVW(t)
    <3>1. t \in Holders /\ t \in InMutex /\ Counted = {}
      BY <2>1 DEF Holders, InMutex, LInv, FirstAndLast
    <3>2. Holders' = {}
      BY <2>1, <3>1 DEF LInv, Types, MutexHeld, InMutex, Counted, Holders
    <3>3. Writers' = {} /\ w' = 1
      BY <2>1, <3>1 DEF LInv, Types, WHeld, Writers
    <3>. QED  BY <3>2, <3>3 DEF WHeld
  <2>2. CASE WrUnlock(t)
    <3>1. t \in Writers
      BY <2>2 DEF Writers
    <3>2. Holders' = {} /\ Writers' = {} /\ w' = 1
      BY <2>2, <3>1 DEF LInv, Types, WHeld, Holders, Writers
    <3>. QED  BY <3>2 DEF WHeld
  <2>3. CASE RdPW(t)
    <3>1. Writers' = {} /\ w' = 0
      BY <2>3 DEF LInv, Types, WHeld, Writers
    <3>. QED  BY <3>1 DEF WHeld
  <2>4. CASE WrPW(t)
    <3>1. Holders' = {} /\ Writers' = {t} /\ w' = 0
      BY <2>4 DEF LInv, Types, WHeld, Holders, Writers
    <3>. QED  BY <3>1 DEF WHeld
  <2>5. CASE RdLock(t) \/ RdUnlock(t) \/ WrLock(t) \/ RdPMutex(t) \/ RdVMutex(t)
               \/ RuPMutex(t) \/ RuVMutex(t)
    <3>1. Holders' = Holders /\ Writers' = Writers /\ w' = w
      BY <2>5 DEF LInv, Types, Holders, Writers
    <3>. QED  BY <3>1 DEF LInv, Types, WHeld
  <2>. QED  BY <2>1, <2>2, <2>3, <2>4, <2>5
<1>6. FirstAndLast'
  BY <1>1 DEF LInv, Types, FirstAndLast
<1>. QED  BY <1>1, <1>2, <1>3, <1>5, <1>6 DEF LInv, Types, CountRight

\* The invariant of the lock.
LEMMA LockInvariant == LockSpec => []LInv
<1>1. LInv /\ [LockNext]_lockVars => LInv'
  <2>. SUFFICES ASSUME LInv, [LockNext]_lockVars PROVE LInv'
    OBVIOUS
  <2>1. CASE LockNext
    BY <2>1, RdCountStep, RuCountStep, OtherStep DEF LockNext, LockStep
  <2>2. CASE UNCHANGED lockVars
    BY <2>2 DEF lockVars, LInv, Types, MutexHeld, CountRight, WHeld, FirstAndLast,
                InMutex, Counted, Holders, Writers
  <2>. QED  BY <2>1, <2>2
<1>. QED  BY <1>1, LockInitInv, PTL DEF LockSpec

\* The semaphores are binary and readcnt never exceeds the threads.
THEOREM LockTypeCorrect == LockSpec => []LockTypeOK
<1>1. LInv => LockTypeOK
  BY CountedFinite DEF LInv, Types, CountRight, LockTypeOK
<1>. QED  BY <1>1, LockInvariant, PTL

\* No thread writes the cache while another one uses it.
THEOREM LockExcludes == LockSpec => []Exclusion
<1>1. LInv => Exclusion
  BY DEF LInv, WHeld, Exclusion, Readers, Holders
<1>. QED  BY <1>1, LockInvariant, PTL

\* A reader never waits behind a writer that waits for other readers.
THEOREM ReadersGoFirst == LockSpec => []ReaderFirst
<1>1. LInv => ReaderFirst
  BY DEF LInv, FirstAndLast, Counted, ReaderFirst, Readers
<1>. QED  BY <1>1, LockInvariant, PTL

\* The semaphores and the counter implement the abstract read-write lock.
THEOREM LockImplements == LockSpec => ImplementsLock
<1>1. LockInit => Abstract!RWInit
  BY DEF LockInit, Abstract!RWInit, Readers, Writers
<1>2. LInv /\ LInv' /\ [LockNext]_lockVars => [Abstract!RWNext]_(Abstract!rwVars)
  <2>. SUFFICES ASSUME LInv, LInv', [LockNext]_lockVars
                PROVE  [Abstract!RWNext]_(Abstract!rwVars)
    OBVIOUS
  <2>. USE DEF Abstract!rwVars
  <2>1. CASE UNCHANGED lockVars
    BY <2>1 DEF lockVars, Readers, Writers
  <2>2. ASSUME NEW t \in Threads, RdVMutex(t)
        PROVE  Abstract!StartReading(t)
    BY <2>2 DEF RdVMutex, Move, LInv, Types, WHeld, Holders, Readers, Writers, Abstract!StartReading
  <2>3. ASSUME NEW t \in Threads, RdUnlock(t)
        PROVE  Abstract!StopReading(t)
    BY <2>3 DEF RdUnlock, Move, LInv, Types, Readers, Writers, Abstract!StopReading
  <2>4. ASSUME NEW t \in Threads, WrPW(t)
        PROVE  Abstract!StartWriting(t)
    <3>1. Readers = {} /\ Writers = {}
      BY <2>4 DEF WrPW, P, Move, LInv, WHeld, Holders, Readers
    <3>2. Readers' = {} /\ Writers' = {t}
      BY <2>4, <3>1 DEF WrPW, Move, LInv, Types, Readers, Writers
    <3>. QED  BY <3>1, <3>2 DEF Abstract!StartWriting
  <2>5. ASSUME NEW t \in Threads, WrUnlock(t)
        PROVE  Abstract!StopWriting(t)
    BY <2>5 DEF WrUnlock, Move, LInv, Types, Readers, Writers, Abstract!StopWriting
  <2>6. ASSUME NEW t \in Threads,
               \/ RdLock(t) \/ WrLock(t)
               \/ RdPMutex(t) \/ RdCount(t) \/ RdPW(t)
               \/ RuPMutex(t) \/ RuCount(t) \/ RuVW(t) \/ RuVMutex(t)
        PROVE  UNCHANGED <<Readers, Writers>>
    BY <2>6 DEF RdLock, WrLock, RdPMutex, RdCount, RdPW, RuPMutex, RuCount, RuVW, RuVMutex,
                Move, LInv, Types, Readers, Writers
  <2>. QED  BY <2>1, <2>2, <2>3, <2>4, <2>5, <2>6
            DEF LockNext, LockStep, LockCall, Abstract!RWNext
<1>. QED  BY <1>1, <1>2, LockInvariant, PTL DEF LockSpec, ImplementsLock, Abstract!RWSpec
-----------------------------------------------------------------------------
(* The proxy                                                               *)

\* Every step of the proxy is a step of the lock or leaves it alone.
LEMMA LockOrNot == [Next]_vars => [LockNext]_lockVars
<1>. SUFFICES ASSUME [Next]_vars PROVE [LockNext]_lockVars
  OBVIOUS
<1>1. ASSUME NEW t \in Threads, Compute(t) PROVE [LockNext]_lockVars
  BY <1>1 DEF Compute, Locking, GetMiss, GetFound, GetStamp, GetCopy, PutOverwrite, PutPick, PutFill,
              LockNext, LockCall
<1>2. ASSUME NEW t \in Threads, Network(t) PROVE [LockNext]_lockVars
  BY <1>2, ZenonT(60) DEF Network, Accept, ReadRequest, Drop, Sigpipe, Hit, Connect, Send, Relay, RelayEnd,
              LockNext, LockCall
<1>3. CASE Tick \/ Stopped \/ UNCHANGED vars
  BY <1>3 DEF Tick, Stopped, vars
<1>. QED  BY <1>1, <1>2, <1>3 DEF Next

\* The proxy calls the lock as its users must: rdlock, rdunlock, wrlock and
\* wrunlock in that order, each by the thread that holds it.  So what is
\* proved of the lock is true in the proxy.
THEOREM ProxyUsesLock == Spec => LockSpec
<1>1. Init => LockInit
  BY DEF Init
<1>. QED  BY <1>1, LockOrNot, PTL DEF Spec, LockSpec

\* In the proxy, too, no thread writes the cache while another one uses it.
THEOREM ProxyExcludes == Spec => []Exclusion
BY ProxyUsesLock, LockExcludes, PTL

\* In the proxy, too, the semaphores implement the abstract lock.
THEOREM ProxyImplementsLock == Spec => ImplementsLock
BY ProxyUsesLock, LockImplements, PTL
-----------------------------------------------------------------------------
\* CacheFind is a search from the first slot: it finds nothing only when no
\* valid slot has the key.
LEMMA FindComplete ==
  ASSUME NEW k, NEW i \in Slots, objs[i].valid, objs[i].key = k
  PROVE  CacheFind(k) # {}
<1>. DEFINE T == {j \in Slots : objs[j].valid /\ objs[j].key = k}
<1>1. T \subseteq Nat /\ T # {}
  BY ProxyAssumption DEF Slots
<1>2. PICK m \in T : \A j \in T : ~(j < m)
  BY <1>1, LeastExists, ZenonT(60)
<1>3. m \in CacheFind(k)
  BY <1>2 DEF CacheFind
<1>. QED  BY <1>3

\* The least element of a set of slots.
LEMMA LeastSlot ==
  ASSUME NEW T \in SUBSET Slots, T # {}
  PROVE  Min(T) \in T
<1>1. T \subseteq Nat
  BY ProxyAssumption DEF Slots
<1>2. PICK m \in T : \A j \in T : ~(j < m)
  BY <1>1, LeastExists, ZenonT(60)
<1>3. \A j \in T : m =< j
  BY <1>1, <1>2
<1>. QED  BY <1>3, ZenonT(60) DEF Min

\* cache_put always finds a slot to fill.
LEMMA VictimIsSlot ==
  ASSUME \A i \in Slots : objs[i].clk \in Nat
  PROVE  Victim \in Slots
<1>. DEFINE Old == {i \in Slots : \A j \in Slots : objs[i].clk <= objs[j].clk}
<1>1. CASE Free # {}
  <2>1. Free \in SUBSET Slots
    BY DEF Free
  <2>2. Min(Free) \in Free
    BY <1>1, <2>1, LeastSlot
  <2>. QED  BY <1>1, <2>1, <2>2 DEF Victim
<1>2. CASE Free = {}
  <2>. DEFINE T == {objs[i].clk : i \in Slots}
  <2>1. T \subseteq Nat
    OBVIOUS
  <2>2. 1 \in Slots
    BY ProxyAssumption DEF Slots
  <2>3. PICK m \in T : \A x \in T : ~(x < m)
    <3>1. T # {}
      BY <2>2
    <3>. HIDE DEF T
    <3>. QED  BY <2>1, <3>1, LeastExists
  <2>4. PICK i \in Slots : objs[i].clk = m
    OBVIOUS
  <2>5. i \in Old
    BY <2>1, <2>3, <2>4
  <2>6. Min(Old) \in Old
    <3>1. Old \in SUBSET Slots /\ Old # {}
      BY <2>5
    <3>. HIDE DEF Old
    <3>. QED  BY <3>1, LeastSlot
  <2>. QED  BY <1>2, <2>6 DEF Victim
<1>. QED  BY <1>1, <1>2
-----------------------------------------------------------------------------
(* The invariant.                                                          *)

ProxyTypes ==
  /\ objs \in [Slots -> [valid : BOOLEAN, clk : 0..MaxClock, key : Keys \cup {NoKey}, value : Objects]]
  /\ last \in [Slots -> 0..MaxClock]
  /\ clock \in 0..MaxClock
  /\ pc \in [Threads -> {"free", "request", "lookup", "found", "stamped", "hit",
                         "miss", "send", "relay", "put", "fill"}]
  /\ uri \in [Threads -> Keys \cup {NoKey}]
  /\ obj \in [Threads -> Objects]
  /\ slot \in [Threads -> Slots]
  /\ stamp \in [Threads -> 0..MaxClock]
  /\ remote \subseteq Threads
  /\ up \in BOOLEAN

\* Where doit is and where its thread is in the lock's routines agree, until
\* a signal has ended the process.
InStep ==
  \A t \in Threads : up =>
    /\ pc[t] \in {"free", "request", "send", "relay"} => at[t] = "out"
    /\ pc[t] = "lookup" => at[t] \in RdLockPcs \cup {"reading"}
    /\ pc[t] \in {"found", "stamped"} => at[t] = "reading"
    /\ pc[t] \in {"hit", "miss"} => at[t] \in RdUnlockPcs \cup {"out"}
    /\ pc[t] = "put" => at[t] \in {"wr_P_w", "writing"}
    /\ pc[t] = "fill" => at[t] = "writing"

\* A process that has ended has no threads.
DeadIsEmpty == ~up => \A t \in Threads : pc[t] = "free"

\* The answer relayed so far is kept as long as it fits; what goes to the
\* cache or comes from it is whole.
BufferOK(t) ==
  /\ pc[t] \in {"relay", "put", "fill", "hit"} => obj[t].of.key = uri[t]
  /\ pc[t] = "relay" =>
       /\ obj[t].size <= obj[t].of.len
       /\ obj[t].size <= MaxObject => obj[t].parts = 0..(obj[t].size - 1)
  /\ pc[t] \in {"put", "fill", "hit"} => Whole(obj[t])
Buffers == \A t \in Threads : BufferOK(t)

\* The slot a thread works on is the one of its URI.
SlotOK(t) ==
  pc[t] \in {"found", "stamped", "fill"} => objs[slot[t]].valid /\ objs[slot[t]].key = uri[t]
SlotsRight == \A t \in Threads : SlotOK(t)

PInv == /\ LInv /\ ProxyTypes /\ InStep /\ DeadIsEmpty /\ RemoteClosed
        /\ Buffers /\ SlotsRight /\ OneEntryPerKey /\ EntriesWhole
-----------------------------------------------------------------------------
\* The objects that buffers and slots start with.
LEMMA NothingTyped == Nothing \in Objects
BY ProxyAssumption DEF Nothing, Empty, Objects, Answers

\* The proxy after cache_init.
LEMMA ProxyInit == Init => PInv
<1>. SUFFICES ASSUME Init PROVE PInv
  OBVIOUS
<1>. USE DEF Init
<1>1. LInv
  BY LockInitInv
<1>2. ProxyTypes
  BY ProxyAssumption, NothingTyped DEF ProxyTypes, NoObjects, Slots
<1>3. InStep /\ DeadIsEmpty /\ RemoteClosed
  BY DEF InStep, DeadIsEmpty, RemoteClosed, LockInit
<1>4. Buffers /\ SlotsRight
  BY DEF Buffers, BufferOK, SlotsRight, SlotOK
<1>5. OneEntryPerKey /\ EntriesWhole
  BY DEF OneEntryPerKey, EntriesWhole, NoObjects
<1>. QED  BY <1>1, <1>2, <1>3, <1>4, <1>5 DEF PInv

\* The type of the cache.
ObjsTyped(f) ==
  f \in [Slots -> [valid : BOOLEAN, clk : 0..MaxClock, key : Keys \cup {NoKey}, value : Objects]]

\* A slot with its value and its time overwritten ...
LEMMA Overwritten ==
  ASSUME ObjsTyped(objs), NEW i \in Slots, NEW o \in Objects, NEW c \in 0..MaxClock,
         objs' = [objs EXCEPT ![i].value = o, ![i].clk = c]
  PROVE  /\ ObjsTyped(objs')
         /\ objs'[i].value = o /\ objs'[i].key = objs[i].key /\ objs'[i].valid = objs[i].valid
         /\ \A j \in Slots : j # i => objs'[j] = objs[j]
<1>. USE DEF ObjsTyped
<1>1. PICK g : g = [objs EXCEPT ![i].value = o]
  OBVIOUS
<1>2. ObjsTyped(g)
  BY <1>1
<1>3. objs' = [g EXCEPT ![i].clk = c]
  BY <1>1, ZenonT(60)
<1>4. ObjsTyped(objs')
  BY <1>2, <1>3, ZenonT(60)
<1>. QED  BY <1>4

\* ... and one that was taken for a new key.
LEMMA Taken ==
  ASSUME ObjsTyped(objs), NEW i \in Slots, NEW k \in Keys \cup {NoKey}, NEW c \in 0..MaxClock,
         objs' = [objs EXCEPT ![i].valid = TRUE, ![i].clk = c, ![i].key = k]
  PROVE  /\ ObjsTyped(objs')
         /\ objs'[i].valid /\ objs'[i].key = k
         /\ \A j \in Slots : j # i => objs'[j] = objs[j]
<1>. USE DEF ObjsTyped
<1>1. PICK g : g = [objs EXCEPT ![i].valid = TRUE]
  OBVIOUS
<1>2. ObjsTyped(g)
  BY <1>1, ZenonT(60)
<1>3. PICK h : h = [g EXCEPT ![i].clk = c]
  BY ZenonT(60)
<1>4. ObjsTyped(h)
  BY <1>2, <1>3
<1>5. objs' = [h EXCEPT ![i].key = k]
  <2>1. objs' = [g EXCEPT ![i].clk = c, ![i].key = k]
    BY <1>1, ZenonT(60)
  <2>. QED  BY <1>3, <2>1, ZenonT(60)
<1>6. ObjsTyped([h EXCEPT ![i].key = k])
  BY <1>4, ZenonT(60)
<1>7. ObjsTyped(objs')
  BY ONLY <1>5, <1>6
<1>. QED  BY <1>7

\* The locals of doit after its return.
LEMMA ReturnTypes ==
  ASSUME ProxyTypes, NEW t \in Threads, Return(t)
  PROVE  /\ pc' \in [Threads -> {"free", "request", "lookup", "found", "stamped", "hit",
                                 "miss", "send", "relay", "put", "fill"}]
         /\ uri' \in [Threads -> Keys \cup {NoKey}]
         /\ obj' \in [Threads -> Objects]
         /\ slot' \in [Threads -> Slots]
         /\ stamp' \in [Threads -> 0..MaxClock]
         /\ remote' \subseteq Threads
<1>1. 1 \in Slots /\ 0 \in 0..MaxClock
  BY ProxyAssumption DEF Slots
<1>. QED  BY <1>1, NothingTyped DEF ProxyTypes, Return

\* Types are kept by the steps that need no peer ...
LEMMA ComputeTypes ==
  ASSUME ProxyTypes, NEW t \in Threads, Compute(t)
  PROVE  ProxyTypes'
<1>. USE NothingTyped DEF ProxyTypes, Go
<1>0. 1 \in Slots /\ 0 \in 0..MaxClock
  BY ProxyAssumption DEF Slots
<1>1. CASE Locking(t)
  BY <1>1 DEF Locking, cacheVars, threadVars
<1>2. CASE GetMiss(t)
  BY <1>2 DEF GetMiss, cacheVars
<1>3. CASE GetFound(t)
  BY <1>3 DEF GetFound, CacheFind
<1>4. CASE GetStamp(t)
  BY <1>0, <1>4, ZenonT(60) DEF GetStamp
<1>5. CASE GetCopy(t)
  BY <1>0, <1>5 DEF GetCopy, cacheVars
<1>6. CASE PutOverwrite(t)
  <2>1. PICK i \in Slots : /\ objs' = [objs EXCEPT ![i].value = obj[t], ![i].clk = clock]
                           /\ last' = [last EXCEPT ![i] = clock]
    BY <1>6, ZenonT(60) DEF PutOverwrite, CacheFind
  <2>2. ObjsTyped(objs')
    BY ZenonT(60), <2>1, Overwritten DEF ObjsTyped
  <2>. QED  BY <1>6, <2>1, <2>2, ReturnTypes DEF PutOverwrite, ObjsTyped
<1>7. CASE PutPick(t)
  <2>1. Victim \in Slots
    BY ProxyAssumption, VictimIsSlot
  <2>2. ObjsTyped(objs')
    BY ZenonT(60), <1>7, <2>1, Taken DEF PutPick, ObjsTyped
  <2>. QED  BY <1>7, <2>1, <2>2 DEF PutPick, ObjsTyped
<1>8. CASE PutFill(t)
  BY <1>8, ReturnTypes, ZenonT(60) DEF PutFill
<1>. QED  BY <1>1, <1>2, <1>3, <1>4, <1>5, <1>6, <1>7, <1>8 DEF Compute

\* ... and by those of clients and origin servers.
LEMMA NetworkTypes ==
  ASSUME ProxyTypes, NEW t \in Threads, Network(t)
  PROVE  ProxyTypes'
<1>. USE NothingTyped DEF ProxyTypes, Go
<1>0. 1 \in Slots /\ 0 \in 0..MaxClock
  BY ProxyAssumption DEF Slots
<1>1. CASE \E k \in Keys : Accept(t, k)
  BY <1>1 DEF Accept, cacheVars
<1>2. CASE ReadRequest(t)
  BY <1>2 DEF ReadRequest, cacheVars
<1>3. CASE Drop(t) \/ Hit(t)
  BY <1>3, ReturnTypes DEF Drop, Hit, cacheVars
<1>4. CASE Sigpipe(t)
  BY <1>0, <1>4, ZenonT(60) DEF Sigpipe, NoObjects
<1>5. CASE Connect(t)
  BY <1>5 DEF Connect, cacheVars
<1>6. ASSUME NEW n \in 0..MaxLen, Send(t, n) PROVE ProxyTypes'
  <2>1. Empty([key |-> uri[t], len |-> n]) \in Objects
    BY ProxyAssumption DEF Empty, Objects, Answers
  <2>. QED  BY <1>6, <2>1 DEF Send, cacheVars
<1>7. CASE Relay(t)
  <2>. DEFINE p == IF obj[t].size + 1 <= MaxObject THEN obj[t].parts \cup {obj[t].size} ELSE obj[t].parts
  <2>1. obj' = [obj EXCEPT ![t] = [of |-> obj[t].of, parts |-> p, size |-> obj[t].size + 1]]
    BY <1>7 DEF Relay, Objects
  <2>2. obj[t].size + 1 \in 0..MaxLen /\ obj[t].of \in Answers /\ p \in SUBSET (0..MaxLen)
    BY <1>7, ProxyAssumption DEF Relay, Objects, Answers
  <2>. HIDE DEF p
  <2>3. obj' \in [Threads -> Objects]
    BY <2>1, <2>2 DEF Objects
  <2>. QED  BY <1>7, <2>3 DEF Relay, cacheVars
<1>8. CASE RelayEnd(t)
  BY <1>8, ReturnTypes DEF RelayEnd, cacheVars
<1>. QED  BY <1>1, <1>2, <1>3, <1>4, <1>5, <1>6, <1>7, <1>8 DEF Network
-----------------------------------------------------------------------------
\* A step inside the lock's routines leaves a thread in the same routine or
\* at its end, and the other threads where they are.
LEMMA LockStepMoves ==
  ASSUME NEW t \in Threads, LockStep(t), at \in [Threads -> LockPcs]
  PROVE  /\ \A u \in Threads : u # t => at'[u] = at[u]
         /\ at[t] \notin {"out", "reading", "writing"}
         /\ at[t] \in RdLockPcs => at'[t] \in RdLockPcs \cup {"reading"}
         /\ at[t] \in RdUnlockPcs => at'[t] \in RdUnlockPcs \cup {"out"}
         /\ at[t] = "wr_P_w" => at'[t] = "writing"
BY DEF LockStep, RdPMutex, RdCount, RdPW, RdVMutex, RuPMutex, RuCount, RuVW, RuVMutex, WrPW,
       Move, RdLockPcs, RdUnlockPcs

\* A call moves its thread only.
LEMMA CallMoves ==
  ASSUME NEW t \in Threads, at \in [Threads -> LockPcs]
  PROVE  /\ RdLock(t) => at'[t] = "rd_P_mutex" /\ at[t] = "out"
         /\ RdUnlock(t) => at'[t] = "ru_P_mutex" /\ at[t] = "reading"
         /\ WrLock(t) => at'[t] = "wr_P_w" /\ at[t] = "out"
         /\ WrUnlock(t) => at'[t] = "out" /\ at[t] = "writing"
         /\ LockCall(t) => \A u \in Threads : u # t => at'[u] = at[u]
BY DEF RdLock, RdUnlock, WrLock, WrUnlock, LockCall, Move

\* doit and the lock stay in step.
LEMMA ComputeInStep ==
  ASSUME PInv, up, NEW t \in Threads, Compute(t)
  PROVE  InStep' /\ DeadIsEmpty' /\ RemoteClosed'
<1>. USE DEF Go
<1>0. /\ at \in [Threads -> LockPcs] /\ InStep /\ RemoteClosed
      /\ pc \in [Threads -> {"free", "request", "lookup", "found", "stamped", "hit",
                             "miss", "send", "relay", "put", "fill"}]
  BY DEF PInv, LInv, Types, ProxyTypes
<1>1. CASE Locking(t)
  <2>1. InStep'
    BY <1>0, <1>1, LockStepMoves DEF InStep, Locking, threadVars
  <2>. QED  BY <1>0, <1>1, <2>1 DEF Locking, threadVars, DeadIsEmpty, RemoteClosed
<1>2. CASE GetMiss(t)
  BY <1>0, <1>2, CallMoves DEF GetMiss, InStep, DeadIsEmpty, RemoteClosed, RdUnlockPcs, LockCall
<1>3. CASE GetFound(t)
  BY <1>0, <1>3 DEF GetFound, InStep, DeadIsEmpty, RemoteClosed, lockVars
<1>4. CASE GetStamp(t)
  BY <1>0, <1>4 DEF GetStamp, InStep, DeadIsEmpty, RemoteClosed, lockVars
<1>5. CASE GetCopy(t)
  BY <1>0, <1>5, CallMoves DEF GetCopy, InStep, DeadIsEmpty, RemoteClosed, RdUnlockPcs, LockCall
<1>6. CASE PutOverwrite(t)
  BY <1>0, <1>6, CallMoves DEF PutOverwrite, Return, InStep, DeadIsEmpty, RemoteClosed, LockCall
<1>7. CASE PutPick(t)
  BY <1>0, <1>7 DEF PutPick, InStep, DeadIsEmpty, RemoteClosed, lockVars
<1>8. CASE PutFill(t)
  BY <1>0, <1>8, CallMoves DEF PutFill, Return, InStep, DeadIsEmpty, RemoteClosed, LockCall
<1>. QED  BY <1>1, <1>2, <1>3, <1>4, <1>5, <1>6, <1>7, <1>8 DEF Compute

\* They stay in step with clients and origin servers, too.
LEMMA NetworkInStep ==
  ASSUME PInv, up, NEW t \in Threads, Network(t)
  PROVE  InStep' /\ DeadIsEmpty' /\ RemoteClosed'
<1>. USE DEF Go
<1>0. /\ at \in [Threads -> LockPcs] /\ InStep /\ RemoteClosed
      /\ pc \in [Threads -> {"free", "request", "lookup", "found", "stamped", "hit",
                             "miss", "send", "relay", "put", "fill"}]
  BY DEF PInv, LInv, Types, ProxyTypes
<1>1. CASE \E k \in Keys : Accept(t, k)
  BY <1>0, <1>1 DEF Accept, InStep, DeadIsEmpty, RemoteClosed, lockVars
<1>2. CASE ReadRequest(t)
  BY <1>0, <1>2, CallMoves DEF ReadRequest, InStep, DeadIsEmpty, RemoteClosed, RdLockPcs, LockCall
<1>3. CASE Drop(t) \/ Hit(t)
  <2>1. /\ pc' = [pc EXCEPT ![t] = "free"] /\ remote' = remote \ {t}
        /\ at[t] = "out" /\ at' = at /\ up' = up
    BY <1>3, ZenonT(60) DEF Drop, Hit, Return, lockVars
  <2>. QED  BY <1>0, <2>1 DEF InStep, DeadIsEmpty, RemoteClosed
<1>4. CASE Sigpipe(t)
  BY <1>4 DEF Sigpipe, InStep, DeadIsEmpty, RemoteClosed
<1>5. CASE Connect(t)
  BY <1>0, <1>5 DEF Connect, InStep, DeadIsEmpty, RemoteClosed, lockVars
<1>6. CASE \E n \in 0..MaxLen : Send(t, n)
  BY <1>0, <1>6 DEF Send, InStep, DeadIsEmpty, RemoteClosed, lockVars
<1>7. CASE Relay(t)
  BY <1>0, <1>7 DEF Relay, InStep, DeadIsEmpty, RemoteClosed, lockVars
<1>8. CASE RelayEnd(t)
  <2>1. CASE obj[t].size <= MaxObject
    <3>1. /\ pc' = [pc EXCEPT ![t] = "put"] /\ remote' = remote \ {t} /\ WrLock(t) /\ up' = up
      BY <1>8, <2>1 DEF RelayEnd
    <3>. QED  BY <1>0, <3>1, CallMoves DEF InStep, DeadIsEmpty, RemoteClosed, LockCall
  <2>2. CASE ~(obj[t].size <= MaxObject)
    <3>1. /\ pc' = [pc EXCEPT ![t] = "free"] /\ remote' = remote \ {t}
          /\ at[t] = "out" /\ at' = at /\ up' = up
      BY <1>0, <1>8, <2>2 DEF RelayEnd, Return, lockVars, InStep
    <3>. QED  BY <1>0, <3>1 DEF InStep, DeadIsEmpty, RemoteClosed
  <2>. QED  BY <2>1, <2>2
<1>. QED  BY <1>1, <1>2, <1>3, <1>4, <1>5, <1>6, <1>7, <1>8 DEF Network
-----------------------------------------------------------------------------
(* Buffers and cache.                                                      *)

\* What the cache and the threads hold.
Stores == Buffers /\ SlotsRight /\ OneEntryPerKey /\ EntriesWhole

\* A thread's step leaves the locals of the others alone.
OthersSame(t) ==
  \A u \in Threads : u # t =>
    pc'[u] = pc[u] /\ uri'[u] = uri[u] /\ obj'[u] = obj[u] /\ slot'[u] = slot[u]

\* Every step of a thread but SIGPIPE is of that kind.
LEMMA LocalSteps ==
  ASSUME ProxyTypes, NEW t \in Threads, Compute(t) \/ Network(t), ~Sigpipe(t)
  PROVE  OthersSame(t)
<1>. USE DEF ProxyTypes, OthersSame, Go
<1>1. CASE Return(t)
  BY <1>1 DEF Return
<1>2. CASE Compute(t)
  BY <1>1, <1>2 DEF Compute, Locking, threadVars, GetMiss, GetFound, GetStamp, GetCopy,
                    PutOverwrite, PutPick, PutFill
<1>3. CASE Network(t)
  BY ZenonT(60), <1>1, <1>3 DEF Network, Accept, ReadRequest, Drop, Hit, Connect, Send, Relay, RelayEnd
<1>. QED  BY <1>2, <1>3

\* A step that leaves the cache alone has to keep its own buffer and slot.
LEMMA CacheKept ==
  ASSUME Stores, NEW t \in Threads, OthersSame(t), objs' = objs,
         pc[t] # "fill", pc'[t] # "fill", BufferOK(t)', SlotOK(t)'
  PROVE  Stores'
<1>1. Buffers'
  BY DEF Stores, Buffers, BufferOK, OthersSame
<1>2. SlotsRight'
  BY DEF Stores, SlotsRight, SlotOK, OthersSame
<1>3. OneEntryPerKey'
  BY DEF Stores, OneEntryPerKey
<1>4. EntriesWhole'
  BY DEF Stores, EntriesWhole, OthersSame
<1>. QED  BY <1>1, <1>2, <1>3, <1>4 DEF Stores

\* A return from doit, without having changed the cache.
LEMMA ReturnKept ==
  ASSUME ProxyTypes, Stores, NEW t \in Threads, OthersSame(t), objs' = objs, pc[t] # "fill", Return(t)
  PROVE  Stores'
<1>1. pc'[t] = "free"
  BY DEF Return, ProxyTypes
<1>2. BufferOK(t)' /\ SlotOK(t)'
  BY <1>1 DEF BufferOK, SlotOK
<1>. QED  BY <1>1, <1>2, CacheKept

\* One more part at the end.
LEMMA NextPart ==
  ASSUME NEW s \in Nat PROVE 0..(s - 1) \cup {s} = 0..((s + 1) - 1)
OBVIOUS

\* The relay keeps the parts of an answer in order while they fit.
LEMMA RelayStores ==
  ASSUME PInv, NEW t \in Threads, OthersSame(t), Relay(t)
  PROVE  Stores'
<1>. USE DEF Relay, cacheVars
<1>0. ProxyTypes /\ Stores /\ BufferOK(t) /\ pc' = pc /\ uri' = uri /\ objs' = objs
  BY DEF PInv, Stores, Buffers
<1>1. /\ obj'[t].of = obj[t].of /\ obj'[t].size = obj[t].size + 1
      /\ obj'[t].parts = IF obj[t].size + 1 <= MaxObject THEN obj[t].parts \cup {obj[t].size} ELSE obj[t].parts
  BY <1>0 DEF ProxyTypes, Objects
<1>2. obj[t].size \in Nat /\ obj[t].of.len \in Nat
  BY <1>0, ProxyAssumption DEF ProxyTypes, Objects, Answers
<1>3. BufferOK(t)'
  <2>1. obj[t].size + 1 <= MaxObject => obj'[t].parts = 0..(obj'[t].size - 1)
    <3>. SUFFICES ASSUME obj[t].size + 1 <= MaxObject PROVE obj'[t].parts = 0..(obj'[t].size - 1)
      OBVIOUS
    <3>1. obj[t].parts = 0..(obj[t].size - 1)
      BY <1>0, <1>2, ProxyAssumption DEF BufferOK
    <3>2. obj'[t].parts = 0..(obj[t].size - 1) \cup {obj[t].size}
      BY <1>1, <3>1, ZenonT(60)
    <3>. QED  BY <1>1, <1>2, <3>2, NextPart, ZenonT(60)
  <2>. QED  BY <1>0, <1>1, <1>2, <2>1 DEF BufferOK
<1>4. pc[t] # "fill" /\ SlotOK(t)'
  BY <1>0 DEF SlotOK
<1>. QED  BY <1>0, <1>3, <1>4, CacheKept

\* What clients and origin servers do.
LEMMA NetworkStores ==
  ASSUME PInv, NEW t \in Threads, Network(t)
  PROVE  Stores'
<1>. USE DEF Go, cacheVars
<1>0. ProxyTypes /\ Stores /\ BufferOK(t)
  BY DEF PInv, Stores, Buffers
<1>1. CASE Sigpipe(t)
  <2>1. (\A u \in Threads : pc'[u] = "free") /\ \A i \in Slots : ~objs'[i].valid
    BY <1>1 DEF Sigpipe, NoObjects
  <2>. QED  BY <2>1 DEF Stores, Buffers, BufferOK, SlotsRight, SlotOK, OneEntryPerKey, EntriesWhole
<1>. SUFFICES ASSUME ~Sigpipe(t) PROVE Stores'
  BY <1>1
<1>2. OthersSame(t)
  BY <1>0, LocalSteps
<1>3. CASE (\E k \in Keys : Accept(t, k)) \/ ReadRequest(t) \/ Connect(t)
  <2>1. pc'[t] \in {"request", "lookup", "send"} /\ pc[t] # "fill" /\ objs' = objs
    BY <1>0, <1>3 DEF Accept, ReadRequest, Connect, ProxyTypes
  <2>2. BufferOK(t)' /\ SlotOK(t)'
    BY <2>1 DEF BufferOK, SlotOK
  <2>. QED  BY <1>0, <1>2, <2>1, <2>2, CacheKept
<1>4. CASE Drop(t) \/ Hit(t)
  <2>1. Return(t) /\ pc[t] # "fill" /\ objs' = objs
    BY <1>4 DEF Drop, Hit
  <2>. QED  BY <1>0, <1>2, <2>1, ReturnKept
<1>5. ASSUME NEW n \in 0..MaxLen, Send(t, n) PROVE Stores'
  <2>1. pc'[t] = "relay" /\ pc[t] # "fill" /\ objs' = objs /\ uri' = uri
    BY <1>0, <1>5 DEF Send, ProxyTypes
  <2>2. obj'[t] = Empty([key |-> uri[t], len |-> n])
    BY <1>0, <1>5 DEF Send, ProxyTypes
  <2>3. BufferOK(t)' /\ SlotOK(t)'
    BY <2>1, <2>2 DEF BufferOK, SlotOK, Empty
  <2>. QED  BY <1>0, <1>2, <2>1, <2>3, CacheKept
<1>6. CASE Relay(t)
  BY <1>2, <1>6, RelayStores
<1>7. CASE RelayEnd(t)
  <2>1. CASE obj[t].size <= MaxObject
    <3>1. pc[t] = "relay" /\ pc'[t] = "put" /\ objs' = objs /\ obj' = obj /\ uri' = uri
          /\ obj[t].size = obj[t].of.len
      BY <1>0, <1>7, <2>1 DEF RelayEnd, ProxyTypes
    <3>2. BufferOK(t)' /\ SlotOK(t)'
      BY <1>0, <2>1, <3>1 DEF BufferOK, SlotOK, Whole
    <3>. QED  BY <1>0, <1>2, <3>1, <3>2, CacheKept
  <2>2. CASE ~(obj[t].size <= MaxObject)
    <3>1. Return(t) /\ pc[t] # "fill" /\ objs' = objs
      BY <1>7, <2>2 DEF RelayEnd
    <3>. QED  BY <1>0, <1>2, <3>1, ReturnKept
  <2>. QED  BY <2>1, <2>2
<1>. QED  BY <1>3, <1>4, <1>5, <1>6, <1>7 DEF Network

\* While one thread may write the cache, no other one looks at it.
LEMMA WriterAlone ==
  ASSUME PInv, up, NEW t \in Threads, at[t] = "writing", NEW u \in Threads, u # t
  PROVE  pc[u] \notin {"found", "stamped", "fill"}
<1>1. t \in Writers /\ Exclusion
  BY DEF Writers, PInv, LInv, WHeld, Exclusion, Readers, Holders
<1>2. at[u] # "reading" /\ at[u] # "writing"
  BY <1>1 DEF Exclusion, Readers, Writers
<1>. QED  BY <1>2 DEF PInv, InStep

\* While one thread reads it, no other one fills a slot.
LEMMA ReaderUndisturbed ==
  ASSUME PInv, up, NEW t \in Threads, at[t] = "reading", NEW u \in Threads
  PROVE  pc[u] # "fill"
<1>1. t \in Readers /\ Exclusion
  BY DEF PInv, LInv, WHeld, Exclusion, Readers, Holders
<1>2. at[u] # "writing"
  BY <1>1 DEF Exclusion, Writers
<1>. QED  BY <1>2 DEF PInv, InStep

\* cache_get, whose only write is the time of use.
LEMMA GetStores ==
  ASSUME PInv, up, NEW t \in Threads, OthersSame(t),
         Locking(t) \/ GetMiss(t) \/ GetFound(t) \/ GetStamp(t) \/ GetCopy(t)
  PROVE  Stores'
<1>. USE DEF Go
<1>0. ProxyTypes /\ Stores /\ BufferOK(t) /\ SlotOK(t)
  BY DEF PInv, Stores, Buffers, SlotsRight
<1>1. CASE Locking(t)
  <2>1. objs' = objs /\ pc' = pc /\ obj' = obj /\ uri' = uri /\ slot' = slot
    BY <1>1 DEF Locking, cacheVars, threadVars
  <2>. QED  BY <1>0, <2>1, ZenonT(60) DEF Stores, Buffers, BufferOK, SlotsRight, SlotOK, OneEntryPerKey, EntriesWhole
<1>2. CASE GetMiss(t)
  <2>1. pc'[t] = "miss" /\ pc[t] # "fill" /\ objs' = objs
    BY <1>0, <1>2 DEF GetMiss, ProxyTypes, cacheVars
  <2>2. BufferOK(t)' /\ SlotOK(t)'
    BY ZenonT(60), <2>1 DEF BufferOK, SlotOK
  <2>. QED  BY ZenonT(60), <1>0, <2>1, <2>2, CacheKept
<1>3. CASE GetFound(t)
  <2>1. pc'[t] = "found" /\ pc[t] # "fill" /\ objs' = objs /\ uri' = uri
    BY <1>0, <1>3 DEF GetFound, ProxyTypes
  <2>2. slot'[t] \in CacheFind(uri[t])
    BY <1>0, <1>3 DEF GetFound, ProxyTypes
  <2>3. BufferOK(t)' /\ SlotOK(t)'
    BY ZenonT(60), <2>1, <2>2 DEF BufferOK, SlotOK, CacheFind
  <2>. QED  BY <1>0, <2>1, <2>3, CacheKept
<1>4. CASE GetStamp(t)
  <2>1. pc'[t] = "stamped" /\ pc[t] = "found" /\ uri' = uri /\ slot' = slot
    BY <1>0, <1>4 DEF GetStamp, ProxyTypes
  <2>2. \A i \in Slots : /\ objs'[i].valid = objs[i].valid /\ objs'[i].key = objs[i].key
                         /\ objs'[i].value = objs[i].value
    BY <1>0, <1>4 DEF GetStamp, ProxyTypes
  <2>3. \A u \in Threads : slot[u] \in Slots
    BY <1>0 DEF ProxyTypes
  <2>4. Buffers'
    BY <1>0, <2>1 DEF Stores, Buffers, BufferOK, OthersSame
  <2>5. SlotsRight'
    <3>. SUFFICES ASSUME NEW u \in Threads PROVE SlotOK(u)'
      BY DEF SlotsRight
    <3>1. SlotOK(u) /\ slot[u] \in Slots
      BY <1>0, <2>3 DEF Stores, SlotsRight
    <3>2. /\ slot'[u] = slot[u] /\ uri'[u] = uri[u]
          /\ pc'[u] \in {"found", "stamped", "fill"} => pc[u] \in {"found", "stamped", "fill"}
      BY <2>1 DEF OthersSame
    <3>. QED  BY <2>2, <3>1, <3>2 DEF SlotOK
  <2>6. OneEntryPerKey'
    BY ZenonT(60), <1>0, <2>2 DEF Stores, OneEntryPerKey
  <2>7. EntriesWhole'
    <3>1. \A u \in Threads : pc[u] = "fill" => pc'[u] = "fill"
      BY <2>1 DEF OthersSame
    <3>. QED  BY <1>0, <2>1, <2>2, <3>1, ZenonT(60) DEF Stores, EntriesWhole
  <2>. QED  BY <2>4, <2>5, <2>6, <2>7 DEF Stores
<1>5. CASE GetCopy(t)
  <2>1. /\ pc'[t] = "hit" /\ pc[t] = "stamped" /\ uri' = uri /\ objs' = objs
        /\ obj'[t] = objs[slot[t]].value /\ slot[t] \in Slots
    BY <1>0, <1>5 DEF GetCopy, ProxyTypes, cacheVars
  <2>2. at[t] = "reading"
    BY <2>1, ZenonT(60) DEF PInv, InStep
  <2>3. Whole(objs[slot[t]].value) /\ objs[slot[t]].value.of.key = uri[t]
    BY ZenonT(60), <1>0, <2>1, <2>2, ReaderUndisturbed DEF Stores, EntriesWhole, SlotOK
  <2>4. BufferOK(t)' /\ SlotOK(t)'
    BY <2>1, <2>3, ZenonT(60) DEF BufferOK, SlotOK, Whole
  <2>. QED  BY <1>0, <2>1, <2>4, CacheKept, ZenonT(60)
<1>. QED  BY <1>1, <1>2, <1>3, <1>4, <1>5

\* cache_put with the key in the cache.
LEMMA OverwriteStores ==
  ASSUME PInv, up, NEW t \in Threads, OthersSame(t), PutOverwrite(t)
  PROVE  Stores'
<1>0. ProxyTypes /\ Stores /\ BufferOK(t)
  BY DEF PInv, Stores, Buffers
<1>1. PICK i \in CacheFind(uri[t]) : objs' = [objs EXCEPT ![i].value = obj[t], ![i].clk = clock]
  BY ZenonT(60) DEF PutOverwrite
<1>2. i \in Slots /\ objs[i].valid /\ objs[i].key = uri[t]
  BY DEF CacheFind
<1>3. /\ objs'[i].value = obj[t] /\ objs'[i].key = objs[i].key /\ objs'[i].valid = objs[i].valid
      /\ \A j \in Slots : j # i => objs'[j] = objs[j]
  BY ZenonT(60), <1>0, <1>1, <1>2, Overwritten DEF ProxyTypes, ObjsTyped
<1>4. pc[t] = "put" /\ pc'[t] = "free" /\ at[t] = "writing"
  BY <1>0 DEF PutOverwrite, Return, ProxyTypes
<1>5. Whole(obj[t]) /\ obj[t].of.key = uri[t]
  BY <1>0, <1>4 DEF BufferOK
<1>6. \A u \in Threads : pc[u] # "fill" /\ pc'[u] \notin {"found", "stamped", "fill"}
  BY <1>4, WriterAlone DEF OthersSame
<1>7. Buffers'
  BY <1>0, <1>4, ZenonT(60) DEF Stores, Buffers, BufferOK, OthersSame
<1>8. SlotsRight'
  BY <1>6 DEF SlotsRight, SlotOK
<1>9. OneEntryPerKey'
  BY <1>0, <1>3 DEF Stores, OneEntryPerKey
<1>10. EntriesWhole'
  BY <1>0, <1>2, <1>3, <1>5, <1>6 DEF Stores, EntriesWhole
<1>. QED  BY <1>7, <1>8, <1>9, <1>10 DEF Stores

\* cache_put takes a slot for a key that no slot has ...
LEMMA PickStores ==
  ASSUME PInv, up, NEW t \in Threads, OthersSame(t), PutPick(t)
  PROVE  Stores'
<1>0. ProxyTypes /\ Stores /\ BufferOK(t) /\ uri[t] \in Keys \cup {NoKey}
  BY DEF PInv, Stores, Buffers, ProxyTypes
<1>1. Victim \in Slots
  BY <1>0, ProxyAssumption, VictimIsSlot DEF ProxyTypes
<1>2. /\ objs'[Victim].valid /\ objs'[Victim].key = uri[t]
      /\ \A j \in Slots : j # Victim => objs'[j] = objs[j]
  BY ZenonT(60), <1>0, <1>1, Taken DEF ProxyTypes, ObjsTyped, PutPick
<1>3. /\ pc[t] = "put" /\ pc'[t] = "fill" /\ at[t] = "writing"
      /\ slot'[t] = Victim /\ uri' = uri /\ obj' = obj
  BY <1>0 DEF PutPick, Go, ProxyTypes
<1>4. \A u \in Threads : pc[u] # "fill" /\ (u # t => pc'[u] \notin {"found", "stamped", "fill"})
  BY <1>3, WriterAlone DEF OthersSame
<1>5. Buffers'
  BY <1>0, <1>3 DEF Stores, Buffers, BufferOK, OthersSame
<1>6. SlotsRight'
  BY <1>2, <1>3, <1>4 DEF SlotsRight, SlotOK
<1>7. OneEntryPerKey'
  <2>1. \A j \in Slots : ~(objs[j].valid /\ objs[j].key = uri[t])
    BY FindComplete, ZenonT(60) DEF PutPick
  <2>. QED  BY <1>0, <1>1, <1>2, <2>1 DEF Stores, OneEntryPerKey
<1>8. EntriesWhole'
  BY <1>0, <1>2, <1>3, <1>4 DEF Stores, EntriesWhole
<1>. QED  BY <1>5, <1>6, <1>7, <1>8 DEF Stores

\* ... and then fills it.
LEMMA FillStores ==
  ASSUME PInv, up, NEW t \in Threads, OthersSame(t), PutFill(t)
  PROVE  Stores'
<1>0. ProxyTypes /\ Stores /\ BufferOK(t) /\ SlotOK(t) /\ slot[t] \in Slots
  BY DEF PInv, Stores, Buffers, SlotsRight, ProxyTypes
<1>1. /\ objs'[slot[t]].value = obj[t] /\ objs'[slot[t]].key = objs[slot[t]].key
      /\ objs'[slot[t]].valid = objs[slot[t]].valid
      /\ \A j \in Slots : j # slot[t] => objs'[j] = objs[j]
  BY <1>0 DEF PutFill, ProxyTypes
<1>2. pc[t] = "fill" /\ pc'[t] = "free" /\ at[t] = "writing"
  BY <1>0 DEF PutFill, Return, ProxyTypes, PInv, InStep
<1>3. Whole(obj[t]) /\ obj[t].of.key = uri[t] /\ objs[slot[t]].key = uri[t]
  BY <1>0, <1>2 DEF BufferOK, SlotOK
<1>4. \A u \in Threads : (u # t => pc[u] # "fill") /\ pc'[u] \notin {"found", "stamped", "fill"}
  BY <1>2, WriterAlone DEF OthersSame
<1>5. Buffers'
  BY <1>0, <1>2 DEF Stores, Buffers, BufferOK, OthersSame
<1>6. SlotsRight'
  BY <1>4 DEF SlotsRight, SlotOK
<1>7. OneEntryPerKey'
  BY <1>0, <1>1 DEF Stores, OneEntryPerKey
<1>8. EntriesWhole'
  BY <1>0, <1>1, <1>3, <1>4, ZenonT(60) DEF Stores, EntriesWhole
<1>. QED  BY <1>5, <1>6, <1>7, <1>8 DEF Stores
-----------------------------------------------------------------------------
\* Nothing that PInv says depends on the clock, but its type.
LEMMA ClockFree ==
  ASSUME PInv, LInv', clock' \in 0..MaxClock, UNCHANGED <<at, cacheVars, threadVars, up>>
  PROVE  PInv'
<1>0. /\ objs' = objs /\ last' = last /\ pc' = pc /\ uri' = uri /\ obj' = obj
      /\ slot' = slot /\ stamp' = stamp /\ remote' = remote
  BY DEF cacheVars, threadVars
<1>1. ProxyTypes'
  BY <1>0 DEF PInv, ProxyTypes
<1>2. InStep' /\ DeadIsEmpty' /\ RemoteClosed'
  BY <1>0 DEF PInv, InStep, DeadIsEmpty, RemoteClosed
<1>3. Buffers' /\ SlotsRight'
  BY <1>0 DEF PInv, Buffers, BufferOK, SlotsRight, SlotOK
<1>4. OneEntryPerKey' /\ EntriesWhole'
  BY <1>0 DEF PInv, OneEntryPerKey, EntriesWhole
<1>. QED  BY <1>1, <1>2, <1>3, <1>4 DEF PInv

\* PInv is inductive.
LEMMA ProxyInvariant == Spec => []PInv
<1>1. PInv /\ [Next]_vars => PInv'
  <2>. SUFFICES ASSUME PInv, [Next]_vars PROVE PInv'
    OBVIOUS
  <2>0. ProxyTypes /\ LInv
    BY DEF PInv
  <2>1. LInv'
    <3>1. [LockNext]_lockVars
      BY LockOrNot
    <3>2. CASE LockNext
      BY <2>0, <3>2, RdCountStep, RuCountStep, OtherStep DEF LockNext, LockStep
    <3>3. CASE UNCHANGED lockVars
      BY <2>0, <3>3 DEF lockVars, LInv, Types, MutexHeld, CountRight, WHeld, FirstAndLast,
                        InMutex, Counted, Holders, Writers
    <3>. QED  BY <3>1, <3>2, <3>3
  <2>2. ASSUME up, NEW t \in Threads, Compute(t) PROVE PInv'
    <3>1. OthersSame(t)
      <4>1. CASE Sigpipe(t)
        BY ZenonT(60), <2>2, <4>1 DEF Sigpipe, Compute, Locking, GetMiss, GetFound, GetStamp, GetCopy, PutOverwrite,
                          PutPick, PutFill
      <4>. QED  BY <2>0, <2>2, <4>1, LocalSteps
    <3>2. Stores'
      BY <2>2, <3>1, GetStores, OverwriteStores, PickStores, FillStores DEF Compute
    <3>. QED  BY <2>0, <2>1, <2>2, <3>2, ComputeTypes, ComputeInStep DEF PInv, Stores
  <2>3. ASSUME up, NEW t \in Threads, Network(t) PROVE PInv'
    BY <2>0, <2>1, <2>3, NetworkTypes, NetworkInStep, NetworkStores DEF PInv, Stores
  <2>4. CASE up /\ Tick
    <3>1. clock' \in 0..MaxClock /\ UNCHANGED <<lockVars, cacheVars, threadVars, up>>
      BY <2>0, <2>4, ProxyAssumption DEF Tick, ProxyTypes
    <3>. QED  BY <2>0, <2>1, <3>1, ClockFree, ZenonT(60) DEF lockVars
  <2>5. CASE Stopped \/ UNCHANGED vars
    <3>1. clock' \in 0..MaxClock /\ UNCHANGED <<lockVars, cacheVars, threadVars, up>>
      BY <2>0, <2>5 DEF Stopped, vars, ProxyTypes
    <3>. QED  BY <2>0, <2>1, <3>1, ClockFree, ZenonT(60) DEF lockVars
  <2>. QED  BY <2>2, <2>3, <2>4, <2>5 DEF Next
<1>. QED  BY <1>1, ProxyInit, PTL DEF Spec
-----------------------------------------------------------------------------
\* The proxy's state keeps its type: in particular every slot number a
\* thread uses is one of the cache and no buffer passes its longest answer.
THEOREM ProxyTypeCorrect == Spec => []TypeOK
<1>1. PInv => TypeOK
  <2>1. LInv => LockTypeOK
    BY CountedFinite DEF LInv, Types, CountRight, LockTypeOK
  <2>. QED  BY <2>1 DEF PInv, ProxyTypes, TypeOK
<1>. QED  BY <1>1, ProxyInvariant, PTL

\* However many threads miss the same URI at once, cache_put leaves one
\* entry for it.
THEOREM ProxyOneEntry == Spec => []OneEntryPerKey
<1>1. PInv => OneEntryPerKey
  BY DEF PInv
<1>. QED  BY <1>1, ProxyInvariant, PTL

\* A cache hit sends a whole answer to the URI asked for.
THEOREM ProxyHitsRight == Spec => []HitIsAnswer
<1>1. PInv => HitIsAnswer
  BY DEF PInv, Buffers, BufferOK, HitIsAnswer
<1>. QED  BY <1>1, ProxyInvariant, PTL

\* Outside cache_put every entry of the cache is a whole answer to its key.
THEOREM ProxyEntriesWhole == Spec => []EntriesWhole
<1>1. PInv => EntriesWhole
  BY DEF PInv
<1>. QED  BY <1>1, ProxyInvariant, PTL

\* No return from doit leaves a connection to an origin server open.
THEOREM ProxyClosesRemote == Spec => []RemoteClosed
<1>1. PInv => RemoteClosed
  BY DEF PInv
<1>. QED  BY <1>1, ProxyInvariant, PTL

\* The cache is read and written only by threads that hold the lock for it.
THEOREM ProxyHoldsLock == Spec => []LockHeld
<1>1. PInv => LockHeld
  <2>. SUFFICES ASSUME PInv, NEW t \in Threads
                PROVE  /\ pc[t] \in {"found", "stamped"} => t \in Readers
                       /\ pc[t] = "fill" => t \in Writers /\ Readers = {}
    BY DEF LockHeld
  <2>1. pc[t] \in {"found", "stamped", "fill"} => up
    BY DEF PInv, DeadIsEmpty, ProxyTypes
  <2>2. Exclusion
    BY DEF PInv, LInv, WHeld, Exclusion, Readers, Holders
  <2>. QED  BY <2>1, <2>2 DEF PInv, InStep, Readers, Writers, Exclusion
<1>. QED  BY <1>1, ProxyInvariant, PTL
=============================================================================
