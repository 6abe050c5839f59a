------------------------------- MODULE RWLock -------------------------------
(***************************************************************************)
(* The reader-first read-write lock of the caching proxy                   *)
(* (labs/08_proxylab/proxylab-handout/proxy.c): two semaphores and a       *)
(* counter.  Every semaphore operation and every access to the counter is  *)
(* a step of its own, so the threads interleave as they do in the program. *)
(***************************************************************************)
EXTENDS Integers, FiniteSets

CONSTANT Threads

ASSUME ThreadsAssumption == IsFiniteSet(Threads)

VARIABLES
  mutex,     \* semaphore that protects readcnt
  w,         \* semaphore held by a writer or by the readers together
  readcnt,   \* readers inside, or waiting for w on behalf of all
  at         \* where each thread is in the lock's routines

lockVars == <<mutex, w, readcnt, at>>

\* A thread waits at a location named after the operation it does next.
RdLockPcs == {"rd_P_mutex", "rd_count", "rd_P_w", "rd_V_mutex"}
RdUnlockPcs == {"ru_P_mutex", "ru_count", "ru_V_w", "ru_V_mutex"}
LockPcs == {"out", "reading", "wr_P_w", "writing"} \cup RdLockPcs \cup RdUnlockPcs

LockTypeOK ==
  /\ mutex \in {0, 1}
  /\ w \in {0, 1}
  /\ readcnt \in 0..Cardinality(Threads)
  /\ at \in [Threads -> LockPcs]

\* rwlock_init
LockInit ==
  /\ mutex = 1
  /\ w = 1
  /\ readcnt = 0
  /\ at = [t \in Threads |-> "out"]
-----------------------------------------------------------------------------
Move(t, from, to) == at[t] = from /\ at' = [at EXCEPT ![t] = to]

\* sem_wait and sem_post
P(s) == s = 1 /\ s' = 0
V(s) == s' = s + 1

\* rwlock_rdlock
RdLock(t) ==
  /\ Move(t, "out", "rd_P_mutex")
  /\ UNCHANGED <<mutex, w, readcnt>>
RdPMutex(t) ==
  /\ Move(t, "rd_P_mutex", "rd_count")
  /\ P(mutex)
  /\ UNCHANGED <<w, readcnt>>
RdCountNever(t) ==
  /\ readcnt' = readcnt + 1
  /\ Move(t, "rd_count", IF readcnt = 1 THEN "rd_P_w" ELSE "rd_V_mutex")
  /\ UNCHANGED <<mutex, w>>
RdCountAlways(t) ==
  /\ readcnt' = readcnt + 1
  /\ Move(t, "rd_count", "rd_P_w")
  /\ UNCHANGED <<mutex, w>>
RdCount(t) ==
  /\ readcnt' = readcnt + 1
  /\ Move(t, "rd_count", IF readcnt' = 1 THEN "rd_P_w" ELSE "rd_V_mutex")
  /\ UNCHANGED <<mutex, w>>
RdPW(t) ==
  /\ Move(t, "rd_P_w", "rd_V_mutex")
  /\ P(w)
  /\ UNCHANGED <<mutex, readcnt>>
RdVMutex(t) ==
  /\ Move(t, "rd_V_mutex", "reading")
  /\ V(mutex)
  /\ UNCHANGED <<w, readcnt>>

\* rwlock_rdunlock
RdUnlock(t) ==
  /\ Move(t, "reading", "ru_P_mutex")
  /\ UNCHANGED <<mutex, w, readcnt>>
RuPMutex(t) ==
  /\ Move(t, "ru_P_mutex", "ru_count")
  /\ P(mutex)
  /\ UNCHANGED <<w, readcnt>>
RuCountNever(t) ==
  /\ readcnt' = readcnt - 1
  /\ Move(t, "ru_count", IF readcnt = 0 THEN "ru_V_w" ELSE "ru_V_mutex")
  /\ UNCHANGED <<mutex, w>>
RuCount(t) ==
  /\ readcnt' = readcnt - 1
  /\ Move(t, "ru_count", IF readcnt' = 0 THEN "ru_V_w" ELSE "ru_V_mutex")
  /\ UNCHANGED <<mutex, w>>
RuVW(t) ==
  /\ Move(t, "ru_V_w", "ru_V_mutex")
  /\ V(w)
  /\ UNCHANGED <<mutex, readcnt>>
RuVMutex(t) ==
  /\ Move(t, "ru_V_mutex", "out")
  /\ V(mutex)
  /\ UNCHANGED <<w, readcnt>>

\* rwlock_wrlock, rwlock_wrunlock
WrLock(t) ==
  /\ Move(t, "out", "wr_P_w")
  /\ UNCHANGED <<mutex, w, readcnt>>
WrPW(t) ==
  /\ Move(t, "wr_P_w", "writing")
  /\ P(w)
  /\ UNCHANGED <<mutex, readcnt>>
WrUnlock(t) ==
  /\ Move(t, "writing", "out")
  /\ V(w)
  /\ UNCHANGED <<mutex, readcnt>>
-----------------------------------------------------------------------------
\* Steps inside the lock's routines, which the caller does not see.
LockStep(t) ==
  \/ RdPMutex(t) \/ RdCount(t) \/ RdPW(t) \/ RdVMutex(t)
  \/ RuPMutex(t) \/ RuCount(t) \/ RuVW(t) \/ RuVMutex(t)
  \/ WrPW(t)

LockCall(t) == RdLock(t) \/ RdUnlock(t) \/ WrLock(t) \/ WrUnlock(t)

LockNext == \E t \in Threads : LockStep(t) \/ LockCall(t)

LockSpec == LockInit /\ [][LockNext]_lockVars
-----------------------------------------------------------------------------
(* Properties.                                                             *)

Readers == {t \in Threads : at[t] = "reading"}
Writers == {t \in Threads : at[t] = "writing"}

\* No thread writes the cache (between wrlock and wrunlock) while another
\* thread reads or writes it.
Exclusion ==
  /\ Writers = {} \/ Readers = {}
  /\ \A t, u \in Writers : t = u

\* The lock is reader-first (README of the lab): while there is a reader
\* inside, no other reader waits for w, whoever else waits for it.
ReaderFirst ==
  Readers # {} => \A t \in Threads : at[t] # "rd_P_w"

\* The lock as its callers see it.
Abstract == INSTANCE AbstractRWLock WITH readers <- Readers, writers <- Writers
ImplementsLock == Abstract!RWSpec
=============================================================================
