------------------------------ MODULE Counters ------------------------------
(***************************************************************************)
(* The counter services (05-concurrency-patterns/counter-service/          *)
(* reference-solution) and badcnt.c: goroutines or threads that each take  *)
(* Iters numbers from a shared counter, which is incremented without       *)
(* synchronization, with an atomic add, under a mutex, or by a goroutine   *)
(* that sends the numbers over a channel.                                  *)
(***************************************************************************)
EXTENDS Naturals, Sequences, FiniteSets, SequencesExt

CONSTANTS Threads, Iters, ChanCap

VARIABLES
  kind,          \* which service
  sh,            \* shared: counter, who holds the mutex, channel, producer's i
  th             \* per thread: step, register, numbers returned so far

vars == <<kind, sh, th>>

Kinds == {"unsynchronized", "atomic", "mutex", "channel"}

Init ==
  /\ kind \in Kinds
  /\ sh = [counter |-> 0, mu |-> "free", ch |-> <<>>, i |-> 1]
  /\ th = [t \in Threads |-> [pc |-> "idle", reg |-> 0, got |-> <<>>]]

At(t, pc) == th[t].pc = pc
Return(t, v) == th' = [th EXCEPT ![t].pc = "idle", ![t].got = Append(@, v)]
Calling(t, k) == kind = k /\ At(t, "idle") /\ Len(th[t].got) < Iters

\* AtomicCounterService
AddUint64(t) ==
  /\ Calling(t, "atomic")
  /\ sh' = [sh EXCEPT !.counter = @ + 1]
  /\ Return(t, sh.counter + 1)
  /\ UNCHANGED kind

\* Mutant: the lock is taken whether or not it is held.
LockAnyway(t) ==
  /\ Calling(t, "mutex")
  /\ sh' = [sh EXCEPT !.mu = t] /\ th' = [th EXCEPT ![t].pc = "load"]
  /\ UNCHANGED kind

\* MutexCounterService: Lock, counter++, return and Unlock
Lock(t) ==
  /\ Calling(t, "mutex") /\ sh.mu = "free"
  /\ sh' = [sh EXCEPT !.mu = t] /\ th' = [th EXCEPT ![t].pc = "load"]
  /\ UNCHANGED kind

\* counter++ is a load and a store; without the mutex they interleave.
Load(t) ==
  /\ At(t, "load") \/ Calling(t, "unsynchronized")
  /\ th' = [th EXCEPT ![t].pc = "store", ![t].reg = sh.counter]
  /\ UNCHANGED <<kind, sh>>

\* Mutant: the counter is set to the caller's own count.
StoreOwn(t) ==
  /\ At(t, "store")
  /\ sh' = [sh EXCEPT !.counter = th[t].reg + Len(th[t].got) + 1]
  /\ th' = [th EXCEPT ![t].pc = "return"]
  /\ UNCHANGED kind

Store(t) ==
  /\ At(t, "store")
  /\ sh' = [sh EXCEPT !.counter = th[t].reg + 1]
  /\ th' = [th EXCEPT ![t].pc = "return"]
  /\ UNCHANGED kind

\* return c.counter reads the counter again
ReturnCounter(t) ==
  /\ At(t, "return")
  /\ sh' = [sh EXCEPT !.mu = IF @ = t THEN "free" ELSE @]
  /\ Return(t, sh.counter)
  /\ UNCHANGED kind

\* ChannelCounterService: the goroutine of newChannelCounterService
Produce ==
  /\ kind = "channel" /\ Len(sh.ch) < ChanCap /\ sh.i <= Cardinality(Threads) * Iters
  /\ sh' = [sh EXCEPT !.ch = Append(@, sh.i), !.i = @ + 1]
  /\ UNCHANGED <<kind, th>>

Receive(t) ==
  /\ Calling(t, "channel") /\ sh.ch # <<>>
  /\ sh' = [sh EXCEPT !.ch = Tail(@)]
  /\ Return(t, Head(sh.ch))
  /\ UNCHANGED kind

Next == \/ \E t \in Threads : \/ AddUint64(t) \/ Lock(t) \/ Load(t) \/ Store(t)
                              \/ ReturnCounter(t) \/ Receive(t)
        \/ Produce

Spec == Init /\ [][Next]_vars
-----------------------------------------------------------------------------
Calls == FoldFunctionOnSet(LAMBDA s, n : n + Len(s.got), 0, th, Threads)
Values == UNION {ToSet(th[t].got) : t \in Threads}

TypeOK == /\ kind \in Kinds /\ sh.mu \in Threads \cup {"free"} /\ Len(sh.ch) <= ChanCap
          /\ \A t \in Threads : th[t].pc \in {"idle", "load", "store", "return"}

\* Each synchronized service hands out every number once and none is
\* skipped: n calls return exactly 1..n (a value held by a goroutine that
\* has not returned yet is the only one missing), and each caller sees its
\* own numbers rise, as the test's monotonicity checker demands.
NumbersExact ==
  kind # "unsynchronized" =>
    /\ Cardinality(Values) = Calls
    /\ kind # "channel" => sh.counter - Calls \in 0..1 /\ Values = 1..Calls
    /\ kind = "channel" => Values \cup ToSet(sh.ch) = 1..(sh.i - 1)
    /\ \A t \in Threads : \A j \in 1..(Len(th[t].got) - 1) : th[t].got[j] < th[t].got[j + 1]

\* The unsynchronized counter and badcnt.c's cnt:
\* updates get lost, down to two of them however many there were, and the
\* counter never passes the number of increments.
LostUpdates ==
  kind = "unsynchronized" /\ (\A t \in Threads : At(t, "idle") /\ Len(th[t].got) = Iters) =>
    sh.counter \in 2..(Cardinality(Threads) * Iters)
=============================================================================
