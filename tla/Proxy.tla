-------------------------------- MODULE Proxy --------------------------------
(***************************************************************************)
(* The caching web proxy (labs/08_proxylab/proxylab-handout/proxy.c): one  *)
(* thread per connection runs doit, which looks the URI up in the shared   *)
(* cache under the read lock, relays the origin's answer, and stores it    *)
(* under the write lock.  Sizes are counted in buffers of MAXLINE bytes.   *)
(***************************************************************************)
EXTENDS RWLock, FiniteSetsExt

CONSTANTS
  Keys,         \* URIs clients ask for
  NoKey,        \* the empty key of a slot that was never used
  NumObjects,   \* NUM_CACHE_OBJECTS
  MaxObject,    \* MAX_OBJECT_SIZE
  MaxLen,       \* longest answer of an origin server in the model
  MaxClock      \* the clock stops here in the model

ASSUME ProxyAssumption ==
  /\ NoKey \notin Keys
  /\ NumObjects \in Nat \ {0}
  /\ MaxObject \in Nat /\ MaxLen \in Nat /\ MaxClock \in Nat

VARIABLES
  objs,     \* the cache
  clock,    \* the time of day
  last,     \* history: when each slot was last used
  pc,       \* where each thread is in doit
  uri,      \* the URI each thread serves
  obj,      \* doit's buffer: a cached object, or the answer relayed so far
  slot,     \* the cache slot a thread works on
  stamp,    \* the time cache_get has read and not stored yet
  remote,   \* threads with an open connection to an origin server
  up        \* the process is alive

cacheVars == <<objs, last>>
threadVars == <<pc, uri, obj, slot, stamp, remote>>
vars == <<lockVars, cacheVars, clock, threadVars, up>>

Slots == 1..NumObjects

\* An answer is what a server sends, for a request with this URI, until it
\* closes the connection.  The server is the one the Host header names when
\* the request has one; the cache looks at the URI only.
Answers == [key : Keys \cup {NoKey}, len : 0..MaxLen]
\* A buffer: the answer it comes from, the parts copied, and obj_size.
Objects == [of : Answers, parts : SUBSET (0..MaxLen), size : 0..MaxLen]

Empty(a) == [of |-> a, parts |-> {}, size |-> 0]
Nothing == Empty([key |-> NoKey, len |-> 0])
Whole(o) == o.parts = 0..(o.size - 1) /\ o.size = o.of.len

TypeOK ==
  /\ LockTypeOK
  /\ objs \in [Slots -> [valid : BOOLEAN, clk : 0..MaxClock, key : Keys \cup {NoKey}, value : Objects]]
  /\ last \in [Slots -> 0..MaxClock]
  /\ clock \in 0..MaxClock
  /\ pc \in [Threads -> {"free", "request", "lookup", "found", "stamped", "hit",
                         "miss", "send", "relay", "put", "fill"}]
  /\ uri \in [Threads -> Keys \cup {NoKey}]
  /\ obj \in [Threads -> Objects]
  /\ slot \in [Threads -> Slots]
  /\ stamp \in [Threads -> 0..MaxClock]
  /\ remote \subseteq Threads
  /\ up \in BOOLEAN

\* cache_init
NoObjects ==
  [i \in Slots |-> [valid |-> FALSE, clk |-> 0, key |-> NoKey, value |-> Nothing]]

Init ==
  /\ LockInit
  /\ objs = NoObjects
  /\ last = [i \in Slots |-> 0]
  /\ clock = 0
  /\ pc = [t \in Threads |-> "free"]
  /\ uri = [t \in Threads |-> NoKey]
  /\ obj = [t \in Threads |-> Nothing]
  /\ slot = [t \in Threads |-> 1]
  /\ stamp = [t \in Threads |-> 0]
  /\ remote = {}
  /\ up = TRUE
-----------------------------------------------------------------------------
Go(t, from, to) == pc[t] = from /\ pc' = [pc EXCEPT ![t] = to]

\* Return from doit; its locals are gone.
Return(t) ==
  /\ pc' = [pc EXCEPT ![t] = "free"]
  /\ uri' = [uri EXCEPT ![t] = NoKey]
  /\ obj' = [obj EXCEPT ![t] = Nothing]
  /\ slot' = [slot EXCEPT ![t] = 1]
  /\ stamp' = [stamp EXCEPT ![t] = 0]
  /\ remote' = remote \ {t}

\* cache_find: the first valid slot with this key, if any.
CacheFind(k) ==
  {i \in Slots :
     /\ objs[i].valid /\ objs[i].key = k
     /\ \A j \in Slots : j < i => ~(objs[j].valid /\ objs[j].key = k)}

\* cache_put without the key in the cache: the first free slot, else the
\* first one with the oldest time.
Free == {i \in Slots : ~objs[i].valid}
Victim ==
  IF Free # {}
    THEN Min(Free)
    ELSE Min({i \in Slots : \A j \in Slots : objs[i].clk <= objs[j].clk})
-----------------------------------------------------------------------------
(* Threads and requests.                                                   *)

\* main accepts a connection and creates a thread.
Accept(t, k) ==
  /\ Go(t, "free", "request")
  /\ at[t] = "out"
  /\ uri' = [uri EXCEPT ![t] = k]
  /\ UNCHANGED <<lockVars, cacheVars, clock, obj, slot, stamp, remote, up>>

\* The request line and headers are read; the lookup begins.
ReadRequest(t) ==
  /\ Go(t, "request", "lookup")
  /\ RdLock(t)
  /\ UNCHANGED <<cacheVars, clock, uri, obj, slot, stamp, remote, up>>

\* Every RETURN_IF: a malformed request, a connection that cannot be opened,
\* a read or a write that fails.
DropLeaks(t) ==
  /\ pc[t] \in {"request", "hit", "miss", "send", "relay"}
  /\ at[t] = "out"
  /\ pc' = [pc EXCEPT ![t] = "free"]
  /\ UNCHANGED <<lockVars, cacheVars, clock, uri, obj, slot, stamp, remote, up>>
Drop(t) ==
  /\ pc[t] \in {"request", "hit", "miss", "send", "relay"}
  /\ at[t] = "out"
  /\ Return(t)
  /\ UNCHANGED <<lockVars, cacheVars, clock, up>>

\* A write to a connection the peer has closed raises SIGPIPE, which the
\* proxy does not handle: the process ends, and the cache and the threads
\* with it.
Sigpipe(t) ==
  /\ pc[t] \in {"hit", "send", "relay"}
  /\ at[t] = "out"
  /\ up' = FALSE
  /\ objs' = NoObjects
  /\ last' = [i \in Slots |-> 0]
  /\ clock' = 0
  /\ pc' = [u \in Threads |-> "free"]
  /\ uri' = [u \in Threads |-> NoKey]
  /\ obj' = [u \in Threads |-> Nothing]
  /\ slot' = [u \in Threads |-> 1]
  /\ stamp' = [u \in Threads |-> 0]
  /\ remote' = {}
  /\ UNCHANGED lockVars
-----------------------------------------------------------------------------
(* cache_get under the read lock.                                          *)

GetMiss(t) ==
  /\ Go(t, "lookup", "miss")
  /\ CacheFind(uri[t]) = {}
  /\ RdUnlock(t)
  /\ UNCHANGED <<cacheVars, clock, uri, obj, slot, stamp, remote, up>>

\* The key is found and the clock read ...
GetFound(t) ==
  /\ Go(t, "lookup", "found")
  /\ at[t] = "reading"
  /\ \E i \in CacheFind(uri[t]) :
       /\ slot' = [slot EXCEPT ![t] = i]
       /\ last' = [last EXCEPT ![i] = clock]
  /\ stamp' = [stamp EXCEPT ![t] = clock]
  /\ UNCHANGED <<lockVars, objs, clock, uri, obj, remote, up>>

\* ... the time is stored, beside other readers that do the same ...
GetStamp(t) ==
  /\ Go(t, "found", "stamped")
  /\ objs' = [objs EXCEPT ![slot[t]].clk = stamp[t]]
  /\ stamp' = [stamp EXCEPT ![t] = 0]
  /\ UNCHANGED <<lockVars, last, clock, uri, obj, slot, remote, up>>

\* ... and the object is copied.
GetCopy(t) ==
  /\ Go(t, "stamped", "hit")
  /\ obj' = [obj EXCEPT ![t] = objs[slot[t]].value]
  /\ slot' = [slot EXCEPT ![t] = 1]
  /\ RdUnlock(t)
  /\ UNCHANGED <<cacheVars, clock, uri, stamp, remote, up>>

\* The cached object is sent to the client.
Hit(t) ==
  /\ pc[t] = "hit" /\ at[t] = "out"
  /\ Return(t)
  /\ UNCHANGED <<lockVars, cacheVars, clock, up>>
-----------------------------------------------------------------------------
(* The tunnel to the origin server.                                        *)

Connect(t) ==
  /\ Go(t, "miss", "send")
  /\ at[t] = "out"
  /\ remote' = remote \cup {t}
  /\ UNCHANGED <<lockVars, cacheVars, clock, uri, obj, slot, stamp, up>>

\* write_requesthdrs; the origin server has an answer of some length.
Send(t, n) ==
  /\ Go(t, "send", "relay")
  /\ obj' = [obj EXCEPT ![t] = Empty([key |-> uri[t], len |-> n])]
  /\ UNCHANGED <<lockVars, cacheVars, clock, uri, slot, stamp, remote, up>>

\* A full buffer is read, passed on, and kept while the object fits.
Relay(t) ==
  /\ pc[t] = "relay" /\ obj[t].size < obj[t].of.len
  /\ obj' = [obj EXCEPT
       ![t].parts = IF obj[t].size + 1 <= MaxObject THEN @ \cup {obj[t].size} ELSE @,
       ![t].size = @ + 1]
  /\ UNCHANGED <<lockVars, cacheVars, clock, pc, uri, slot, stamp, remote, up>>

\* A short read ends the loop and the connection; an object that fits is
\* put into the cache.
RelayEndAny(t) ==
  /\ Go(t, "relay", "put") /\ obj[t].size = obj[t].of.len
  /\ WrLock(t)
  /\ remote' = remote \ {t}
  /\ UNCHANGED <<uri, obj, slot, stamp, cacheVars, clock, up>>
RelayEnd(t) ==
  /\ pc[t] = "relay" /\ obj[t].size = obj[t].of.len
  /\ IF obj[t].size <= MaxObject
       THEN /\ Go(t, "relay", "put")
            /\ WrLock(t)
            /\ remote' = remote \ {t}
                      /\ UNCHANGED <<uri, obj, slot, stamp>>
       ELSE Return(t) /\ UNCHANGED lockVars
  /\ UNCHANGED <<cacheVars, clock, up>>
-----------------------------------------------------------------------------
(* cache_put under the write lock.                                         *)

\* The key exists: its value is overwritten.
PutOverwrite(t) ==
  /\ pc[t] = "put" /\ at[t] = "writing"
  /\ \E i \in CacheFind(uri[t]) :
       /\ objs' = [objs EXCEPT ![i].value = obj[t], ![i].clk = clock]
       /\ last' = [last EXCEPT ![i] = clock]
  /\ WrUnlock(t)
  /\ Return(t)
  /\ UNCHANGED <<clock, up>>

\* It does not: a slot is taken, its flag, time and key are set ...
PutPickBlindly(t) ==
  /\ Go(t, "put", "fill") /\ at[t] = "writing"
  /\ objs' = [objs EXCEPT ![Victim].valid = TRUE, ![Victim].clk = clock, ![Victim].key = uri[t]]
  /\ last' = [last EXCEPT ![Victim] = clock]
  /\ slot' = [slot EXCEPT ![t] = Victim]
  /\ UNCHANGED <<lockVars, clock, uri, obj, stamp, remote, up>>
PutPick(t) ==
  /\ Go(t, "put", "fill") /\ at[t] = "writing"
  /\ CacheFind(uri[t]) = {}
  /\ objs' = [objs EXCEPT ![Victim].valid = TRUE, ![Victim].clk = clock, ![Victim].key = uri[t]]
  /\ last' = [last EXCEPT ![Victim] = clock]
  /\ slot' = [slot EXCEPT ![t] = Victim]
  /\ UNCHANGED <<lockVars, clock, uri, obj, stamp, remote, up>>

\* ... then its value.
PutFill(t) ==
  /\ pc[t] = "fill"
  /\ objs' = [objs EXCEPT ![slot[t]].value = obj[t]]
  /\ WrUnlock(t)
  /\ Return(t)
  /\ UNCHANGED <<last, clock, up>>
-----------------------------------------------------------------------------
\* A step inside the routines of the lock.
Locking(t) == LockStep(t) /\ UNCHANGED <<cacheVars, clock, threadVars, up>>

\* gettimeofday moves on; it may return the same time twice.
Tick ==
  /\ clock < MaxClock
  /\ clock' = clock + 1
  /\ UNCHANGED <<lockVars, cacheVars, threadVars, up>>

\* Steps that need neither a client nor an origin server.
Compute(t) ==
  \/ Locking(t)
  \/ GetMiss(t) \/ GetFound(t) \/ GetStamp(t) \/ GetCopy(t)
  \/ PutOverwrite(t) \/ PutPick(t) \/ PutFill(t)

Network(t) ==
  \/ \E k \in Keys : Accept(t, k)
  \/ ReadRequest(t)
  \/ Drop(t)
  \/ Sigpipe(t)
  \/ Hit(t)
  \/ Connect(t)
  \/ \E n \in 0..MaxLen : Send(t, n)
  \/ Relay(t)
  \/ RelayEnd(t)

Stopped == ~up /\ UNCHANGED vars

Next ==
  \/ up /\ \E t \in Threads : Compute(t) \/ Network(t)
  \/ up /\ Tick
  \/ Stopped

Spec == Init /\ [][Next]_vars

\* Threads run on as long as they wait for no peer.
FairSpec == Spec /\ \A t \in Threads : WF_vars(up /\ Compute(t))
-----------------------------------------------------------------------------
(* Properties.                                                             *)

\* Two threads that fetch the same URI at the same time (both missed it)
\* leave one entry for it: cache_put looks again under the write lock.
OneEntryPerKey ==
  \A i, j \in Slots :
    objs[i].valid /\ objs[j].valid /\ objs[i].key = objs[j].key => i = j

\* A cache hit sends the client a whole answer to the URI it asked for,
\* although slots are reused for other keys and sizes while it looks.
HitIsAnswer ==
  \A t \in Threads : pc[t] = "hit" => Whole(obj[t]) /\ obj[t].of.key = uri[t]

\* Outside cache_put every entry is a whole answer to its key: nothing that
\* did not fit, and nothing from an exchange that failed, was stored.
EntriesWhole ==
  \A i \in Slots :
    objs[i].valid /\ ~(\E t \in Threads : pc[t] = "fill" /\ slot[t] = i)
      => Whole(objs[i].value) /\ objs[i].value.of.key = objs[i].key

\* No return from doit leaves the connection to the origin server open.
RemoteClosed == \A t \in remote : pc[t] \in {"send", "relay"}

\* The lock is used as it must be: the cache is written only by the thread
\* that holds it for writing, read only by threads that hold it.
LockHeld ==
  \A t \in Threads :
    /\ pc[t] \in {"found", "stamped"} => t \in Readers
    /\ pc[t] = "fill" => t \in Writers /\ Readers = {}

\* A thread that holds the lock waits for no peer, so a client or an origin
\* server that does not answer cannot keep the others out (driver.sh tests
\* this with nop-server.py): somebody who wants the lock gets it.
LookupsGoOn ==
  (\E t \in Threads : pc[t] = "lookup") ~>
    (~up \/ \E t \in Threads : pc[t] \in {"found", "miss", "fill"} \/ t \in Writers)

\* "thread-safe LRU cache" (README.md:6): the entry that cache_put evicts is
\* one that no other entry has been unused for longer.
EvictsLRU ==
  [][\A i \in Slots :
       up' /\ objs[i].valid /\ objs[i].key # objs'[i].key =>
         \A j \in Slots : last[i] <= last[j]]_vars
=============================================================================
