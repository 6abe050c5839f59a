------------------------------ MODULE KvStore -------------------------------
(***************************************************************************)
(* What the key-value stores of csi/05-storage-and-retrieval promise, and  *)
(* no more.  A key has the values it was given, newest first; Get returns  *)
(* the newest.  In a map a Put overwrites, so there is at most one; in the *)
(* log-structured store it adds one, and a Delete uncovers the one before. *)
(* There a crash may take all of them, and a recovery gives some back.     *)
(***************************************************************************)
EXTENDS Sequences

CONSTANTS Keys, Values,
          Overwrites,     \* whether a Put replaces the value of its key
          Volatile        \* whether a crash may empty the store

VARIABLES versions

Empty == [k \in Keys |-> <<>>]

Init == versions = Empty

Put(k, v) == versions' = [versions EXCEPT ![k] = IF Overwrites THEN <<v>> ELSE <<v>> \o @]

Delete(k) == versions[k] # <<>> /\ versions' = [versions EXCEPT ![k] = Tail(@)]

Crash == Volatile /\ versions' = Empty

Recover == Volatile /\ versions = Empty /\ versions' \in [Keys -> Seq(Values)]

Next == \/ \E k \in Keys, v \in Values : Put(k, v)
        \/ \E k \in Keys : Delete(k)
        \/ Crash
        \/ Recover

Spec == Init /\ [][Next]_versions
=============================================================================
