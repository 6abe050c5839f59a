------------------------------- MODULE Scopes -------------------------------
(***************************************************************************)
(* Exercise 13: lexical scopes that own their symbols.  A block is what    *)
(* one malloc returned; every malloc may fail.  The caller holds at most   *)
(* one entry that is not in a scope yet and destroys inner scopes first.   *)
(***************************************************************************)
EXTENDS Integers, Sequences, SequencesExt, FiniteSets

CONSTANTS Keys, Vals, MaxBlocks, MaxDepth

VARIABLES live,    \* the blocks not freed
          used,    \* the blocks handed out so far
          env,     \* the scopes, outermost first
          entry,   \* the entry held by the caller, as a sequence of length <= 1
          want     \* the bindings made in each scope, oldest first
vars == <<live, used, env, entry, want>>

Init == live = {} /\ used = 0 /\ env = <<>> /\ entry = <<>> /\ want = <<>>

Blocks(e) == {e.block, e.key, e.val}
-----------------------------------------------------------------------------
scope_env_create ==
  /\ Len(env) < MaxDepth /\ used < MaxBlocks /\ UNCHANGED entry
  /\ used' = used + 1 /\ live' = live \cup {used + 1}
  /\ env' = Append(env, [block |-> used + 1, symbol_count |-> 0, head |-> <<>>]) /\ want' = Append(want, <<>>)

\* The blocks that stay allocated when the n-th of the three mallocs fails;
\* with n = 4 none does.
\* Mutant: the failure of the last malloc frees the entry and forgets the key.
KeptForgetsKey(n) == IF n = 3 THEN {used + 2} ELSE IF n = 4 THEN {used + 1, used + 2, used + 3} ELSE {}
Kept(n) == IF n = 4 THEN {used + 1, used + 2, used + 3} ELSE {}
symbol_entry_create(k, v, n) ==
  /\ entry = <<>> /\ used + 3 <= MaxBlocks /\ UNCHANGED <<env, want>>
  /\ used' = used + (n - 1) /\ live' = live \cup Kept(n)
  /\ entry' = IF n = 4 THEN <<[block |-> used + 1, key |-> used + 2, val |-> used + 3, name |-> k, value |-> v]>> ELSE <<>>

\* Mutant: the entry is put at the end of the list.
PrependLast(e, head) == Append(head, e)
Prepend(e, head) == <<e>> \o head
scope_env_insert(s) ==
  /\ entry # <<>> /\ UNCHANGED <<live, used>>
  /\ env' = [env EXCEPT ![s].head = Prepend(entry[1], @), ![s].symbol_count = @ + 1]
  /\ want' = [want EXCEPT ![s] = Append(@, <<entry[1].name, entry[1].value>>)] /\ entry' = <<>>

scope_env_destroy ==
  /\ env # <<>> /\ UNCHANGED <<used, entry>>
  /\ LET s == env[Len(env)]
     IN live' = live \ ({s.block} \cup UNION {Blocks(s.head[i]) : i \in 1..Len(s.head)})
  /\ env' = Front(env) /\ want' = Front(want)

Next ==
  \/ scope_env_create \/ scope_env_destroy
  \/ \E k \in Keys, v \in Vals, n \in 1..4 : symbol_entry_create(k, v, n)
  \/ \E s \in DOMAIN env : scope_env_insert(s)
Spec == Init /\ [][Next]_vars

\* The walk over the scopes from the innermost, and over each list from its head.
scope_env_lookup(k) ==
  LET walk == FlattenSeq([i \in 1..Len(env) |-> env[Len(env) + 1 - i].head])
      hits == SelectSeq(walk, LAMBDA e : e.name = k)
  IN IF hits = <<>> THEN "nullptr" ELSE hits[1].value

\* memmove inside the value, for offsets whose sums do not wrap around.
\* Mutant: a copy forward that reads bytes it already wrote.
memmoveForward(val, dest, src, count) ==
  LET f[i \in 0..count] == IF i = 0 THEN val ELSE [f[i - 1] EXCEPT ![dest + i] = f[i - 1][src + i]] IN f[count]
memmove(val, dest, src, count) ==
  [i \in DOMAIN val |-> IF i - dest \in 1..count THEN val[i - dest + src] ELSE val[i]]
symbol_entry_shift_value(val, dest, src, count) ==
  IF src + count > Len(val) \/ dest + count > Len(val) THEN val ELSE memmove(val, dest, src, count)
-----------------------------------------------------------------------------
\* The count of a scope is the length of its list, and blocks are handed out once.
TypeOK ==
  /\ live \subseteq 1..used /\ used <= MaxBlocks /\ Len(env) = Len(want)
  /\ \A i \in DOMAIN env : env[i].symbol_count = Len(env[i].head)

\* Every block still allocated is owned by exactly one scope or by the entry
\* the caller holds, whichever mallocs failed, and nothing owned was freed.
NoLeak ==
  LET entries == entry \o FlattenSeq([i \in 1..Len(env) |-> env[i].head])
      owned == {env[i].block : i \in DOMAIN env} \cup UNION {Blocks(entries[i]) : i \in DOMAIN entries}
  IN live = owned /\ Cardinality(owned) = Len(env) + 3 * Len(entries)

\* A lookup gives the newest binding of the innermost scope that has the key.
LookupInnermost ==
  \A k \in Keys :
    LET all == SelectSeq(FlattenSeq(want), LAMBDA b : b[1] = k)
    IN scope_env_lookup(k) = IF all = <<>> THEN "nullptr" ELSE all[Len(all)][2]

\* A shift copies the bytes the value had before, also when the two ranges
\* overlap, and touches no other byte.
ShiftExact(val) ==
  \A dest, src, count \in 0..4 :
    LET r == symbol_entry_shift_value(val, dest, src, count)
        done == src + count <= 3 /\ dest + count <= 3
    IN Len(r) = 3 /\ \A i \in 1..3 : r[i] = IF done /\ i > dest /\ i <= dest + count THEN val[i - dest + src] ELSE val[i]
=============================================================================
