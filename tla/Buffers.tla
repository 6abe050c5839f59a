------------------------------ MODULE Buffers ------------------------------
(***************************************************************************)
(* The growing Buffer of exercises/09_dynamic_memory_lifecycle.c and the   *)
(* SafeBlock of exercises/10_memory_safety_sanitizers.c on one heap whose  *)
(* calls may fail.  As in their tests, a structure is created, or made a   *)
(* clone, only while it owns nothing.                                      *)
(***************************************************************************)
EXTENDS Naturals, Sequences, FiniteSets, Functions

CONSTANTS Bufs, Blocks, Bytes, MaxCap, Undef    \* Undef: a byte never written

VARIABLES heap,     \* the allocated blocks and their bytes
          buf,      \* the Buffers: data (0 is nullptr), size, capacity
          block,    \* the SafeBlock: buffer, length
          want      \* the bytes appended to each Buffer and kept so far

vars == <<heap, buf, block, want>>

Free == Blocks \ DOMAIN heap
Null == [data |-> 0, size |-> 0, capacity |-> 0]
With(h, id, bytes) == [i \in DOMAIN h \cup {id} |-> IF i = id THEN bytes ELSE h[i]]
Without(h, id) == Restrict(h, DOMAIN h \ {id})

\* realloc(3) to cap bytes: in place or elsewhere, the old block freed
Realloc(id, cap, new) ==
  LET old == heap[id]
  IN  With(Without(heap, id), new, [i \in 1..cap |-> IF i <= Len(old) THEN old[i] ELSE Undef])

buffer_create(b, cap) ==
  /\ buf[b].data = 0 /\ cap > 0
  /\ \/ \E id \in Free : /\ heap' = With(heap, id, [i \in 1..cap |-> 0])
                         /\ buf' = [buf EXCEPT ![b] = [data |-> id, size |-> 0, capacity |-> cap]]
     \/ buf' = [buf EXCEPT ![b] = Null] /\ UNCHANGED heap
  /\ want' = [want EXCEPT ![b] = <<>>]
  /\ UNCHANGED block

buffer_destroy(b) ==
  /\ heap' = Without(heap, buf[b].data)
  /\ buf' = [buf EXCEPT ![b] = Null]
  /\ want' = [want EXCEPT ![b] = <<>>]
  /\ UNCHANGED block

\* What realloc may return for b's block: the new heap and the address
Resized(b, cap) == {<<Realloc(buf[b].data, cap, id), id>> : id \in Free \cup {buf[b].data}}

NewCap(b) == IF buf[b].capacity = 0 THEN 1 ELSE buf[b].capacity * 2
TargetCap(b) == IF buf[b].size = 0 THEN 1 ELSE buf[b].size

\* Mutant: the capacity is raised before the reallocation is known to work.
AppendFailsEarly(b) ==
  /\ buf[b].data # 0 /\ buf[b].size = buf[b].capacity
  /\ buf' = [buf EXCEPT ![b].capacity = NewCap(b)] /\ UNCHANGED <<heap, block, want>>

\* ALLOC_OUT_OF_MEMORY: nothing has changed.
AppendFails(b) == buf[b].data # 0 /\ buf[b].size = buf[b].capacity /\ UNCHANGED vars

buffer_append(b, byte) ==
  LET full == buf[b].size = buf[b].capacity
      cap == IF full THEN NewCap(b) ELSE buf[b].capacity IN
  /\ buf[b].data # 0 /\ cap <= MaxCap
  /\ \E r \in IF full THEN Resized(b, cap) ELSE {<<heap, buf[b].data>>} :
       /\ heap' = [r[1] EXCEPT ![r[2]][buf[b].size + 1] = byte]
       /\ buf' = [buf EXCEPT ![b] = [data |-> r[2], size |-> @.size + 1, capacity |-> cap]]
  /\ want' = [want EXCEPT ![b] = Append(@, byte)]
  /\ UNCHANGED block

buffer_shrink_to_fit(b) ==
  /\ buf[b].data # 0 /\ buf[b].size # buf[b].capacity
  /\ \/ \E r \in Resized(b, TargetCap(b)) :
          heap' = r[1] /\ buf' = [buf EXCEPT ![b].data = r[2], ![b].capacity = TargetCap(b)]
     \/ UNCHANGED <<heap, buf>>
  /\ UNCHANGED <<block, want>>

\* Mutant: the clone shares the source's block.
CloneShared(dest, src, id) == heap' = heap /\ buf' = [buf EXCEPT ![dest] = buf[src]]

CloneInto(dest, src, id) ==
  /\ heap' = With(heap, id, [i \in 1..buf[src].capacity |->
                               IF i <= buf[src].size THEN heap[buf[src].data][i] ELSE Undef])
  /\ buf' = [buf EXCEPT ![dest] = [buf[src] EXCEPT !.data = id]]

buffer_clone(dest, src) ==
  /\ buf[dest].data = 0 /\ buf[src].data # 0
  /\ \/ \E id \in Free : CloneInto(dest, src, id) /\ want' = [want EXCEPT ![dest] = want[src]]
     \/ buf' = [buf EXCEPT ![dest] = Null] /\ UNCHANGED <<heap, want>>
  /\ UNCHANGED block

safe_block_create(length) ==
  /\ block.buffer = 0
  /\ \/ \E id \in Free : /\ length > 0 /\ heap' = With(heap, id, [i \in 1..length |-> 0])
                         /\ block' = [buffer |-> id, length |-> length]
     \/ block' = [buffer |-> 0, length |-> 0] /\ UNCHANGED heap
  /\ UNCHANGED <<buf, want>>

safe_block_destroy ==
  /\ block.buffer # 0
  /\ heap' = Without(heap, block.buffer)
  /\ block' = [buffer |-> 0, length |-> 0]
  /\ UNCHANGED <<buf, want>>

InBlock(index) == block.buffer # 0 /\ index < block.length

safe_block_write(index, byte) ==
  /\ InBlock(index)
  /\ heap' = With(heap, block.buffer,
                  [i \in DOMAIN heap[block.buffer] \cup {index + 1} |->
                     IF i = index + 1 THEN byte ELSE heap[block.buffer][i]])
  /\ UNCHANGED <<buf, block, want>>

safe_block_read(index) == IF InBlock(index) THEN heap[block.buffer][index + 1] ELSE Undef

Init ==
  /\ heap = [i \in {} |-> <<>>] /\ buf = [b \in Bufs |-> Null] /\ want = [b \in Bufs |-> <<>>]
  /\ block = [buffer |-> 0, length |-> 0]

Next ==
  \/ \E b \in Bufs, cap \in 1..MaxCap : buffer_create(b, cap)
  \/ \E b \in Bufs : buffer_destroy(b) \/ AppendFails(b) \/ buffer_shrink_to_fit(b)
  \/ \E b \in Bufs, byte \in Bytes : buffer_append(b, byte)
  \/ \E dest, src \in Bufs : buffer_clone(dest, src)
  \/ \E length \in 0..2 : safe_block_create(length)
  \/ safe_block_destroy
  \/ \E index \in 0..2, byte \in Bytes : safe_block_write(index, byte)

Spec == Init /\ [][Next]_vars
-----------------------------------------------------------------------------
\* The type invariant.
TypeOK ==
  /\ DOMAIN heap \subseteq Blocks
  /\ \A b \in Bufs : buf[b].data \in Blocks \cup {0} /\ buf[b].size <= buf[b].capacity
  /\ block.length \in 0..2

\* Every structure owns a block of exactly the length it records, no two
\* the same one, and no allocated block is without an owner: no call that
\* fails on the way leaks or frees twice.
OwnsExactly ==
  LET owned == {buf[b].data : b \in {c \in Bufs : buf[c].data # 0}} \cup ({block.buffer} \ {0})
  IN  /\ DOMAIN heap = owned
      /\ Cardinality(owned) = Cardinality({b \in Bufs : buf[b].data # 0}) + (IF block.buffer = 0 THEN 0 ELSE 1)
      /\ \A b \in Bufs : buf[b].data # 0 => DOMAIN heap[buf[b].data] = 1..buf[b].capacity
      /\ block.buffer # 0 => DOMAIN heap[block.buffer] = 1..block.length /\ safe_block_read(0) # Undef

\* The bytes appended are the first size bytes, through growth, failed
\* growth, shrinking and cloning.
BytesKept ==
  \A b \in Bufs : buf[b].data # 0 =>
    /\ buf[b].size = Len(want[b]) /\ buf[b].data \in DOMAIN heap
    /\ \A i \in 1..buf[b].size : heap[buf[b].data][i] = want[b][i]
=============================================================================
