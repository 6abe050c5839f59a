--------------------------- MODULE BumpAllocator ---------------------------
(***************************************************************************)
(* The arena allocator of exercises/11_bump_allocator.c.  Addresses and    *)
(* sizes are W-bit words, so the sums the code guards can wrap.            *)
(***************************************************************************)
EXTENDS Naturals, FiniteSets, Bitwise

CONSTANTS W, Arenas, Sizes, Aligns, MaxBlocks,   \* Arenas: pairs base, capacity
          MaxAlignT                              \* alignof(max_align_t)

VARIABLES alloc,    \* the BumpAllocator: buffer, capacity, offset
          live,     \* the blocks handed out and not reset or restored away
          saved     \* the marker of the last bump_save

vars == <<alloc, live, saved>>

SIZE_MAX == 2^W - 1
Plus(a, b) == (a + b) % 2^W
Minus(a, b) == (a + 2^W - b) % 2^W

is_power_of_two(n) == n # 0 /\ (n & (n - 1)) = 0

bump_align_forward(addr, align) == Plus(addr, align - 1) & (SIZE_MAX - (align - 1))

\* 0 asks for the default alignment.
Align(align) == IF align = 0 THEN MaxAlignT ELSE align

Current == Plus(alloc.buffer, alloc.offset)
Padding(align) == Minus(bump_align_forward(Current, align), Current)

\* Mutant: only the sum with the offset is guarded.
OverflowHalf(size, padding) == Plus(padding, size) > SIZE_MAX - alloc.offset

Overflow(size, padding) ==
  size > SIZE_MAX - padding \/ Plus(padding, size) > SIZE_MAX - alloc.offset

Fits(size, padding) ==
  /\ ~Overflow(size, padding)
  /\ Plus(alloc.offset, Plus(padding, size)) <= alloc.capacity

\* A block is its first address and the offsets between which it lies.
bump_alloc(size, align) ==
  /\ is_power_of_two(align) /\ size > 0
  /\ Fits(size, Padding(align))
  /\ Cardinality(live) < MaxBlocks
  /\ alloc' = [alloc EXCEPT !.offset = Plus(@, Plus(Padding(align), size))]
  /\ live' = live \cup {[at |-> bump_align_forward(Current, align), size |-> size, align |-> align,
                         end |-> alloc'.offset]}
  /\ UNCHANGED saved

\* An empty request moves nothing, and every refused one leaves the arena
\* as it was.
Unmoved(size, align) ==
  /\ ~is_power_of_two(align) \/ size = 0 \/ ~Fits(size, Padding(align))
  /\ UNCHANGED vars

bump_reset == alloc' = [alloc EXCEPT !.offset = 0] /\ live' = {} /\ UNCHANGED saved

bump_save == saved' = alloc.offset /\ UNCHANGED <<alloc, live>>

\* Blocks that end beyond the marker are given up by the caller.
bump_restore ==
  /\ saved <= alloc.offset
  /\ alloc' = [alloc EXCEPT !.offset = saved]
  /\ live' = {b \in live : b.end <= saved}
  /\ UNCHANGED saved

bump_available == IF alloc.offset > alloc.capacity THEN 0 ELSE alloc.capacity - alloc.offset

\* The end of the arena is computed in a word as well.
bump_owns(ptr) == ptr >= alloc.buffer /\ ptr < Plus(alloc.buffer, alloc.capacity)

bump_init ==
  \E a \in Arenas : /\ a[2] > 0 /\ alloc = [buffer |-> a[1], capacity |-> a[2], offset |-> 0]
                    /\ live = {} /\ saved = 0

Init == bump_init

Next ==
  \/ \E size \in Sizes, align \in Aligns : bump_alloc(size, Align(align)) \/ Unmoved(size, Align(align))
  \/ bump_reset \/ bump_save \/ bump_restore

Spec == Init /\ [][Next]_vars
-----------------------------------------------------------------------------
\* The type invariant: the cursor stays inside the arena.
TypeOK ==
  /\ <<alloc.buffer, alloc.capacity>> \in Arenas
  /\ alloc.offset \in 0..alloc.capacity /\ saved \in 0..alloc.capacity

\* Live blocks are aligned, inside the arena and disjoint, whatever sizes
\* and alignments were asked for, however the sums wrapped, and whatever
\* markers were restored; the arena owns the address of each.
BlocksDisjoint ==
  /\ \A b \in live :
       /\ b.at % b.align = 0 /\ b.at >= alloc.buffer /\ bump_owns(b.at)
       /\ b.at + b.size = alloc.buffer + b.end /\ b.end <= alloc.offset
  /\ \A b, c \in live : b # c => b.at + b.size <= c.at \/ c.at + c.size <= b.at
  /\ bump_available = alloc.capacity - alloc.offset
=============================================================================
