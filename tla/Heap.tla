-------------------------------- MODULE Heap --------------------------------
(***************************************************************************)
(* The allocator of labs/06_malloclab (mm.c) over the break of memlib.c,   *)
(* with implicit, explicit or segregated free lists and first or best fit. *)
(* The unit is the word of sizeof(size_t) = 4 bytes: a request of b bytes  *)
(* is one of (b + 3) \div 4 words, which align rounds to the same block.   *)
(* The list nodes that mm.c keeps inside free blocks are sequences here.   *)
(***************************************************************************)
EXTENDS Integers, Sequences, FiniteSets, FiniteSetsExt

CONSTANTS
  MaxHeap,      \* MAX_HEAP, in words
  NumLists,     \* SEGREGATED_NUM_LISTS
  Requests,     \* sizes that callers ask for
  MaxLive       \* blocks that callers hold at a time

ASSUME HeapAssumption ==
  /\ MaxHeap \in Nat /\ MaxHeap >= 4
  /\ NumLists \in Nat \ {0} /\ MaxLive \in Nat
  /\ Requests \subseteq Nat

\* The ways to compile mm.c: a free list organisation and a placement strategy.
Policies == {"implicit", "explicit", "segregated"} \X {"first", "best"}

VARIABLES
  heap,         \* the memory, mem_brk, block_tail and the free lists
  policy,       \* how mm.c was compiled
  live          \* the blocks that callers hold, and the sizes they asked for

vars == <<heap, policy, live>>

NULL == 0
Owners == 1..MaxLive
Free == [ptr |-> NULL, size |-> 0]

\* A word is a header or footer, or the k-th word that an owner has stored.
Meta(size, prev_alloc, alloc) == [size |-> size, prev |-> prev_alloc, alloc |-> alloc]
Data(o, k) == [owner |-> o, k |-> k]
Junk == Data(0, 0)
Words == [size : 0..MaxHeap, prev : {0, 1}, alloc : {0, 1}] \cup [owner : 0..MaxLive, k : 0..MaxHeap]

TypeOK ==
  /\ heap.mem \in [0..(MaxHeap - 1) -> Words]
  /\ heap.brk \in 0..MaxHeap /\ heap.tail \in 0..MaxHeap
  /\ heap.lists \in [0..(NumLists - 1) -> Seq(0..MaxHeap)]
  /\ policy \in Policies
  /\ live \in [Owners -> [ptr : 0..MaxHeap, size : 0..MaxHeap]]
-----------------------------------------------------------------------------
(* Blocks: a pointer bp is one word behind its block's header.             *)

MinBlockSize == IF policy[1] = "implicit" THEN 2 ELSE 4
align(n) == 2 * ((n + 1) \div 2)
larger(a, b) == IF a > b THEN a ELSE b

header(bp) == bp - 1
get_size(h, p) == h.mem[p].size
get_alloc(h, p) == h.mem[p].alloc
get_prev_alloc(h, p) == h.mem[p].prev
set_meta(h, p, size, prev_alloc, alloc) == [h EXCEPT !.mem[p] = Meta(size, prev_alloc, alloc)]
set_size(h, p, size) == [h EXCEPT !.mem[p].size = size]
set_prev_alloc_adds(h, p, prev_alloc) == [h EXCEPT !.mem[p].prev = @ + prev_alloc]
set_prev_alloc(h, p, prev_alloc) == [h EXCEPT !.mem[p].prev = prev_alloc]
set_alloc(h, p, alloc) == [h EXCEPT !.mem[p].alloc = alloc]

footer(h, bp) == (bp + get_size(h, header(bp))) - 2
prev_footer(bp) == bp - 2
next_block(h, bp) == bp + get_size(h, header(bp))
prev_block(h, bp) == bp - get_size(h, prev_footer(bp))
sync_footer_never(h, bp) == h
sync_footer(h, bp) == [h EXCEPT !.mem[footer(h, bp)] = h.mem[header(bp)]]

block_head == 2
\* The blocks behind block_head, found by following the size fields.
Blocks(h) ==
  LET from[bp \in 0..MaxHeap] ==
        IF bp = h.tail THEN {}
        ELSE IF next_block(h, bp) \in (bp + 1)..h.tail THEN {bp} \cup from[next_block(h, bp)]
        ELSE {bp}
  IN  from[next_block(h, block_head)]
-----------------------------------------------------------------------------
(* Free lists                                                              *)

\* How often (size - 1) \div MinBlockSize can be halved before it is 0.
segregated_free_list_lower_bound(size) ==
  LET index == Cardinality({n \in 0..size : (size - 1) \div MinBlockSize >= 2^n})
  IN  IF index < NumLists THEN index ELSE NumLists - 1

list_of(size) == IF policy[1] = "segregated" THEN segregated_free_list_lower_bound(size) ELSE 0

free_list_insert(h, bp) ==
  IF policy[1] = "implicit" THEN h
  ELSE [h EXCEPT !.lists[list_of(get_size(h, header(bp)))] = <<bp>> \o @]
list_erase(s, bp) ==
  LET i == CHOOSE j \in DOMAIN s : s[j] = bp
  IN  IF bp \in Range(s) THEN [k \in 1..(Len(s) - 1) |-> s[IF k < i THEN k ELSE k + 1]] ELSE s
free_list_erase(h, bp) == [h EXCEPT !.lists = [l \in DOMAIN @ |-> list_erase(@[l], bp)]]
free_list_update_never(h, bp) == h
free_list_update(h, bp) ==
  IF policy[1] = "segregated" THEN free_list_insert(free_list_erase(h, bp), bp) ELSE h

fit_in_first(h, s, n) ==
  LET fits == {i \in DOMAIN s : get_size(h, header(s[i])) >= n}
  IN  IF fits = {} THEN NULL ELSE s[Min(fits)]
\* The first, or the first of the smallest, among the fitting blocks of s.
fit_in(h, s, n) ==
  LET fits == {i \in DOMAIN s : get_size(h, header(s[i])) >= n}
      smallest == {i \in fits : \A j \in fits : get_size(h, header(s[i])) <= get_size(h, header(s[j]))}
  IN  CASE fits = {} -> NULL
        [] fits # {} /\ policy[2] = "first" -> s[Min(fits)]
        [] OTHER -> s[Min(smallest)]

\* The implicit list has the free blocks at their addresses.
implicit_list(h) == [bp \in {b \in Blocks(h) : get_alloc(h, header(b)) = 0} |-> bp]
find_fit(h, n) ==
  CASE policy[1] = "implicit" -> fit_in(h, implicit_list(h), n)
    [] policy[1] = "explicit" -> fit_in(h, h.lists[0], n)
    [] OTHER ->
         LET found == {l \in list_of(n)..(NumLists - 1) : fit_in(h, h.lists[l], n) # NULL}
         IN  IF found = {} THEN NULL ELSE fit_in(h, h.lists[Min(found)], n)
-----------------------------------------------------------------------------
(* place, coalesce, extend_heap                                            *)

place(heap0, bp, n) ==
  LET h == free_list_erase(heap0, bp)
      size == get_size(h, header(bp))
      whole == set_meta(h, header(bp), size, 1, 1)
      front == set_meta(h, header(bp), n, 1, 1)
      rest == sync_footer(set_meta(front, header(bp + n), size - n, 1, 0), bp + n)
  IN  IF size < n + MinBlockSize
        THEN set_prev_alloc(whole, header(next_block(whole, bp)), 1)
        ELSE free_list_insert(rest, bp + n)

\* The block at bp becomes a free block of the given size.
absorb(h, bp, size) == sync_footer(set_meta(h, header(bp), size, 1, 0), bp)

coalesce(h, bp) ==
  LET size == get_size(h, header(bp))
      next == next_block(h, bp)
      next_size == get_size(h, header(next))
      next_free == get_alloc(h, header(next)) = 0
      prev == prev_block(h, bp)
      prev_size == get_size(h, prev_footer(bp))
      merged == IF next_free THEN size + next_size ELSE size
      erase_next(g) == IF next_free THEN free_list_erase(g, next) ELSE g
      joined ==
        IF get_prev_alloc(h, header(bp)) = 0
          THEN [bp |-> prev,
                h |-> erase_next(free_list_erase(absorb(h, prev, prev_size + merged), bp))]
          ELSE [bp |-> bp,
                h |-> IF next_free THEN erase_next(absorb(h, bp, merged)) ELSE h]
  IN  [bp |-> joined.bp, h |-> free_list_update(joined.h, joined.bp)]

\* mem_sbrk fails beyond MaxHeap.
can_sbrk(h, incr) == h.brk + incr <= MaxHeap

extend_heap(h, n) ==
  LET size == larger(align(n), MinBlockSize)
      old_tail == h.brk
      grown == [h EXCEPT !.brk = @ + size, !.tail = old_tail + size]
      block == set_meta(grown, header(old_tail), size, get_prev_alloc(h, header(old_tail)), 0)
      listed == free_list_insert(sync_footer(block, old_tail), old_tail)
  IN  IF can_sbrk(h, size)
        THEN coalesce(set_meta(listed, header(grown.tail), 0, 0, 1), old_tail)
        ELSE [bp |-> NULL, h |-> h]
-----------------------------------------------------------------------------
(* malloc, free, realloc: the heap they leave and the pointer they return. *)

block_size(n) == larger(align(n + 1), MinBlockSize)

do_mm_malloc(h, n) ==
  LET alloc_size == block_size(n)
      bp == find_fit(h, alloc_size)
      last_free == IF get_prev_alloc(h, header(h.tail)) = 0
                     THEN get_size(h, prev_footer(h.tail)) ELSE 0
      more == extend_heap(h, alloc_size - last_free)
  IN  CASE n = 0 -> [bp |-> NULL, h |-> h]
        [] n # 0 /\ bp # NULL -> [bp |-> bp, h |-> place(h, bp, alloc_size)]
        [] OTHER -> IF more.bp = NULL THEN more
                    ELSE [bp |-> more.bp, h |-> place(more.h, more.bp, alloc_size)]

do_mm_free(h, ptr) ==
  LET freed == free_list_insert(sync_footer(set_alloc(h, header(ptr), 0), ptr), ptr)
  IN  coalesce(set_prev_alloc(freed, header(next_block(freed, ptr)), 0), ptr).h

memcpy_short(h, to, from, n) ==
  [h EXCEPT !.mem = [a \in DOMAIN @ |-> IF a \in to..(to + n - 2) THEN @[from + (a - to)] ELSE @[a]]]
memcpy(h, to, from, n) ==
  [h EXCEPT !.mem = [a \in DOMAIN @ |-> IF a \in to..(to + n - 1) THEN @[from + (a - to)] ELSE @[a]]]

\* At the end of the heap it is extended before anything is moved.
realloc_extend(h, ptr, n) ==
  LET next == next_block(h, ptr)
      size == get_size(h, header(ptr)) + get_size(h, header(next))
      last == next = h.tail \/ (get_alloc(h, header(next)) = 0 /\ next_block(h, next) = h.tail)
  IN  IF last /\ size < n THEN extend_heap(h, n - size) ELSE [bp |-> ptr, h |-> h]

\* The free block behind ptr becomes part of it.
realloc_merge(h, ptr) ==
  LET next == next_block(h, ptr)
      size == get_size(h, header(ptr)) + get_size(h, header(next))
      merged == set_size(free_list_erase(h, next), header(ptr), size)
  IN  IF get_alloc(h, header(next)) = 0
        THEN set_prev_alloc(merged, header(next_block(merged, ptr)), 1)
        ELSE h

realloc_shrink(h, ptr, n) ==
  LET size == get_size(h, header(ptr))
      shrunk == set_meta(set_size(h, header(ptr), n), header(ptr + n), size - n, 1, 1)
  IN  IF n + MinBlockSize <= size THEN do_mm_free(shrunk, ptr + n) ELSE h

realloc_move_leaks(h, ptr, n, old_size) ==
  LET new == do_mm_malloc(h, n)
  IN  IF new.bp = NULL THEN new
      ELSE [bp |-> new.bp,
            h |-> memcpy(new.h, new.bp, ptr, IF n < old_size THEN n ELSE old_size)]
realloc_move(h, ptr, n, old_size) ==
  LET new == do_mm_malloc(h, n)
      copied == memcpy(new.h, new.bp, ptr, IF n < old_size THEN n ELSE old_size)
  IN  IF new.bp = NULL THEN new ELSE [bp |-> new.bp, h |-> do_mm_free(copied, ptr)]

do_mm_realloc(h, ptr, n) ==
  LET old_size == get_size(h, header(ptr)) - 1
      extended == realloc_extend(h, ptr, block_size(n))
      merged == realloc_merge(extended.h, ptr)
  IN  CASE n = 0 -> [bp |-> NULL, h |-> do_mm_free(h, ptr)]
        [] n # 0 /\ extended.bp = NULL -> extended
        [] OTHER -> IF block_size(n) <= get_size(merged, header(ptr))
                      THEN [bp |-> ptr, h |-> realloc_shrink(merged, ptr, block_size(n))]
                      ELSE realloc_move(merged, ptr, n, old_size)
-----------------------------------------------------------------------------
(* The callers                                                             *)

\* do_mm_init
Init ==
  /\ heap = [mem |-> [a \in 0..(MaxHeap - 1) |->
                        CASE a = 1 -> Meta(2, 1, 1) [] a = 3 -> Meta(0, 1, 1) [] OTHER -> Junk],
             brk |-> 4, tail |-> 4, lists |-> [l \in 0..(NumLists - 1) |-> <<>>]]
  /\ policy \in Policies
  /\ live = [o \in Owners |-> Free]

\* Words that mean something: headers, the footers of free blocks, and what
\* the other owners have stored.
Meaningful(h, o) ==
  LET blocks == Blocks(h)
  IN  {1, header(h.tail)} \cup {header(bp) : bp \in blocks}
        \cup {footer(h, bp) : bp \in {b \in blocks : get_alloc(h, header(b)) = 0}}
        \cup UNION {live[x].ptr..(live[x].ptr + live[x].size - 1) : x \in Owners \ {o}}

\* The owner stores words from..size-1 of its block; all words that have no
\* meaning any more are forgotten.
Store(h, o, ptr, from, size) ==
  LET meaningful == Meaningful(h, o)
  IN  [h EXCEPT !.mem = [a \in DOMAIN @ |->
         CASE a \in (ptr + from)..(ptr + size - 1) -> Data(o, a - ptr)
           [] a \in ptr..(ptr + from - 1) \/ a \in meaningful -> @[a]
           [] OTHER -> Junk]]

Unused == {o \in Owners : live[o] = Free}

Malloc(n) ==
  /\ Unused # {}
  /\ LET o == Min(Unused)
         r == do_mm_malloc(heap, n)
     IN  IF r.bp = NULL
           THEN heap' = r.h /\ UNCHANGED live
           ELSE /\ heap' = Store(r.h, o, r.bp, 0, n)
                /\ live' = [live EXCEPT ![o] = [ptr |-> r.bp, size |-> n]]
  /\ UNCHANGED policy

Release(o) ==
  /\ live[o] # Free
  /\ heap' = Store(do_mm_free(heap, live[o].ptr), o, NULL, 0, 0)
  /\ live' = [live EXCEPT ![o] = Free]
  /\ UNCHANGED policy

Realloc(o, n) ==
  /\ live[o] # Free
  /\ LET r == do_mm_realloc(heap, live[o].ptr, n)
         kept == IF n < live[o].size THEN n ELSE live[o].size
     IN  CASE n = 0 -> /\ heap' = Store(r.h, o, NULL, 0, 0)
                       /\ live' = [live EXCEPT ![o] = Free]
           [] n # 0 /\ r.bp = NULL -> heap' = r.h /\ UNCHANGED live
           [] OTHER -> /\ heap' = Store(r.h, o, r.bp, kept, n)
                       /\ live' = [live EXCEPT ![o] = [ptr |-> r.bp, size |-> n]]
  /\ UNCHANGED policy

Next ==
  \/ \E n \in Requests : Malloc(n)
  \/ \E o \in Owners : Release(o) \/ \E n \in Requests : Realloc(o, n)

Spec == Init /\ [][Next]_vars
-----------------------------------------------------------------------------
(* Properties.                                                             *)

AllBlocks == Blocks(heap)
IsFree(bp) == get_alloc(heap, header(bp)) = 0

\* mm_check_heap: block after block the headers lead to block_tail; free
\* blocks have a footer like their header and no free neighbour; the P bit
\* tells the truth about the block before.
HeapConsistent ==
  /\ heap.brk = heap.tail /\ heap.mem[header(heap.tail)].size = 0 /\ get_alloc(heap, header(heap.tail)) = 1
  /\ \A bp \in AllBlocks :
       LET next == next_block(heap, bp)
       IN  /\ get_size(heap, header(bp)) >= MinBlockSize /\ next <= heap.tail
           /\ get_prev_alloc(heap, header(next)) = get_alloc(heap, header(bp))
           /\ IsFree(bp) => /\ heap.mem[footer(heap, bp)] = heap.mem[header(bp)]
                            /\ get_prev_alloc(heap, header(bp)) = 1
                            /\ get_alloc(heap, header(next)) = 1

\* segregated_mm_check and explicit_mm_check, in both directions: each free
\* block is in the list of its size class, once, and nothing else is listed.
FreeListsExact ==
  policy[1] # "implicit" => \A l \in DOMAIN heap.lists :
    /\ IsInjective(heap.lists[l])
    /\ Range(heap.lists[l]) =
         {bp \in AllBlocks : IsFree(bp) /\ list_of(get_size(heap, header(bp))) = l}

\* No word that a caller has stored in a block it holds is lost or changed
\* by the allocator, through any sequence of calls, realloc's moves included.
PayloadsIntact ==
  \A o \in Owners : \A k \in 0..(live[o].size - 1) : heap.mem[live[o].ptr + k] = Data(o, k)

\* Exactly the blocks that callers hold are allocated: a failed or repeated
\* operation loses none and leaves none behind. Pointers are 8-byte aligned.
NoLeak ==
  {bp \in AllBlocks : ~IsFree(bp)} = {live[o].ptr : o \in Owners} \ {NULL}
  /\ \A o \in Owners : live[o].ptr % 2 = 0

\* mm.c: best fit "examines every free block and chooses the free block with
\* the smallest size that fits", in each of the three organisations.
BestFit ==
  [][\A o \in Owners :
       policy[2] = "best" /\ live[o] = Free /\ live'[o] # Free /\ live'[o].ptr \in AllBlocks =>
         \A bp \in AllBlocks :
           IsFree(bp) /\ get_size(heap, header(bp)) >= block_size(live'[o].size) =>
             get_size(heap, header(live'[o].ptr)) <= get_size(heap, header(bp))]_vars
=============================================================================
