------------------------------ MODULE HeapOps -------------------------------
(***************************************************************************)
(* The operations of mm.c, in each build and for every heap limit and      *)
(* number of lists: do_mm_free, extend_heap, place, find_fit, do_mm_malloc *)
(* and what realloc does to the next block lead from a good heap to a good *)
(* heap and have an Effect on the allocated blocks.                        *)
(***************************************************************************)
EXTENDS HeapBlocks
USE SMTT(60), ZenonT(60), Z3T(60)
-----------------------------------------------------------------------------
(* Assignments to words                                                    *)

Poke(h, p, x) == [h EXCEPT !.mem[p] = x]

\* g is h with the word x at p.
Writes(h, g, p, x) ==
  /\ g \in Heaps /\ g.mem[p] = x /\ g.tail = h.tail /\ g.brk = h.brk /\ g.lists = h.lists
  /\ \A k \in 0..(MaxHeap - 1) : k # p => g.mem[k] = h.mem[k]

\* An assignment to one word of the memory changes only that word.
LEMMA Poked ==
  ASSUME NEW h \in Heaps, NEW p \in 0..(MaxHeap - 1), NEW x \in Words
  PROVE  Writes(h, Poke(h, p, x), p, x)
<1>. DEFINE M == [h.mem EXCEPT ![p] = x]
            g == Poke(h, p, x)
<1>1. h.mem \in [0..(MaxHeap - 1) -> Words]
  BY DEF Heaps
<1>2. M \in [0..(MaxHeap - 1) -> Words] /\ M[p] = x /\ \A k \in 0..(MaxHeap - 1) : k # p => M[k] = h.mem[k]
  BY <1>1, ZenonT(60)
<1>3. g = [h EXCEPT !.mem = M]
  BY DEF Poke
<1>. HIDE DEF M, g
<1>4. g \in Heaps /\ g.mem = M /\ g.tail = h.tail /\ g.brk = h.brk /\ g.lists = h.lists
  BY <1>2, <1>3 DEF Heaps
<1>5. Writes(h, g, p, x)
  BY <1>2, <1>4 DEF Writes
<1>. QED  BY <1>5 DEF g

\* Headers are words, and are made of their three fields.
LEMMA MetaWords ==
  /\ Metas \subseteq Words
  /\ \A s \in 0..MaxHeap : \A p, a \in {0, 1} : Meta(s, p, a) \in Metas
  /\ \A x \in Metas : x = Meta(x.size, x.prev, x.alloc)
BY DEF Metas, Words, Meta

\* set_size, set_prev_alloc and set_alloc are assignments to one header.
LEMMA Setters ==
  ASSUME NEW h \in Heaps, NEW p \in 0..(MaxHeap - 1), h.mem[p] \in Metas
  PROVE  /\ \A s : set_size(h, p, s) = Poke(h, p, Meta(s, h.mem[p].prev, h.mem[p].alloc))
         /\ \A v : set_prev_alloc(h, p, v) = Poke(h, p, Meta(h.mem[p].size, v, h.mem[p].alloc))
         /\ \A a : set_alloc(h, p, a) = Poke(h, p, Meta(h.mem[p].size, h.mem[p].prev, a))
<1>1. \A s : [h.mem[p] EXCEPT !.size = s] = Meta(s, h.mem[p].prev, h.mem[p].alloc)
  BY DEF Metas, Meta
<1>2. \A v : [h.mem[p] EXCEPT !.prev = v] = Meta(h.mem[p].size, v, h.mem[p].alloc)
  BY DEF Metas, Meta
<1>3. \A a : [h.mem[p] EXCEPT !.alloc = a] = Meta(h.mem[p].size, h.mem[p].prev, a)
  BY DEF Metas, Meta
<1>4. \A s : set_size(h, p, s) = Poke(h, p, [h.mem[p] EXCEPT !.size = s])
  BY DEF set_size, Poke, Heaps
<1>5. \A v : set_prev_alloc(h, p, v) = Poke(h, p, [h.mem[p] EXCEPT !.prev = v])
  BY DEF set_prev_alloc, Poke, Heaps
<1>6. \A a : set_alloc(h, p, a) = Poke(h, p, [h.mem[p] EXCEPT !.alloc = a])
  BY DEF set_alloc, Poke, Heaps
<1>. QED  BY <1>1, <1>2, <1>3, <1>4, <1>5, <1>6, ZenonT(60)

\* What a good heap is, in terms of its blocks.
LEMMA GoodBlocks ==
  ASSUME NEW h, Good(h)
  PROVE  Tiled(h, Blocks(h)) /\ Bits(h, Blocks(h)) /\ Sound(h, Blocks(h), {}) /\ Listed(h, Blocks(h))
BY DEF Good, Sound

\* A heap that is sound for some set of blocks is good, and these are its
\* blocks.
LEMMA GoodFrom ==
  ASSUME Numbers, NEW h, NEW B, Sound(h, B, {}), Listed(h, B)
  PROVE  Good(h) /\ Blocks(h) = B
<1>1. Blocks(h) = B
  BY TiledBlocks, ZenonT(60) DEF Sound
<1>. QED  BY <1>1 DEF Good

\* A block that keeps its words from h to j and from j to g keeps them from h
\* to g.
LEMMA SavedOn ==
  ASSUME NEW h, NEW j, NEW g, NEW b \in Int, Size(h, b) \in Int, Size(j, b) \in Int, Size(g, b) \in Int,
         Saved(h, j, b), Saved(j, g, b)
  PROVE  Saved(h, g, b)
<1>1. Size(g, b) >= Size(h, b)
  BY DEF Saved
<1>2. ASSUME NEW k \in b..(b + Size(h, b) - 2) PROVE g.mem[k] = h.mem[k]
  <2>1. k \in b..(b + Size(j, b) - 2)
    BY DEF Saved
  <2>. QED  BY <2>1, ZenonT(60) DEF Saved
<1>. QED  BY <1>1, <1>2, ZenonT(60) DEF Saved

\* Blocks outside of the words that a step writes keep theirs.
LEMMA SavedOutside ==
  ASSUME NEW h, NEW B, Tiled(h, B), NEW g, NEW m, NEW e, Outside(h, g, B, m, e), NEW b \in B, b < m \/ b >= e
  PROVE  Saved(h, g, b) /\ Size(g, b) = Size(h, b) /\ Alloc(g, b) = Alloc(h, b)
<1>1. Size(h, b) \in Int
  BY Geometry
<1>. QED  BY <1>1 DEF Outside, Saved

\* An allocated block's place and size.
LEMMA UsedFields ==
  ASSUME NEW h, Good(h), NEW b \in Used(h)
  PROVE  /\ b \in Blocks(h) /\ Alloc(h, b) = 1 /\ b \in 4..MaxHeap /\ Size(h, b) \in 2..MaxHeap
         /\ Size(h, b) >= MinBlockSize
<1>1. b \in Blocks(h) /\ Alloc(h, b) = 1
  BY DEF Used
<1>. QED  BY <1>1, GoodBlocks, Geometry

\* do_mm_free before it coalesces: the block has its alloc bit off, a footer,
\* a cleared P bit behind it and a place in the list of its size.
LEMMA FreedHeap ==
  ASSUME Numbers, NEW h, Good(h), NEW ptr \in Used(h)
  PROVE  LET freed == free_list_insert(sync_footer(set_alloc(h, header(ptr), 0), ptr), ptr)
             g == set_prev_alloc(freed, header(next_block(freed, ptr)), 0)
             N == ptr + Size(h, ptr)
         IN  /\ Joined(h, Blocks(h), g, ptr, N, 0) /\ g.mem[N - 2] = g.mem[ptr - 1]
             /\ policy[1] # "implicit" =>
                  ListsAre(g, [l \in Classes |-> FreeBy(h, Blocks(h))[l]
                                 \cup (IF list_of(Size(h, ptr)) = l THEN {ptr} ELSE {})])
<1>. DEFINE B == Blocks(h)
            N == ptr + Size(h, ptr)
            D == 0..(MaxHeap - 1)
            x == Meta(Size(h, ptr), Prev(h, ptr), 0)
            y == Meta(Size(h, N), 0, Alloc(h, N))
            g1 == set_alloc(h, header(ptr), 0)
            g2 == sync_footer(g1, ptr)
            g3 == free_list_insert(g2, ptr)
            g4 == set_prev_alloc(g3, header(next_block(g3, ptr)), 0)
            K == FreeBy(h, B)
<1>1. Tiled(h, B) /\ Bits(h, B) /\ Listed(h, B) /\ ptr \in B /\ Alloc(h, ptr) = 1
  BY GoodBlocks, UsedFields, ZenonT(60)
<1>2. /\ MaxHeap \in Nat /\ h \in Heaps /\ ptr \in 4..MaxHeap /\ Size(h, ptr) \in 2..MaxHeap
      /\ N \in B \cup {h.tail} /\ N \in 4..MaxHeap /\ h.mem[ptr - 1] \in Metas /\ h.mem[N - 1] \in Metas
  BY <1>1, Geometry
<1>3. x \in Metas /\ x \in Words /\ y \in Metas /\ y \in Words
  BY <1>2, MetaWords, ZenonT(60) DEF Metas, Size, Prev, Alloc
<1>4. ptr - 1 \in D /\ N - 1 \in D /\ N - 2 \in D /\ ptr - 1 # N - 1 /\ ptr - 1 # N - 2 /\ N - 1 # N - 2
      /\ ptr \in 1..MaxHeap
  BY <1>2
<1>5. g1 = Poke(h, ptr - 1, x)
  BY <1>2, <1>4, Setters, ZenonT(60) DEF header, Size, Prev
<1>. HIDE DEF x, y
<1>6. /\ g1 \in Heaps /\ g1.mem[ptr - 1] = x /\ g1.tail = h.tail /\ g1.brk = h.brk /\ g1.lists = h.lists
      /\ \A k \in D : k # ptr - 1 => g1.mem[k] = h.mem[k]
  <2>1. Writes(h, g1, ptr - 1, x)
    BY <1>2, <1>3, <1>4, <1>5, Poked
  <2>. QED  BY <2>1, ZenonT(60) DEF Writes
<1>7. g2 = Poke(g1, N - 2, x)
  <2>. HIDE DEF g1
  <2>1. footer(g1, ptr) = N - 2
    BY <1>2, <1>6 DEF footer, get_size, header, x, Meta
  <2>. QED  BY <1>6, <2>1, ZenonT(60) DEF sync_footer, Poke, header
<1>. HIDE DEF g1
<1>8. /\ g2 \in Heaps /\ g2.mem[ptr - 1] = x /\ g2.mem[N - 2] = x
      /\ g2.tail = h.tail /\ g2.brk = h.brk /\ g2.lists = h.lists
      /\ \A k \in D : k # ptr - 1 /\ k # N - 2 => g2.mem[k] = h.mem[k]
  <2>1. Writes(g1, g2, N - 2, x)
    BY <1>3, <1>4, <1>6, <1>7, Poked, ZenonT(60)
  <2>. HIDE DEF g2, N
  <2>. QED  BY <1>4, <1>6, <2>1, ZenonT(60) DEF Writes
<1>. HIDE DEF g2
<1>9. g3 \in Heaps /\ g3.mem = g2.mem /\ g3.tail = h.tail /\ g3.brk = h.brk
  BY <1>3, <1>4, <1>8, Insert, ZenonT(60)
<1>10. policy[1] # "implicit" =>
         ListsAre(g3, [l \in Classes |-> IF l = list_of(Size(h, ptr)) THEN K[l] \cup {ptr} ELSE K[l]])
  <2>. SUFFICES ASSUME policy[1] # "implicit"
                PROVE  ListsAre(g3, [l \in Classes |-> IF l = list_of(Size(h, ptr)) THEN K[l] \cup {ptr} ELSE K[l]])
    BY ZenonT(60)
  <2>1. ListsAre(g2, K) /\ \A l \in Classes : ptr \notin K[l]
    BY <1>1, <1>8 DEF Listed, ListsAre, FreeBy
  <2>2. Size(g2, ptr) = Size(h, ptr)
    BY <1>8 DEF Size, x, Meta
  <2>. HIDE DEF K
  <2>3. g2.mem[ptr - 1] \in Metas
    BY <1>3, <1>8
  <2>. QED  BY <1>4, <1>8, <2>1, <2>2, <2>3, Insert
<1>. HIDE DEF g3
<1>11. g4 = Poke(g3, N - 1, y)
  <2>1. header(next_block(g3, ptr)) = N - 1
    BY <1>2, <1>8, <1>9 DEF header, next_block, get_size, x, Meta
  <2>2. g3.mem[N - 1] = h.mem[N - 1]
    BY <1>4, <1>8, <1>9
  <2>3. set_prev_alloc(g3, N - 1, 0) = Poke(g3, N - 1, Meta(g3.mem[N - 1].size, 0, g3.mem[N - 1].alloc))
    BY <1>2, <1>4, <1>9, <2>2, Setters, ZenonT(60)
  <2>. QED  BY <2>1, <2>2, <2>3, ZenonT(60) DEF y, Size, Alloc
<1>12. /\ g4 \in Heaps /\ g4.mem[N - 1] = y /\ g4.tail = h.tail /\ g4.brk = h.brk /\ g4.lists = g3.lists
       /\ \A k \in D : k # N - 1 => g4.mem[k] = g2.mem[k]
  <2>1. Writes(g3, g4, N - 1, y)
    BY <1>3, <1>4, <1>9, <1>11, Poked, ZenonT(60)
  <2>. HIDE DEF g4, N
  <2>. QED  BY <1>4, <1>9, <2>1, ZenonT(60) DEF Writes
<1>. HIDE DEF g4
<1>13. g4.mem[ptr - 1] = x /\ g4.mem[N - 2] = x
  BY <1>4, <1>8, <1>12, ZenonT(60)
<1>14. \A k \in D : k < ptr - 1 \/ k >= N => g4.mem[k] = h.mem[k]
  BY <1>2, <1>4, <1>8, <1>12
<1>15. N - ptr = Size(h, ptr)
  BY <1>2
<1>16. Joined(h, B, g4, ptr, N, 0)
  BY <1>12, <1>13, <1>14, <1>15 DEF Joined, x, y
<1>17. policy[1] # "implicit" =>
         ListsAre(g4, [l \in Classes |-> K[l] \cup (IF list_of(Size(h, ptr)) = l THEN {ptr} ELSE {})])
  <2>. DEFINE U == [l \in Classes |-> IF l = list_of(Size(h, ptr)) THEN K[l] \cup {ptr} ELSE K[l]]
              W == [l \in Classes |-> K[l] \cup (IF list_of(Size(h, ptr)) = l THEN {ptr} ELSE {})]
  <2>1. policy[1] # "implicit" => ListsAre(g4, U)
    BY <1>10, <1>12, ZenonT(60) DEF ListsAre
  <2>2. \A l \in Classes : U[l] = W[l]
    OBVIOUS
  <2>. HIDE DEF U, W
  <2>3. policy[1] # "implicit" => ListsAre(g4, W)
    BY <2>1, <2>2, SameLists, ZenonT(60)
  <2>. QED  BY <2>3, ZenonT(60) DEF W
<1>. QED  BY <1>13, <1>16, <1>17, ZenonT(60) DEF g4, g3, g2, g1

-----------------------------------------------------------------------------
(* do_mm_free                                                              *)

\* From h to g the blocks gone are freed, the blocks new allocated and all
\* other allocated blocks keep their words.
Effect(h, g, gone, new) ==
  /\ Good(g) /\ Used(g) = (Used(h) \ gone) \cup new
  /\ \A b \in Used(h) \ gone : Saved(h, g, b)

\* Joining blocks leaves the heap sound, except perhaps at the joined block
\* and its successor.
LEMMA JoinSound ==
  ASSUME NEW h, NEW B, Sound(h, B, {}), NEW m \in B, NEW e \in B \cup {h.tail},
         m < e, NEW a \in {0, 1}, NEW g, Joined(h, B, g, m, e, a)
  PROVE  Sound(g, Without(B, m, e), {m, e})
<1>0. Tiled(h, B) /\ Bits(h, B)
  BY ZenonT(60) DEF Sound
<1>1. /\ Tiled(g, Without(B, m, e)) /\ Bits(g, Without(B, m, e))
      /\ \A b \in B : b < m \/ b > e => g.mem[b - 1] = h.mem[b - 1]
      /\ Outside(h, g, B, m, e)
  BY <1>0, Join
<1>2. ASSUME NEW b \in Without(B, m, e), b # m, b # e, Alloc(g, b) = 0
      PROVE  Prev(g, b) = 1 /\ Footed(g, b)
  <2>1. b \in B /\ b \in Nat /\ m \in Nat /\ e \in Nat
    BY <1>0, Geometry DEF Without
  <2>2. b < m \/ b > e
    BY <1>2, <2>1 DEF Without
  <2>3. g.mem[b - 1] = h.mem[b - 1] /\ Size(g, b) = Size(h, b) /\ Alloc(h, b) = 0
    BY <1>1, <1>2, <2>1, <2>2 DEF Size, Alloc
  <2>4. Prev(h, b) = 1 /\ h.mem[b + Size(h, b) - 2] = h.mem[b - 1]
    BY <2>1, <2>3, ZenonT(60) DEF Sound, Footed
  <2>5. b + Size(h, b) - 2 \in b..(b + Size(h, b) - 2) /\ (b < m \/ b >= e)
    BY <1>0, <2>1, <2>2, Geometry
  <2>6. g.mem[b + Size(h, b) - 2] = h.mem[b + Size(h, b) - 2]
    BY <1>1, <2>1, <2>5 DEF Outside
  <2>. QED  BY <2>3, <2>4, <2>6 DEF Footed, Prev
<1>. QED  BY <1>1, <1>2 DEF Sound

\* One block that is joined with none stays in its place.
LEMMA WithoutNone ==
  ASSUME NEW h, NEW B, Tiled(h, B), NEW m \in B
  PROVE  Without(B, m, m + Size(h, m)) = B
<1>1. \A b \in B : b \in Nat /\ m \in Nat /\ Size(h, m) \in Nat /\ (m < b => m + Size(h, m) <= b)
  BY Geometry
<1>. QED  BY <1>1 DEF Without

\* do_mm_free, with its coalesce: the block at ptr is no longer allocated,
\* all others are and have their words, and the heap is good.
LEMMA FreeBlock ==
  ASSUME Numbers, NEW h, Good(h), NEW ptr \in Used(h)
  PROVE  Effect(h, do_mm_free(h, ptr), {ptr}, {})
<1>. DEFINE B == Blocks(h)
            N == ptr + Size(h, ptr)
            freed == free_list_insert(sync_footer(set_alloc(h, header(ptr), 0), ptr), ptr)
            g == set_prev_alloc(freed, header(next_block(freed, ptr)), 0)
            r == coalesce(g, ptr)
            K == FreeBy(h, B)
            W == [l \in Classes |-> K[l] \cup (IF list_of(Size(h, ptr)) = l THEN {ptr} ELSE {})]
<1>1. Sound(h, B, {}) /\ Tiled(h, B) /\ Bits(h, B) /\ Listed(h, B) /\ ptr \in B /\ Alloc(h, ptr) = 1
  BY GoodBlocks, UsedFields
<1>2. Joined(h, B, g, ptr, N, 0) /\ g.mem[N - 2] = g.mem[ptr - 1]
      /\ (policy[1] # "implicit" => ListsAre(g, W))
  BY FreedHeap, ZenonT(60)
<1>3. do_mm_free(h, ptr) = r.h
  BY DEF do_mm_free
<1>. HIDE DEF g, r
<1>4. /\ ptr \in Nat /\ Size(h, ptr) \in Nat /\ ptr < N /\ N \in B \cup {h.tail} /\ N - ptr = Size(h, ptr)
      /\ Without(B, ptr, N) = B
  BY <1>1, Geometry, WithoutNone
<1>. HIDE DEF B, N
<1>5. Sound(g, B, {ptr, N})
  BY <1>1, <1>2, <1>4, JoinSound
<1>6. Size(g, ptr) = Size(h, ptr) /\ Alloc(g, ptr) = 0 /\ Outside(h, g, B, ptr, N)
  BY <1>1, <1>2, <1>4, Join
<1>7. Listed(g, B)
  <2>. SUFFICES ASSUME policy[1] # "implicit" PROVE ListsAre(g, FreeBy(g, B))
    BY DEF Listed
  <2>1. ASSUME NEW l \in Classes PROVE W[l] = FreeBy(g, B)[l]
    <3>1. FreeBy(g, B)[l] = (K[l] \ (ptr..(N - 1))) \cup (IF 0 = 0 /\ list_of(N - ptr) = l THEN {ptr} ELSE {})
      BY <1>1, <1>2, <1>4, JoinedFree
    <3>2. K[l] \ (ptr..(N - 1)) = K[l]
      <4>1. K[l] \subseteq B /\ ptr \notin K[l]
        BY <1>1 DEF FreeBy
      <4>2. \A b \in B : b \in Nat /\ (ptr < b => N <= b)
        BY <1>1, <1>4, Geometry DEF N
      <4>3. \A b \in B : b \in ptr..(N - 1) => b = ptr
        BY <1>4, <4>2, Geometry DEF N
      <4>. HIDE DEF K
      <4>. QED  BY <4>1, <4>3, ZenonT(60)
    <3>. QED  BY <1>4, <3>1, <3>2, ZenonT(60)
  <2>. HIDE DEF W
  <2>. QED  BY <1>2, <2>1, SameLists, ZenonT(60)
<1>8. Footed(g, ptr)
  <2>1. ptr + Size(g, ptr) - 2 = N - 2
    BY <1>4, <1>6 DEF N
  <2>. QED  BY <1>2, <2>1, ZenonT(60) DEF Footed
<1>9. Coalesced(g, B, r.h)
  <2>1. N = ptr + Size(g, ptr)
    BY <1>6, ZenonT(60) DEF N
  <2>. QED  BY <1>1, <1>5, <1>6, <1>7, <1>8, <2>1, Coalesce, ZenonT(60) DEF r
<1>10. \A b \in B : b # ptr => b < ptr \/ b >= N
  BY <1>1, <1>4, Geometry DEF N
<1>11. \A b \in B : b # ptr => Saved(h, g, b) /\ Size(g, b) = Size(h, b) /\ Alloc(g, b) = Alloc(h, b)
  BY <1>1, <1>6, <1>10, SavedOutside
<1>12. Used(h) = {b \in B : Alloc(h, b) = 1}
  BY ZenonT(60) DEF Used, B
<1>13. Used(r.h) = Used(h) \ {ptr}
  BY <1>6, <1>9, <1>11, <1>12 DEF Coalesced
<1>14. Good(r.h)
  BY <1>9, ZenonT(60) DEF Coalesced
<1>15. ASSUME NEW b \in Used(h), b # ptr PROVE Saved(h, r.h, b)
  <2>1. Saved(h, g, b) /\ Saved(g, r.h, b)
    BY <1>9, <1>11, <1>12, <1>15, ZenonT(60) DEF Coalesced
  <2>2. b \in Int /\ Size(h, b) \in Int /\ Size(g, b) \in Int
    BY <1>11, <1>12, <1>15, UsedFields
  <2>3. Size(r.h, b) \in Int
    BY <1>13, <1>14, <1>15, UsedFields
  <2>. QED  BY <2>1, <2>2, <2>3, SavedOn, ZenonT(60)
<1>. QED  BY <1>3, <1>13, <1>14, <1>15, ZenonT(60) DEF Effect

-----------------------------------------------------------------------------
(* extend_heap                                                             *)

\* The size that extend_heap and do_mm_malloc round a request to is even,
\* large enough and at least MIN_BLOCK_SIZE.
LEMMA Rounding ==
  ASSUME NEW n \in Int
  PROVE  /\ larger(align(n), MinBlockSize) \in Nat
         /\ larger(align(n), MinBlockSize) % 2 = 0
         /\ larger(align(n), MinBlockSize) >= MinBlockSize
         /\ larger(align(n), MinBlockSize) >= n
<1>1. align(n) \in Int /\ align(n) % 2 = 0 /\ align(n) >= n
  BY DEF align
<1>. QED  BY <1>1, SizesKnown DEF larger

\* extend_heap before it coalesces: a free block with header, footer and list
\* entry at the old tail, and a new tail.
LEMMA ExtendedHeap ==
  ASSUME Numbers, NEW h, Good(h), NEW size \in Nat, size % 2 = 0, size >= MinBlockSize, h.brk + size <= MaxHeap
  PROVE  LET t == h.brk
             grown == [h EXCEPT !.brk = @ + size, !.tail = t + size]
             block == set_meta(grown, header(t), size, get_prev_alloc(h, header(t)), 0)
             listed == free_list_insert(sync_footer(block, t), t)
             g == set_meta(listed, header(grown.tail), 0, 0, 1)
         IN  /\ t = h.tail /\ GrownBy(h, g, size) /\ g.mem[t + (size - 2)] = g.mem[t - 1]
             /\ policy[1] # "implicit" =>
                  ListsAre(g, [l \in Classes |-> IF l = list_of(size) THEN FreeBy(h, Blocks(h))[l] \cup {t}
                                                 ELSE FreeBy(h, Blocks(h))[l]])
<1>. DEFINE B == Blocks(h)
            t == h.brk
            u == t + size
            D == 0..(MaxHeap - 1)
            x == Meta(size, Prev(h, t), 0)
            y == Meta(0, 0, 1)
            g0 == [h EXCEPT !.brk = @ + size, !.tail = t + size]
            g1 == set_meta(g0, header(t), size, get_prev_alloc(h, header(t)), 0)
            g2 == sync_footer(g1, t)
            g3 == free_list_insert(g2, t)
            g4 == set_meta(g3, header(g0.tail), 0, 0, 1)
            K == FreeBy(h, B)
<1>1. Tiled(h, B) /\ Bits(h, B) /\ Listed(h, B) /\ t = h.tail
  BY GoodBlocks, ZenonT(60) DEF Tiled
<1>2. /\ MaxHeap \in Nat /\ h \in Heaps /\ t \in 4..MaxHeap /\ size \in 2..MaxHeap
      /\ u \in 4..MaxHeap /\ h.mem[t - 1] \in Metas /\ \A b \in B : b < t
  <2>1. MaxHeap \in Nat /\ h \in Heaps /\ t \in 4..MaxHeap /\ h.mem[t - 1] \in Metas
        /\ \A b \in B : b \in 4..(t - 1)
    BY <1>1, Geometry, ZenonT(60)
  <2>2. size \in 2..MaxHeap /\ u \in 4..MaxHeap
    BY <2>1, SizesKnown
  <2>. HIDE DEF B, t, u
  <2>. QED  BY <2>1, <2>2
<1>3. x \in Metas /\ x \in Words /\ y \in Metas /\ y \in Words
  <2>1. Prev(h, t) \in {0, 1} /\ size \in 0..MaxHeap /\ 0 \in 0..MaxHeap
    BY <1>2 DEF Metas, Prev
  <2>. HIDE DEF t
  <2>. QED  BY <2>1, MetaWords, ZenonT(60)
<1>4. t - 1 \in D /\ u - 1 \in D /\ u - 2 \in D /\ t - 1 # u - 1 /\ t - 1 # u - 2 /\ u - 1 # u - 2 /\ t \in 1..MaxHeap
  BY <1>2
<1>5. g0 \in Heaps /\ g0.mem = h.mem /\ g0.tail = u /\ g0.brk = u /\ g0.lists = h.lists
  <2>1. g0 = [[h EXCEPT !.brk = u] EXCEPT !.tail = u]
    OBVIOUS
  <2>2. u \in 0..MaxHeap
    BY <1>2
  <2>. HIDE DEF g0, u
  <2>. QED  BY <1>2, <2>1, <2>2, ZenonT(60) DEF Heaps
<1>6. g1 = Poke(g0, t - 1, x)
  BY DEF header, get_prev_alloc, Prev, set_meta, Poke
<1>20. g4 = Poke(g3, u - 1, y)
  BY <1>5 DEF header, set_meta, Poke
<1>. HIDE DEF x, y, g0, u, t
<1>7. /\ g1 \in Heaps /\ g1.mem[t - 1] = x /\ g1.tail = u /\ g1.brk = u /\ g1.lists = h.lists
      /\ \A k \in D : k # t - 1 => g1.mem[k] = h.mem[k]
  <2>1. Writes(g0, g1, t - 1, x)
    BY <1>3, <1>4, <1>5, <1>6, Poked, ZenonT(60)
  <2>. QED  BY <1>5, <2>1, ZenonT(60) DEF Writes
<1>8. g2 = Poke(g1, u - 2, x)
  <2>. HIDE DEF g1
  <2>1. footer(g1, t) = u - 2
    BY <1>2, <1>7 DEF footer, get_size, header, x, Meta, u
  <2>. QED  BY <1>7, <2>1, ZenonT(60) DEF sync_footer, Poke, header
<1>. HIDE DEF g1
<1>9. /\ g2 \in Heaps /\ g2.mem[t - 1] = x /\ g2.mem[u - 2] = x
      /\ g2.tail = u /\ g2.brk = u /\ g2.lists = h.lists
      /\ \A k \in D : k # t - 1 /\ k # u - 2 => g2.mem[k] = h.mem[k]
  <2>1. Writes(g1, g2, u - 2, x)
    BY <1>3, <1>4, <1>7, <1>8, Poked, ZenonT(60)
  <2>. HIDE DEF g2
  <2>. QED  BY <1>4, <1>7, <2>1, ZenonT(60) DEF Writes
<1>. HIDE DEF g2
<1>10. g3 \in Heaps /\ g3.mem = g2.mem /\ g3.tail = u /\ g3.brk = u
  BY <1>3, <1>4, <1>9, Insert, ZenonT(60)
<1>11. policy[1] # "implicit" =>
         ListsAre(g3, [l \in Classes |-> IF l = list_of(size) THEN K[l] \cup {t} ELSE K[l]])
  <2>. SUFFICES ASSUME policy[1] # "implicit"
                PROVE  ListsAre(g3, [l \in Classes |-> IF l = list_of(size) THEN K[l] \cup {t} ELSE K[l]])
    BY ZenonT(60)
  <2>1. t \notin B
    BY <1>2
  <2>2. ListsAre(g2, K) /\ \A l \in Classes : t \notin K[l]
    BY <1>1, <1>9, <2>1, ZenonT(60) DEF Listed, ListsAre, FreeBy
  <2>3. Size(g2, t) = size /\ g2.mem[t - 1] \in Metas
    BY <1>3, <1>9 DEF Size, x, Meta
  <2>. HIDE DEF K
  <2>. QED  BY <1>4, <1>9, <2>2, <2>3, Insert, ZenonT(60)
<1>. HIDE DEF g3
<1>12. /\ g4 \in Heaps /\ g4.mem[u - 1] = y /\ g4.tail = u /\ g4.brk = u /\ g4.lists = g3.lists
       /\ \A k \in D : k # u - 1 => g4.mem[k] = g2.mem[k]
  <2>1. Writes(g3, g4, u - 1, y)
    BY <1>3, <1>4, <1>10, <1>20, Poked, ZenonT(60)
  <2>. HIDE DEF g4
  <2>. QED  BY <1>4, <1>10, <2>1, ZenonT(60) DEF Writes
<1>. HIDE DEF g4
<1>13. g4.mem[t - 1] = x /\ g4.mem[u - 2] = x
  BY <1>4, <1>9, <1>12, ZenonT(60)
<1>14. \A k \in D : k < t - 1 => g4.mem[k] = h.mem[k]
  BY <1>2, <1>4, <1>9, <1>12 DEF u
<1>15. GrownBy(h, g4, size)
  <2>1. h.tail + size - 1 = u - 1 /\ h.tail + size = u
    BY <1>1, <1>2 DEF u
  <2>. QED  BY <1>1, <1>12, <1>13, <1>14, <2>1, ZenonT(60) DEF GrownBy, x, y
<1>16. t + (size - 2) = u - 2
  BY <1>2 DEF u
<1>17. policy[1] # "implicit" =>
         ListsAre(g4, [l \in Classes |-> IF l = list_of(size) THEN K[l] \cup {t} ELSE K[l]])
  BY <1>11, <1>12, ZenonT(60) DEF ListsAre
<1>. QED  BY <1>1, <1>13, <1>15, <1>16, <1>17 DEF g4, g3, g2, g1, g0, t

\* extend_heap fails without a change, or gives a free block as large as
\* asked, with the free block before the old tail added to it.
LEMMA ExtendHeap ==
  ASSUME Numbers, NEW h, Good(h), NEW n \in Int
  PROVE  LET r == extend_heap(h, n)
         IN  \/ r = [bp |-> NULL, h |-> h]
             \/ /\ Effect(h, r.h, {}, {}) /\ r.bp \in Blocks(r.h) /\ Alloc(r.h, r.bp) = 0
                /\ Size(r.h, r.bp) >= n
                /\ Prev(h, h.tail) = 0 => Size(r.h, r.bp) >= h.mem[h.tail - 2].size + n
<1>. DEFINE size == larger(align(n), MinBlockSize)
            t == h.brk
            grown == [h EXCEPT !.brk = @ + size, !.tail = t + size]
            block == set_meta(grown, header(t), size, get_prev_alloc(h, header(t)), 0)
            listed == free_list_insert(sync_footer(block, t), t)
            g == set_meta(listed, header(grown.tail), 0, 0, 1)
            r == coalesce(g, t)
            B == Blocks(h)
            C == B \cup {t}
            K == FreeBy(h, B)
            W == [l \in Classes |-> IF l = list_of(size) THEN K[l] \cup {t} ELSE K[l]]
<1>1. size \in Nat /\ size % 2 = 0 /\ size >= MinBlockSize /\ size >= n
  BY Rounding
<1>2. CASE ~can_sbrk(h, size)
  BY <1>2 DEF extend_heap
<1>3. CASE can_sbrk(h, size)
  <2>1. extend_heap(h, n) = r
    BY <1>3 DEF extend_heap
  <2>. HIDE DEF size
  <2>2. h.brk + size <= MaxHeap
    BY <1>3 DEF can_sbrk
  <2>3. /\ t = h.tail /\ GrownBy(h, g, size) /\ g.mem[t + (size - 2)] = g.mem[t - 1]
        /\ policy[1] # "implicit" => ListsAre(g, W)
    BY <1>1, <2>2, ExtendedHeap, ZenonT(60)
  <2>. HIDE DEF g, r
  <2>4. Sound(h, B, {}) /\ Tiled(h, B) /\ Bits(h, B) /\ Listed(h, B)
    BY GoodBlocks
  <2>. HIDE DEF B
  <2>5. /\ Tiled(g, C) /\ Bits(g, C) /\ t \notin B
        /\ Size(g, t) = size /\ Alloc(g, t) = 0 /\ Prev(g, t) = Prev(h, t)
        /\ Alloc(g, g.tail) = 1
        /\ \A b \in B : g.mem[b - 1] = h.mem[b - 1]
        /\ Outside(h, g, B, t, g.tail)
    <3>1. h.tail + size <= MaxHeap /\ GrownBy(h, g, size)
      BY <2>2, <2>3
    <3>2. /\ Tiled(g, B \cup {h.tail}) /\ Bits(g, B \cup {h.tail}) /\ h.tail \notin B
          /\ Size(g, h.tail) = size /\ Alloc(g, h.tail) = 0 /\ Prev(g, h.tail) = Prev(h, h.tail)
          /\ Alloc(g, g.tail) = 1
          /\ \A b \in B : g.mem[b - 1] = h.mem[b - 1]
          /\ Outside(h, g, B, h.tail, g.tail)
      BY <1>1, <2>4, <3>1, Grow, ZenonT(60)
    <3>3. t = h.tail
      BY <2>3, ZenonT(60)
    <3>. HIDE DEF t
    <3>. QED  BY <3>2, <3>3, ZenonT(60)
  <2>6. t \in 4..MaxHeap /\ MaxHeap \in Nat /\ \A b \in B : b \in Nat /\ b < t /\ Size(h, b) \in Nat /\ b + Size(h, b) - 2 \in b..(b + Size(h, b) - 2)
    <3>1. MaxHeap \in Nat /\ h.tail \in 4..MaxHeap /\ \A b \in B : b \in 4..(h.tail - 1) /\ Size(h, b) \in 2..MaxHeap
      BY <2>4, Geometry
    <3>2. \A b \in B : b \in Nat /\ b < h.tail /\ Size(h, b) \in Nat /\ b + Size(h, b) - 2 \in b..(b + Size(h, b) - 2)
      BY <3>1
    <3>. QED  BY <2>3, <3>1, <3>2, ZenonT(60)
  <2>. HIDE DEF t
  <2>7. \A b \in B : Saved(h, g, b) /\ Size(g, b) = Size(h, b) /\ Alloc(g, b) = Alloc(h, b)
    BY <2>4, <2>5, <2>6, SavedOutside
  <2>8. Sound(g, C, {t, t + Size(g, t)})
    <3>. SUFFICES ASSUME NEW b \in B, Alloc(g, b) = 0 PROVE Prev(g, b) = 1 /\ Footed(g, b)
      BY <2>5 DEF Sound
    <3>1. Alloc(h, b) = 0 /\ g.mem[b - 1] = h.mem[b - 1] /\ Size(g, b) = Size(h, b)
      BY <2>5, <2>7, ZenonT(60)
    <3>2. Prev(h, b) = 1 /\ h.mem[b + Size(h, b) - 2] = h.mem[b - 1]
      BY <2>4, <3>1, ZenonT(60) DEF Sound, Footed
    <3>3. g.mem[b + Size(h, b) - 2] = h.mem[b + Size(h, b) - 2]
      BY <2>6, <2>7 DEF Saved
    <3>. QED  BY <3>1, <3>2, <3>3 DEF Footed, Prev
  <2>9. Listed(g, C)
    <3>. SUFFICES ASSUME policy[1] # "implicit" PROVE ListsAre(g, FreeBy(g, C))
      BY DEF Listed
    <3>1. \A l \in Classes : W[l] = FreeBy(g, C)[l]
      <4>. SUFFICES ASSUME NEW l \in Classes PROVE W[l] = FreeBy(g, C)[l]
        BY ZenonT(60)
      <4>1. FreeBy(g, C)[l] = {b \in C : Alloc(g, b) = 0 /\ list_of(Size(g, b)) = l}
            /\ K[l] = {b \in B : Alloc(h, b) = 0 /\ list_of(Size(h, b)) = l}
        BY ZenonT(60) DEF FreeBy
      <4>2. W[l] = IF l = list_of(size) THEN K[l] \cup {t} ELSE K[l]
        BY ZenonT(60)
      <4>. HIDE DEF K, W
      <4>. QED  BY <2>5, <2>7, <4>1, <4>2, ZenonT(60)
    <3>. DEFINE L == FreeBy(g, C)
    <3>2. \A l \in Classes : W[l] = L[l]
      BY <3>1, ZenonT(60)
    <3>3. ListsAre(g, W)
      BY <2>3
    <3>. HIDE DEF W, L
    <3>4. ListsAre(g, L)
      BY <3>2, <3>3, SameLists
    <3>. QED  BY <3>4 DEF L
  <2>10. Footed(g, t)
    BY <2>3, <2>5, ZenonT(60) DEF Footed
  <2>11. /\ Coalesced(g, C, r.h) /\ r.bp \in Blocks(r.h) /\ Alloc(r.h, r.bp) = 0
         /\ Size(r.h, r.bp) >= Size(g, t)
         /\ Prev(g, t) = 0 => Size(r.h, r.bp) >= g.mem[t - 2].size + Size(g, t)
    <3>1. t \in C
      OBVIOUS
    <3>2. Alloc(g, t) = 0
      BY <2>5, ZenonT(60)
    <3>. HIDE DEF C
    <3>3. r = coalesce(g, t)
      BY ZenonT(60) DEF r
    <3>. QED  BY <2>8, <2>9, <2>10, <3>1, <3>2, <3>3, Coalesce, ZenonT(60)
  <2>12. g.mem[t - 2] = h.mem[t - 2]
    <3>1. t - 2 \in 0..(MaxHeap - 1) /\ t - 2 < t - 1
      BY <2>6
    <3>. QED  BY <2>3, <3>1 DEF GrownBy
  <2>13. Used(h) = {b \in B : Alloc(h, b) = 1}
    BY DEF Used, B
  <2>14. Used(r.h) = Used(h) /\ Good(r.h)
    BY <2>5, <2>7, <2>11, <2>13 DEF Coalesced
  <2>15. ASSUME NEW b \in Used(h) PROVE Saved(h, r.h, b)
    <3>1. Saved(h, g, b) /\ Saved(g, r.h, b) /\ b \in Int /\ Size(h, b) \in Int /\ Size(g, b) \in Int
      BY <2>6, <2>7, <2>11, <2>13, <2>15 DEF Coalesced
    <3>2. Size(r.h, b) \in Int
      BY <2>14, <2>15, UsedFields
    <3>. QED  BY <3>1, <3>2, SavedOn
  <2>16. Effect(h, r.h, {}, {})
    BY <2>14, <2>15 DEF Effect
  <2>17. Size(r.h, r.bp) \in Int
    BY <2>11, <2>14, GoodBlocks, Geometry
  <2>18. Size(r.h, r.bp) >= n
    BY <1>1, <2>5, <2>11, <2>17
  <2>19. Prev(h, t) = 0 => Size(r.h, r.bp) >= h.mem[t - 2].size + n
    <3>. SUFFICES ASSUME Prev(h, t) = 0 PROVE Size(r.h, r.bp) >= h.mem[t - 2].size + n
      OBVIOUS
    <3>1. Size(r.h, r.bp) >= h.mem[t - 2].size + size
      BY <2>5, <2>11, <2>12, ZenonT(60)
    <3>2. h.mem[t - 2].size \in Int
      <4>1. t # 4
        BY <2>3, <2>4 DEF Bits
      <4>2. PICK p \in B : p < t /\ p + Size(h, p) = t
        BY <2>3, <2>4, <4>1, Before
      <4>3. Alloc(h, p) = 0
        BY <2>4, <4>2 DEF Bits
      <4>4. h.mem[p + Size(h, p) - 2] = h.mem[p - 1] /\ p \in Nat /\ Size(h, p) \in Nat
        BY <2>4, <2>6, <4>2, <4>3 DEF Sound, Footed
      <4>5. p + Size(h, p) - 2 = t - 2
        BY <2>6, <4>2, <4>4
      <4>. QED  BY <4>4, <4>5 DEF Size
    <3>. QED  BY <1>1, <2>17, <3>1, <3>2
  <2>. QED  BY <2>1, <2>3, <2>11, <2>16, <2>18, <2>19, ZenonT(60)
<1>. QED  BY <1>2, <1>3, ZenonT(60)

-----------------------------------------------------------------------------
(* place                                                                   *)

\* Exceptions at allocated blocks are none.
LEMMA SoundAll ==
  ASSUME NEW g, NEW C, NEW X, Sound(g, C, X), \A b \in C \cap X : Alloc(g, b) = 1
  PROVE  Sound(g, C, {})
BY DEF Sound

\* There are no two free blocks in a row, at either side.
LEMMA NextUsed ==
  ASSUME NEW h, Good(h), NEW b \in Blocks(h), Alloc(h, b) = 0
  PROVE  Alloc(h, b + Size(h, b)) = 1 /\ Prev(h, b + Size(h, b)) = 0 /\ Prev(h, b) = 1
<1>. DEFINE N == b + Size(h, b)
            B == Blocks(h)
<1>1. Tiled(h, B) /\ Bits(h, B) /\ Sound(h, B, {})
  BY GoodBlocks, ZenonT(60)
<1>2. N \in B \cup {h.tail} /\ h.mem[N - 1] \in Metas
  BY <1>1, Geometry, ZenonT(60)
<1>3. Prev(h, N) = 0 /\ Prev(h, b) = 1
  BY <1>1, ZenonT(60) DEF Bits, Sound
<1>4. Alloc(h, h.tail) = 1
  BY <1>1, ZenonT(60) DEF Tiled, Alloc
<1>5. Alloc(h, N) \in {0, 1}
  BY <1>2, ZenonT(60) DEF Alloc, Metas
<1>6. N \in B => Alloc(h, N) # 0
  BY <1>1, <1>3 DEF Sound
<1>. QED  BY <1>2, <1>3, <1>4, <1>5, <1>6

\* A block of a good heap taken out of the lists.
LEMMA Unlisted ==
  ASSUME NEW h, Good(h), NEW b
  PROVE  /\ Writes(h, h, 0, h.mem[0])
         /\ free_list_erase(h, b) \in Heaps /\ free_list_erase(h, b).mem = h.mem
         /\ free_list_erase(h, b).tail = h.tail /\ free_list_erase(h, b).brk = h.brk
         /\ policy[1] # "implicit" =>
              ListsAre(free_list_erase(h, b), [l \in Classes |-> FreeBy(h, Blocks(h))[l] \ {b}])
<1>1. h \in Heaps /\ Listed(h, Blocks(h))
  BY GoodBlocks, Geometry
<1>. QED  BY <1>1, Erase, ZenonT(60) DEF Listed, Writes

\* place, when the rest would be too small, gives away the whole block.
LEMMA PlaceWhole ==
  ASSUME Numbers, NEW h, Good(h), NEW bp \in Blocks(h), Alloc(h, bp) = 0
  PROVE  LET j == free_list_erase(h, bp)
             whole == set_meta(j, header(bp), get_size(j, header(bp)), 1, 1)
             g == set_prev_alloc(whole, header(next_block(whole, bp)), 1)
         IN  Effect(h, g, {}, {bp}) /\ Size(g, bp) = Size(h, bp)
<1>. DEFINE B == Blocks(h)
            N == bp + Size(h, bp)
            D == 0..(MaxHeap - 1)
            x == Meta(Size(h, bp), 1, 1)
            y == Meta(Size(h, N), 1, Alloc(h, N))
            j == free_list_erase(h, bp)
            f == set_meta(j, header(bp), get_size(j, header(bp)), 1, 1)
            g == set_prev_alloc(f, header(next_block(f, bp)), 1)
            K == FreeBy(h, B)
            V == [l \in Classes |-> K[l] \ {bp}]
<1>1. Tiled(h, B) /\ Bits(h, B) /\ Sound(h, B, {}) /\ Listed(h, B)
  BY GoodBlocks
<1>2. /\ MaxHeap \in Nat /\ h \in Heaps /\ bp \in 4..MaxHeap /\ Size(h, bp) \in 2..MaxHeap
      /\ N \in B \cup {h.tail} /\ N \in 4..MaxHeap /\ h.mem[N - 1] \in Metas
  BY <1>1, Geometry, ZenonT(60)
<1>3. Alloc(h, N) = 1 /\ Prev(h, bp) = 1
  BY NextUsed, ZenonT(60)
<1>4. x \in Metas /\ x \in Words /\ y \in Metas /\ y \in Words
  <2>1. Size(h, bp) \in 0..MaxHeap /\ Size(h, N) \in 0..MaxHeap
    BY <1>2 DEF Metas, Size
  <2>. HIDE DEF N
  <2>. QED  BY <1>3, <2>1, MetaWords, ZenonT(60)
<1>5. bp - 1 \in D /\ N - 1 \in D /\ bp - 1 # N - 1 /\ bp < N /\ N - bp = Size(h, bp)
  BY <1>2
<1>6. j \in Heaps /\ j.mem = h.mem /\ j.tail = h.tail /\ j.brk = h.brk
      /\ (policy[1] # "implicit" => ListsAre(j, V))
  BY Unlisted
<1>7. f = Poke(j, bp - 1, x)
  BY <1>6 DEF set_meta, Poke, header, get_size, Size
<1>. HIDE DEF x, y, j
<1>8. Writes(j, f, bp - 1, x)
  BY <1>4, <1>5, <1>6, <1>7, Poked, ZenonT(60)
<1>. HIDE DEF f
<1>9. g = Poke(f, N - 1, y)
  <2>1. f.mem[bp - 1] = x
    BY <1>8, ZenonT(60) DEF Writes
  <2>2. header(next_block(f, bp)) = N - 1
    BY <1>2, <2>1 DEF header, next_block, get_size, x, Meta
  <2>3. f.mem[N - 1] = h.mem[N - 1] /\ f \in Heaps
    BY <1>5, <1>6, <1>8 DEF Writes
  <2>4. set_prev_alloc(f, N - 1, 1) = Poke(f, N - 1, Meta(f.mem[N - 1].size, 1, f.mem[N - 1].alloc))
    BY <1>2, <1>5, <2>3, Setters, ZenonT(60)
  <2>. QED  BY <2>2, <2>3, <2>4, ZenonT(60) DEF y, Size, Alloc
<1>10. Writes(f, g, N - 1, y)
  <2>1. f \in Heaps
    BY <1>8, ZenonT(60) DEF Writes
  <2>. QED  BY <1>4, <1>5, <1>9, <2>1, Poked, ZenonT(60)
<1>. HIDE DEF g
<1>11. /\ g \in Heaps /\ g.tail = h.tail /\ g.brk = h.brk /\ g.lists = j.lists
       /\ g.mem[bp - 1] = x /\ g.mem[N - 1] = y
       /\ \A k \in D : k # bp - 1 /\ k # N - 1 => g.mem[k] = h.mem[k]
  <2>. HIDE DEF N
  <2>. QED  BY <1>5, <1>6, <1>8, <1>10, ZenonT(60) DEF Writes
<1>12. Joined(h, B, g, bp, N, 1)
  <2>1. \A k \in D : k < bp - 1 \/ k >= N => g.mem[k] = h.mem[k]
    BY <1>2, <1>11
  <2>. QED  BY <1>3, <1>5, <1>11, <2>1, ZenonT(60) DEF Joined, x, y
<1>. HIDE DEF B
<1>13. Without(B, bp, N) = B
  BY <1>1, WithoutNone, ZenonT(60) DEF B
<1>14. \A b \in B : b \in Nat /\ (b # bp => b < bp \/ b >= N)
  BY <1>1, <1>2, Geometry DEF B
<1>15. bp \in B
  BY DEF B
<1>. HIDE DEF N
<1>16. /\ Size(g, bp) = Size(h, bp) /\ Alloc(g, bp) = 1
       /\ Alloc(g, N) = Alloc(h, N)
       /\ Outside(h, g, B, bp, N)
  BY <1>1, <1>2, <1>5, <1>12, <1>15, Join
<1>17. Sound(g, B, {})
  <2>1. Sound(g, B, {bp, N})
    BY <1>1, <1>2, <1>5, <1>12, <1>13, <1>15, JoinSound
  <2>. QED  BY <1>3, <1>16, <2>1, SoundAll
<1>18. Listed(g, B)
  <2>. SUFFICES ASSUME policy[1] # "implicit" PROVE ListsAre(g, FreeBy(g, B))
    BY ZenonT(60) DEF Listed
  <2>. DEFINE L == FreeBy(g, B)
  <2>1. ListsAre(g, V)
    BY <1>6, <1>11, ZenonT(60) DEF ListsAre
  <2>2. ASSUME NEW l \in Classes PROVE V[l] = L[l]
    <3>1. L[l] = (K[l] \ (bp..(N - 1))) \cup (IF 1 = 0 /\ list_of(N - bp) = l THEN {bp} ELSE {})
      BY <1>1, <1>2, <1>5, <1>12, <1>13, <1>15, JoinedFree
    <3>2. \A b \in B : b \in bp..(N - 1) <=> b = bp
      BY <1>2, <1>5, <1>14
    <3>3. K[l] \subseteq B
      BY DEF FreeBy
    <3>. HIDE DEF K, L
    <3>. QED  BY <3>1, <3>2, <3>3
  <2>. HIDE DEF V, L
  <2>3. ListsAre(g, L)
    BY <2>1, <2>2, SameLists
  <2>. QED  BY <2>3 DEF L
<1>19. Good(g) /\ Blocks(g) = B
  BY <1>17, <1>18, GoodFrom, ZenonT(60)
<1>20. \A b \in B : b # bp => Saved(h, g, b) /\ Alloc(g, b) = Alloc(h, b)
  BY <1>1, <1>14, <1>16, SavedOutside
<1>21. Used(h) = {b \in B : Alloc(h, b) = 1}
  BY ZenonT(60) DEF Used, B
<1>22. Used(g) = Used(h) \cup {bp}
  BY <1>15, <1>16, <1>19, <1>20, <1>21 DEF Used
<1>23. Effect(h, g, {}, {bp}) /\ Size(g, bp) = Size(h, bp)
  BY <1>16, <1>19, <1>20, <1>21, <1>22 DEF Effect
<1>. QED  BY <1>23, ZenonT(60) DEF g, f, j

\* place, when the rest is a block, allocates the front and lists the rest.
LEMMA PlaceSplit ==
  ASSUME Numbers, NEW h, Good(h), NEW bp \in Blocks(h), Alloc(h, bp) = 0,
         NEW n \in Nat, n % 2 = 0, n >= MinBlockSize, Size(h, bp) >= n + MinBlockSize
  PROVE  LET j == free_list_erase(h, bp)
             front == set_meta(j, header(bp), n, 1, 1)
             rest == sync_footer(set_meta(front, header(bp + n), get_size(j, header(bp)) - n, 1, 0), bp + n)
             g == free_list_insert(rest, bp + n)
         IN  Effect(h, g, {}, {bp}) /\ Size(g, bp) = n
<1>. DEFINE B == Blocks(h)
            N == bp + Size(h, bp)
            m == bp + n
            D == 0..(MaxHeap - 1)
            x == Meta(n, 1, 1)
            y == Meta(N - m, 1, 0)
            j == free_list_erase(h, bp)
            f == set_meta(j, header(bp), n, 1, 1)
            i == set_meta(f, header(m), get_size(j, header(bp)) - n, 1, 0)
            s == sync_footer(i, m)
            g == free_list_insert(s, m)
            K == FreeBy(h, B)
            V == [l \in Classes |-> K[l] \ {bp}]
            C == B \cup {m}
<1>1. Tiled(h, B) /\ Bits(h, B) /\ Sound(h, B, {}) /\ Listed(h, B)
  BY GoodBlocks
<1>2. /\ MaxHeap \in Nat /\ h \in Heaps /\ bp \in 4..MaxHeap /\ Size(h, bp) \in 2..MaxHeap
      /\ N \in B \cup {h.tail} /\ N \in 4..MaxHeap /\ h.mem[N - 1] \in Metas
      /\ bp % 2 = 0
  BY <1>1, Geometry, ZenonT(60) DEF Tiled
<1>3. Prev(h, bp) = 1
  BY NextUsed, ZenonT(60)
<1>4. m \in Nat /\ m % 2 = 0 /\ bp + MinBlockSize <= m /\ m + MinBlockSize <= N /\ bp + 2 <= m /\ m + 2 <= N
      /\ m - bp = n /\ N - m = Size(h, bp) - n /\ N - m \in 0..MaxHeap /\ n \in 0..MaxHeap
  BY <1>2, SizesKnown
<1>. HIDE DEF m, N
<1>5. x \in Metas /\ x \in Words /\ y \in Metas /\ y \in Words
  BY <1>4, MetaWords, ZenonT(60)
<1>6. bp - 1 \in D /\ m - 1 \in D /\ N - 2 \in D /\ bp - 1 # m - 1 /\ bp - 1 # N - 2 /\ m - 1 # N - 2 /\ m \in 1..MaxHeap
  BY <1>2, <1>4
<1>7. j \in Heaps /\ j.mem = h.mem /\ j.tail = h.tail /\ j.brk = h.brk
      /\ (policy[1] # "implicit" => ListsAre(j, V))
  BY Unlisted, ZenonT(60)
<1>8. f = Poke(j, bp - 1, x)
  BY DEF set_meta, Poke, header
<1>9. i = Poke(f, m - 1, y)
  BY <1>4, <1>7, ZenonT(60) DEF set_meta, Poke, header, get_size, Size
<1>. HIDE DEF x, y, j
<1>10. Writes(j, f, bp - 1, x)
  BY <1>5, <1>6, <1>7, <1>8, Poked, ZenonT(60)
<1>. HIDE DEF f
<1>11. Writes(f, i, m - 1, y)
  <2>1. f \in Heaps
    BY <1>10 DEF Writes
  <2>. QED  BY <1>5, <1>6, <1>9, <2>1, Poked, ZenonT(60)
<1>. HIDE DEF i
<1>12. s = Poke(i, N - 2, y)
  <2>1. i.mem[m - 1] = y
    BY <1>11, ZenonT(60) DEF Writes
  <2>2. footer(i, m) = N - 2
    BY <1>2, <1>4, <2>1 DEF footer, get_size, header, y, Meta
  <2>. QED  BY <2>1, <2>2, ZenonT(60) DEF sync_footer, Poke, header
<1>13. Writes(i, s, N - 2, y)
  <2>1. i \in Heaps
    BY <1>11 DEF Writes
  <2>. QED  BY <1>5, <1>6, <1>12, <2>1, Poked, ZenonT(60)
<1>. HIDE DEF s
<1>14. /\ s \in Heaps /\ s.tail = h.tail /\ s.brk = h.brk /\ s.lists = j.lists
       /\ s.mem[bp - 1] = x /\ s.mem[m - 1] = y /\ s.mem[N - 2] = y
       /\ \A k \in D : k # bp - 1 /\ k # m - 1 /\ k # N - 2 => s.mem[k] = h.mem[k]
  BY <1>6, <1>7, <1>10, <1>11, <1>13 DEF Writes
<1>. HIDE DEF B
<1>15. bp \in B /\ \A b \in B : b \in Nat /\ (b # bp => b < bp \/ b >= N)
  BY <1>1, <1>2, Geometry DEF B, N
<1>16. g \in Heaps /\ g.mem = s.mem /\ g.tail = h.tail /\ g.brk = h.brk
  BY <1>5, <1>6, <1>14, Insert, ZenonT(60)
<1>17. policy[1] # "implicit" =>
         ListsAre(g, [l \in Classes |-> IF l = list_of(N - m) THEN V[l] \cup {m} ELSE V[l]])
  <2>. SUFFICES ASSUME policy[1] # "implicit"
                PROVE  ListsAre(g, [l \in Classes |-> IF l = list_of(N - m) THEN V[l] \cup {m} ELSE V[l]])
    BY ZenonT(60)
  <2>1. m \notin B
    BY <1>2, <1>4, <1>15
  <2>2. ListsAre(s, V)
    BY <1>7, <1>14, ZenonT(60) DEF ListsAre
  <2>3. \A l \in Classes : m \notin V[l]
    BY <2>1, ZenonT(60) DEF FreeBy
  <2>4. Size(s, m) = N - m /\ s.mem[m - 1] \in Metas
    BY <1>5, <1>14 DEF Size, y, Meta
  <2>. HIDE DEF V
  <2>. QED  BY <1>6, <1>14, <2>2, <2>3, <2>4, Insert
<1>. HIDE DEF g
<1>18. CutAt(h, g, bp, m, 0)
  <2>1. \A k \in D : k < bp - 1 \/ k >= N - 1 => g.mem[k] = h.mem[k]
    BY <1>2, <1>4, <1>14, <1>16
  <2>2. bp + Size(h, bp) - 1 = N - 1 /\ (bp + Size(h, bp)) - m = N - m
    BY <1>2 DEF N
  <2>. QED  BY <1>3, <1>4, <1>14, <1>16, <2>1, <2>2, ZenonT(60) DEF CutAt, x, y
<1>19. /\ Tiled(g, C) /\ Bits(g, C) /\ m \notin B
       /\ Size(g, bp) = m - bp /\ Alloc(g, bp) = 1
       /\ m + Size(g, m) = N /\ Alloc(g, m) = 0 /\ Prev(g, m) = 1
       /\ \A b \in B \cup {h.tail} : b # bp => g.mem[b - 1] = h.mem[b - 1]
       /\ Outside(h, g, B, bp, N)
  <2>1. m + MinBlockSize <= bp + Size(h, bp) /\ 0 = Alloc(h, bp)
    BY <1>4, ZenonT(60) DEF N
  <2>2. CutResult(h, B, g, bp, m)
    <3>1. Tiled(h, B) /\ Bits(h, B) /\ bp \in B /\ Cuttable(h, bp, m)
      BY <1>1, <1>4, <1>15, <2>1, ZenonT(60) DEF Cuttable
    <3>2. CutAt(h, g, bp, m, Alloc(h, bp))
      BY <1>18, <2>1
    <3>. QED  BY <3>1, <3>2, Cut, ZenonT(60)
  <2>. QED  BY <2>1, <2>2, ZenonT(60) DEF CutResult, N
<1>20. Sound(g, C, {})
  <2>1. ASSUME NEW b \in B, b # bp, Alloc(g, b) = 0 PROVE Prev(g, b) = 1 /\ Footed(g, b)
    <3>1. g.mem[b - 1] = h.mem[b - 1]
      BY <1>19, <2>1, ZenonT(60)
    <3>2. Size(g, b) = Size(h, b) /\ Alloc(h, b) = 0 /\ Prev(g, b) = Prev(h, b)
      BY <2>1, <3>1, ZenonT(60) DEF Size, Alloc, Prev
    <3>3. Prev(h, b) = 1 /\ h.mem[b + Size(h, b) - 2] = h.mem[b - 1]
      BY <1>1, <3>2, ZenonT(60) DEF Sound, Footed
    <3>4. b + Size(h, b) - 2 \in b..(b + Size(h, b) - 2)
      BY <1>1, Geometry
    <3>5. g.mem[b + Size(h, b) - 2] = h.mem[b + Size(h, b) - 2]
      BY <1>15, <1>19, <2>1, <3>4, ZenonT(60) DEF Outside
    <3>. QED  BY <3>1, <3>2, <3>3, <3>5, ZenonT(60) DEF Footed
  <2>2. Footed(g, m)
    <3>1. m + Size(g, m) - 2 = N - 2
      <4>1. Size(g, m) = N - m
        BY <1>14, <1>16 DEF Size, y, Meta
      <4>. QED  BY <1>2, <1>4, <4>1
    <3>. QED  BY <1>14, <1>16, <3>1, ZenonT(60) DEF Footed
  <2>. QED  BY <1>19, <2>1, <2>2 DEF Sound
<1>21. \A b \in B : b # bp => Saved(h, g, b) /\ Alloc(g, b) = Alloc(h, b) /\ Size(g, b) = Size(h, b)
  BY <1>1, <1>15, <1>19, SavedOutside
<1>22. Listed(g, C)
  <2>. SUFFICES ASSUME policy[1] # "implicit" PROVE ListsAre(g, FreeBy(g, C))
    BY ZenonT(60) DEF Listed
  <2>. DEFINE L == FreeBy(g, C)
              W == [l \in Classes |-> IF l = list_of(N - m) THEN V[l] \cup {m} ELSE V[l]]
  <2>1. ASSUME NEW l \in Classes PROVE W[l] = L[l]
    <3>1. L[l] = {b \in B \cup {m} : Alloc(g, b) = 0 /\ list_of(Size(g, b)) = l}
          /\ K[l] = {b \in B : Alloc(h, b) = 0 /\ list_of(Size(h, b)) = l}
      BY DEF FreeBy
    <3>2. W[l] = IF l = list_of(N - m) THEN (K[l] \ {bp}) \cup {m} ELSE K[l] \ {bp}
      BY ZenonT(60)
    <3>3. Size(g, m) = N - m
      BY <1>14, <1>16 DEF Size, y, Meta
    <3>. HIDE DEF K, L, W
    <3>. QED  BY <1>15, <1>19, <1>21, <3>1, <3>2, <3>3
  <2>2. ListsAre(g, W)
    BY <1>17, ZenonT(60)
  <2>. HIDE DEF W, L
  <2>3. ListsAre(g, L)
    BY <2>1, <2>2, SameLists
  <2>. QED  BY <2>3 DEF L
<1>23. Good(g) /\ Blocks(g) = C
  BY <1>20, <1>22, GoodFrom, ZenonT(60)
<1>24. Used(h) = {b \in B : Alloc(h, b) = 1}
  BY DEF Used, B
<1>25. Used(g) = Used(h) \cup {bp}
  BY <1>15, <1>19, <1>21, <1>23, <1>24 DEF Used
<1>. HIDE DEF g
<1>26. Effect(h, g, {}, {bp}) /\ Size(g, bp) = n
  BY <1>4, <1>19, <1>21, <1>23, <1>24, <1>25 DEF Effect
<1>. QED  BY <1>26, ZenonT(60) DEF g, s, i, f, j, m

-----------------------------------------------------------------------------
(* find_fit                                                                *)

\* Min of numbers is a smallest of them.
LEMMA MinOf ==
  ASSUME Numbers, NEW S, S \subseteq Nat, S # {}
  PROVE  Min(S) \in S /\ \A y \in S : Min(S) <= y
<1>1. PICK x \in S : \A y \in S : ~(y < x)
  BY LeastExists, ZenonT(60)
<1>2. \A y \in S : x <= y
  BY <1>1
<1>. QED  BY <1>1, <1>2, ZenonT(60) DEF Min

\* fit_in answers for the blocks of s.
Fits(h, F, n, b) ==
  \/ b = NULL /\ \A c \in F : Size(h, c) < n
  \/ /\ b \in F /\ Size(h, b) >= n
     /\ policy[2] = "best" => \A c \in F : Size(h, c) >= n => Size(h, b) <= Size(h, c)

\* fit_in gives NULL when nothing in the list fits, else a block of the list
\* that fits, the smallest such under best fit.
LEMMA FitIn ==
  ASSUME Numbers, NEW h, NEW s, DOMAIN s \subseteq Nat, NEW n \in Nat,
         \A i \in DOMAIN s : Size(h, s[i]) \in Nat, policy[2] \in {"first", "best"}
  PROVE  Fits(h, {s[i] : i \in DOMAIN s}, n, fit_in(h, s, n))
<1>. DEFINE F == {s[i] : i \in DOMAIN s}
            fits == {i \in DOMAIN s : Size(h, s[i]) >= n}
            smallest == {i \in fits : \A j \in fits : Size(h, s[i]) <= Size(h, s[j])}
<1>1. fit_in(h, s, n) = CASE fits = {} -> NULL
                          [] fits # {} /\ policy[2] = "first" -> s[Min(fits)]
                          [] OTHER -> s[Min(smallest)]
  BY ZenonT(60) DEF fit_in, get_size, header, Size
<1>2. CASE fits = {}
  <2>1. fit_in(h, s, n) = NULL
    BY <1>1, <1>2, ZenonT(60)
  <2>2. \A c \in F : Size(h, c) < n
    BY <1>2
  <2>. QED  BY <2>1, <2>2 DEF Fits
<1>3. CASE fits # {} /\ policy[2] = "first"
  <2>1. fit_in(h, s, n) = s[Min(fits)]
    BY <1>1, <1>3
  <2>2. Min(fits) \in fits
    <3>1. fits \subseteq Nat
      OBVIOUS
    <3>. HIDE DEF fits
    <3>. QED  BY <1>3, <3>1, MinOf, ZenonT(60)
  <2>3. s[Min(fits)] \in F /\ Size(h, s[Min(fits)]) >= n
    BY <2>2
  <2>. HIDE DEF F
  <2>4. policy[2] # "best"
    BY <1>3, ZenonT(60)
  <2>5. Fits(h, F, n, fit_in(h, s, n))
    BY <2>1, <2>3, <2>4 DEF Fits
  <2>. QED  BY <2>5 DEF F
<1>4. CASE fits # {} /\ policy[2] # "first"
  <2>1. fit_in(h, s, n) = s[Min(smallest)]
    BY <1>1, <1>4, ZenonT(60)
  <2>2. smallest # {}
    <3>. DEFINE Z == {Size(h, s[i]) : i \in fits}
    <3>1. Z \subseteq Nat /\ Z # {}
      BY <1>4
    <3>. HIDE DEF Z
    <3>2. PICK z \in Z : \A y \in Z : ~(y < z)
      BY <3>1, LeastExists, ZenonT(60)
    <3>3. \A y \in Z : z <= y
      BY <3>1, <3>2
    <3>4. PICK i \in fits : z = Size(h, s[i])
      BY <3>2 DEF Z
    <3>5. \A j \in fits : Size(h, s[i]) <= Size(h, s[j])
      BY <3>3, <3>4 DEF Z
    <3>6. i \in smallest
      BY <3>5
    <3>. QED  BY <3>6, ZenonT(60)
  <2>3. Min(smallest) \in smallest
    <3>1. smallest \subseteq Nat
      OBVIOUS
    <3>. HIDE DEF smallest
    <3>. QED  BY <2>2, <3>1, MinOf, ZenonT(60)
  <2>. DEFINE i == Min(smallest)
  <2>. HIDE DEF i
  <2>4. i \in fits /\ \A j \in fits : Size(h, s[i]) <= Size(h, s[j])
    BY <2>3 DEF i
  <2>5. s[i] \in F /\ Size(h, s[i]) >= n
    BY <2>4, ZenonT(60)
  <2>6. \A c \in F : Size(h, c) >= n => Size(h, s[i]) <= Size(h, c)
    BY <2>4, ZenonT(60)
  <2>. HIDE DEF F
  <2>7. fit_in(h, s, n) = s[i]
    BY <2>1, ZenonT(60) DEF i
  <2>8. Fits(h, F, n, fit_in(h, s, n))
    BY <2>5, <2>6, <2>7, ZenonT(60) DEF Fits
  <2>. QED  BY <2>8 DEF F
<1>. QED  BY <1>2, <1>3, <1>4

FreeBlocks(h) == {b \in Blocks(h) : Alloc(h, b) = 0}

\* find_fit searches all free blocks in each of the three organisations, and
\* under best fit its answer is the smallest that fits, across lists as well.
LEMMA FindFit ==
  ASSUME Numbers, NEW h, Good(h), policy \in Policies, NEW n \in Nat
  PROVE  Fits(h, FreeBlocks(h), n, find_fit(h, n))
<1>. DEFINE B == Blocks(h)
            F == FreeBlocks(h)
            In(l) == {h.lists[l][i] : i \in DOMAIN h.lists[l]}
<1>1. Tiled(h, B) /\ Listed(h, B)
  BY GoodBlocks, ZenonT(60)
<1>2. /\ h \in Heaps
      /\ \A b \in F : b \in Nat /\ b # 0 /\ Size(h, b) \in Nat
  BY <1>1, Geometry DEF FreeBlocks
<1>3. policy[2] \in {"first", "best"} /\ policy[1] \in {"implicit", "explicit", "segregated"}
  BY DEF Policies
<1>. HIDE DEF F
<1>4. ASSUME policy[1] # "implicit", NEW l \in Classes
      PROVE  In(l) = {b \in F : list_of(Size(h, b)) = l} /\ Fits(h, In(l), n, fit_in(h, h.lists[l], n))
  <2>1. In(l) = FreeBy(h, B)[l]
    BY <1>1, <1>4, ZenonT(60) DEF Listed, ListsAre, Range
  <2>2. In(l) = {b \in F : list_of(Size(h, b)) = l}
    BY <2>1 DEF FreeBy, F, FreeBlocks
  <2>3. h.lists[l] \in Seq(0..MaxHeap)
    BY <1>2, ZenonT(60) DEF Heaps, Classes
  <2>4. DOMAIN h.lists[l] \subseteq Nat
    BY <2>3
  <2>5. \A i \in DOMAIN h.lists[l] : Size(h, h.lists[l][i]) \in Nat
    BY <1>2, <2>2
  <2>. DEFINE s == h.lists[l]
  <2>6. DOMAIN s \subseteq Nat /\ \A i \in DOMAIN s : Size(h, s[i]) \in Nat
    BY <2>4, <2>5, ZenonT(60)
  <2>. HIDE DEF s
  <2>7. Fits(h, {s[i] : i \in DOMAIN s}, n, fit_in(h, s, n))
    BY <1>3, <2>6, FitIn, ZenonT(60)
  <2>. QED  BY <2>2, <2>7, ZenonT(60) DEF s
<1>5. CASE policy[1] = "implicit"
  <2>. DEFINE s == implicit_list(h)
  <2>1. DOMAIN s = F /\ \A b \in F : s[b] = b
    BY ZenonT(60) DEF implicit_list, F, FreeBlocks, get_alloc, header, Alloc
  <2>. HIDE DEF s
  <2>2. {s[i] : i \in DOMAIN s} = F
    BY <2>1, ZenonT(60)
  <2>3. Fits(h, {s[i] : i \in DOMAIN s}, n, fit_in(h, s, n))
    BY <1>2, <1>3, <2>1, FitIn
  <2>4. find_fit(h, n) = fit_in(h, s, n)
    BY <1>5, ZenonT(60) DEF find_fit, s
  <2>. QED  BY <2>2, <2>3, <2>4, ZenonT(60) DEF F
<1>6. CASE policy[1] = "explicit"
  <2>1. 0 \in Classes /\ \A z : list_of(z) = 0
    BY <1>6, HeapAssumption DEF Classes, list_of
  <2>2. In(0) = {b \in F : list_of(Size(h, b)) = 0} /\ Fits(h, In(0), n, fit_in(h, h.lists[0], n))
    BY <1>4, <1>6, <2>1, ZenonT(60)
  <2>. HIDE DEF In
  <2>3. In(0) = F
    BY <2>1, <2>2
  <2>4. find_fit(h, n) = fit_in(h, h.lists[0], n)
    BY <1>6 DEF find_fit
  <2>. QED  BY <2>2, <2>3, <2>4 DEF F
<1>7. CASE policy[1] = "segregated"
  <2>. DEFINE fit(l) == fit_in(h, h.lists[l], n)
              found == {l \in list_of(n)..(NumLists - 1) : fit(l) # NULL}
  <2>1. find_fit(h, n) = IF found = {} THEN NULL ELSE fit(Min(found))
    BY <1>7 DEF find_fit
  <2>2. list_of(n) \in Nat /\ (\A l \in list_of(n)..(NumLists - 1) : l \in Classes)
    BY ClassOf, HeapAssumption DEF Classes
  <2>3. \A l \in Classes : In(l) = {b \in F : list_of(Size(h, b)) = l} /\ Fits(h, In(l), n, fit(l))
    BY <1>4, <1>7, ZenonT(60)
  <2>4. ASSUME NEW c \in F, Size(h, c) >= n
        PROVE  /\ list_of(Size(h, c)) \in found /\ list_of(Size(h, c)) \in Classes
               /\ c \in In(list_of(Size(h, c)))
    <3>. DEFINE l == list_of(Size(h, c))
    <3>1. l \in Classes /\ list_of(n) <= l /\ l \in Nat
      BY <1>2, <2>4, ClassOf, HeapAssumption DEF Classes
    <3>2. c \in In(l) /\ Fits(h, In(l), n, fit(l))
      BY <2>3, <3>1, ZenonT(60)
    <3>3. l \in list_of(n)..(NumLists - 1)
      BY <2>2, <3>1, HeapAssumption DEF Classes
    <3>4. ~(Size(h, c) < n)
      BY <1>2, <2>4
    <3>5. \A b \in In(l) : b # NULL
      BY <1>2, <2>3, <3>1, ZenonT(60) DEF NULL
    <3>. HIDE DEF In, fit, l
    <3>6. fit(l) # NULL
      BY <3>2, <3>4, <3>5 DEF Fits
    <3>7. l \in found
      BY <3>3, <3>6, ZenonT(60)
    <3>. QED  BY <3>1, <3>2, <3>7, ZenonT(60) DEF l
  <2>. HIDE DEF In, fit
  <2>5. CASE found = {}
    <3>1. \A c \in F : Size(h, c) < n
      BY <1>2, <2>4, <2>5
    <3>. QED  BY <2>1, <2>5, <3>1, ZenonT(60) DEF Fits, F
  <2>6. CASE found # {}
    <3>. DEFINE k == Min(found)
    <3>1. k \in found /\ \A l \in found : k <= l
      <4>1. found \subseteq Nat
        BY <2>2, HeapAssumption DEF Classes
      <4>. HIDE DEF found
      <4>. QED  BY <2>6, <4>1, MinOf, ZenonT(60)
    <3>. HIDE DEF k
    <3>2. k \in Classes /\ fit(k) # NULL /\ k \in Nat
      BY <2>2, <3>1, HeapAssumption DEF Classes
    <3>3. In(k) = {b \in F : list_of(Size(h, b)) = k} /\ Fits(h, In(k), n, fit(k))
      BY <2>3, <3>2
    <3>. DEFINE b == fit(k)
    <3>4. b \in In(k) /\ Size(h, b) >= n
          /\ (policy[2] = "best" => \A c \in In(k) : Size(h, c) >= n => Size(h, b) <= Size(h, c))
      BY <3>2, <3>3, ZenonT(60) DEF Fits
    <3>. HIDE DEF b
    <3>5. b \in F /\ list_of(Size(h, b)) = k /\ Size(h, b) \in Nat
      BY <1>2, <3>3, <3>4, ZenonT(60)
    <3>6. ASSUME policy[2] = "best", NEW c \in F, Size(h, c) >= n PROVE Size(h, b) <= Size(h, c)
      <4>. DEFINE l == list_of(Size(h, c))
      <4>1. l \in found /\ l \in Classes /\ c \in In(l) /\ k <= l /\ l \in Nat /\ Size(h, c) \in Nat
        BY <1>2, <2>4, <3>1, <3>6, HeapAssumption DEF Classes
      <4>2. CASE l = k
        BY <3>4, <3>6, <4>1, <4>2, ZenonT(60)
      <4>3. CASE l # k
        <5>1. Size(h, c) <= Size(h, b) => l <= list_of(Size(h, b))
          BY <3>5, <4>1, ClassOf, ZenonT(60)
        <5>. HIDE DEF l
        <5>. QED  BY <3>2, <3>5, <4>1, <4>3, <5>1
      <4>. QED  BY <4>2, <4>3, ZenonT(60)
    <3>7. find_fit(h, n) = b
      BY <2>1, <2>6 DEF b, k
    <3>. QED  BY <3>4, <3>5, <3>6, <3>7 DEF Fits, F
  <2>. QED  BY <2>5, <2>6
<1>. QED  BY <1>3, <1>5, <1>6, <1>7

-----------------------------------------------------------------------------
(* do_mm_malloc                                                            *)

\* Doing nothing has no effect.
LEMMA NoEffect ==
  ASSUME NEW h, Good(h)
  PROVE  Effect(h, h, {}, {})
<1>1. \A b \in Used(h) : Size(h, b) \in Int
  BY UsedFields
<1>2. \A b \in Used(h) : Saved(h, h, b)
  BY <1>1 DEF Saved
<1>. QED  BY <1>2 DEF Effect

\* The effects of two steps, one after the other.
LEMMA Effects ==
  ASSUME NEW h, Good(h), NEW j, NEW g, NEW X, NEW Y, NEW Z, NEW W,
         Effect(h, j, X, Y), Effect(j, g, Z, W)
  PROVE  Effect(h, g, X \cup Z, (Y \ Z) \cup W)
<1>1. Good(j) /\ Used(j) = (Used(h) \ X) \cup Y /\ Good(g) /\ Used(g) = (Used(j) \ Z) \cup W
  BY ZenonT(60) DEF Effect
<1>2. Used(g) = (Used(h) \ (X \cup Z)) \cup ((Y \ Z) \cup W)
  BY <1>1, ZenonT(60)
<1>3. ASSUME NEW b \in Used(h) \ (X \cup Z) PROVE Saved(h, g, b)
  <2>1. b \in Used(j) /\ b \in Used(g) /\ Saved(h, j, b) /\ Saved(j, g, b)
    BY <1>1, ZenonT(60) DEF Effect
  <2>2. b \in Int /\ Size(h, b) \in Int /\ Size(j, b) \in Int /\ Size(g, b) \in Int
    BY <1>1, <2>1, UsedFields
  <2>. QED  BY <2>1, <2>2, SavedOn, ZenonT(60)
<1>. QED  BY <1>1, <1>2, <1>3, ZenonT(60) DEF Effect

\* place allocates the free block bp with at least n words and touches no
\* allocated block.
LEMMA Place ==
  ASSUME Numbers, NEW h, Good(h), NEW bp \in Blocks(h), Alloc(h, bp) = 0,
         NEW n \in Nat, n % 2 = 0, n >= MinBlockSize, Size(h, bp) >= n
  PROVE  Effect(h, place(h, bp, n), {}, {bp}) /\ Size(place(h, bp, n), bp) >= n /\ bp \notin Used(h)
<1>. DEFINE j == free_list_erase(h, bp)
            size == get_size(j, header(bp))
            whole == set_meta(j, header(bp), size, 1, 1)
            front == set_meta(j, header(bp), n, 1, 1)
            rest == sync_footer(set_meta(front, header(bp + n), size - n, 1, 0), bp + n)
            g1 == set_prev_alloc(whole, header(next_block(whole, bp)), 1)
            g2 == free_list_insert(rest, bp + n)
<1>1. place(h, bp, n) = IF size < n + MinBlockSize THEN g1 ELSE g2
  BY DEF place
<1>2. size = Size(h, bp)
  BY Unlisted, ZenonT(60) DEF get_size, header, Size
<1>3. Effect(h, g1, {}, {bp}) /\ Size(g1, bp) = Size(h, bp)
  BY PlaceWhole
<1>4. Size(h, bp) >= n + MinBlockSize => Effect(h, g2, {}, {bp}) /\ Size(g2, bp) = n
  BY PlaceSplit
<1>5. Size(h, bp) \in Nat /\ MinBlockSize \in Nat
  BY GoodBlocks, Geometry, SizesKnown
<1>6. bp \notin Used(h)
  BY DEF Used
<1>. HIDE DEF g1, g2, size
<1>7. CASE size < n + MinBlockSize
  BY <1>1, <1>2, <1>3, <1>5, <1>6, <1>7
<1>8. CASE ~(size < n + MinBlockSize)
  <2>1. place(h, bp, n) = g2
    BY <1>1, <1>8, ZenonT(60)
  <2>2. Size(h, bp) >= n + MinBlockSize
    BY <1>2, <1>5, <1>8
  <2>3. Effect(h, g2, {}, {bp}) /\ Size(g2, bp) = n
    BY <1>4, <2>2, ZenonT(60)
  <2>. QED  BY <1>6, <2>1, <2>3
<1>. QED  BY <1>7, <1>8, ZenonT(60)

\* The block size for a request of n words holds them and the header.
LEMMA BlockSize ==
  ASSUME NEW n \in Nat
  PROVE  block_size(n) \in Nat /\ block_size(n) % 2 = 0 /\ block_size(n) >= MinBlockSize
         /\ block_size(n) >= n + 1
BY Rounding DEF block_size

\* When the P bit of the tail is off, the word before the tail's header is a
\* footer: do_mm_malloc may read its size.
LEMMA LastFooter ==
  ASSUME Numbers, NEW h, Good(h), Prev(h, h.tail) = 0
  PROVE  h.mem[h.tail - 2] \in Metas /\ h.mem[h.tail - 2].size \in Nat
<1>1. Tiled(h, Blocks(h)) /\ Bits(h, Blocks(h)) /\ Sound(h, Blocks(h), {})
  BY GoodBlocks, ZenonT(60)
<1>2. h.tail # 4
  BY <1>1 DEF Bits
<1>3. PICK p \in Blocks(h) : p + Size(h, p) = h.tail
  BY <1>1, <1>2, Before, ZenonT(60)
<1>4. Alloc(h, p) = 0
  BY <1>1, <1>3, ZenonT(60) DEF Bits
<1>5. h.mem[p + Size(h, p) - 2] = h.mem[p - 1]
  BY <1>1, <1>4 DEF Sound, Footed
<1>6. h.mem[p - 1] \in Metas /\ p \in Int /\ Size(h, p) \in Int
  BY <1>1, Geometry
<1>7. p + (Size(h, p) - 2) = h.tail - 2
  BY <1>3, <1>6
<1>8. h.mem[h.tail - 2] \in Metas
  BY <1>5, <1>6, <1>7, ZenonT(60)
<1>. QED  BY <1>8, HeapAssumption DEF Metas

\* What malloc gives for n words: nothing, or a block that was not in use.
NewBlock(h, r, n) ==
  IF r.bp = NULL THEN Effect(h, r.h, {}, {})
  ELSE Effect(h, r.h, {}, {r.bp}) /\ r.bp \notin Used(h) /\ Size(r.h, r.bp) >= n + 1

\* A block taken from the heap is the smallest free one that fits.
BestOf(h, bp, n) ==
  policy[2] = "best" => \A c \in FreeBlocks(h) : Size(h, c) >= n => Size(h, bp) <= Size(h, c)

\* do_mm_malloc returns NULL and leaves allocated blocks alone, or returns a
\* block that was not allocated, large enough, and under best fit the
\* smallest that fitted.
LEMMA MallocBlock ==
  ASSUME Numbers, NEW h, Good(h), policy \in Policies, NEW n \in Nat
  PROVE  /\ NewBlock(h, do_mm_malloc(h, n), n)
         /\ n = 0 => do_mm_malloc(h, n).bp = NULL
         /\ do_mm_malloc(h, n).bp # NULL => BestOf(h, do_mm_malloc(h, n).bp, block_size(n))
<1>. DEFINE r == do_mm_malloc(h, n)
            s == block_size(n)
            bp == find_fit(h, s)
            last == IF get_prev_alloc(h, header(h.tail)) = 0 THEN get_size(h, prev_footer(h.tail)) ELSE 0
            more == extend_heap(h, s - last)
<1>1. s \in Nat /\ s % 2 = 0 /\ s >= MinBlockSize /\ s >= n + 1
  BY BlockSize, ZenonT(60)
<1>2. Fits(h, FreeBlocks(h), s, bp)
  <2>. HIDE DEF s
  <2>. QED  BY <1>1, FindFit, ZenonT(60)
<1>3. last \in Nat /\ (Prev(h, h.tail) = 0 => last = h.mem[h.tail - 2].size)
      /\ (Prev(h, h.tail) # 0 => last = 0)
  BY LastFooter DEF get_prev_alloc, header, Prev, get_size, prev_footer
<1>4. \/ more = [bp |-> NULL, h |-> h]
      \/ /\ Effect(h, more.h, {}, {}) /\ more.bp \in Blocks(more.h) /\ Alloc(more.h, more.bp) = 0
         /\ Size(more.h, more.bp) >= s - last
         /\ Prev(h, h.tail) = 0 => Size(more.h, more.bp) >= h.mem[h.tail - 2].size + (s - last)
  <2>1. s - last \in Int
    BY <1>1, <1>3
  <2>. HIDE DEF s, last
  <2>. QED  BY <2>1, ExtendHeap, ZenonT(60)
<1>5. r = CASE n = 0 -> [bp |-> NULL, h |-> h]
            [] n # 0 /\ bp # NULL -> [bp |-> bp, h |-> place(h, bp, s)]
            [] OTHER -> IF more.bp = NULL THEN more
                        ELSE [bp |-> more.bp, h |-> place(more.h, more.bp, s)]
  BY ZenonT(60) DEF do_mm_malloc
<1>6. \A g, b : Good(g) /\ b \in Blocks(g) => b # NULL /\ Size(g, b) \in Nat /\ b \in Nat
  BY GoodBlocks, Geometry DEF NULL
<1>. HIDE DEF r, s, bp, last, more
<1>7. CASE r = [bp |-> NULL, h |-> h]
  BY <1>7, NoEffect DEF NewBlock, r
<1>8. CASE n # 0 /\ bp # NULL
  <2>1. r = [bp |-> bp, h |-> place(h, bp, s)]
    BY <1>5, <1>8, ZenonT(60)
  <2>2. bp \in Blocks(h) /\ Alloc(h, bp) = 0 /\ Size(h, bp) >= s /\ BestOf(h, bp, s)
    BY <1>2, <1>8, ZenonT(60) DEF Fits, FreeBlocks, BestOf
  <2>. DEFINE g == place(h, bp, s)
  <2>3. Effect(h, g, {}, {bp}) /\ Size(g, bp) >= s /\ bp \notin Used(h)
    BY <1>1, <2>2, Place, ZenonT(60)
  <2>. HIDE DEF g
  <2>4. Good(g) /\ bp \in Used(g)
    BY <2>3, ZenonT(60) DEF Effect
  <2>5. Size(g, bp) \in Nat
    BY <2>4, UsedFields
  <2>6. r.bp = bp /\ r.h = g
    BY <2>1 DEF g
  <2>. QED  BY <1>1, <1>8, <2>2, <2>3, <2>5, <2>6 DEF NewBlock, r, s
<1>9. CASE n # 0 /\ bp = NULL /\ more # [bp |-> NULL, h |-> h]
  <2>. DEFINE j == more.h
              q == more.bp
              g == place(j, q, s)
  <2>1. Effect(h, j, {}, {}) /\ q \in Blocks(j) /\ Alloc(j, q) = 0 /\ Good(j)
    BY <1>4, <1>9, ZenonT(60) DEF Effect
  <2>2. Size(j, q) >= s
    <3>1. Size(j, q) \in Nat
      BY <1>6, <2>1
    <3>2. CASE Prev(h, h.tail) = 0
      BY <1>1, <1>3, <1>4, <1>9, <3>1, <3>2
    <3>3. CASE Prev(h, h.tail) # 0
      BY <1>1, <1>3, <1>4, <1>9, <3>1, <3>3
    <3>. QED  BY <3>2, <3>3, ZenonT(60)
  <2>3. q # NULL
    BY <1>6, <2>1
  <2>4. r.bp = q /\ r.h = g
    BY <1>5, <1>9, <2>3, ZenonT(60)
  <2>. HIDE DEF j, q
  <2>5. Effect(j, g, {}, {q}) /\ Size(g, q) >= s /\ q \notin Used(j)
    BY <1>1, <2>1, <2>2, Place, ZenonT(60)
  <2>. HIDE DEF g
  <2>6. Effect(h, g, {} \cup {}, ({} \ {}) \cup {q})
    BY <2>1, <2>5, Effects
  <2>7. Effect(h, g, {}, {q})
    <3>1. {} \cup {} = {} /\ ({} \ {}) \cup {q} = {q}
      BY ZenonT(60)
    <3>. QED  BY <2>6, <3>1, ZenonT(60)
  <2>8. q \notin Used(h)
    BY <2>1, <2>5, ZenonT(60) DEF Effect
  <2>9. Size(g, q) \in Nat
    <3>1. Good(g) /\ q \in Used(g)
      BY <2>5, ZenonT(60) DEF Effect
    <3>. QED  BY <3>1, UsedFields
  <2>10. \A c \in FreeBlocks(h) : ~(Size(h, c) >= s)
    <3>1. \A c \in FreeBlocks(h) : c # NULL /\ Size(h, c) \in Nat
      BY <1>6, ZenonT(60) DEF FreeBlocks
    <3>2. \A c \in FreeBlocks(h) : Size(h, c) < s
      BY <1>2, <1>9, <3>1 DEF Fits
    <3>. QED  BY <1>1, <3>1, <3>2
  <2>11. BestOf(h, q, s)
    BY <2>10, ZenonT(60) DEF BestOf
  <2>. QED  BY <1>1, <1>9, <2>3, <2>4, <2>5, <2>7, <2>8, <2>9, <2>11 DEF NewBlock, r, s
<1>10. CASE n # 0 /\ bp = NULL /\ more = [bp |-> NULL, h |-> h]
  <2>1. more.bp = NULL
    BY <1>10
  <2>2. r = more
    BY <1>5, <1>10, <2>1
  <2>. QED  BY <1>7, <1>10, <2>2
<1>11. n = 0 => r = [bp |-> NULL, h |-> h]
  BY <1>5
<1>. QED  BY <1>7, <1>8, <1>9, <1>10, <1>11, ZenonT(60)

-----------------------------------------------------------------------------
(* realloc: extending and merging                                          *)

\* realloc's merge with the free block behind ptr: the block at ptr grows,
\* keeps its words, and the other block is in no list.
LEMMA TakeNext ==
  ASSUME Numbers, NEW h, Good(h), NEW ptr \in Used(h), Alloc(h, ptr + Size(h, ptr)) = 0
  PROVE  LET next == next_block(h, ptr)
             size == get_size(h, header(ptr)) + get_size(h, header(next))
             merged == set_size(free_list_erase(h, next), header(ptr), size)
             g == set_prev_alloc(merged, header(next_block(merged, ptr)), 1)
         IN  Effect(h, g, {}, {})
<1>. DEFINE B == Blocks(h)
            N == ptr + Size(h, ptr)
            E == N + Size(h, N)
            D == 0..(MaxHeap - 1)
            x == Meta(E - ptr, Prev(h, ptr), 1)
            y == Meta(Size(h, E), 1, Alloc(h, E))
            j == free_list_erase(h, N)
            f == set_size(j, header(ptr), get_size(h, header(ptr)) + get_size(h, header(N)))
            g == set_prev_alloc(f, header(next_block(f, ptr)), 1)
            K == FreeBy(h, B)
            V == [l \in Classes |-> K[l] \ {N}]
<1>1. Tiled(h, B) /\ Bits(h, B) /\ Sound(h, B, {}) /\ Listed(h, B) /\ ptr \in B /\ Alloc(h, ptr) = 1
  BY GoodBlocks, UsedFields
<1>2. /\ MaxHeap \in Nat /\ h \in Heaps /\ ptr \in 4..MaxHeap /\ Size(h, ptr) \in 2..MaxHeap
      /\ N \in B \cup {h.tail} /\ N \in 4..MaxHeap /\ h.mem[ptr - 1] \in Metas
  BY <1>1, Geometry, ZenonT(60)
<1>3. N \in B
  BY <1>1, <1>2 DEF Tiled, Alloc
<1>. HIDE DEF N
<1>4. /\ Size(h, N) \in 2..MaxHeap /\ E \in B \cup {h.tail} /\ E \in 4..MaxHeap /\ h.mem[E - 1] \in Metas
  BY <1>1, <1>3, Geometry, ZenonT(60)
<1>5. Alloc(h, E) = 1
  BY <1>3, NextUsed DEF N
<1>6. /\ ptr - 1 \in D /\ E - 1 \in D /\ ptr - 1 # E - 1 /\ ptr < E
      /\ E - ptr = Size(h, ptr) + Size(h, N) /\ ptr < N /\ N < E
  BY <1>2, <1>4 DEF N
<1>7. x \in Metas /\ x \in Words /\ y \in Metas /\ y \in Words
  <2>1. E - ptr \in 0..MaxHeap /\ Size(h, E) \in 0..MaxHeap /\ Prev(h, ptr) \in {0, 1}
    BY <1>2, <1>4, <1>6 DEF Metas, Size, Prev
  <2>. HIDE DEF E
  <2>. QED  BY <1>5, <2>1, MetaWords
<1>8. j \in Heaps /\ j.mem = h.mem /\ j.tail = h.tail /\ j.brk = h.brk
      /\ (policy[1] # "implicit" => ListsAre(j, V))
  BY Unlisted, ZenonT(60)
<1>. HIDE DEF E, j
<1>9. f = Poke(j, ptr - 1, x)
  <2>0. j \in Heaps /\ j.mem[ptr - 1] \in Metas /\ ptr - 1 \in 0..(MaxHeap - 1)
    BY <1>2, <1>6, <1>8, ZenonT(60)
  <2>1. set_size(j, ptr - 1, E - ptr) = Poke(j, ptr - 1, Meta(E - ptr, j.mem[ptr - 1].prev, j.mem[ptr - 1].alloc))
    BY <2>0, Setters, ZenonT(60)
  <2>2. get_size(h, header(ptr)) + get_size(h, header(N)) = E - ptr
    BY <1>6 DEF get_size, header, Size
  <2>. QED  BY <1>1, <1>8, <2>1, <2>2, ZenonT(60) DEF header, Prev, Alloc
<1>. HIDE DEF x, y
<1>10. Writes(j, f, ptr - 1, x)
  BY <1>6, <1>7, <1>8, <1>9, Poked, ZenonT(60)
<1>. HIDE DEF f
<1>11. g = Poke(f, E - 1, y)
  <2>1. f.mem[ptr - 1] = x
    BY <1>10, ZenonT(60) DEF Writes
  <2>2. header(next_block(f, ptr)) = E - 1
    BY <1>2, <1>4, <2>1 DEF header, next_block, get_size, x, Meta
  <2>3. f.mem[E - 1] = h.mem[E - 1] /\ f \in Heaps
    BY <1>6, <1>8, <1>10, ZenonT(60) DEF Writes
  <2>4. set_prev_alloc(f, E - 1, 1) = Poke(f, E - 1, Meta(f.mem[E - 1].size, 1, f.mem[E - 1].alloc))
    BY <1>4, <1>6, <2>3, Setters, ZenonT(60)
  <2>. QED  BY <2>2, <2>3, <2>4, ZenonT(60) DEF y, Size, Alloc
<1>12. Writes(f, g, E - 1, y)
  <2>1. f \in Heaps
    BY <1>10 DEF Writes
  <2>. QED  BY <1>6, <1>7, <1>11, <2>1, Poked, ZenonT(60)
<1>. HIDE DEF g
<1>13. /\ g \in Heaps /\ g.tail = h.tail /\ g.brk = h.brk /\ g.lists = j.lists
       /\ g.mem[ptr - 1] = x /\ g.mem[E - 1] = y
       /\ \A k \in D : k # ptr - 1 /\ k # E - 1 => g.mem[k] = h.mem[k]
  BY <1>6, <1>8, <1>10, <1>12, ZenonT(60) DEF Writes
<1>14. Joined(h, B, g, ptr, E, 1)
  <2>1. \A k \in D : k < ptr - 1 \/ k >= E => g.mem[k] = h.mem[k]
    BY <1>2, <1>4, <1>6, <1>13
  <2>. QED  BY <1>6, <1>13, <2>1 DEF Joined, x, y
<1>. DEFINE C == Without(B, ptr, E)
<1>15. \A b \in B : b \in Nat /\ (b # ptr /\ b # N => b < ptr \/ b >= E)
  <2>1. \A b \in B : /\ b \in Nat /\ (b < ptr \/ b = ptr \/ b > ptr) /\ (ptr < b => N <= b)
                     /\ (N < b => E <= b)
    <3>1. /\ \A b \in B : b \in 4..(h.tail - 1)
          /\ \A b, c \in B : b < c => b + Size(h, b) <= c
      BY <1>1, Geometry, ZenonT(60)
    <3>2. h.tail \in 4..MaxHeap
      BY <1>1, Geometry, ZenonT(60)
    <3>3. \A c \in B : (ptr < c => N <= c) /\ (N < c => E <= c)
      BY <1>1, <1>3, <3>1, ZenonT(60) DEF N, E
    <3>4. ASSUME NEW b \in B PROVE b \in Nat /\ (b < ptr \/ b = ptr \/ b > ptr)
      <4>1. b \in 4..(h.tail - 1)
        BY <3>1, ZenonT(60)
      <4>2. ptr \in 4..MaxHeap /\ MaxHeap \in Nat
        BY <1>2, ZenonT(60)
      <4>. QED  BY <3>2, <4>1, <4>2
    <3>. QED  BY <3>3, <3>4, ZenonT(60)
  <2>2. ptr \in Int /\ N \in Int /\ E \in Int
    BY <1>2, <1>4
  <2>3. ASSUME NEW b \in B, b # ptr, b # N PROVE b < ptr \/ b >= E
    BY <2>1, <2>2, <2>3
  <2>. QED  BY <2>1, <2>3
<1>16. C = B \ {N}
  <2>1. \A b \in B : b # N => b <= ptr \/ b >= E
    BY <1>2, <1>15
  <2>2. ~(N <= ptr \/ N >= E)
    BY <1>2, <1>4, <1>6
  <2>. QED  BY <2>1, <2>2, ZenonT(60) DEF Without
<1>17. /\ Size(g, ptr) = E - ptr /\ Alloc(g, ptr) = 1
       /\ Alloc(g, E) = Alloc(h, E)
       /\ Outside(h, g, B, ptr, E)
  <2>1. 1 \in {0, 1}
    OBVIOUS
  <2>. QED  BY <1>1, <1>4, <1>6, <1>14, <2>1, Join
<1>. HIDE DEF B
<1>18. Sound(g, C, {})
  <2>1. Sound(g, C, {ptr, E})
    BY <1>1, <1>4, <1>6, <1>14, JoinSound, ZenonT(60)
  <2>. QED  BY <1>5, <1>17, <2>1, SoundAll, ZenonT(60)
<1>19. Listed(g, C)
  <2>. SUFFICES ASSUME policy[1] # "implicit" PROVE ListsAre(g, FreeBy(g, C))
    BY ZenonT(60) DEF Listed
  <2>. DEFINE L == FreeBy(g, C)
  <2>1. ListsAre(g, V)
    BY <1>8, <1>13, ZenonT(60) DEF ListsAre
  <2>2. ASSUME NEW l \in Classes PROVE V[l] = L[l]
    <3>1. L[l] = (K[l] \ (ptr..(E - 1))) \cup (IF 1 = 0 /\ list_of(E - ptr) = l THEN {ptr} ELSE {})
      BY <1>1, <1>4, <1>6, <1>14, JoinedFree
    <3>2. \A b \in B : b \in ptr..(E - 1) <=> (b = ptr \/ b = N)
      BY <1>2, <1>3, <1>4, <1>6, <1>15
    <3>3. K[l] \subseteq B /\ ptr \notin K[l]
      BY <1>1 DEF FreeBy
    <3>. HIDE DEF K, L, C
    <3>. QED  BY <3>1, <3>2, <3>3
  <2>. HIDE DEF V, L
  <2>3. ListsAre(g, L)
    BY <2>1, <2>2, SameLists, ZenonT(60)
  <2>. QED  BY <2>3, ZenonT(60) DEF L
<1>20. Good(g) /\ Blocks(g) = C
  BY <1>18, <1>19, GoodFrom, ZenonT(60)
<1>21. \A b \in B : b # ptr /\ b # N => Saved(h, g, b) /\ Alloc(g, b) = Alloc(h, b)
  BY <1>1, <1>15, <1>17, SavedOutside
<1>22. Saved(h, g, ptr)
  <2>1. Size(g, ptr) >= Size(h, ptr)
    BY <1>2, <1>4, <1>6, <1>17
  <2>2. \A k \in ptr..(ptr + Size(h, ptr) - 2) : g.mem[k] = h.mem[k]
    BY <1>2, <1>4, <1>6, <1>13 DEF N
  <2>. QED  BY <2>1, <2>2, ZenonT(60) DEF Saved
<1>23. Used(h) = {b \in B : Alloc(h, b) = 1} /\ N \notin Used(h)
  BY DEF Used, B, N
<1>24. Used(g) = Used(h)
  <2>. HIDE DEF C
  <2>. QED  BY <1>1, <1>16, <1>17, <1>20, <1>21, <1>23, ZenonT(60) DEF Used
<1>25. Effect(h, g, {}, {})
  BY <1>20, <1>21, <1>22, <1>23, <1>24, ZenonT(60) DEF Effect
<1>26. next_block(h, ptr) = N
  BY ZenonT(60) DEF next_block, get_size, header, N, Size
<1>. QED  BY <1>25, <1>26, ZenonT(60) DEF g, f, j

\* realloc_merge allocates and frees nothing and keeps all words.
LEMMA MergeNext ==
  ASSUME Numbers, NEW h, Good(h), NEW ptr \in Used(h)
  PROVE  Effect(h, realloc_merge(h, ptr), {}, {})
<1>1. CASE Alloc(h, ptr + Size(h, ptr)) = 0
  <2>1. realloc_merge(h, ptr) =
          LET next == next_block(h, ptr)
              size == get_size(h, header(ptr)) + get_size(h, header(next))
              merged == set_size(free_list_erase(h, next), header(ptr), size)
          IN  set_prev_alloc(merged, header(next_block(merged, ptr)), 1)
    BY <1>1, ZenonT(60) DEF realloc_merge, get_alloc, Alloc, next_block, get_size, header, Size
  <2>. QED  BY <1>1, <2>1, TakeNext
<1>2. CASE Alloc(h, ptr + Size(h, ptr)) # 0
  <2>1. realloc_merge(h, ptr) = h
    BY <1>2, ZenonT(60) DEF realloc_merge, get_alloc, Alloc, next_block, get_size, header, Size
  <2>. QED  BY <2>1, NoEffect
<1>. QED  BY <1>1, <1>2

\* realloc_extend allocates and frees nothing and keeps all words.
LEMMA ExtendLast ==
  ASSUME Numbers, NEW h, Good(h), NEW ptr \in Used(h), NEW n \in Nat
  PROVE  LET r == realloc_extend(h, ptr, n)
         IN  Effect(h, r.h, {}, {}) /\ ptr # NULL
<1>. DEFINE r == realloc_extend(h, ptr, n)
            N == ptr + Size(h, ptr)
            size == Size(h, ptr) + Size(h, N)
<1>1. ptr # NULL /\ Tiled(h, Blocks(h)) /\ ptr \in Blocks(h)
  BY UsedFields, GoodBlocks DEF NULL
<1>2. size \in Int
  <2>1. Size(h, ptr) \in Int /\ h.mem[N - 1] \in Metas
    BY <1>1, Geometry
  <2>. QED  BY <2>1, HeapAssumption DEF Metas, Size
<1>3. r = extend_heap(h, n - size) \/ r = [bp |-> ptr, h |-> h]
  BY ZenonT(60) DEF realloc_extend, next_block, get_size, header, Size
<1>4. Effect(h, h, {}, {})
  BY NoEffect
<1>. HIDE DEF r, size
<1>5. CASE r = extend_heap(h, n - size)
  <2>1. n - size \in Int
    BY <1>2
  <2>2. r = [bp |-> NULL, h |-> h] \/ Effect(h, r.h, {}, {})
    BY <1>5, <2>1, ExtendHeap
  <2>. QED  BY <1>1, <1>4, <2>2 DEF r
<1>. QED  BY <1>1, <1>3, <1>4, <1>5 DEF r
=============================================================================
