----------------------------- MODULE HeapProofs -----------------------------
(***************************************************************************)
(* The allocator of labs/06_malloclab is correct in each of its six builds *)
(* for every heap limit, every number of lists and owners and all request  *)
(* sizes. HeapBlocks and HeapOps have the operations; here are realloc and *)
(* the callers' actions, which follow from their effects, and the          *)
(* theorems.                                                               *)
(***************************************************************************)
EXTENDS HeapOps
USE SMTT(60), ZenonT(60), Z3T(60)
-----------------------------------------------------------------------------
(* Words of no meaning to the allocator                                    *)

\* The words that the allocator itself reads.
Marks(h) == {1, h.tail - 1} \cup {b - 1 : b \in Blocks(h)} \cup {b + Size(h, b) - 2 : b \in FreeBlocks(h)}

\* g differs from h in words that have no meaning for the allocator.
Scribbled(h, g) ==
  /\ g \in Heaps /\ g.tail = h.tail /\ g.brk = h.brk /\ g.lists = h.lists
  /\ \A k \in Marks(h) : g.mem[k] = h.mem[k]

\* Writes to words that are neither headers nor footers of free blocks leave
\* a good heap good, with the same blocks: callers that stay within their
\* blocks cannot harm it.
LEMMA Scribble ==
  ASSUME Numbers, NEW h, Good(h), NEW g, Scribbled(h, g)
  PROVE  /\ Good(g) /\ Blocks(g) = Blocks(h) /\ Used(g) = Used(h)
         /\ \A b \in Blocks(h) : Size(g, b) = Size(h, b) /\ Alloc(g, b) = Alloc(h, b)
<1>. DEFINE B == Blocks(h)
<1>1. Tiled(h, B) /\ Bits(h, B) /\ Sound(h, B, {}) /\ Listed(h, B)
  BY GoodBlocks
<1>2. \A b \in B \cup {h.tail} : g.mem[b - 1] = h.mem[b - 1]
  BY ZenonT(60) DEF Scribbled, Marks
<1>3. g.mem[1] = h.mem[1]
  BY DEF Scribbled, Marks
<1>4. \A b \in B : Alloc(h, b) = 0 => g.mem[b + Size(h, b) - 2] = h.mem[b + Size(h, b) - 2]
  BY ZenonT(60) DEF Scribbled, Marks, FreeBlocks
<1>5. g \in Heaps /\ g.tail = h.tail /\ g.brk = h.brk /\ g.lists = h.lists
  BY DEF Scribbled
<1>. HIDE DEF B
<1>6. \A b \in B \cup {h.tail} : Size(g, b) = Size(h, b) /\ Alloc(g, b) = Alloc(h, b) /\ Prev(g, b) = Prev(h, b)
  BY <1>2 DEF Size, Alloc, Prev
<1>7. \A b \in B : b + Size(h, b) \in B \cup {h.tail}
  BY <1>1, Geometry
<1>8. Tiled(g, B)
  <2>1. 4 \in B \cup {h.tail}
    BY <1>1 DEF Tiled
  <2>. QED  BY <1>1, <1>2, <1>3, <1>5, <1>6, <2>1, ZenonT(60) DEF Tiled
<1>9. Bits(g, B)
  <2>1. 4 \in B \cup {h.tail}
    BY <1>1 DEF Tiled
  <2>. QED  BY <1>1, <1>6, <1>7, <2>1 DEF Bits
<1>10. Sound(g, B, {})
  <2>1. ASSUME NEW b \in B, Alloc(g, b) = 0 PROVE Prev(g, b) = 1 /\ Footed(g, b)
    <3>1. Alloc(h, b) = 0 /\ Size(g, b) = Size(h, b) /\ Prev(g, b) = Prev(h, b)
      BY <1>6, <2>1
    <3>2. Prev(h, b) = 1 /\ Footed(h, b)
      BY <1>1, <3>1 DEF Sound
    <3>3. g.mem[b + Size(h, b) - 2] = h.mem[b + Size(h, b) - 2] /\ g.mem[b - 1] = h.mem[b - 1]
      BY <1>2, <1>4, <3>1
    <3>. QED  BY <3>1, <3>2, <3>3 DEF Footed
  <2>. QED  BY <1>8, <1>9, <2>1 DEF Sound
<1>11. Listed(g, B)
  <2>. SUFFICES ASSUME policy[1] # "implicit" PROVE ListsAre(g, FreeBy(g, B))
    BY DEF Listed
  <2>. DEFINE K == FreeBy(h, B)
              L == FreeBy(g, B)
  <2>1. ListsAre(g, K)
    BY <1>1, <1>5, ZenonT(60) DEF Listed, ListsAre
  <2>2. \A l \in Classes : K[l] = L[l]
    BY <1>6 DEF FreeBy
  <2>. HIDE DEF K, L
  <2>3. ListsAre(g, L)
    BY <2>1, <2>2, SameLists
  <2>. QED  BY <2>3 DEF L
<1>12. Good(g) /\ Blocks(g) = B
  BY <1>10, <1>11, GoodFrom
<1>13. Used(g) = Used(h)
  BY <1>6, <1>12 DEF Used, B
<1>. QED  BY <1>6, <1>12, <1>13 DEF B

\* The words of an allocated block are its own: no header, no footer that the
\* allocator reads and no word of another allocated block is among them.
LEMMA OwnWords ==
  ASSUME NEW h, Good(h), NEW b \in Used(h), NEW k \in b..(b + Size(h, b) - 2)
  PROVE  /\ k \notin Marks(h) /\ k \in 0..(MaxHeap - 1)
         /\ \A c \in Used(h) : c # b => k \notin c..(c + Size(h, c) - 2)
<1>. DEFINE B == Blocks(h)
<1>1. Tiled(h, B) /\ b \in B /\ Alloc(h, b) = 1
  BY GoodBlocks, UsedFields
<1>. HIDE DEF B
<1>2. /\ h.tail \in 4..MaxHeap /\ MaxHeap \in Nat
      /\ b \in Nat /\ b >= 4 /\ Size(h, b) \in Nat /\ Size(h, b) >= 2 /\ b + Size(h, b) <= h.tail
  BY <1>1, Geometry
<1>3. k \in Nat /\ b <= k /\ k <= b + Size(h, b) - 2
  BY <1>2
<1>4. ASSUME NEW c \in B, c # b
      PROVE  c \in Nat /\ Size(h, c) \in Nat /\ Size(h, c) >= 2
             /\ (c + Size(h, c) <= b \/ b + Size(h, b) <= c)
  <2>1. c \in Nat /\ Size(h, c) \in Nat /\ Size(h, c) >= 2
    BY <1>1, Geometry
  <2>2. c < b => c + Size(h, c) <= b
    BY <1>1, Geometry
  <2>3. b < c => b + Size(h, b) <= c
    BY <1>1, Geometry
  <2>. QED  BY <1>2, <1>4, <2>1, <2>2, <2>3
<1>5. \A c \in B : k # c - 1
  <2>1. k # b - 1
    BY <1>2, <1>3
  <2>2. ASSUME NEW c \in B, c # b PROVE k # c - 1
    BY <1>2, <1>3, <1>4, <2>2
  <2>. QED  BY <2>1, <2>2
<1>6. ASSUME NEW c \in B, c # b PROVE k # c + Size(h, c) - 2
  BY <1>2, <1>3, <1>4, <1>6
<1>7. \A c \in FreeBlocks(h) : c \in B /\ c # b
  BY <1>1 DEF FreeBlocks, B
<1>8. k # 1 /\ k # h.tail - 1 /\ k \in 0..(MaxHeap - 1)
  BY <1>2, <1>3
<1>9. k \notin Marks(h)
  <2>1. B = Blocks(h)
    BY DEF B
  <2>. QED  BY <1>5, <1>6, <1>7, <1>8, <2>1 DEF Marks
<1>10. ASSUME NEW c \in Used(h), c # b PROVE k \notin c..(c + Size(h, c) - 2)
  <2>1. c \in B
    BY DEF Used, B
  <2>. QED  BY <1>2, <1>3, <1>4, <1>10, <2>1
<1>. QED  BY <1>8, <1>9, <1>10

-----------------------------------------------------------------------------
(* realloc: shrinking                                                      *)

\* The block at ptr keeps its first words when its tail is cut off and freed.
Kept(h, g, ptr, n) == Size(g, ptr) >= n /\ \A k \in ptr..(ptr + n - 2) : g.mem[k] = h.mem[k]

\* realloc's shrink before it frees the rest: two allocated blocks where
\* there was one.
LEMMA CutUsed ==
  ASSUME Numbers, NEW h, Good(h), NEW ptr \in Used(h), NEW n \in Nat, n % 2 = 0, n >= MinBlockSize,
         n + MinBlockSize <= Size(h, ptr)
  PROVE  LET g == set_meta(set_size(h, header(ptr), n), header(ptr + n), Size(h, ptr) - n, 1, 1)
         IN  /\ Good(g) /\ Used(g) = Used(h) \cup {ptr + n} /\ ptr + n \notin Used(h)
             /\ Size(g, ptr) = n /\ \A k \in ptr..(ptr + n - 2) : g.mem[k] = h.mem[k]
             /\ \A b \in Used(h) \ {ptr} : Saved(h, g, b)
<1>. DEFINE B == Blocks(h)
            m == ptr + n
            D == 0..(MaxHeap - 1)
            x == Meta(n, Prev(h, ptr), 1)
            y == Meta(Size(h, ptr) - n, 1, 1)
            f == set_size(h, header(ptr), n)
            g == set_meta(f, header(m), Size(h, ptr) - n, 1, 1)
<1>1. Tiled(h, B) /\ Bits(h, B) /\ Sound(h, B, {}) /\ Listed(h, B) /\ ptr \in B /\ Alloc(h, ptr) = 1
  BY GoodBlocks, UsedFields
<1>2. /\ MaxHeap \in Nat /\ h \in Heaps /\ ptr \in 4..MaxHeap /\ Size(h, ptr) \in 2..MaxHeap
      /\ h.mem[ptr - 1] \in Metas /\ h.tail \in 4..MaxHeap /\ ptr + Size(h, ptr) <= h.tail
  BY <1>1, Geometry, ZenonT(60)
<1>3. MinBlockSize \in Nat /\ MinBlockSize >= 2
  BY SizesKnown
<1>4. ptr - 1 \in D /\ m - 1 \in D /\ ptr - 1 # m - 1 /\ m \in Nat /\ m - ptr = n
      /\ (ptr + Size(h, ptr)) - m = Size(h, ptr) - n
  BY <1>2, <1>3
<1>5. x \in Metas /\ x \in Words /\ y \in Metas /\ y \in Words
  <2>1. n \in 0..MaxHeap /\ Size(h, ptr) - n \in 0..MaxHeap /\ Prev(h, ptr) \in {0, 1}
    BY <1>2, <1>3 DEF Metas, Prev
  <2>. QED  BY <2>1, MetaWords
<1>6. f = Poke(h, ptr - 1, x)
  <2>1. set_size(h, ptr - 1, n) = Poke(h, ptr - 1, Meta(n, h.mem[ptr - 1].prev, h.mem[ptr - 1].alloc))
    BY <1>2, <1>4, Setters
  <2>. QED  BY <1>1, <2>1 DEF header, Prev, Alloc
<1>7. g = Poke(f, m - 1, y)
  BY DEF set_meta, Poke, header
<1>. HIDE DEF x, y
<1>8. Writes(h, f, ptr - 1, x)
  BY <1>2, <1>4, <1>5, <1>6, Poked
<1>. HIDE DEF f
<1>9. Writes(f, g, m - 1, y)
  <2>1. f \in Heaps
    BY <1>8 DEF Writes
  <2>. QED  BY <1>4, <1>5, <1>7, <2>1, Poked
<1>. HIDE DEF g
<1>10. /\ g \in Heaps /\ g.tail = h.tail /\ g.brk = h.brk /\ g.lists = h.lists
       /\ g.mem[ptr - 1] = x /\ g.mem[m - 1] = y
       /\ \A k \in D : k # ptr - 1 /\ k # m - 1 => g.mem[k] = h.mem[k]
  <2>. HIDE DEF m
  <2>. QED  BY <1>4, <1>8, <1>9 DEF Writes
<1>11. Cuttable(h, ptr, m)
  <2>1. ptr % 2 = 0
    BY <1>1 DEF Tiled
  <2>2. m % 2 = 0
    BY <1>2, <2>1
  <2>. QED  BY <1>2, <1>3, <1>4, <2>2 DEF Cuttable
<1>12. CutAt(h, g, ptr, m, Alloc(h, ptr))
  <2>1. \A j \in D : j < ptr - 1 \/ j >= ptr + Size(h, ptr) - 1 => g.mem[j] = h.mem[j]
    BY <1>2, <1>3, <1>10
  <2>. QED  BY <1>1, <1>4, <1>10, <2>1, ZenonT(60) DEF CutAt, x, y
<1>. HIDE DEF m, B
<1>13. CutResult(h, B, g, ptr, m)
  BY <1>1, <1>11, <1>12, Cut
<1>. DEFINE C == B \cup {m}
<1>14. /\ Tiled(g, C) /\ Bits(g, C) /\ m \notin B
       /\ Size(g, ptr) = n /\ Alloc(g, ptr) = 1 /\ Alloc(g, m) = 1
       /\ \A b \in B : b # ptr => g.mem[b - 1] = h.mem[b - 1]
       /\ Outside(h, g, B, ptr, ptr + Size(h, ptr))
  BY <1>1, <1>4, <1>13, ZenonT(60) DEF CutResult
<1>15. \A b \in B : b # ptr => b < ptr \/ b >= ptr + Size(h, ptr)
  <2>1. \A b \in B : b \in Nat /\ (ptr < b => ptr + Size(h, ptr) <= b)
    BY <1>1, Geometry
  <2>2. ptr \in Nat /\ ptr + Size(h, ptr) \in Nat
    BY <1>2
  <2>. QED  BY <2>1, <2>2
<1>16. \A b \in B : b # ptr => Saved(h, g, b) /\ Size(g, b) = Size(h, b) /\ Alloc(g, b) = Alloc(h, b)
  BY <1>1, <1>14, <1>15, SavedOutside
<1>17. Sound(g, C, {})
  <2>1. ASSUME NEW b \in C, Alloc(g, b) = 0 PROVE Prev(g, b) = 1 /\ Footed(g, b)
    <3>1. b \in B /\ b # ptr
      BY <1>14, <2>1
    <3>2. Alloc(h, b) = 0 /\ Size(g, b) = Size(h, b) /\ Saved(h, g, b) /\ g.mem[b - 1] = h.mem[b - 1]
      BY <1>14, <1>16, <2>1, <3>1
    <3>3. Prev(h, b) = 1 /\ Footed(h, b)
      BY <1>1, <3>1, <3>2, ZenonT(60) DEF Sound
    <3>4. b \in Nat /\ Size(h, b) \in Nat /\ Size(h, b) >= 2
      BY <1>1, <3>1, Geometry
    <3>5. g.mem[b + Size(h, b) - 2] = h.mem[b + Size(h, b) - 2]
      BY <3>2, <3>4 DEF Saved
    <3>. QED  BY <3>2, <3>3, <3>5 DEF Footed, Prev
  <2>. QED  BY <1>14, <2>1 DEF Sound
<1>18. Listed(g, C)
  <2>. SUFFICES ASSUME policy[1] # "implicit" PROVE ListsAre(g, FreeBy(g, C))
    BY DEF Listed
  <2>. DEFINE K == FreeBy(h, B)
              L == FreeBy(g, C)
  <2>1. ListsAre(g, K)
    BY <1>1, <1>10 DEF Listed, ListsAre
  <2>2. \A l \in Classes : K[l] = L[l]
    BY <1>1, <1>14, <1>16 DEF FreeBy
  <2>. HIDE DEF K, L
  <2>3. ListsAre(g, L)
    BY <2>1, <2>2, SameLists
  <2>. QED  BY <2>3 DEF L
<1>19. Good(g) /\ Blocks(g) = C
  BY <1>17, <1>18, GoodFrom
<1>20. Used(h) = {b \in B : Alloc(h, b) = 1}
  BY DEF Used, B
<1>21. Used(g) = Used(h) \cup {m} /\ m \notin Used(h)
  BY <1>1, <1>14, <1>16, <1>19, <1>20, ZenonT(60) DEF Used
<1>22. \A k \in ptr..(ptr + n - 2) : g.mem[k] = h.mem[k]
  BY <1>2, <1>3, <1>10 DEF m
<1>23. \A b \in Used(h) \ {ptr} : Saved(h, g, b)
  BY <1>16, <1>20
<1>. QED  BY <1>14, <1>19, <1>21, <1>22, <1>23, ZenonT(60) DEF g, f, m

\* realloc_shrink keeps the first n words of the block at ptr and all other
\* allocated blocks.
LEMMA Shrink ==
  ASSUME Numbers, NEW h, Good(h), NEW ptr \in Used(h), NEW n \in Nat, n % 2 = 0, n >= MinBlockSize,
         n <= Size(h, ptr)
  PROVE  Effect(h, realloc_shrink(h, ptr, n), {ptr}, {ptr}) /\ Kept(h, realloc_shrink(h, ptr, n), ptr, n)
<1>1. Size(h, ptr) \in Nat /\ ptr \in Nat /\ MinBlockSize \in Nat /\ MinBlockSize >= 2
  BY UsedFields, SizesKnown
<1>. DEFINE f == set_meta(set_size(h, header(ptr), n), header(ptr + n), Size(h, ptr) - n, 1, 1)
            g == do_mm_free(f, ptr + n)
<1>2. realloc_shrink(h, ptr, n) = IF n + MinBlockSize <= Size(h, ptr) THEN g ELSE h
  BY DEF realloc_shrink, get_size, header, Size
<1>3. CASE ~(n + MinBlockSize <= Size(h, ptr))
  <2>1. realloc_shrink(h, ptr, n) = h
    BY <1>2, <1>3
  <2>2. Effect(h, h, {ptr}, {ptr})
    BY NoEffect DEF Effect
  <2>. QED  BY <1>1, <2>1, <2>2 DEF Kept
<1>4. CASE n + MinBlockSize <= Size(h, ptr)
  <2>. DEFINE m == ptr + n
  <2>1. /\ Good(f) /\ Used(f) = Used(h) \cup {m} /\ m \notin Used(h)
        /\ Size(f, ptr) = n /\ \A k \in ptr..(ptr + n - 2) : f.mem[k] = h.mem[k]
        /\ \A b \in Used(h) \ {ptr} : Saved(h, f, b)
    BY <1>4, CutUsed, ZenonT(60)
  <2>2. g = do_mm_free(f, m) /\ realloc_shrink(h, ptr, n) = g
    BY <1>2, <1>4
  <2>. HIDE DEF f, m, g
  <2>3. Effect(f, g, {m}, {})
    BY <2>1, <2>2, FreeBlock
  <2>4. Good(g) /\ Used(g) = Used(h) /\ \A b \in Used(h) : Saved(f, g, b)
    BY <2>1, <2>3 DEF Effect
  <2>5. ASSUME NEW b \in Used(h) \ {ptr} PROVE Saved(h, g, b)
    <3>1. b \in Int /\ Size(h, b) \in Int /\ Size(f, b) \in Int /\ Size(g, b) \in Int
      BY <2>1, <2>4, UsedFields
    <3>. QED  BY <2>1, <2>4, <3>1, SavedOn
  <2>6. Effect(h, g, {ptr}, {ptr})
    BY <2>4, <2>5 DEF Effect
  <2>7. Kept(h, g, ptr, n)
    BY <2>1, <2>4 DEF Kept, Saved
  <2>. QED  BY <2>2, <2>6, <2>7
<1>. QED  BY <1>3, <1>4

-----------------------------------------------------------------------------
(* realloc: moving                                                         *)

\* memcpy between two allocated blocks, within the words of both, leaves a
\* good heap and all other blocks alone.
LEMMA Copied ==
  ASSUME Numbers, NEW h, Good(h), NEW to \in Used(h), NEW from \in Used(h), to # from,
         NEW n \in Nat, n < Size(h, to), n < Size(h, from)
  PROVE  LET g == memcpy(h, to, from, n)
         IN  /\ Good(g) /\ Used(g) = Used(h) /\ \A b \in Used(h) \ {to} : Saved(h, g, b)
             /\ \A b \in Used(h) : Size(g, b) = Size(h, b)
             /\ \A i \in 0..(n - 1) : g.mem[to + i] = h.mem[from + i]
<1>. DEFINE g == memcpy(h, to, from, n)
            D == 0..(MaxHeap - 1)
            S == to..(to + n - 1)
            M == [a \in D |-> IF a \in S THEN h.mem[from + (a - to)] ELSE h.mem[a]]
<1>1. h \in Heaps /\ h.mem \in [D -> Words]
  BY GoodBlocks, Geometry DEF Heaps
<1>2. /\ to \in Nat /\ from \in Nat /\ Size(h, to) \in Nat /\ Size(h, from) \in Nat
  BY UsedFields
<1>3. ASSUME NEW a \in S PROVE a \in to..(to + Size(h, to) - 2)
  BY <1>2
<1>4. \A a \in S : a \notin Marks(h) /\ a \in D /\ \A c \in Used(h) : c # to => a \notin c..(c + Size(h, c) - 2)
  BY <1>3, OwnWords
<1>5. ASSUME NEW a \in S PROVE from + (a - to) \in D
  <2>1. from + (a - to) \in from..(from + Size(h, from) - 2)
    BY <1>2
  <2>. QED  BY <2>1, OwnWords
<1>. HIDE DEF S, D
<1>6. M \in [D -> Words]
  BY <1>1, <1>5
<1>7. g = [h EXCEPT !.mem = M]
  BY <1>1, ZenonT(60) DEF memcpy, D, S
<1>. HIDE DEF M
<1>8. g \in Heaps /\ g.mem = M /\ g.tail = h.tail /\ g.brk = h.brk /\ g.lists = h.lists
  BY <1>1, <1>6, <1>7 DEF Heaps, D
<1>. HIDE DEF g
<1>9. \A k \in D : k \notin S => g.mem[k] = h.mem[k]
  BY <1>8 DEF M
<1>10. \A k \in Marks(h) : k \in D
  <2>1. Tiled(h, Blocks(h))
    BY GoodBlocks
  <2>2. h.tail - 1 \in D /\ 1 \in D
    BY <2>1, Geometry DEF D
  <2>3. \A b \in Blocks(h) : b - 1 \in D /\ b + Size(h, b) - 2 \in D
    BY <2>1, Geometry DEF D
  <2>. QED  BY <2>2, <2>3 DEF Marks, FreeBlocks
<1>11. Scribbled(h, g)
  BY <1>4, <1>8, <1>9, <1>10 DEF Scribbled
<1>12. Good(g) /\ Used(g) = Used(h) /\ \A b \in Blocks(h) : Size(g, b) = Size(h, b)
  BY <1>11, Scribble
<1>13. \A b \in Used(h) : Size(g, b) = Size(h, b)
  BY <1>12 DEF Used
<1>14. ASSUME NEW b \in Used(h), b # to PROVE Saved(h, g, b)
  <2>1. ASSUME NEW k \in b..(b + Size(h, b) - 2) PROVE g.mem[k] = h.mem[k]
    <3>1. k \in D
      BY OwnWords DEF D
    <3>2. k \notin S
      BY <1>4, <1>14
    <3>. QED  BY <1>9, <3>1, <3>2
  <2>2. Size(h, b) \in Int
    BY UsedFields
  <2>. QED  BY <1>13, <2>1, <2>2 DEF Saved
<1>15. ASSUME NEW i \in 0..(n - 1) PROVE g.mem[to + i] = h.mem[from + i]
  <2>1. to + i \in S /\ (to + i) - to = i
    BY <1>2 DEF S
  <2>. QED  BY <1>4, <1>8, <2>1 DEF M
<1>. QED  BY <1>12, <1>13, <1>14, <1>15 DEF g

\* What realloc gives for n words: nothing, or a block with the first words of
\* the old one, of which m have to be kept.
Resized(h, r, ptr, n, m) ==
  IF r.bp = NULL THEN Effect(h, r.h, {}, {})
  ELSE /\ Effect(h, r.h, {ptr}, {r.bp}) /\ r.bp \notin Used(h) \ {ptr} /\ Size(r.h, r.bp) >= n + 1
       /\ \A i \in Nat : i < n /\ i < m => r.h.mem[r.bp + i] = h.mem[ptr + i]

\* realloc_move fails without an effect, or frees the block at ptr after its
\* first words are in the new one.
LEMMA Move ==
  ASSUME Numbers, NEW h, Good(h), policy \in Policies, NEW ptr \in Used(h), NEW n \in Nat,
         NEW m \in Nat, m < Size(h, ptr)
  PROVE  Resized(h, realloc_move(h, ptr, n, m), ptr, n, m)
<1>. DEFINE new == do_mm_malloc(h, n)
            j == new.h
            bp == new.bp
            c == IF n < m THEN n ELSE m
            f == memcpy(j, bp, ptr, c)
            g == do_mm_free(f, ptr)
            r == realloc_move(h, ptr, n, m)
<1>1. NewBlock(h, new, n)
  BY MallocBlock
<1>2. r = IF bp = NULL THEN new ELSE [bp |-> bp, h |-> g]
  BY DEF realloc_move
<1>. HIDE DEF new, r, g, f
<1>3. CASE bp = NULL
  BY <1>1, <1>2, <1>3 DEF NewBlock, Resized, r
<1>4. CASE bp # NULL
  <2>1. r.bp = bp /\ r.h = g
    BY <1>2, <1>4
  <2>2. Effect(h, j, {}, {bp}) /\ bp \notin Used(h) /\ Size(j, bp) >= n + 1
    BY <1>1, <1>4 DEF NewBlock
  <2>. HIDE DEF j, bp
  <2>3. Good(j) /\ Used(j) = Used(h) \cup {bp} /\ \A b \in Used(h) : Saved(h, j, b)
    BY <2>2 DEF Effect
  <2>4. ptr \in Used(j) /\ bp \in Used(j) /\ ptr # bp
    BY <2>2, <2>3
  <2>5. Size(h, ptr) \in Nat /\ Size(j, ptr) \in Nat /\ Size(j, bp) \in Nat /\ ptr \in Nat /\ bp \in Nat
    BY <2>3, <2>4, UsedFields
  <2>6. c \in Nat /\ c <= n /\ c <= m /\ c < Size(j, bp) /\ c < Size(j, ptr)
    BY <2>2, <2>3, <2>5 DEF Saved
  <2>7. /\ Good(f) /\ Used(f) = Used(j) /\ \A b \in Used(j) \ {bp} : Saved(j, f, b)
        /\ \A b \in Used(j) : Size(f, b) = Size(j, b)
        /\ \A i \in 0..(c - 1) : f.mem[bp + i] = j.mem[ptr + i]
    <3>. HIDE DEF c
    <3>. QED  BY <2>3, <2>4, <2>6, Copied, ZenonT(60) DEF f
  <2>8. Effect(f, g, {ptr}, {})
    BY <2>4, <2>7, FreeBlock DEF g
  <2>9. Good(g) /\ Used(g) = (Used(h) \ {ptr}) \cup {bp} /\ \A b \in Used(f) \ {ptr} : Saved(f, g, b)
    BY <2>3, <2>4, <2>7, <2>8 DEF Effect
  <2>10. ASSUME NEW b \in Used(h) \ {ptr} PROVE Saved(h, g, b)
    <3>1. b \in Used(j) /\ b \in Used(f) /\ b \in Used(g) /\ b # bp
      BY <2>2, <2>3, <2>7, <2>9
    <3>2. b \in Int /\ Size(h, b) \in Int /\ Size(j, b) \in Int /\ Size(f, b) \in Int /\ Size(g, b) \in Int
      BY <2>3, <2>7, <2>9, <3>1, UsedFields
    <3>3. Saved(h, j, b) /\ Saved(j, f, b) /\ Saved(f, g, b)
      BY <2>3, <2>7, <2>9, <3>1, ZenonT(60)
    <3>4. Saved(h, f, b)
      BY <3>2, <3>3, SavedOn
    <3>. QED  BY <3>2, <3>3, <3>4, SavedOn
  <2>11. Effect(h, g, {ptr}, {bp})
    BY <2>9, <2>10 DEF Effect
  <2>12. Saved(f, g, bp) /\ Size(f, bp) = Size(j, bp) /\ Size(g, bp) \in Nat
    BY <2>4, <2>7, <2>9, UsedFields
  <2>13. Size(g, bp) >= n + 1
    BY <2>2, <2>5, <2>12 DEF Saved
  <2>14. ASSUME NEW i \in Nat, i < n, i < m PROVE g.mem[bp + i] = h.mem[ptr + i]
    <3>1. i \in 0..(c - 1)
      BY <2>14
    <3>2. f.mem[bp + i] = j.mem[ptr + i]
      BY <2>7, <3>1
    <3>3. bp + i \in bp..(bp + Size(f, bp) - 2)
      BY <2>5, <2>6, <2>12, <3>1
    <3>4. g.mem[bp + i] = f.mem[bp + i]
      BY <2>12, <3>3 DEF Saved
    <3>5. ptr + i \in ptr..(ptr + Size(h, ptr) - 2)
      BY <2>5, <2>14
    <3>6. j.mem[ptr + i] = h.mem[ptr + i]
      BY <2>3, <3>5 DEF Saved
    <3>. QED  BY <3>2, <3>4, <3>6
  <2>. QED  BY <1>4, <2>1, <2>2, <2>11, <2>13, <2>14, ZenonT(60) DEF Resized, r, bp
<1>. QED  BY <1>3, <1>4

\* A step before it that gives and takes no block does not change what
\* realloc achieves.
LEMMA ResizedAfter ==
  ASSUME NEW h, Good(h), NEW g, Effect(h, g, {}, {}), NEW ptr \in Used(h), NEW n \in Nat, NEW r,
         Resized(g, r, ptr, n, Size(h, ptr) - 1)
  PROVE  Resized(h, r, ptr, n, Size(h, ptr) - 1)
<1>1. Good(g) /\ Used(g) = Used(h) /\ \A b \in Used(h) : Saved(h, g, b)
  BY DEF Effect
<1>2. CASE r.bp = NULL
  <2>1. Effect(h, r.h, {} \cup {}, ({} \ {}) \cup {})
    BY <1>2, Effects DEF Resized
  <2>2. {} \cup {} = {} /\ ({} \ {}) \cup {} = {}
    OBVIOUS
  <2>. QED  BY <1>2, <2>1, <2>2 DEF Resized
<1>3. CASE r.bp # NULL
  <2>. DEFINE j == r.h
              q == r.bp
  <2>1. Effect(g, j, {ptr}, {q}) /\ q \notin Used(g) \ {ptr} /\ Size(j, q) >= n + 1
        /\ \A i \in Nat : i < n /\ i < Size(h, ptr) - 1 => j.mem[q + i] = g.mem[ptr + i]
    BY <1>3 DEF Resized
  <2>. HIDE DEF j, q
  <2>2. Effect(h, j, {} \cup {ptr}, ({} \ {ptr}) \cup {q})
    BY <2>1, Effects
  <2>3. Effect(h, j, {ptr}, {q})
    <3>1. {} \cup {ptr} = {ptr} /\ ({} \ {ptr}) \cup {q} = {q}
      OBVIOUS
    <3>. QED  BY <2>2, <3>1
  <2>4. ASSUME NEW i \in Nat, i < n, i < Size(h, ptr) - 1 PROVE j.mem[q + i] = h.mem[ptr + i]
    <3>1. ptr \in Nat /\ Size(h, ptr) \in Nat
      BY UsedFields
    <3>2. ptr + i \in ptr..(ptr + Size(h, ptr) - 2)
      BY <2>4, <3>1
    <3>3. g.mem[ptr + i] = h.mem[ptr + i]
      BY <1>1, <3>2 DEF Saved
    <3>. QED  BY <2>1, <2>4, <3>3
  <2>. QED  BY <1>1, <1>3, <2>1, <2>3, <2>4, ZenonT(60) DEF Resized, j, q
<1>. QED  BY <1>2, <1>3

\* do_mm_realloc with n > 0 returns NULL and leaves every allocated block as
\* it was, the one at ptr included, although it may have merged its
\* neighbour; or it returns a block that is large enough and has the words of
\* the old one.
LEMMA ReallocBlock ==
  ASSUME Numbers, NEW h, Good(h), policy \in Policies, NEW ptr \in Used(h), NEW n \in Nat, n # 0
  PROVE  Resized(h, do_mm_realloc(h, ptr, n), ptr, n, Size(h, ptr) - 1)
<1>. DEFINE r == do_mm_realloc(h, ptr, n)
            s == block_size(n)
            e == realloc_extend(h, ptr, s)
            g == realloc_merge(e.h, ptr)
            m == Size(h, ptr) - 1
<1>1. s \in Nat /\ s % 2 = 0 /\ s >= MinBlockSize /\ s >= n + 1
  BY BlockSize
<1>2. r = IF e.bp = NULL THEN e
          ELSE IF s <= Size(g, ptr) THEN [bp |-> ptr, h |-> realloc_shrink(g, ptr, s)]
          ELSE realloc_move(g, ptr, n, m)
  BY DEF do_mm_realloc, get_size, header, Size
<1>. HIDE DEF s, r
<1>3. Effect(h, e.h, {}, {}) /\ ptr # NULL
  BY <1>1, ExtendLast
<1>. HIDE DEF e, g
<1>4. CASE e.bp = NULL
  BY <1>2, <1>3, <1>4, ZenonT(60) DEF Resized, r
<1>5. CASE e.bp # NULL
  <2>1. Good(e.h) /\ ptr \in Used(e.h)
    BY <1>3 DEF Effect
  <2>2. Effect(e.h, g, {}, {})
    BY <2>1, MergeNext DEF g
  <2>3. Effect(h, g, {}, {})
    <3>1. Effect(h, g, {} \cup {}, ({} \ {}) \cup {})
      BY <1>3, <2>2, Effects
    <3>2. {} \cup {} = {} /\ ({} \ {}) \cup {} = {}
      OBVIOUS
    <3>. QED  BY <3>1, <3>2
  <2>4. Good(g) /\ ptr \in Used(g) /\ Saved(h, g, ptr)
    BY <2>3 DEF Effect
  <2>5. Size(h, ptr) \in Nat /\ Size(h, ptr) >= 2 /\ Size(g, ptr) \in Nat /\ ptr \in Nat
    BY <2>4, UsedFields
  <2>6. m \in Nat /\ m < Size(g, ptr)
    BY <2>4, <2>5 DEF Saved
  <2>7. Resized(g, r, ptr, n, m)
    <3>. HIDE DEF m
    <3>1. CASE s <= Size(g, ptr)
      <4>. DEFINE f == realloc_shrink(g, ptr, s)
      <4>1. Effect(g, f, {ptr}, {ptr}) /\ Kept(g, f, ptr, s)
        BY <1>1, <2>4, <3>1, Shrink
      <4>2. r.bp = ptr /\ r.h = f
        BY <1>2, <1>5, <3>1
      <4>. HIDE DEF f
      <4>3. Size(f, ptr) \in Nat
        <5>1. Good(f) /\ ptr \in Used(f)
          BY <4>1 DEF Effect
        <5>. QED  BY <5>1, UsedFields
      <4>4. Size(f, ptr) >= n + 1
        BY <1>1, <4>1, <4>3 DEF Kept
      <4>5. ASSUME NEW i \in Nat, i < n PROVE f.mem[ptr + i] = g.mem[ptr + i]
        <5>1. ptr + i \in ptr..(ptr + s - 2)
          BY <1>1, <2>5, <4>5
        <5>. QED  BY <4>1, <5>1 DEF Kept
      <4>. QED  BY <1>3, <4>1, <4>2, <4>4, <4>5 DEF Resized
    <3>2. CASE ~(s <= Size(g, ptr))
      BY <1>2, <1>5, <2>4, <2>6, <3>2, Move
    <3>. QED  BY <3>1, <3>2
  <2>. QED  BY <2>3, <2>7, ResizedAfter DEF r
<1>. QED  BY <1>4, <1>5

-----------------------------------------------------------------------------
(* The callers                                                             *)

\* Whether a heap is good depends on how mm.c was compiled, which does not
\* change.
LEMMA SameBuild ==
  ASSUME policy' = policy, NEW h
  PROVE  Good(h)' <=> Good(h)
<1>1. MinBlockSize' = MinBlockSize
  BY DEF MinBlockSize
<1>2. ASSUME NEW n PROVE list_of(n)' = list_of(n)
  <2>1. segregated_free_list_lower_bound(n)' = segregated_free_list_lower_bound(n)
    BY <1>1 DEF segregated_free_list_lower_bound
  <2>. QED  BY <2>1 DEF list_of
<1>3. ASSUME NEW B PROVE FreeBy(h, B)' = FreeBy(h, B)
  <2>1. \A l \in Classes : {b \in B : Alloc(h, b) = 0 /\ list_of(Size(h, b)) = l}' =
                           {b \in B : Alloc(h, b) = 0 /\ list_of(Size(h, b)) = l}
    BY <1>2
  <2>. QED  BY <2>1 DEF FreeBy
<1>4. ASSUME NEW B PROVE Tiled(h, B)' <=> Tiled(h, B)
  BY <1>1 DEF Tiled
<1>5. ASSUME NEW B PROVE Listed(h, B)' <=> Listed(h, B)
  BY <1>3 DEF Listed
<1>. QED  BY <1>4, <1>5 DEF Good, Sound

\* Each owner holds a block of its own that is large enough and as it left it.
Held(h, lv) ==
  /\ lv \in [Owners -> [ptr : 0..MaxHeap, size : 0..MaxHeap]]
  /\ \A o \in Owners : lv[o] = Free \/ (lv[o].ptr \in Used(h) /\ lv[o].size < Size(h, lv[o].ptr))
  /\ \A o, x \in Owners : o # x /\ lv[o].ptr = lv[x].ptr => lv[o].ptr = NULL
  /\ \A b \in Used(h) : \E o \in Owners : lv[o].ptr = b
  /\ \A o \in Owners : \A k \in 0..(lv[o].size - 1) : h.mem[lv[o].ptr + k] = Data(o, k)

HeapInv == Good(heap) /\ policy \in Policies /\ Held(heap, live)

\* The other owners' blocks are allocated and not the one at ptr.
Others(h, o, ptr) ==
  \A x \in Owners \ {o} :
    /\ live[x].size \in Nat /\ live[x].ptr \in Nat
    /\ live[x].size = 0 \/ (live[x].ptr \in Used(h) /\ live[x].size < Size(h, live[x].ptr) /\ live[x].ptr # ptr)

Stored(h, g, o, ptr, from, size) ==
  /\ Good(g) /\ Used(g) = Used(h) /\ \A b \in Used(h) : Size(g, b) = Size(h, b)
  /\ \A x \in Owners \ {o} : \A k \in 0..(live[x].size - 1) : g.mem[live[x].ptr + k] = h.mem[live[x].ptr + k]
  /\ \A k \in 0..(size - 1) : g.mem[ptr + k] = IF k < from THEN h.mem[ptr + k] ELSE Data(o, k)

\* The stores of an owner into its own block leave a good heap good and the
\* words of the other owners alone.
LEMMA StoreWords ==
  ASSUME Numbers, NEW h, Good(h), NEW o \in Owners, NEW ptr \in Nat, NEW from \in Nat, NEW size \in Nat,
         from <= size, size = 0 \/ (ptr \in Used(h) /\ size < Size(h, ptr)), Others(h, o, ptr)
  PROVE  Stored(h, Store(h, o, ptr, from, size), o, ptr, from, size)
<1>. DEFINE D == 0..(MaxHeap - 1)
            S == (ptr + from)..(ptr + size - 1)
            T == ptr..(ptr + from - 1)
            U == UNION {live[x].ptr..(live[x].ptr + live[x].size - 1) : x \in Owners \ {o}}
            Q == Meaningful(h, o)
            M == [a \in D |-> CASE a \in S -> Data(o, a - ptr)
                                [] a \in T \/ a \in Q -> h.mem[a]
                                [] OTHER -> Junk]
            g == Store(h, o, ptr, from, size)
<1>1. Tiled(h, Blocks(h)) /\ h \in Heaps /\ h.mem \in [D -> Words] /\ MaxHeap \in Nat
  BY GoodBlocks, Geometry DEF Heaps
<1>2. Q = Marks(h) \cup U
  <2>1. \A b \in Blocks(h) : b \in Nat /\ Size(h, b) \in Nat
    BY <1>1, Geometry
  <2>2. \A b \in Blocks(h) : footer(h, b) = b + Size(h, b) - 2 /\ header(b) = b - 1
                             /\ get_alloc(h, header(b)) = Alloc(h, b)
    BY <2>1 DEF footer, header, get_size, get_alloc, Size, Alloc
  <2>3. FreeBlocks(h) = {b \in Blocks(h) : get_alloc(h, header(b)) = 0}
    BY <2>2 DEF FreeBlocks
  <2>4. {b - 1 : b \in Blocks(h)} = {header(b) : b \in Blocks(h)}
    BY <2>2
  <2>5. {b + Size(h, b) - 2 : b \in FreeBlocks(h)} = {footer(h, b) : b \in FreeBlocks(h)}
    BY <2>2, <2>3
  <2>6. Q = {1, header(h.tail)} \cup {header(b) : b \in Blocks(h)}
              \cup {footer(h, b) : b \in {b \in Blocks(h) : get_alloc(h, header(b)) = 0}} \cup U
    BY DEF Meaningful
  <2>. HIDE DEF Q, U
  <2>. QED  BY <2>3, <2>4, <2>5, <2>6, ZenonT(60) DEF Marks, header
<1>3. ASSUME NEW a \in ptr..(ptr + size - 1) PROVE a \in ptr..(ptr + Size(h, ptr) - 2) /\ ptr \in Used(h)
  <2>1. ptr \in Used(h) /\ size < Size(h, ptr)
    BY <1>3
  <2>2. Size(h, ptr) \in Nat
    BY <2>1, UsedFields
  <2>. QED  BY <2>1, <2>2
<1>4. \A a \in ptr..(ptr + size - 1) :
        a \notin Marks(h) /\ a \in D /\ \A c \in Used(h) : c # ptr => a \notin c..(c + Size(h, c) - 2)
  BY <1>3, OwnWords
<1>5. ASSUME NEW x \in Owners \ {o}, NEW a \in live[x].ptr..(live[x].ptr + live[x].size - 1)
      PROVE  a \in D /\ a \notin S /\ a \in Q
  <2>1. live[x].ptr \in Nat /\ live[x].size \in Nat
    BY DEF Others
  <2>2. live[x].ptr \in Used(h) /\ live[x].size < Size(h, live[x].ptr) /\ live[x].ptr # ptr
    BY <2>1, <1>5 DEF Others
  <2>. DEFINE c == live[x].ptr
  <2>3. a \in c..(c + Size(h, c) - 2)
    <3>1. Size(h, c) \in Nat
      BY <2>2, UsedFields
    <3>. QED  BY <1>5, <2>1, <2>2, <3>1
  <2>. HIDE DEF c
  <2>4. c \in Used(h) /\ c # ptr
    BY <2>2 DEF c
  <2>5. a \in D
    BY <2>3, <2>4, OwnWords
  <2>6. a \notin ptr..(ptr + size - 1)
    BY <1>4, <2>3, <2>4
  <2>7. a \notin S
    <3>1. S \subseteq ptr..(ptr + size - 1)
      OBVIOUS
    <3>. QED  BY <2>6, <3>1
  <2>8. a \in U
    OBVIOUS
  <2>. QED  BY <1>2, <2>5, <2>7, <2>8
<1>6. Junk \in Words /\ \A a \in S : Data(o, a - ptr) \in Words
  <2>1. Junk \in Words
    BY HeapAssumption DEF Junk, Data, Words
  <2>2. ASSUME NEW a \in S PROVE Data(o, a - ptr) \in Words
    <3>1. a \in D
      BY <1>4
    <3>2. a - ptr \in 0..MaxHeap
      BY <1>1, <3>1
    <3>. QED  BY <3>2, HeapAssumption DEF Data, Words, Owners
  <2>. QED  BY <2>1, <2>2
<1>7. g = [h EXCEPT !.mem = M]
  BY <1>1 DEF Store
<1>. HIDE DEF S, T, Q, D, U
<1>8. M \in [D -> Words]
  BY <1>1, <1>6
<1>. HIDE DEF M
<1>9. g \in Heaps /\ g.mem = M /\ g.tail = h.tail /\ g.brk = h.brk /\ g.lists = h.lists
  BY <1>1, <1>7, <1>8, ZenonT(60) DEF Heaps, D
<1>. HIDE DEF g
<1>10. \A k \in D : k \notin S /\ k \in Q => g.mem[k] = h.mem[k]
  BY <1>9 DEF M
<1>11. \A k \in Marks(h) : k \in D
  <2>1. h.tail - 1 \in D /\ 1 \in D
    BY <1>1, Geometry DEF D
  <2>2. \A b \in Blocks(h) : b - 1 \in D /\ b + Size(h, b) - 2 \in D
    BY <1>1, Geometry DEF D
  <2>. QED  BY <2>1, <2>2 DEF Marks, FreeBlocks
<1>12. S \subseteq ptr..(ptr + size - 1)
  BY DEF S
<1>13. Scribbled(h, g)
  BY <1>2, <1>4, <1>9, <1>10, <1>11, <1>12, ZenonT(60) DEF Scribbled
<1>14. Good(g) /\ Used(g) = Used(h) /\ \A b \in Used(h) : Size(g, b) = Size(h, b)
  BY <1>13, Scribble DEF Used
<1>15. ASSUME NEW x \in Owners \ {o}, NEW k \in 0..(live[x].size - 1)
       PROVE  g.mem[live[x].ptr + k] = h.mem[live[x].ptr + k]
  <2>1. live[x].ptr + k \in live[x].ptr..(live[x].ptr + live[x].size - 1)
    BY DEF Others
  <2>. QED  BY <1>5, <1>10, <2>1, ZenonT(60)
<1>16. ASSUME NEW k \in 0..(size - 1)
       PROVE  g.mem[ptr + k] = IF k < from THEN h.mem[ptr + k] ELSE Data(o, k)
  <2>1. ptr + k \in ptr..(ptr + size - 1) /\ (ptr + k) - ptr = k
    OBVIOUS
  <2>2. ptr + k \in D
    BY <1>4, <2>1
  <2>3. k < from => ptr + k \notin S /\ ptr + k \in T
    BY DEF S, T
  <2>4. ~(k < from) => ptr + k \in S
    BY DEF S
  <2>. DEFINE a == ptr + k
  <2>. HIDE DEF a
  <2>5. a \in D /\ a - ptr = k /\ (k < from => a \notin S /\ a \in T) /\ (~(k < from) => a \in S)
    BY <2>1, <2>2, <2>3, <2>4 DEF a
  <2>6. g.mem[a] = IF k < from THEN h.mem[a] ELSE Data(o, k)
    <3>1. CASE k < from
      <4>1. a \in D /\ a \notin S /\ a \in T
        BY <2>5, <3>1
      <4>2. M[a] = h.mem[a]
        BY <4>1 DEF M
      <4>. QED  BY <1>9, <3>1, <4>2
    <3>2. CASE ~(k < from)
      <4>1. a \in D /\ a \in S /\ a - ptr = k
        BY <2>5, <3>2
      <4>2. a \notin T
        BY <4>1 DEF S, T
      <4>3. a \notin Marks(h)
        BY <1>4, <1>12, <4>1
      <4>4. a \notin U
        BY <1>5, <4>1 DEF U
      <4>5. M[a] = Data(o, a - ptr)
        BY <1>2, <4>1, <4>2, <4>3, <4>4 DEF M
      <4>. QED  BY <1>9, <3>2, <4>1, <4>5
    <3>. QED  BY <3>1, <3>2
  <2>. QED  BY <2>6 DEF a
<1>. QED  BY <1>14, <1>15, <1>16, ZenonT(60) DEF Stored, g

-----------------------------------------------------------------------------
(* What a call changes for its caller and the others                       *)

\* No allocated block is at NULL, and places and sizes are in range.
LEMMA UsedNotNull ==
  ASSUME NEW h, Good(h)
  PROVE  NULL \notin Used(h) /\ \A b \in Used(h) : b \in Nat /\ b \in 0..MaxHeap /\ Size(h, b) \in 0..MaxHeap
BY UsedFields, HeapAssumption DEF NULL

\* What the other owners hold, behind a call of owner o.
OthersHeld(j, o) ==
  \A x \in Owners \ {o} :
    \/ live[x] = Free
    \/ /\ live[x].ptr \in Used(heap) \ {live[o].ptr} /\ live[x].ptr \in Used(j)
       /\ live[x].size < Size(j, live[x].ptr)
       /\ \A k \in 0..(live[x].size - 1) : j.mem[live[x].ptr + k] = Data(x, k)

\* A call of one owner leaves what the others hold.
LEMMA OthersUntouched ==
  ASSUME HeapInv, NEW o \in Owners, NEW j, NEW Y, Effect(heap, j, {live[o].ptr}, Y)
  PROVE  OthersHeld(j, o)
<1>1. Good(heap) /\ Held(heap, live)
  BY DEF HeapInv
<1>2. Good(j) /\ Used(j) = (Used(heap) \ {live[o].ptr}) \cup Y
      /\ \A b \in Used(heap) \ {live[o].ptr} : Saved(heap, j, b)
  BY DEF Effect
<1>3. ASSUME NEW x \in Owners \ {o}, live[x] # Free
      PROVE  /\ live[x].ptr \in Used(heap) \ {live[o].ptr} /\ live[x].ptr \in Used(j)
             /\ live[x].size < Size(j, live[x].ptr)
             /\ \A k \in 0..(live[x].size - 1) : j.mem[live[x].ptr + k] = Data(x, k)
  <2>. DEFINE p == live[x].ptr
              n == live[x].size
  <2>1. p \in Used(heap) /\ n < Size(heap, p)
    BY <1>1, <1>3, ZenonT(60) DEF Held
  <2>2. p # NULL
    BY <1>1, <2>1, UsedNotNull
  <2>3. p # live[o].ptr
    BY <1>1, <2>2 DEF Held
  <2>4. Saved(heap, j, p) /\ p \in Used(j)
    BY <1>2, <2>1, <2>3
  <2>5. n \in Nat /\ p \in Nat /\ Size(heap, p) \in Nat
    <3>1. n \in 0..MaxHeap
      BY <1>1 DEF Held
    <3>. QED  BY <1>1, <2>1, <3>1, UsedNotNull, HeapAssumption
  <2>6. Size(j, p) \in Nat
    BY <1>2, <2>4, UsedNotNull, HeapAssumption
  <2>7. n < Size(j, p)
    BY <2>1, <2>4, <2>5, <2>6 DEF Saved
  <2>8. ASSUME NEW k \in 0..(n - 1) PROVE j.mem[p + k] = Data(x, k)
    <3>1. heap.mem[p + k] = Data(x, k)
      BY <1>1 DEF Held
    <3>2. p + k \in p..(p + Size(heap, p) - 2)
      BY <2>1, <2>5
    <3>3. j.mem[p + k] = heap.mem[p + k]
      BY <2>4, <3>2 DEF Saved
    <3>. QED  BY <3>1, <3>3
  <2>. QED  BY <2>1, <2>3, <2>4, <2>7, <2>8, ZenonT(60)
<1>. QED  BY <1>3 DEF OthersHeld

\* What the others hold is apart from a block that is new to an owner.
LEMMA OthersFor ==
  ASSUME HeapInv, NEW o \in Owners, NEW j, OthersHeld(j, o), NEW bp, bp \notin Used(heap) \ {live[o].ptr}
  PROVE  Others(j, o, bp)
<1>1. \A x \in Owners : live[x].size \in Nat /\ live[x].ptr \in Nat
  BY HeapAssumption DEF HeapInv, Held
<1>2. \A x \in Owners : live[x] = Free => live[x].size = 0
  BY DEF Free
<1>. QED  BY <1>1, <1>2 DEF Others, OthersHeld

\* An owner that gets the block bp for the one it had, if any, with the words
\* it has kept, and stores the others.
LEMMA Retake ==
  ASSUME Numbers, HeapInv, NEW o \in Owners, NEW j, NEW bp, Effect(heap, j, {live[o].ptr}, {bp}),
         bp \notin Used(heap) \ {live[o].ptr}, NEW n \in Nat, n < Size(j, bp),
         NEW kept \in Nat, kept <= n, \A k \in 0..(kept - 1) : j.mem[bp + k] = Data(o, k)
  PROVE  /\ Good(Store(j, o, bp, kept, n))
         /\ Held(Store(j, o, bp, kept, n), [live EXCEPT ![o] = [ptr |-> bp, size |-> n]])
<1>. DEFINE g == Store(j, o, bp, kept, n)
            lv == [live EXCEPT ![o] = [ptr |-> bp, size |-> n]]
<1>1. Good(heap) /\ Held(heap, live)
  BY ZenonT(60) DEF HeapInv
<1>2. Good(j) /\ Used(j) = (Used(heap) \ {live[o].ptr}) \cup {bp}
  BY DEF Effect
<1>3. bp \in Used(j) /\ bp # NULL /\ bp \in Nat /\ bp \in 0..MaxHeap /\ Size(j, bp) \in 0..MaxHeap
  BY <1>2, UsedNotNull, ZenonT(60)
<1>4. OthersHeld(j, o)
  BY OthersUntouched, ZenonT(60)
<1>5. Others(j, o, bp)
  BY <1>4, OthersFor
<1>6. Stored(j, g, o, bp, kept, n)
  BY <1>2, <1>3, <1>5, StoreWords, ZenonT(60)
<1>. HIDE DEF g
<1>7. Good(g) /\ Used(g) = Used(j) /\ \A b \in Used(j) : Size(g, b) = Size(j, b)
  BY <1>6, ZenonT(60) DEF Stored
<1>8. lv \in [Owners -> [ptr : 0..MaxHeap, size : 0..MaxHeap]]
  <2>1. n \in 0..MaxHeap
    BY <1>3, HeapAssumption
  <2>. QED  BY <1>1, <1>3, <2>1, ZenonT(60) DEF Held
<1>9. lv[o] = [ptr |-> bp, size |-> n] /\ \A x \in Owners : x # o => lv[x] = live[x]
  BY <1>1, ZenonT(60) DEF Held
<1>. HIDE DEF lv
<1>10. \A x \in Owners : lv[x] = Free \/ (lv[x].ptr \in Used(g) /\ lv[x].size < Size(g, lv[x].ptr))
  <2>1. lv[o].ptr \in Used(g) /\ lv[o].size < Size(g, lv[o].ptr)
    BY <1>3, <1>7, <1>9
  <2>2. \A x \in Owners \ {o} : lv[x] = Free \/ (lv[x].ptr \in Used(g) /\ lv[x].size < Size(g, lv[x].ptr))
    BY <1>4, <1>7, <1>9, ZenonT(60) DEF OthersHeld
  <2>. QED  BY <2>1, <2>2, ZenonT(60)
<1>11. \A x, y \in Owners : x # y /\ lv[x].ptr = lv[y].ptr => lv[x].ptr = NULL
  <2>1. \A x \in Owners \ {o} : lv[x].ptr # bp
    <3>1. \A x \in Owners \ {o} : live[x] = Free => live[x].ptr # bp
      BY <1>3 DEF Free
    <3>2. \A x \in Owners \ {o} : live[x] # Free => live[x].ptr # bp
      BY <1>4 DEF OthersHeld
    <3>. QED  BY <1>9, <3>1, <3>2
  <2>2. lv[o].ptr = bp
    BY <1>9
  <2>3. \A x, y \in Owners \ {o} : x # y /\ lv[x].ptr = lv[y].ptr => lv[x].ptr = NULL
    BY <1>1, <1>9 DEF Held
  <2>. QED  BY <2>1, <2>2, <2>3, ZenonT(60)
<1>12. \A b \in Used(g) : \E x \in Owners : lv[x].ptr = b
  <2>1. lv[o].ptr = bp
    BY <1>9
  <2>2. ASSUME NEW b \in Used(heap) \ {live[o].ptr} PROVE \E x \in Owners : lv[x].ptr = b
    <3>1. PICK x \in Owners : live[x].ptr = b
      BY <1>1 DEF Held
    <3>2. lv[x].ptr = b
      BY <1>9, <2>2, <3>1
    <3>. QED  BY <3>2
  <2>. QED  BY <1>2, <1>7, <2>1, <2>2
<1>13. \A x \in Owners : \A k \in 0..(lv[x].size - 1) : g.mem[lv[x].ptr + k] = Data(x, k)
  <2>1. ASSUME NEW k \in 0..(n - 1) PROVE g.mem[bp + k] = Data(o, k)
    <3>1. g.mem[bp + k] = IF k < kept THEN j.mem[bp + k] ELSE Data(o, k)
      BY <1>6, ZenonT(60) DEF Stored
    <3>2. k < kept => k \in 0..(kept - 1)
      OBVIOUS
    <3>. QED  BY <3>1, <3>2
  <2>2. ASSUME NEW x \in Owners \ {o}, NEW k \in 0..(live[x].size - 1) PROVE g.mem[live[x].ptr + k] = Data(x, k)
    <3>1. g.mem[live[x].ptr + k] = j.mem[live[x].ptr + k]
      BY <1>6, ZenonT(60) DEF Stored
    <3>2. live[x] # Free
      BY <2>2 DEF Free
    <3>3. j.mem[live[x].ptr + k] = Data(x, k)
      BY <1>4, <3>2 DEF OthersHeld
    <3>. QED  BY <3>1, <3>3
  <2>3. ASSUME NEW k \in 0..(lv[o].size - 1) PROVE g.mem[lv[o].ptr + k] = Data(o, k)
    BY <1>9, <2>1
  <2>4. ASSUME NEW x \in Owners \ {o}, NEW k \in 0..(lv[x].size - 1) PROVE g.mem[lv[x].ptr + k] = Data(x, k)
    BY <1>9, <2>2, ZenonT(60)
  <2>. QED  BY <2>3, <2>4, ZenonT(60)
<1>14. Held(g, lv)
  BY <1>8, <1>10, <1>11, <1>12, <1>13, ZenonT(60) DEF Held
<1>. QED  BY <1>7, <1>14, ZenonT(60) DEF g, lv

\* An owner that has given its block back.
LEMMA GiveBack ==
  ASSUME Numbers, HeapInv, NEW o \in Owners, live[o] # Free, NEW j, Effect(heap, j, {live[o].ptr}, {})
  PROVE  /\ Good(Store(j, o, NULL, 0, 0))
         /\ Held(Store(j, o, NULL, 0, 0), [live EXCEPT ![o] = Free])
<1>. DEFINE g == Store(j, o, NULL, 0, 0)
            lv == [live EXCEPT ![o] = Free]
<1>1. Good(heap) /\ Held(heap, live)
  BY DEF HeapInv
<1>2. Good(j) /\ Used(j) = Used(heap) \ {live[o].ptr}
  BY DEF Effect
<1>3. OthersHeld(j, o)
  BY OthersUntouched
<1>4. NULL \notin Used(heap) /\ NULL \in Nat
  BY <1>1, UsedNotNull DEF NULL
<1>5. Others(j, o, NULL)
  BY <1>3, <1>4, OthersFor
<1>6. Stored(j, g, o, NULL, 0, 0)
  BY <1>2, <1>4, <1>5, StoreWords
<1>. HIDE DEF g
<1>7. Good(g) /\ Used(g) = Used(j) /\ \A b \in Used(j) : Size(g, b) = Size(j, b)
  BY <1>6, ZenonT(60) DEF Stored
<1>8. lv \in [Owners -> [ptr : 0..MaxHeap, size : 0..MaxHeap]]
  BY <1>1, HeapAssumption DEF Held, Free, NULL
<1>9. lv[o] = Free /\ \A x \in Owners : x # o => lv[x] = live[x]
  BY <1>1, ZenonT(60) DEF Held
<1>. HIDE DEF lv
<1>10. \A x \in Owners : lv[x] = Free \/ (lv[x].ptr \in Used(g) /\ lv[x].size < Size(g, lv[x].ptr))
  BY <1>3, <1>7, <1>9, ZenonT(60) DEF OthersHeld
<1>11. \A x, y \in Owners : x # y /\ lv[x].ptr = lv[y].ptr => lv[x].ptr = NULL
  <2>1. lv[o].ptr = NULL
    BY <1>9 DEF Free
  <2>2. \A x, y \in Owners \ {o} : x # y /\ lv[x].ptr = lv[y].ptr => lv[x].ptr = NULL
    BY <1>1, <1>9 DEF Held
  <2>. QED  BY <2>1, <2>2
<1>12. \A b \in Used(g) : \E x \in Owners : lv[x].ptr = b
  <2>1. ASSUME NEW b \in Used(heap) \ {live[o].ptr} PROVE \E x \in Owners : lv[x].ptr = b
    <3>1. PICK x \in Owners : live[x].ptr = b
      BY <1>1, ZenonT(60) DEF Held
    <3>2. lv[x].ptr = b
      BY <1>9, <2>1, <3>1, ZenonT(60)
    <3>. QED  BY <3>2
  <2>. QED  BY <1>2, <1>7, <2>1, ZenonT(60)
<1>13. \A x \in Owners : \A k \in 0..(lv[x].size - 1) : g.mem[lv[x].ptr + k] = Data(x, k)
  <2>1. ASSUME NEW x \in Owners \ {o}, NEW k \in 0..(live[x].size - 1) PROVE g.mem[live[x].ptr + k] = Data(x, k)
    <3>1. g.mem[live[x].ptr + k] = j.mem[live[x].ptr + k]
      BY <1>6 DEF Stored
    <3>2. live[x] # Free
      BY <2>1 DEF Free
    <3>3. j.mem[live[x].ptr + k] = Data(x, k)
      BY <1>3, <3>2 DEF OthersHeld
    <3>. QED  BY <3>1, <3>3
  <2>2. \A k \in 0..(lv[o].size - 1) : FALSE
    BY <1>9 DEF Free
  <2>3. ASSUME NEW x \in Owners \ {o}, NEW k \in 0..(lv[x].size - 1) PROVE g.mem[lv[x].ptr + k] = Data(x, k)
    BY <1>9, <2>1
  <2>. QED  BY <2>2, <2>3
<1>14. Held(g, lv)
  BY <1>8, <1>10, <1>11, <1>12, <1>13, ZenonT(60) DEF Held
<1>. QED  BY <1>7, <1>14 DEF g, lv

\* A call that fails changes nothing that an owner can see.
LEMMA FailedCall ==
  ASSUME HeapInv, NEW j, Effect(heap, j, {}, {})
  PROVE  Good(j) /\ Held(j, live)
<1>1. Good(heap) /\ Held(heap, live)
  BY DEF HeapInv
<1>2. Good(j) /\ Used(j) = Used(heap) /\ \A b \in Used(heap) : Saved(heap, j, b)
  BY DEF Effect
<1>3. ASSUME NEW x \in Owners, live[x] # Free
      PROVE  live[x].ptr \in Used(j) /\ live[x].size < Size(j, live[x].ptr)
             /\ \A k \in 0..(live[x].size - 1) : j.mem[live[x].ptr + k] = Data(x, k)
  <2>. DEFINE p == live[x].ptr
              n == live[x].size
  <2>1. p \in Used(heap) /\ n < Size(heap, p) /\ p \in Used(j) /\ Saved(heap, j, p)
    BY <1>1, <1>2, <1>3, ZenonT(60) DEF Held
  <2>2. n \in Nat /\ p \in Nat /\ Size(heap, p) \in Nat /\ Size(j, p) \in Nat
    <3>1. n \in 0..MaxHeap
      BY <1>1 DEF Held
    <3>. QED  BY <1>1, <1>2, <2>1, <3>1, UsedNotNull, HeapAssumption
  <2>3. n < Size(j, p)
    BY <2>1, <2>2 DEF Saved
  <2>4. ASSUME NEW k \in 0..(n - 1) PROVE j.mem[p + k] = Data(x, k)
    <3>1. heap.mem[p + k] = Data(x, k)
      BY <1>1, ZenonT(60) DEF Held
    <3>2. p + k \in p..(p + Size(heap, p) - 2)
      BY <2>1, <2>2
    <3>. QED  BY <2>1, <3>1, <3>2, ZenonT(60) DEF Saved
  <2>. QED  BY <2>1, <2>3, <2>4, ZenonT(60)
<1>4. \A x \in Owners : live[x] = Free => \A k \in 0..(live[x].size - 1) : FALSE
  BY DEF Free
<1>. QED  BY <1>1, <1>2, <1>3, <1>4, ZenonT(60) DEF Held

-----------------------------------------------------------------------------
(* The inductive invariant                                                 *)

\* do_mm_init leaves a good heap without blocks.
LEMMA InitGood ==
  ASSUME Numbers, Init
  PROVE  HeapInv
<1>. DEFINE D == 0..(MaxHeap - 1)
            M == [a \in D |-> CASE a = 1 -> Meta(2, 1, 1) [] a = 3 -> Meta(0, 1, 1) [] OTHER -> Junk]
<1>1. heap = [mem |-> M, brk |-> 4, tail |-> 4, lists |-> [l \in 0..(NumLists - 1) |-> <<>>]]
      /\ policy \in Policies /\ live = [o \in Owners |-> Free]
  BY DEF Init
<1>2. 1 \in D /\ 3 \in D /\ MaxHeap \in Nat /\ MaxHeap >= 4
  BY HeapAssumption
<1>3. Meta(2, 1, 1) \in Metas /\ Meta(0, 1, 1) \in Metas
  BY <1>2 DEF Meta, Metas
<1>4. Junk \in Words
  BY HeapAssumption DEF Junk, Data, Words
<1>. HIDE DEF D
<1>5. M \in [D -> Words]
  BY <1>3, <1>4, MetaWords
<1>6. M[1] = Meta(2, 1, 1) /\ M[3] = Meta(0, 1, 1)
  BY <1>2
<1>. HIDE DEF M
<1>7. heap \in Heaps
  BY <1>1, <1>2, <1>5, HeapAssumption DEF Heaps, D
<1>8. heap.mem[1] = Meta(2, 1, 1) /\ heap.mem[4 - 1] = Meta(0, 1, 1) /\ heap.tail = 4 /\ heap.brk = 4
  BY <1>1, <1>6
<1>9. Tiled(heap, {})
  BY <1>3, <1>7, <1>8 DEF Tiled, Meta
<1>10. Sound(heap, {}, {})
  BY <1>8, <1>9 DEF Sound, Bits, Prev, Meta
<1>11. Listed(heap, {})
  <2>1. \A l \in Classes : heap.lists[l] = <<>>
    BY <1>1 DEF Classes
  <2>2. IsInjective(<<>>) /\ Range(<<>>) = {}
    BY DEF IsInjective, Range
  <2>3. \A l \in Classes : FreeBy(heap, {})[l] = {}
    BY DEF FreeBy
  <2>. QED  BY <2>1, <2>2, <2>3, ZenonT(60) DEF Listed, ListsAre
<1>12. Good(heap) /\ Blocks(heap) = {}
  BY <1>10, <1>11, GoodFrom
<1>13. Used(heap) = {}
  BY <1>12 DEF Used
<1>14. Held(heap, live)
  <2>1. \A o \in Owners : live[o] = Free
    BY <1>1
  <2>2. Free \in [ptr : 0..MaxHeap, size : 0..MaxHeap] /\ Free.ptr = NULL /\ Free.size = 0
    BY <1>2 DEF Free, NULL
  <2>3. live \in [Owners -> [ptr : 0..MaxHeap, size : 0..MaxHeap]]
    BY <1>1, <2>2
  <2>4. \A o \in Owners : \A k \in 0..(live[o].size - 1) : FALSE
    BY <2>1, <2>2
  <2>. QED  BY <1>13, <2>1, <2>2, <2>3, <2>4 DEF Held
<1>. QED  BY <1>1, <1>12, <1>14 DEF HeapInv

\* A good heap whose owners hold what they should is the invariant's next
\* state.
LEMMA NextState ==
  ASSUME NEW g, Good(g), NEW lv, Held(g, lv), policy \in Policies,
         heap' = g, live' = lv, UNCHANGED policy
  PROVE  HeapInv'
<1>1. Good(heap)'
  BY SameBuild
<1>2. Held(heap, live)'
  BY ZenonT(60) DEF Held
<1>. QED  BY <1>1, <1>2 DEF HeapInv

\* A call of an owner without a block frees none.
LEMMA NothingGone ==
  ASSUME HeapInv, NEW o \in Owners, live[o] = Free, NEW j, NEW Y, Effect(heap, j, {}, Y)
  PROVE  Effect(heap, j, {live[o].ptr}, Y) /\ Used(heap) \ {live[o].ptr} = Used(heap)
<1>1. live[o].ptr = NULL
  BY DEF Free
<1>2. NULL \notin Used(heap)
  BY UsedNotNull DEF HeapInv
<1>. QED  BY <1>1, <1>2 DEF Effect

\* mm_malloc keeps the invariant.
LEMMA MallocKeeps ==
  ASSUME Numbers, HeapInv, NEW n \in Requests, Malloc(n)
  PROVE  HeapInv'
<1>. DEFINE r == do_mm_malloc(heap, n)
            o == Min(Unused)
<1>1. Good(heap) /\ policy \in Policies /\ n \in Nat
  BY HeapAssumption DEF HeapInv
<1>2. NewBlock(heap, r, n)
  BY <1>1, MallocBlock
<1>3. /\ Unused # {} /\ UNCHANGED policy
      /\ IF r.bp = NULL THEN heap' = r.h /\ UNCHANGED live
         ELSE heap' = Store(r.h, o, r.bp, 0, n) /\ live' = [live EXCEPT ![o] = [ptr |-> r.bp, size |-> n]]
  BY DEF Malloc
<1>4. o \in Owners /\ live[o] = Free
  <2>1. Unused \subseteq Nat
    BY DEF Unused, Owners
  <2>2. o \in Unused
    BY <1>3, <2>1, MinOf, ZenonT(60)
  <2>. HIDE DEF o
  <2>. QED  BY <2>2 DEF Unused
<1>. HIDE DEF r, o
<1>5. CASE r.bp = NULL
  <2>1. Good(r.h) /\ Held(r.h, live)
    BY <1>2, <1>5, FailedCall DEF NewBlock
  <2>. QED  BY <1>1, <1>3, <1>5, <2>1, NextState
<1>6. CASE r.bp # NULL
  <2>. DEFINE j == r.h
              bp == r.bp
              g == Store(j, o, bp, 0, n)
              lv == [live EXCEPT ![o] = [ptr |-> bp, size |-> n]]
  <2>1. Effect(heap, j, {}, {bp}) /\ bp \notin Used(heap) /\ Size(j, bp) >= n + 1
    BY <1>2, <1>6 DEF NewBlock
  <2>2. heap' = g /\ live' = lv
    BY <1>3, <1>6
  <2>. HIDE DEF j, bp
  <2>3. Effect(heap, j, {live[o].ptr}, {bp}) /\ bp \notin Used(heap) \ {live[o].ptr}
    BY <1>4, <2>1, NothingGone
  <2>4. n < Size(j, bp)
    <3>1. Good(j) /\ bp \in Used(j)
      BY <2>1 DEF Effect
    <3>2. Size(j, bp) \in Nat
      BY <3>1, UsedNotNull, HeapAssumption
    <3>. QED  BY <1>1, <2>1, <3>2
  <2>5. Good(g) /\ Held(g, lv)
    <3>1. 0 \in Nat /\ 0 <= n /\ \A k \in 0..(0 - 1) : j.mem[bp + k] = Data(o, k)
      BY <1>1
    <3>. QED  BY <1>1, <1>4, <2>3, <2>4, <3>1, Retake, ZenonT(60)
  <2>. HIDE DEF g, lv
  <2>. QED  BY <1>1, <1>3, <2>2, <2>5, NextState
<1>. QED  BY <1>5, <1>6

\* mm_free keeps the invariant.
LEMMA ReleaseKeeps ==
  ASSUME Numbers, HeapInv, NEW o \in Owners, Release(o)
  PROVE  HeapInv'
<1>. DEFINE j == do_mm_free(heap, live[o].ptr)
            g == Store(j, o, NULL, 0, 0)
            lv == [live EXCEPT ![o] = Free]
<1>1. Good(heap) /\ policy \in Policies /\ live[o] # Free
  BY DEF HeapInv, Release
<1>2. live[o].ptr \in Used(heap)
  BY <1>1 DEF HeapInv, Held
<1>3. Effect(heap, j, {live[o].ptr}, {})
  BY <1>1, <1>2, FreeBlock
<1>4. heap' = g /\ live' = lv /\ UNCHANGED policy
  BY DEF Release
<1>. HIDE DEF j
<1>5. Good(g) /\ Held(g, lv)
  BY <1>1, <1>3, GiveBack
<1>. HIDE DEF g, lv
<1>. QED  BY <1>1, <1>4, <1>5, NextState

\* mm_realloc keeps the invariant.
LEMMA ReallocKeeps ==
  ASSUME Numbers, HeapInv, NEW o \in Owners, NEW n \in Requests, Realloc(o, n)
  PROVE  HeapInv'
<1>. DEFINE p == live[o].ptr
            r == do_mm_realloc(heap, p, n)
            kept == IF n < live[o].size THEN n ELSE live[o].size
<1>1. Good(heap) /\ policy \in Policies /\ live[o] # Free /\ n \in Nat /\ UNCHANGED policy
  BY HeapAssumption DEF HeapInv, Realloc
<1>2. /\ p \in Used(heap) /\ live[o].size < Size(heap, p) /\ live[o].size \in 0..MaxHeap
      /\ \A k \in 0..(live[o].size - 1) : heap.mem[p + k] = Data(o, k)
  BY <1>1, ZenonT(60) DEF HeapInv, Held
<1>3. p \in Nat /\ live[o].size \in Nat /\ Size(heap, p) \in Nat
  BY <1>1, <1>2, UsedNotNull, HeapAssumption
<1>4. CASE n = 0
  <2>. DEFINE j == do_mm_free(heap, p)
              g == Store(j, o, NULL, 0, 0)
              lv == [live EXCEPT ![o] = Free]
  <2>1. r = [bp |-> NULL, h |-> j]
    BY <1>4 DEF do_mm_realloc
  <2>2. heap' = g /\ live' = lv
    BY <1>4, <2>1 DEF Realloc
  <2>3. Effect(heap, j, {p}, {})
    BY <1>1, <1>2, FreeBlock, ZenonT(60)
  <2>. HIDE DEF j
  <2>4. Good(g) /\ Held(g, lv)
    BY <1>1, <2>3, GiveBack
  <2>. HIDE DEF g, lv
  <2>. QED  BY <1>1, <2>2, <2>4, NextState
<1>5. ASSUME n # 0 PROVE HeapInv'
  <2>1. Resized(heap, r, p, n, Size(heap, p) - 1)
    BY <1>1, <1>2, <1>5, ReallocBlock, ZenonT(60)
  <2>2. /\ r.bp = NULL => heap' = r.h /\ UNCHANGED live
        /\ r.bp # NULL => /\ heap' = Store(r.h, o, r.bp, kept, n)
                          /\ live' = [live EXCEPT ![o] = [ptr |-> r.bp, size |-> n]]
    BY <1>5 DEF Realloc
  <2>. HIDE DEF r
  <2>3. CASE r.bp = NULL
    <3>1. Good(r.h) /\ Held(r.h, live)
      BY <2>1, <2>3, FailedCall, ZenonT(60) DEF Resized
    <3>. QED  BY <1>1, <2>2, <2>3, <3>1, NextState
  <2>4. CASE r.bp # NULL
    <3>. DEFINE j == r.h
                bp == r.bp
                g == Store(j, o, bp, kept, n)
                lv == [live EXCEPT ![o] = [ptr |-> bp, size |-> n]]
    <3>1. /\ Effect(heap, j, {p}, {bp}) /\ bp \notin Used(heap) \ {p} /\ Size(j, bp) >= n + 1
          /\ \A i \in Nat : i < n /\ i < Size(heap, p) - 1 => j.mem[bp + i] = heap.mem[p + i]
      BY <2>1, <2>4, ZenonT(60) DEF Resized
    <3>2. heap' = g /\ live' = lv
      BY <2>2, <2>4
    <3>. HIDE DEF j, bp
    <3>3. n < Size(j, bp)
      <4>1. Good(j) /\ bp \in Used(j)
        BY <3>1, ZenonT(60) DEF Effect
      <4>2. Size(j, bp) \in Nat
        BY <4>1, UsedNotNull, HeapAssumption
      <4>. QED  BY <1>1, <3>1, <4>2
    <3>4. kept \in Nat /\ kept <= n /\ kept <= live[o].size
      BY <1>1, <1>3
    <3>. HIDE DEF kept
    <3>5. ASSUME NEW k \in 0..(kept - 1) PROVE j.mem[bp + k] = Data(o, k)
      <4>1. k \in Nat /\ k < n /\ k < Size(heap, p) - 1 /\ k \in 0..(live[o].size - 1)
        BY <1>1, <1>2, <1>3, <3>4
      <4>. QED  BY <1>2, <3>1, <4>1, ZenonT(60)
    <3>6. Good(g) /\ Held(g, lv)
      BY <1>1, <3>1, <3>3, <3>4, <3>5, Retake, ZenonT(60)
    <3>. HIDE DEF g, lv
    <3>. QED  BY <1>1, <3>2, <3>6, NextState
  <2>. QED  BY <2>3, <2>4
<1>. QED  BY <1>4, <1>5

\* The block that an owner without one gets in a step.
Best(o) ==
  policy[2] = "best" /\ live[o] = Free /\ live'[o] # Free /\ live'[o].ptr \in AllBlocks =>
    \A bp \in AllBlocks :
      IsFree(bp) /\ get_size(heap, header(bp)) >= block_size(live'[o].size) =>
        get_size(heap, header(live'[o].ptr)) <= get_size(heap, header(bp))

\* The block that mm_malloc takes under best fit.
LEMMA MallocTakesBest ==
  ASSUME Numbers, HeapInv, NEW n \in Requests, Malloc(n), NEW o \in Owners
  PROVE  Best(o)
<1>. DEFINE r == do_mm_malloc(heap, n)
            q == Min(Unused)
<1>1. Good(heap) /\ policy \in Policies /\ n \in Nat /\ live \in [Owners -> [ptr : 0..MaxHeap, size : 0..MaxHeap]]
  BY HeapAssumption DEF HeapInv, Held
<1>2. r.bp # NULL => BestOf(heap, r.bp, block_size(n))
  BY <1>1, MallocBlock
<1>3. \/ UNCHANGED live
      \/ r.bp # NULL /\ live' = [live EXCEPT ![q] = [ptr |-> r.bp, size |-> n]]
  BY DEF Malloc
<1>. HIDE DEF r, q
<1>4. SUFFICES ASSUME policy[2] = "best", live[o] = Free, live'[o] # Free,
                      NEW bp \in AllBlocks, IsFree(bp),
                      get_size(heap, header(bp)) >= block_size(live'[o].size)
               PROVE  get_size(heap, header(live'[o].ptr)) <= get_size(heap, header(bp))
  BY ZenonT(60) DEF Best
<1>5. r.bp # NULL /\ live'[o] = [ptr |-> r.bp, size |-> n]
  BY <1>1, <1>3, <1>4, ZenonT(60)
<1>6. bp \in FreeBlocks(heap) /\ Size(heap, bp) >= block_size(n)
  BY <1>4, <1>5 DEF FreeBlocks, AllBlocks, IsFree, get_alloc, get_size, header, Alloc, Size
<1>7. Size(heap, r.bp) <= Size(heap, bp)
  BY <1>2, <1>4, <1>5, <1>6, ZenonT(60) DEF BestOf
<1>. QED  BY <1>5, <1>7 DEF get_size, header, Size

\* Every step of the callers keeps the invariant.
LEMMA StepKeeps ==
  ASSUME Numbers, HeapInv, [Next]_vars PROVE HeapInv'
<1>1. CASE UNCHANGED vars
  <2>1. heap' = heap /\ live' = live /\ UNCHANGED policy
    BY <1>1 DEF vars
  <2>. QED  BY <2>1, NextState DEF HeapInv
<1>2. ASSUME NEW n \in Requests, Malloc(n) PROVE HeapInv'
  BY <1>2, MallocKeeps
<1>3. ASSUME NEW o \in Owners, Release(o) PROVE HeapInv'
  BY <1>3, ReleaseKeeps
<1>4. ASSUME NEW o \in Owners, NEW n \in Requests, Realloc(o, n) PROVE HeapInv'
  BY <1>4, ReallocKeeps
<1>. QED  BY <1>1, <1>2, <1>3, <1>4 DEF Next

\* The invariant bounds all fields.
LEMMA InvTypes == ASSUME HeapInv PROVE TypeOK
<1>1. heap \in Heaps
  BY GoodBlocks, Geometry, ZenonT(60) DEF HeapInv
<1>. QED  BY <1>1 DEF HeapInv, Held, Heaps, TypeOK

\* In a good heap mm_check_heap finds nothing.
LEMMA InvConsistent == ASSUME HeapInv PROVE HeapConsistent
<1>. DEFINE B == Blocks(heap)
<1>1. Good(heap) /\ Tiled(heap, B) /\ Bits(heap, B) /\ Sound(heap, B, {})
  BY GoodBlocks DEF HeapInv
<1>2. heap.brk = heap.tail /\ heap.mem[heap.tail - 1].size = 0 /\ heap.mem[heap.tail - 1].alloc = 1
  BY <1>1, ZenonT(60) DEF Tiled
<1>3. ASSUME NEW b \in B
      PROVE  LET next == next_block(heap, b)
             IN  /\ get_size(heap, header(b)) >= MinBlockSize /\ next <= heap.tail
                 /\ get_prev_alloc(heap, header(next)) = get_alloc(heap, header(b))
                 /\ IsFree(b) => /\ heap.mem[footer(heap, b)] = heap.mem[header(b)]
                                 /\ get_prev_alloc(heap, header(b)) = 1
                                 /\ get_alloc(heap, header(next)) = 1
  <2>. DEFINE N == b + Size(heap, b)
  <2>1. b \in Nat /\ Size(heap, b) \in Nat /\ Size(heap, b) >= MinBlockSize /\ N <= heap.tail
    BY <1>1, Geometry
  <2>2. Prev(heap, N) = Alloc(heap, b)
    BY <1>1 DEF Bits
  <2>3. Alloc(heap, b) = 0 => Footed(heap, b) /\ Prev(heap, b) = 1 /\ Alloc(heap, N) = 1
    BY <1>1, NextUsed DEF Sound
  <2>4. next_block(heap, b) = N /\ footer(heap, b) = b + Size(heap, b) - 2
    BY <2>1 DEF next_block, footer, get_size, header, Size
  <2>. QED  BY <2>1, <2>2, <2>3, <2>4, ZenonT(60) DEF get_size, get_prev_alloc, get_alloc, header, IsFree, Size, Alloc, Prev, Footed
<1>. QED  BY <1>2, <1>3, ZenonT(60) DEF HeapConsistent, AllBlocks, header, get_alloc

\* In a good heap the lists hold the free blocks.
LEMMA InvExact == ASSUME HeapInv PROVE FreeListsExact
<1>. SUFFICES ASSUME policy[1] # "implicit", NEW l \in DOMAIN heap.lists
     PROVE  /\ IsInjective(heap.lists[l])
            /\ Range(heap.lists[l]) =
                 {bp \in AllBlocks : IsFree(bp) /\ list_of(get_size(heap, header(bp))) = l}
  BY DEF FreeListsExact
<1>1. Tiled(heap, Blocks(heap)) /\ Listed(heap, Blocks(heap))
  BY GoodBlocks DEF HeapInv
<1>2. l \in Classes
  <2>1. heap \in Heaps
    BY <1>1, Geometry, ZenonT(60)
  <2>2. heap.lists \in [Classes -> Seq(0..MaxHeap)]
    BY <2>1 DEF Heaps, Classes
  <2>. QED  BY <2>2
<1>3. IsInjective(heap.lists[l]) /\ Range(heap.lists[l]) = FreeBy(heap, Blocks(heap))[l]
  BY <1>1, <1>2 DEF Listed, ListsAre
<1>4. FreeBy(heap, Blocks(heap))[l] =
        {bp \in AllBlocks : IsFree(bp) /\ list_of(get_size(heap, header(bp))) = l}
  BY <1>2 DEF FreeBy, AllBlocks, IsFree, get_alloc, get_size, header, Alloc, Size
<1>. QED  BY <1>3, <1>4, ZenonT(60)

\* The blocks of the owners are the allocated ones.
LEMMA InvNoLeak == ASSUME HeapInv PROVE NoLeak
<1>1. Good(heap) /\ Tiled(heap, Blocks(heap)) /\ Held(heap, live)
  BY GoodBlocks DEF HeapInv
<1>2. Used(heap) = {bp \in AllBlocks : ~IsFree(bp)}
  <2>1. \A b \in Blocks(heap) : Alloc(heap, b) \in {0, 1}
    BY <1>1, Geometry DEF Metas, Alloc
  <2>. QED  BY <2>1 DEF Used, AllBlocks, IsFree, get_alloc, header, Alloc
<1>3. ASSUME NEW o \in Owners PROVE live[o].ptr = NULL \/ live[o].ptr \in Used(heap)
  BY <1>1 DEF Held, Free
<1>4. NULL \notin Used(heap)
  BY <1>1, UsedNotNull
<1>5. Used(heap) = {live[o].ptr : o \in Owners} \ {NULL}
  BY <1>1, <1>3, <1>4 DEF Held
<1>6. \A b \in Used(heap) : b % 2 = 0
  BY <1>1, ZenonT(60) DEF Tiled, Used
<1>7. \A o \in Owners : live[o].ptr % 2 = 0
  BY <1>3, <1>6 DEF NULL
<1>. QED  BY <1>2, <1>5, <1>7 DEF NoLeak

\* Of the steps, only a Malloc takes a block from the heap.
LEMMA StepTakesBest ==
  ASSUME Numbers, HeapInv, Next, NEW o \in Owners PROVE Best(o)
<1>1. ASSUME NEW n \in Requests, Malloc(n) PROVE Best(o)
  BY <1>1, MallocTakesBest
<1>2. live \in [Owners -> [ptr : 0..MaxHeap, size : 0..MaxHeap]]
  BY DEF HeapInv, Held
<1>3. ASSUME NEW q \in Owners, Release(q) PROVE Best(o)
  <2>1. live[q] # Free /\ live' = [live EXCEPT ![q] = Free]
    BY <1>3 DEF Release
  <2>. QED  BY <1>2, <2>1 DEF Best
<1>4. ASSUME NEW q \in Owners, NEW n \in Requests, Realloc(q, n) PROVE Best(o)
  <2>1. live[q] # Free /\ \A x \in Owners : x # q => live'[x] = live[x]
    BY <1>2, <1>4 DEF Realloc
  <2>. QED  BY <2>1 DEF Best
<1>. QED  BY <1>1, <1>3, <1>4 DEF Next
-----------------------------------------------------------------------------
(* The theorems                                                            *)

NL == INSTANCE NatLemmas
INSTANCE FiniteSetTheorems

\* What the lemmas assume of numbers is so.
LEMMA NumbersHold == Numbers
<1>1. Least
  BY NL!LeastExists, ZenonT(60) DEF Least
<1>2. Counts
  <2>. SUFFICES ASSUME NEW k \in Nat, NEW S \in SUBSET (0..k), NEW T \in SUBSET S
       PROVE  Cardinality(S) \in Nat /\ Cardinality(T) <= Cardinality(S)
    BY ZenonT(60) DEF Counts
  <2>1. IsFiniteSet(0..k)
    BY FS_Interval
  <2>2. IsFiniteSet(S)
    BY <2>1, FS_Subset, ZenonT(60)
  <2>. QED  BY <2>2, FS_Subset, FS_CardinalityType, ZenonT(60)
<1>. QED  BY <1>1, <1>2 DEF Numbers

\* Through every sequence of calls the heap is good and owners hold disjoint
\* allocated blocks, as large as they asked for, with the words they stored.
THEOREM HeapInvariant == Spec => []HeapInv
<1>1. Init => HeapInv
  BY NumbersHold, InitGood
<1>2. HeapInv /\ [Next]_vars => HeapInv'
  BY NumbersHold, StepKeeps
<1>. QED  BY <1>1, <1>2, PTL DEF Spec

\* All fields of headers and footers, the break, the tail and the lists stay
\* in range.
THEOREM HeapTypeCorrect == Spec => []TypeOK
<1>1. HeapInv => TypeOK
  BY InvTypes
<1>. QED  BY <1>1, HeapInvariant, PTL

\* mm_check_heap never fails, in any of the six builds of mm.c, for any heap
\* limit, requests and number of owners: headers lead from block to block up
\* to the tail, P bits and footers are right and no two free blocks are
\* neighbours.
THEOREM HeapAlwaysConsistent == Spec => []HeapConsistent
<1>1. HeapInv => HeapConsistent
  BY InvConsistent
<1>. QED  BY <1>1, HeapInvariant, PTL

\* The explicit and segregated lists hold each free block exactly once, in
\* the list of its size class, and nothing else, for any number of lists.
THEOREM FreeListsAlwaysExact == Spec => []FreeListsExact
<1>1. HeapInv => FreeListsExact
  BY InvExact
<1>. QED  BY <1>1, HeapInvariant, PTL

\* No word that an owner has stored is changed by malloc, free or realloc, by
\* splits, merges and moves included.
THEOREM PayloadsAlwaysIntact == Spec => []PayloadsIntact
<1>1. HeapInv => PayloadsIntact
  BY DEF HeapInv, Held, PayloadsIntact
<1>. QED  BY <1>1, HeapInvariant, PTL

\* Exactly the blocks that owners hold are allocated, also after calls that
\* fail half-way, and pointers are aligned.
THEOREM NothingLeaks == Spec => []NoLeak
<1>1. HeapInv => NoLeak
  BY InvNoLeak
<1>. QED  BY <1>1, HeapInvariant, PTL

\* Under best fit, in each organisation, a block taken from the heap is the
\* smallest free one that fits, although the segregated search stops at the
\* first list that has one.
THEOREM BestFitIsBest == Spec => BestFit
<1>1. HeapInv /\ [Next]_vars => [\A o \in Owners : Best(o)]_vars
  BY NumbersHold, StepTakesBest
<1>. QED  BY <1>1, HeapInvariant, PTL DEF Spec, BestFit, Best
=============================================================================
