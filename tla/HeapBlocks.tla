----------------------------- MODULE HeapBlocks -----------------------------
(***************************************************************************)
(* What a step of mm.c does to the blocks of the heap and to its lists of  *)
(* free blocks, in each build and for every heap limit and number of       *)
(* lists: blocks that are joined, cut and added lie side by side again,    *)
(* headers, P bits and footers agree, and coalesce leaves a good heap.     *)
(***************************************************************************)
EXTENDS Heap, TLAPS
USE SMTT(60), ZenonT(60), Z3T(60)
-----------------------------------------------------------------------------
(* Numbers                                                                 *)

\* Two facts that need induction: a set of natural numbers has a least
\* element, and a larger finite set has no fewer elements. The lemmas assume
\* them; NumbersHold of HeapProofs proves them, so that the library they
\* follow from is not in the way of every step before.
Least == \A T \in SUBSET Nat : T # {} => \E i \in T : \A j \in T : ~(j < i)
Counts ==
  \A k \in Nat : \A S \in SUBSET (0..k) :
    Cardinality(S) \in Nat /\ \A T \in SUBSET S : Cardinality(T) <= Cardinality(S)
Numbers == Least /\ Counts

\* The least element of a set.
LEMMA LeastExists ==
  ASSUME Numbers, NEW T, T \subseteq Nat, T # {}
  PROVE  \E i \in T : \A j \in T : ~(j < i)
BY ZenonT(60) DEF Numbers, Least
-----------------------------------------------------------------------------
(* Blocks side by side                                                     *)

Metas == [size : 0..MaxHeap, prev : {0, 1}, alloc : {0, 1}]
Heaps ==
  [mem : [0..(MaxHeap - 1) -> Words], brk : 0..MaxHeap, tail : 0..MaxHeap,
   lists : [0..(NumLists - 1) -> Seq(0..MaxHeap)]]

Size(h, b) == h.mem[b - 1].size
\* The blocks of B lie side by side between the prologue and the tail.
Tiled(h, B) ==
  /\ h \in Heaps /\ h.brk = h.tail /\ h.tail >= 4 /\ h.mem[1] \in Metas /\ h.mem[1].size = 2
  /\ B \subseteq 4..(h.tail - 1) /\ 4 \in B \cup {h.tail}
  /\ \A b \in B \cup {h.tail} : b % 2 = 0 /\ h.mem[b - 1] \in Metas
  /\ h.mem[h.tail - 1].size = 0 /\ h.mem[h.tail - 1].alloc = 1
  /\ \A b \in B : Size(h, b) >= MinBlockSize /\ b + Size(h, b) \in B \cup {h.tail}
  /\ \A b, c \in B : b < c => b + Size(h, b) <= c

\* MIN_BLOCK_SIZE is two words, or four when free blocks hold list nodes.
LEMMA SizesKnown == MinBlockSize \in {2, 4}
BY DEF MinBlockSize

Walk(f, h, bp) ==
  IF bp = h.tail THEN {}
  ELSE IF next_block(h, bp) \in (bp + 1)..h.tail THEN {bp} \cup f[next_block(h, bp)]
  ELSE {bp}
Walks(f, h) == f = [bp \in 0..MaxHeap |-> Walk(f, h, bp)]

\* The walk of Blocks along the size fields is defined at every address.
LEMMA WalkExists ==
  ASSUME Numbers, NEW h, h.tail \in 0..MaxHeap
  PROVE  \E f : Walks(f, h)
<1>. USE HeapAssumption
<1>. DEFINE D == 0..MaxHeap
            Upto(n) == \E f \in [D -> SUBSET D] :
                         \A bp \in D : MaxHeap - bp < n => f[bp] = Walk(f, h, bp)
            Bad == {n \in Nat : ~Upto(n)}
<1>1. Upto(0)
  <2>. DEFINE g == [bp \in D |-> {}]
  <2>1. g \in [D -> SUBSET D] /\ \A bp \in D : ~(MaxHeap - bp < 0)
    OBVIOUS
  <2>. HIDE DEF g
  <2>. QED  BY <2>1
<1>2. ASSUME NEW n \in Nat, Upto(n) PROVE Upto(n + 1)
  <2>1. PICK f \in [D -> SUBSET D] : \A bp \in D : MaxHeap - bp < n => f[bp] = Walk(f, h, bp)
    BY <1>2
  <2>. DEFINE g == [bp \in D |-> Walk(f, h, bp)]
  <2>2. \A bp \in D : \A c \in (bp + 1)..h.tail : c \in D /\ MaxHeap - c < MaxHeap - bp
    OBVIOUS
  <2>3. g \in [D -> SUBSET D]
    BY <2>2 DEF Walk
  <2>4. ASSUME NEW bp \in D, MaxHeap - bp < n + 1 PROVE g[bp] = Walk(g, h, bp)
    <3>1. CASE next_block(h, bp) \in (bp + 1)..h.tail
      <4>. DEFINE c == next_block(h, bp)
      <4>1. c \in D /\ MaxHeap - c < n
        BY <2>2, <2>4, <3>1
      <4>. HIDE DEF c
      <4>2. f[c] = g[c]
        BY <2>1, <4>1
      <4>. QED  BY <4>2, ZenonT(60) DEF Walk, c
    <3>2. CASE next_block(h, bp) \notin (bp + 1)..h.tail
      BY <3>2 DEF Walk
    <3>. QED  BY <3>1, <3>2
  <2>. QED  BY <2>3, <2>4, ZenonT(60)
<1>3. Upto(MaxHeap + 1)
  <2>. HIDE DEF Upto
  <2>1. ASSUME Bad # {} PROVE FALSE
    <3>1. PICK k \in Bad : \A j \in Bad : ~(j < k)
      <4>1. Bad \subseteq Nat
        OBVIOUS
      <4>. HIDE DEF Bad
      <4>. QED  BY <2>1, <4>1, LeastExists, ZenonT(60)
    <3>2. k # 0 /\ k - 1 \in Nat
      BY <3>1, <1>1
    <3>3. Upto(k - 1)
      BY <3>1, <3>2
    <3>4. Upto((k - 1) + 1)
      BY <3>2, <3>3, <1>2
    <3>. QED  BY <3>1, <3>4
  <2>. QED  BY <2>1
<1>4. PICK f \in [D -> SUBSET D] : \A bp \in D : f[bp] = Walk(f, h, bp)
  BY <1>3
<1>5. f = [bp \in D |-> Walk(f, h, bp)]
  BY <1>4
<1>. QED  BY <1>5 DEF Walks

\* Blocks is the walk from the block behind block_head.
LEMMA BlocksWalk ==
  ASSUME Numbers, NEW h, h.tail \in 0..MaxHeap
  PROVE  \E f : Walks(f, h) /\ Blocks(h) = f[next_block(h, block_head)]
<1>. DEFINE f == CHOOSE g : Walks(g, h)
<1>1. Walks(f, h)
  BY WalkExists
<1>2. Blocks(h) = f[next_block(h, block_head)]
  BY DEF Blocks, Walks, Walk
<1>. HIDE DEF f
<1>. QED  BY <1>1, <1>2

\* When blocks lie side by side, the walk from one finds it and all behind
\* it.
LEMMA TiledWalk ==
  ASSUME Numbers, NEW h, NEW B, Tiled(h, B), NEW f, Walks(f, h), NEW b \in B \cup {h.tail}
  PROVE  f[b] = {c \in B : c >= b}
<1>. USE HeapAssumption
<1>. DEFINE Wrong(c) == f[c] # {d \in B : d >= c}
            Bad == {n \in Nat : \E c \in B \cup {h.tail} : n = h.tail - c /\ Wrong(c)}
<1>0. /\ h.tail \in 4..MaxHeap /\ B \subseteq 4..(h.tail - 1)
      /\ \A c \in B : Size(h, c) \in Nat /\ Size(h, c) >= 2 /\ c + Size(h, c) \in B \cup {h.tail}
      /\ \A c, d \in B : c < d => c + Size(h, c) <= d
  <2>1. h.tail \in 4..MaxHeap
    BY DEF Tiled, Heaps
  <2>2. \A c \in B : Size(h, c) \in Nat /\ Size(h, c) >= 2
    BY SizesKnown DEF Tiled, Size, Metas
  <2>. QED  BY <2>1, <2>2 DEF Tiled
<1>1. \A c \in 0..MaxHeap : f[c] = Walk(f, h, c)
  BY DEF Walks
<1>2. ASSUME Bad # {} PROVE FALSE
  <2>1. PICK n \in Bad : \A m \in Bad : ~(m < n)
    <3>1. Bad \subseteq Nat
      OBVIOUS
    <3>. HIDE DEF Bad
    <3>. QED  BY <1>2, <3>1, LeastExists, ZenonT(60)
  <2>2. PICK c \in B \cup {h.tail} : n = h.tail - c /\ Wrong(c)
    BY <2>1
  <2>3. CASE c = h.tail
    <3>1. Walk(f, h, c) = {}
      BY <2>3 DEF Walk
    <3>2. f[c] = {}
      BY <1>0, <1>1, <2>3, <3>1
    <3>. QED  BY <1>0, <2>2, <2>3, <3>2
  <2>4. CASE c # h.tail
    <3>. DEFINE d == c + Size(h, c)
    <3>1. c \in B /\ d \in B \cup {h.tail} /\ d \in (c + 1)..h.tail /\ c \in 0..MaxHeap
      BY <1>0, <2>4
    <3>2. f[c] = {c} \cup f[d]
      <4>1. next_block(h, c) = d
        BY DEF next_block, get_size, header, Size
      <4>. HIDE DEF d
      <4>. QED  BY <1>1, <2>4, <3>1, <4>1, ZenonT(60) DEF Walk
    <3>3. ~Wrong(d)
      <4>. HIDE DEF d, Wrong
      <4>1. h.tail - d \in Nat /\ h.tail - d < n
        BY <1>0, <2>2, <3>1
      <4>. QED  BY <2>1, <3>1, <4>1
    <3>4. \A e \in B : e >= c <=> e = c \/ e >= d
      BY <1>0, <3>1
    <3>. HIDE DEF d
    <3>5. {e \in B : e >= c} = {c} \cup {e \in B : e >= d}
      BY <3>1, <3>4
    <3>. QED  BY <2>2, <3>2, <3>3, <3>5
  <2>. QED  BY <2>3, <2>4
<1>3. h.tail - b \in Nat
  BY <1>0
<1>. QED  BY <1>2, <1>3

\* When blocks lie side by side between block_head and block_tail, following
\* the size fields, as mm.c's loops do, finds exactly these blocks.
LEMMA TiledBlocks ==
  ASSUME Numbers, NEW h, NEW B, Tiled(h, B)
  PROVE  Blocks(h) = B
<1>1. h.tail \in 4..MaxHeap /\ 4 \in B \cup {h.tail} /\ B \subseteq 4..(h.tail - 1)
  BY HeapAssumption DEF Tiled, Heaps
<1>2. next_block(h, block_head) = 4
  BY DEF Tiled, next_block, block_head, get_size, header
<1>3. PICK f : Walks(f, h) /\ Blocks(h) = f[next_block(h, block_head)]
  BY <1>1, BlocksWalk, HeapAssumption
<1>4. f[4] = {c \in B : c >= 4}
  BY <1>1, <1>3, TiledWalk
<1>5. \A c \in B : c >= 4
  BY <1>1
<1>. QED  BY <1>2, <1>3, <1>4, <1>5

-----------------------------------------------------------------------------
(* Headers, P bits and footers                                             *)

Alloc(h, b) == h.mem[b - 1].alloc
Prev(h, b) == h.mem[b - 1].prev
Footed(h, b) == h.mem[b + Size(h, b) - 2] = h.mem[b - 1]
Bits(h, B) == Prev(h, 4) = 1 /\ \A b \in B : Prev(h, b + Size(h, b)) = Alloc(h, b)
Sound(h, B, X) ==
  /\ Tiled(h, B) /\ Bits(h, B)
  /\ \A b \in B \ X : Alloc(h, b) = 0 => Prev(h, b) = 1 /\ Footed(h, b)

\* What Tiled says of one block and of two: where they lie, and that they do
\* not overlap.
LEMMA Geometry ==
  ASSUME NEW h, NEW B, Tiled(h, B)
  PROVE  /\ h \in Heaps /\ h.tail \in 4..MaxHeap /\ MaxHeap \in Nat
         /\ \A b \in B : /\ b \in 4..(h.tail - 1) /\ Size(h, b) \in 2..MaxHeap
                         /\ Size(h, b) >= MinBlockSize
                         /\ b + Size(h, b) \in B \cup {h.tail} /\ b + Size(h, b) <= h.tail
         /\ \A b \in B \cup {h.tail} : h.mem[b - 1] \in Metas /\ b \in 4..MaxHeap
         /\ \A b \in B : \A c \in B \cup {h.tail} : b < c => b + Size(h, b) <= c
<1>. USE HeapAssumption
<1>1. h \in Heaps /\ h.tail \in 4..MaxHeap /\ MaxHeap \in Nat
  BY DEF Tiled, Heaps
<1>2. ASSUME NEW b \in B
      PROVE  /\ b \in 4..(h.tail - 1) /\ Size(h, b) \in 2..MaxHeap /\ Size(h, b) >= MinBlockSize
             /\ b + Size(h, b) \in B \cup {h.tail} /\ b + Size(h, b) <= h.tail
  <2>1. b \in 4..(h.tail - 1) /\ Size(h, b) >= MinBlockSize /\ b + Size(h, b) \in B \cup {h.tail}
        /\ h.mem[b - 1] \in Metas
    BY DEF Tiled
  <2>2. Size(h, b) \in 0..MaxHeap
    BY <2>1 DEF Size, Metas
  <2>3. B \subseteq 4..(h.tail - 1)
    BY DEF Tiled
  <2>4. b + Size(h, b) <= h.tail
    <3>. DEFINE n == b + Size(h, b)
    <3>1. n \in B => n \in 4..(h.tail - 1)
      BY <2>3, ZenonT(60)
    <3>2. n \in B \/ n = h.tail
      BY <2>1
    <3>. HIDE DEF n
    <3>3. n <= h.tail
      BY <1>1, <3>1, <3>2
    <3>. QED  BY <3>3 DEF n
  <2>. QED  BY <2>1, <2>2, <2>4, SizesKnown
<1>3. \A b \in B \cup {h.tail} : h.mem[b - 1] \in Metas /\ b \in 4..MaxHeap
  BY <1>1, <1>2 DEF Tiled
<1>4. \A b \in B : \A c \in B \cup {h.tail} : b < c => b + Size(h, b) <= c
  BY <1>2 DEF Tiled
<1>. QED  BY <1>1, <1>2, <1>3, <1>4

\* A block other than the first, and the tail, has one just before it.
LEMMA Before ==
  ASSUME Numbers, NEW h, NEW B, Tiled(h, B), NEW b \in B \cup {h.tail}, b # 4
  PROVE  \E p \in B : p < b /\ p + Size(h, p) = b
<1>. DEFINE T == {n \in Nat : \E p \in B : p < b /\ n = b - p}
<1>1. b \in 4..MaxHeap /\ 4 \in B \cup {h.tail} /\ h.tail \in Nat
      /\ (\A p \in B : p \in 4..(h.tail - 1)) /\ B \subseteq Nat
  <2>1. b \in 4..MaxHeap /\ h.tail \in 4..MaxHeap /\ MaxHeap \in Nat
    BY Geometry
  <2>2. 4 \in B \cup {h.tail} /\ B \subseteq 4..(h.tail - 1)
    BY DEF Tiled
  <2>. QED  BY <2>1, <2>2
<1>2. T # {}
  <2>1. 4 \in B /\ 4 < b /\ b - 4 \in Nat
    BY <1>1
  <2>2. b - 4 \in T
    BY <2>1
  <2>. QED  BY <2>2
<1>3. PICK n \in T : \A m \in T : ~(m < n)
  <2>1. T \subseteq Nat
    OBVIOUS
  <2>. HIDE DEF T
  <2>. QED  BY <1>2, <2>1, LeastExists, ZenonT(60)
<1>4. PICK p \in B : p < b /\ n = b - p
  BY <1>3
<1>5. \A c \in B : p < c /\ c < b => FALSE
  <2>. SUFFICES ASSUME NEW c \in B, p < c, c < b PROVE FALSE
    OBVIOUS
  <2>1. b - c \in Nat /\ b - c < n
    BY <1>1, <1>4
  <2>2. b - c \in T
    BY <2>1
  <2>. QED  BY <1>3, <2>1, <2>2
<1>6. p + Size(h, p) <= b /\ p + Size(h, p) \in B \cup {h.tail} /\ p < p + Size(h, p) /\ Size(h, p) \in Nat
  BY <1>1, <1>4, Geometry
<1>7. p + Size(h, p) \in B => p + Size(h, p) = b
  BY <1>1, <1>4, <1>5, <1>6
<1>8. p + Size(h, p) = h.tail => p + Size(h, p) = b
  BY <1>1, <1>6
<1>. QED  BY <1>4, <1>6, <1>7, <1>8

\* The blocks from m to e become one block; what is outside stays.
Joined(h, B, g, m, e, a) ==
  /\ g \in Heaps /\ g.tail = h.tail /\ g.brk = h.brk
  /\ g.mem[m - 1] = Meta(e - m, Prev(h, m), a)
  /\ g.mem[e - 1] = Meta(Size(h, e), a, Alloc(h, e))
  /\ \A k \in 0..(MaxHeap - 1) : k < m - 1 \/ k >= e => g.mem[k] = h.mem[k]
Without(B, m, e) == {b \in B : b <= m \/ b >= e}
Outside(h, g, B, m, e) ==
  \A b \in B : b < m \/ b >= e =>
    /\ Size(g, b) = Size(h, b) /\ Alloc(g, b) = Alloc(h, b)
    /\ \A k \in b..(b + Size(h, b) - 2) : g.mem[k] = h.mem[k]

\* Joining the blocks from m to e keeps the tiling and the P bits, and all
\* words outside of them.
LEMMA Join ==
  ASSUME NEW h, NEW B, Tiled(h, B), Bits(h, B), NEW m \in B, NEW e \in B \cup {h.tail},
         m < e, NEW a \in {0, 1}, NEW g, Joined(h, B, g, m, e, a)
  PROVE  /\ Tiled(g, Without(B, m, e)) /\ Bits(g, Without(B, m, e))
         /\ Size(g, m) = e - m /\ Alloc(g, m) = a /\ Prev(g, m) = Prev(h, m)
         /\ \A b \in B : b < m \/ b > e => g.mem[b - 1] = h.mem[b - 1]
         /\ Size(g, e) = Size(h, e) /\ Alloc(g, e) = Alloc(h, e) /\ Prev(g, e) = a
         /\ Outside(h, g, B, m, e)
<1>. DEFINE C == Without(B, m, e)
<1>0. /\ MaxHeap \in Nat /\ h.tail \in 4..MaxHeap /\ h \in Heaps
      /\ \A b \in B : /\ b \in 4..(h.tail - 1) /\ Size(h, b) \in 2..MaxHeap
                      /\ Size(h, b) >= MinBlockSize
                      /\ b + Size(h, b) \in B \cup {h.tail} /\ b + Size(h, b) <= h.tail
      /\ \A b \in B \cup {h.tail} : h.mem[b - 1] \in Metas /\ b \in 4..MaxHeap
      /\ \A b \in B : \A c \in B \cup {h.tail} : b < c => b + Size(h, b) <= c
  BY Geometry
<1>1. m \in 4..(h.tail - 1) /\ e \in 4..h.tail /\ m + Size(h, m) <= e /\ e - m \in 2..MaxHeap /\ e - m >= MinBlockSize
  BY <1>0, SizesKnown
<1>2. g.mem[m - 1] = Meta(e - m, Prev(h, m), a) /\ g.mem[e - 1] = Meta(Size(h, e), a, Alloc(h, e))
      /\ g \in Heaps /\ g.tail = h.tail /\ g.brk = h.brk
  BY DEF Joined
<1>3. /\ Size(g, m) = e - m /\ Alloc(g, m) = a /\ Prev(g, m) = Prev(h, m)
      /\ Size(g, e) = Size(h, e) /\ Alloc(g, e) = Alloc(h, e) /\ Prev(g, e) = a
  BY <1>2 DEF Size, Alloc, Prev, Meta
<1>4. \A b \in B \cup {h.tail} : b < m \/ b > e => g.mem[b - 1] = h.mem[b - 1]
  BY <1>0, <1>1 DEF Joined
<1>5. \A b \in B \cup {h.tail} : b < m \/ b >= e => Size(g, b) = Size(h, b) /\ Alloc(g, b) = Alloc(h, b)
  BY <1>0, <1>1, <1>3, <1>4 DEF Size, Alloc
<1>6. Outside(h, g, B, m, e)
  <2>. SUFFICES ASSUME NEW b \in B, b < m \/ b >= e, NEW k \in b..(b + Size(h, b) - 2)
                PROVE  g.mem[k] = h.mem[k]
    BY <1>5 DEF Outside
  <2>1. k \in 0..(MaxHeap - 1) /\ (k < m - 1 \/ k >= e)
    BY <1>0, <1>1
  <2>. QED  BY <2>1 DEF Joined
<1>7. C \subseteq B /\ m \in C /\ (e # h.tail => e \in C) /\ \A b \in C : b = m \/ b < m \/ b >= e
  BY <1>0, <1>1 DEF Without
<1>8. \A b \in C \cup {h.tail} : g.mem[b - 1] \in Metas
  <2>1. g.mem[m - 1] \in Metas
    BY <1>0, <1>1, <1>2 DEF Meta, Metas, Prev
  <2>2. g.mem[e - 1] \in Metas
    BY <1>0, <1>2 DEF Meta, Metas, Alloc, Size
  <2>. QED  BY <1>0, <1>1, <1>4, <1>7, <2>1, <2>2
<1>9. \A b \in C : Size(g, b) >= MinBlockSize /\ b + Size(g, b) \in C \cup {h.tail}
  <2>. SUFFICES ASSUME NEW b \in C PROVE Size(g, b) >= MinBlockSize /\ b + Size(g, b) \in C \cup {h.tail}
    OBVIOUS
  <2>1. CASE b = m
    BY <1>1, <1>3, <1>7, <2>1
  <2>2. CASE b # m
    <3>1. b \in B /\ (b < m \/ b >= e) /\ Size(g, b) = Size(h, b)
      BY <1>5, <1>7, <2>2
    <3>2. b + Size(h, b) <= m \/ b + Size(h, b) >= e
      BY <1>0, <1>1, <3>1
    <3>. QED  BY <1>0, <3>1, <3>2 DEF Without
  <2>. QED  BY <2>1, <2>2
<1>10. \A b, c \in C : b < c => b + Size(g, b) <= c
  <2>. SUFFICES ASSUME NEW b \in C, NEW c \in C, b < c PROVE b + Size(g, b) <= c
    OBVIOUS
  <2>1. CASE b = m
    BY <1>1, <1>0, <1>3, <1>7, <2>1
  <2>2. CASE b # m
    BY <1>0, <1>5, <1>7, <2>2, ZenonT(60)
  <2>. QED  BY <2>1, <2>2
<1>11. Tiled(g, C)
  <2>1. g.mem[1] = h.mem[1]
    BY <1>0, <1>1 DEF Joined
  <2>2. Size(g, h.tail) = 0 /\ Alloc(g, h.tail) = 1
    BY <1>0, <1>1, <1>5 DEF Tiled, Size, Alloc
  <2>3. 4 \in C \cup {h.tail} /\ C \subseteq 4..(h.tail - 1)
    <3>1. 4 \in B \cup {h.tail}
      BY DEF Tiled
    <3>2. \A b \in C : b \in 4..(h.tail - 1)
      BY <1>0, <1>7
    <3>3. 4 \in B => 4 \in C
      BY <1>0, <1>1 DEF Without
    <3>. QED  BY <3>1, <3>2, <3>3
  <2>4. \A b \in C \cup {h.tail} : b % 2 = 0
    BY <1>7, ZenonT(60) DEF Tiled
  <2>5. g \in Heaps /\ g.brk = g.tail /\ g.tail >= 4 /\ g.mem[1] \in Metas /\ g.mem[1].size = 2
    BY <1>2, <2>1 DEF Tiled
  <2>. QED  BY <1>2, <1>8, <1>9, <1>10, <2>2, <2>3, <2>4, <2>5 DEF Tiled, Size, Alloc
<1>12. Bits(g, C)
  <2>1. Prev(g, 4) = 1
    <3>1. CASE m = 4
      BY <1>3, <3>1 DEF Bits
    <3>2. CASE m # 4
      BY <1>0, <1>1, <1>4, <3>2 DEF Bits, Prev, Tiled
    <3>. QED  BY <3>1, <3>2
  <2>2. ASSUME NEW b \in C PROVE Prev(g, b + Size(g, b)) = Alloc(g, b)
    <3>1. CASE b = m
      <4>1. m + (e - m) = e
        BY <1>1
      <4>. QED  BY <1>3, <3>1, <4>1
    <3>2. CASE b # m
      <4>. DEFINE c == b + Size(h, b)
      <4>1. b \in B /\ (b < m \/ b >= e) /\ Size(g, b) = Size(h, b) /\ Alloc(g, b) = Alloc(h, b)
        BY <1>5, <1>7, <3>2
      <4>2. c \in B \cup {h.tail} /\ (c <= m \/ c > e) /\ Prev(h, c) = Alloc(h, b)
        BY <1>0, <1>1, <4>1 DEF Bits
      <4>. HIDE DEF c
      <4>3. Prev(g, c) = Prev(h, c)
        BY <1>0, <1>1, <1>3, <1>4, <4>2 DEF Prev
      <4>. QED  BY <4>1, <4>2, <4>3 DEF c
    <3>. QED  BY <3>1, <3>2
  <2>. QED  BY <2>1, <2>2 DEF Bits
<1>. QED  BY <1>3, <1>4, <1>6, <1>11, <1>12

-----------------------------------------------------------------------------
(* Cutting and growing                                                     *)

\* The block m is cut at k into an allocated block and one with alloc bit a.
CutAt(h, g, m, k, a) ==
  /\ g \in Heaps /\ g.tail = h.tail /\ g.brk = h.brk
  /\ g.mem[m - 1] = Meta(k - m, Prev(h, m), 1)
  /\ g.mem[k - 1] = Meta((m + Size(h, m)) - k, 1, a)
  /\ \A j \in 0..(MaxHeap - 1) : j < m - 1 \/ j >= m + Size(h, m) - 1 => g.mem[j] = h.mem[j]

Cuttable(h, m, k) ==
  k \in Nat /\ k % 2 = 0 /\ m + MinBlockSize <= k /\ k + MinBlockSize <= m + Size(h, m)
CutResult(h, B, g, m, k) ==
  /\ Tiled(g, B \cup {k}) /\ Bits(g, B \cup {k}) /\ k \notin B
  /\ Size(g, m) = k - m /\ Alloc(g, m) = 1 /\ Prev(g, m) = Prev(h, m)
  /\ k + Size(g, k) = m + Size(h, m) /\ Alloc(g, k) = Alloc(h, m) /\ Prev(g, k) = 1
  /\ \A b \in B \cup {h.tail} : b # m => g.mem[b - 1] = h.mem[b - 1]
  /\ Outside(h, g, B, m, m + Size(h, m))

\* Cutting an allocated part off a block keeps the tiling and the P bits, and
\* all words outside of it.
LEMMA Cut ==
  ASSUME NEW h, NEW B, Tiled(h, B), Bits(h, B), NEW m \in B, NEW k, Cuttable(h, m, k),
         NEW g, CutAt(h, g, m, k, Alloc(h, m))
  PROVE  CutResult(h, B, g, m, k)
<1>. DEFINE C == B \cup {k}
            e == m + Size(h, m)
            a == Alloc(h, m)
<1>18. k \in Nat /\ k % 2 = 0 /\ m + MinBlockSize <= k /\ k + MinBlockSize <= e
  BY DEF Cuttable
<1>0. /\ MaxHeap \in Nat /\ h.tail \in 4..MaxHeap /\ h \in Heaps
      /\ \A b \in B : /\ b \in 4..(h.tail - 1) /\ Size(h, b) \in 2..MaxHeap
                      /\ Size(h, b) >= MinBlockSize
                      /\ b + Size(h, b) \in B \cup {h.tail} /\ b + Size(h, b) <= h.tail
      /\ \A b \in B \cup {h.tail} : h.mem[b - 1] \in Metas /\ b \in 4..MaxHeap
      /\ \A b \in B : \A c \in B \cup {h.tail} : b < c => b + Size(h, b) <= c
  BY Geometry
<1>1. /\ m \in 4..(h.tail - 1) /\ e \in 4..h.tail /\ e \in B \cup {h.tail}
      /\ k \in 6..(h.tail - 2) /\ m + MinBlockSize <= k /\ k + MinBlockSize <= e /\ m < k /\ k < e
  BY <1>0, <1>18, SizesKnown
<1>2. /\ g.mem[m - 1] = Meta(k - m, Prev(h, m), 1) /\ g.mem[k - 1] = Meta(e - k, 1, a)
      /\ g \in Heaps /\ g.tail = h.tail /\ g.brk = h.brk
  BY DEF CutAt
<1>17. \A j \in 0..(MaxHeap - 1) : j < m - 1 \/ j >= e - 1 => g.mem[j] = h.mem[j]
  BY <1>0, <1>1 DEF CutAt
<1>. HIDE DEF e, a
<1>3. /\ Size(g, m) = k - m /\ Alloc(g, m) = 1 /\ Prev(g, m) = Prev(h, m)
      /\ Size(g, k) = e - k /\ Alloc(g, k) = a /\ Prev(g, k) = 1
  BY <1>2 DEF Size, Alloc, Prev, Meta
<1>4. \A b \in B \cup {h.tail} : b # m => b < m \/ b >= e
  BY <1>0, <1>1 DEF e
<1>5. \A b \in B \cup {h.tail} : b # m => g.mem[b - 1] = h.mem[b - 1]
  BY <1>0, <1>1, <1>17, <1>4
<1>6. \A b \in B \cup {h.tail} : b # m =>
        Size(g, b) = Size(h, b) /\ Alloc(g, b) = Alloc(h, b) /\ Prev(g, b) = Prev(h, b)
  BY <1>5 DEF Size, Alloc, Prev
<1>7. Outside(h, g, B, m, e)
  <2>. SUFFICES ASSUME NEW b \in B, b < m \/ b >= e, NEW j \in b..(b + Size(h, b) - 2)
                PROVE  g.mem[j] = h.mem[j] /\ b # m
    <3>1. \A b \in B : b < m \/ b >= e => b # m
      BY <1>0, <1>1
    <3>. QED  BY <1>6, <3>1 DEF Outside
  <2>1. j \in 0..(MaxHeap - 1) /\ (j < m - 1 \/ j >= e - 1) /\ b # m
    BY <1>0, <1>1
  <2>. QED  BY <2>1, <1>17
<1>8. k \notin B /\ k # h.tail
  BY <1>1, <1>4, <1>0
<1>9. \A b \in C \cup {h.tail} : b % 2 = 0 /\ g.mem[b - 1] \in Metas
  <2>1. g.mem[m - 1] \in Metas
    <3>1. Prev(h, m) \in {0, 1} /\ k - m \in 0..MaxHeap
      BY <1>0, <1>1 DEF Metas, Prev
    <3>. QED  BY <1>2, <3>1 DEF Meta, Metas
  <2>2. g.mem[k - 1] \in Metas
    <3>1. a \in {0, 1} /\ e - k \in 0..MaxHeap
      BY <1>0, <1>1 DEF Metas, Alloc, a
    <3>. QED  BY <1>2, <3>1 DEF Meta, Metas
  <2>3. \A b \in B \cup {h.tail} : b % 2 = 0 /\ h.mem[b - 1] \in Metas
    BY DEF Tiled
  <2>. QED  BY <1>5, <1>18, <2>1, <2>2, <2>3
<1>10. \A b \in C : Size(g, b) >= MinBlockSize /\ b + Size(g, b) \in C \cup {h.tail}
  <2>. SUFFICES ASSUME NEW b \in C PROVE Size(g, b) >= MinBlockSize /\ b + Size(g, b) \in C \cup {h.tail}
    OBVIOUS
  <2>1. CASE b = m
    BY <1>1, <1>3, <2>1, SizesKnown
  <2>2. CASE b = k
    BY <1>1, <1>3, <2>2, SizesKnown
  <2>3. CASE b \in B /\ b # m
    BY <1>0, <1>6, <2>3
  <2>. QED  BY <2>1, <2>2, <2>3
<1>11. \A b, c \in C : b < c => b + Size(g, b) <= c
  <2>. SUFFICES ASSUME NEW b \in C, NEW c \in C, b < c PROVE b + Size(g, b) <= c
    OBVIOUS
  <2>1. CASE b = m
    BY <1>0, <1>1, <1>3, <1>4, <2>1
  <2>2. CASE b = k
    BY <1>0, <1>1, <1>3, <1>4, <2>2
  <2>3. CASE b \in B /\ b # m /\ c = k
    <3>1. b < m
      BY <1>0, <1>1, <1>4, <2>3
    <3>. QED  BY <1>0, <1>1, <1>6, <2>3, <3>1
  <2>4. CASE b \in B /\ b # m /\ c \in B
    BY <1>0, <1>6, <2>4, ZenonT(60)
  <2>. QED  BY <2>1, <2>2, <2>3, <2>4
<1>12. Tiled(g, C)
  <2>1. g.mem[1] = h.mem[1]
    BY <1>0, <1>1, <1>17
  <2>2. Size(g, h.tail) = 0 /\ Alloc(g, h.tail) = 1
    <3>1. h.tail # m /\ Size(h, h.tail) = 0 /\ Alloc(h, h.tail) = 1
      BY <1>0, <1>1 DEF Tiled, Size, Alloc
    <3>. QED  BY <3>1, <1>6
  <2>3. 4 \in C \cup {h.tail} /\ C \subseteq 4..(h.tail - 1)
    <3>1. 4 \in B \cup {h.tail}
      BY DEF Tiled
    <3>2. \A b \in C : b \in 4..(h.tail - 1)
      BY <1>0, <1>1
    <3>. QED  BY <3>1, <3>2
  <2>5. g \in Heaps /\ g.brk = g.tail /\ g.tail >= 4 /\ g.mem[1] \in Metas /\ g.mem[1].size = 2
    BY <1>2, <2>1 DEF Tiled
  <2>. QED  BY <1>2, <1>9, <1>10, <1>11, <2>2, <2>3, <2>5 DEF Tiled, Size, Alloc
<1>13. Bits(g, C)
  <2>1. Prev(g, 4) = 1
    <3>1. CASE m = 4
      BY <1>3, <3>1 DEF Bits
    <3>2. CASE m # 4
      BY <1>6, <3>2 DEF Bits, Tiled
    <3>. QED  BY <3>1, <3>2
  <2>2. ASSUME NEW b \in C PROVE Prev(g, b + Size(g, b)) = Alloc(g, b)
    <3>1. CASE b = m
      <4>1. m + (k - m) = k
        BY <1>1
      <4>. QED  BY <1>3, <3>1, <4>1
    <3>2. CASE b = k
      <4>1. k + (e - k) = e /\ e # m
        BY <1>1
      <4>2. Prev(g, e) = a
        BY <1>1, <1>6, <4>1 DEF Bits, e, a
      <4>. QED  BY <1>3, <3>2, <4>1, <4>2
    <3>3. CASE b \in B /\ b # m
      <4>. DEFINE c == b + Size(h, b)
      <4>1. Size(g, b) = Size(h, b) /\ Alloc(g, b) = Alloc(h, b)
        BY <1>6, <3>3
      <4>2. c \in B \cup {h.tail} /\ Prev(h, c) = Alloc(h, b)
        BY <1>0, <3>3 DEF Bits
      <4>. HIDE DEF c
      <4>3. Prev(g, c) = Prev(h, c)
        BY <1>3, <1>6, <4>2
      <4>. QED  BY <4>1, <4>2, <4>3 DEF c
    <3>. QED  BY <3>1, <3>2, <3>3
  <2>. QED  BY <2>1, <2>2 DEF Bits
<1>14. k + Size(g, k) = e
  BY <1>1, <1>3
<1>. QED  BY <1>3, <1>5, <1>7, <1>8, <1>12, <1>13, <1>14 DEF e, a, CutResult

\* The heap gets a free block of s words at its end.
GrownBy(h, g, s) ==
  /\ g \in Heaps /\ g.tail = h.tail + s /\ g.brk = h.tail + s
  /\ g.mem[h.tail - 1] = Meta(s, Prev(h, h.tail), 0)
  /\ g.mem[h.tail + s - 1] = Meta(0, 0, 1)
  /\ \A j \in 0..(MaxHeap - 1) : j < h.tail - 1 => g.mem[j] = h.mem[j]

\* A block added at the old tail, with a new tail behind it, keeps the tiling
\* and the P bits.
LEMMA Grow ==
  ASSUME NEW h, NEW B, Tiled(h, B), Bits(h, B), NEW s \in Nat, s % 2 = 0, s >= MinBlockSize,
         h.tail + s <= MaxHeap, NEW g, GrownBy(h, g, s)
  PROVE  /\ Tiled(g, B \cup {h.tail}) /\ Bits(g, B \cup {h.tail}) /\ h.tail \notin B
         /\ Size(g, h.tail) = s /\ Alloc(g, h.tail) = 0 /\ Prev(g, h.tail) = Prev(h, h.tail)
         /\ Alloc(g, g.tail) = 1
         /\ \A b \in B : g.mem[b - 1] = h.mem[b - 1]
         /\ Outside(h, g, B, h.tail, g.tail)
<1>. DEFINE t == h.tail
            u == t + s
            C == B \cup {t}
<1>0. /\ MaxHeap \in Nat /\ t \in 4..MaxHeap /\ h \in Heaps
      /\ \A b \in B : /\ b \in 4..(t - 1) /\ Size(h, b) \in 2..MaxHeap
                      /\ Size(h, b) >= MinBlockSize
                      /\ b + Size(h, b) \in B \cup {t} /\ b + Size(h, b) <= t
      /\ \A b \in B \cup {t} : h.mem[b - 1] \in Metas /\ b \in 4..MaxHeap
      /\ \A b \in B : \A c \in B \cup {t} : b < c => b + Size(h, b) <= c
  BY Geometry
<1>1. u \in 6..MaxHeap /\ t < u /\ u - t = s /\ s \in 2..MaxHeap
  BY <1>0, SizesKnown
<1>2. /\ g.mem[t - 1] = Meta(s, Prev(h, t), 0) /\ g.mem[u - 1] = Meta(0, 0, 1)
      /\ g \in Heaps /\ g.tail = u /\ g.brk = u
  BY <1>0, <1>1 DEF GrownBy
<1>17. \A j \in 0..(MaxHeap - 1) : j < t - 1 => g.mem[j] = h.mem[j]
  BY DEF GrownBy
<1>15. t % 2 = 0 /\ u % 2 = 0
  <2>1. t % 2 = 0
    BY ZenonT(60) DEF Tiled
  <2>. QED  BY <1>0, <2>1
<1>16. Tiled(h, B) /\ t = h.tail /\ Bits(h, B)
  OBVIOUS
<1>. HIDE DEF u, t
<1>3. /\ Size(g, t) = s /\ Alloc(g, t) = 0 /\ Prev(g, t) = Prev(h, t)
      /\ Size(g, u) = 0 /\ Alloc(g, u) = 1 /\ Prev(g, u) = 0
  BY <1>2 DEF Size, Alloc, Prev, Meta
<1>5. \A b \in B : g.mem[b - 1] = h.mem[b - 1]
  BY <1>0, <1>17
<1>6. \A b \in B : Size(g, b) = Size(h, b) /\ Alloc(g, b) = Alloc(h, b) /\ Prev(g, b) = Prev(h, b)
  BY <1>5 DEF Size, Alloc, Prev
<1>7. Outside(h, g, B, t, u)
  <2>. SUFFICES ASSUME NEW b \in B, NEW j \in b..(b + Size(h, b) - 2) PROVE g.mem[j] = h.mem[j]
    BY <1>6 DEF Outside
  <2>1. j \in 0..(MaxHeap - 1) /\ j < t - 1
    BY <1>0
  <2>. QED  BY <2>1, <1>17
<1>8. t \notin B
  BY <1>0
<1>9. \A b \in C \cup {u} : b % 2 = 0 /\ g.mem[b - 1] \in Metas
  <2>1. g.mem[t - 1] \in Metas
    <3>1. Prev(h, t) \in {0, 1} /\ s \in 0..MaxHeap
      BY <1>0, <1>1 DEF Metas, Prev
    <3>. QED  BY <1>2, <3>1 DEF Meta, Metas
  <2>2. g.mem[u - 1] \in Metas
    BY <1>0, <1>2 DEF Meta, Metas
  <2>3. \A b \in B : b % 2 = 0 /\ h.mem[b - 1] \in Metas
    BY DEF Tiled
  <2>. QED  BY <1>5, <1>15, <2>1, <2>2, <2>3
<1>10. \A b \in C : Size(g, b) >= MinBlockSize /\ b + Size(g, b) \in C \cup {u}
  <2>. SUFFICES ASSUME NEW b \in C PROVE Size(g, b) >= MinBlockSize /\ b + Size(g, b) \in C \cup {u}
    OBVIOUS
  <2>1. CASE b = t
    BY <1>3, <2>1 DEF u
  <2>2. CASE b \in B
    BY <1>0, <1>6, <2>2
  <2>. QED  BY <2>1, <2>2
<1>11. \A b, c \in C : b < c => b + Size(g, b) <= c
  BY <1>0, <1>6
<1>12. Tiled(g, C)
  <2>1. g.mem[1] = h.mem[1]
    BY <1>0, <1>17
  <2>3. 4 \in C \cup {u} /\ C \subseteq 4..(u - 1)
    <3>1. 4 \in B \cup {t}
      BY <1>16 DEF Tiled
    <3>2. \A b \in C : b \in 4..(u - 1)
      BY <1>0, <1>1
    <3>. QED  BY <3>1, <3>2, ZenonT(60)
  <2>5. g \in Heaps /\ g.brk = g.tail /\ g.tail >= 4 /\ g.mem[1] \in Metas /\ g.mem[1].size = 2
    BY <1>1, <1>2, <2>1 DEF Tiled
  <2>. QED  BY <1>2, <1>3, <1>9, <1>10, <1>11, <2>3, <2>5, ZenonT(60) DEF Tiled, Size, Alloc
<1>13. Bits(g, C)
  <2>1. Prev(g, 4) = 1
    BY <1>3, <1>6, <1>16 DEF Bits, Tiled
  <2>2. ASSUME NEW b \in C PROVE Prev(g, b + Size(g, b)) = Alloc(g, b)
    <3>1. CASE b = t
      BY <1>3, <3>1 DEF u
    <3>2. CASE b \in B
      <4>. DEFINE c == b + Size(h, b)
      <4>1. Size(g, b) = Size(h, b) /\ Alloc(g, b) = Alloc(h, b)
        BY <1>6, <3>2
      <4>2. c \in B \cup {t} /\ Prev(h, c) = Alloc(h, b)
        BY <1>0, <3>2 DEF Bits
      <4>. HIDE DEF c
      <4>3. Prev(g, c) = Prev(h, c)
        BY <1>3, <1>6, <4>2
      <4>. QED  BY <4>1, <4>2, <4>3 DEF c
    <3>. QED  BY <3>1, <3>2
  <2>. QED  BY <2>1, <2>2, ZenonT(60) DEF Bits
<1>. QED  BY <1>2, <1>3, <1>5, <1>7, <1>8, <1>12, <1>13 DEF t

-----------------------------------------------------------------------------
(* Free lists                                                              *)

Classes == 0..(NumLists - 1)

\* list_of is a list, and a larger block is in no lower list: the search of
\* find_fit upwards from list_of(n) misses no block that fits.
LEMMA ClassOf ==
  ASSUME Numbers, NEW n \in Nat
  PROVE  /\ list_of(n) \in Classes
         /\ \A k \in Nat : n <= k => list_of(n) <= list_of(k)
<1>. USE HeapAssumption
<1>. DEFINE I(k) == {j \in 0..k : (k - 1) \div MinBlockSize >= 2^j}
<1>1. ASSUME NEW k \in Nat
      PROVE  Cardinality(I(k)) \in Nat /\ \A T \in SUBSET I(k) : Cardinality(T) <= Cardinality(I(k))
  <2>1. I(k) \in SUBSET (0..k)
    OBVIOUS
  <2>. HIDE DEF I
  <2>. QED  BY <2>1, ZenonT(60) DEF Numbers, Counts
<1>2. ASSUME NEW k \in Nat, n <= k PROVE Cardinality(I(n)) <= Cardinality(I(k))
  <2>1. I(n) \subseteq I(k)
    <3>. SUFFICES ASSUME NEW j \in I(n) PROVE j \in I(k)
      OBVIOUS
    <3>1. j \in 0..n /\ j \in 0..k
      BY <1>2
    <3>2. (n - 1) \div MinBlockSize <= (k - 1) \div MinBlockSize
      <4>1. CASE MinBlockSize = 2
        BY <1>2, <4>1
      <4>2. CASE MinBlockSize = 4
        BY <1>2, <4>2
      <4>. QED  BY <4>1, <4>2, SizesKnown
    <3>3. (n - 1) \div MinBlockSize \in Int /\ (k - 1) \div MinBlockSize \in Int
      BY SizesKnown
    <3>4. (k - 1) \div MinBlockSize >= 2^j
      BY <3>2, <3>3
    <3>. QED  BY <3>1, <3>4
  <2>. HIDE DEF I
  <2>. QED  BY <1>1, <1>2, <2>1, ZenonT(60)
<1>3. \A k \in Nat : segregated_free_list_lower_bound(k) =
        IF Cardinality(I(k)) < NumLists THEN Cardinality(I(k)) ELSE NumLists - 1
  BY DEF segregated_free_list_lower_bound
<1>. HIDE DEF I
<1>4. \A k \in Nat : segregated_free_list_lower_bound(k) \in Classes
  BY <1>1, <1>3 DEF Classes
<1>5. \A k \in Nat : n <= k => segregated_free_list_lower_bound(n) <= segregated_free_list_lower_bound(k)
  BY <1>1, <1>2, <1>3
<1>. QED  BY <1>4, <1>5 DEF list_of, Classes

\* list_erase takes out just one element of a list without repetition.
LEMMA EraseOne ==
  ASSUME NEW S, NEW s \in Seq(S), NEW bp
  PROVE  /\ list_erase(s, bp) \in Seq(S)
         /\ IsInjective(s) => /\ IsInjective(list_erase(s, bp))
                              /\ Range(list_erase(s, bp)) = Range(s) \ {bp}
<1>1. CASE bp \notin Range(s)
  BY <1>1 DEF list_erase
<1>2. CASE bp \in Range(s)
  <2>. DEFINE i == CHOOSE j \in DOMAIN s : s[j] = bp
              e == [k \in 1..(Len(s) - 1) |-> s[IF k < i THEN k ELSE k + 1]]
  <2>1. i \in DOMAIN s /\ s[i] = bp
    BY <1>2 DEF Range
  <2>2. list_erase(s, bp) = e
    BY <1>2 DEF list_erase
  <2>. HIDE DEF i
  <2>3. Len(s) \in Nat /\ DOMAIN s = 1..Len(s) /\ i \in 1..Len(s) /\ \A k \in 1..Len(s) : s[k] \in S
    BY <2>1
  <2>4. \A k \in 1..(Len(s) - 1) : (IF k < i THEN k ELSE k + 1) \in 1..Len(s)
    BY <2>3
  <2>5. e \in Seq(S)
    <3>1. \A k \in 1..(Len(s) - 1) : e[k] \in S
      BY <2>3, <2>4
    <3>2. Len(s) - 1 \in Nat
      BY <2>3
    <3>3. e \in [1..(Len(s) - 1) -> S]
      BY <3>1
    <3>. QED  BY <3>2, <3>3
  <2>6. ASSUME IsInjective(s) PROVE IsInjective(e) /\ Range(e) = Range(s) \ {bp}
    <3>0. DOMAIN e = 1..(Len(s) - 1)
      OBVIOUS
    <3>1. IsInjective(e)
      <4>. SUFFICES ASSUME NEW a \in 1..(Len(s) - 1), NEW b \in 1..(Len(s) - 1), e[a] = e[b] PROVE a = b
        BY <3>0 DEF IsInjective
      <4>1. (IF a < i THEN a ELSE a + 1) = (IF b < i THEN b ELSE b + 1)
        BY <2>3, <2>4, <2>6 DEF IsInjective
      <4>. QED  BY <4>1, <2>3
    <3>2. ASSUME NEW x \in Range(e) PROVE x \in Range(s) \ {bp}
      <4>1. PICK k \in 1..(Len(s) - 1) : x = e[k]
        BY <3>0, <3>2 DEF Range
      <4>. DEFINE j == IF k < i THEN k ELSE k + 1
      <4>2. j \in 1..Len(s) /\ j # i /\ x = s[j]
        BY <2>3, <4>1
      <4>. HIDE DEF j
      <4>. QED  BY <2>1, <2>3, <2>6, <4>2 DEF Range, IsInjective
    <3>3. ASSUME NEW x \in Range(s), x # bp PROVE x \in Range(e)
      <4>1. PICK j \in 1..Len(s) : x = s[j]
        BY <2>3, <3>3 DEF Range
      <4>2. j # i
        BY <2>1, <3>3, <4>1
      <4>. DEFINE k == IF j < i THEN j ELSE j - 1
      <4>3. k \in 1..(Len(s) - 1) /\ (IF k < i THEN k ELSE k + 1) = j
        BY <2>3, <4>2
      <4>. HIDE DEF k
      <4>4. e[k] = x
        BY <4>1, <4>3
      <4>. HIDE DEF e
      <4>. QED  BY <3>0, <4>3, <4>4 DEF Range
    <3>. QED  BY <3>1, <3>2, <3>3
  <2>. QED  BY <2>2, <2>5, <2>6
<1>. QED  BY <1>1, <1>2

\* list_push_front adds just one element.
LEMMA PushOne ==
  ASSUME NEW S, NEW s \in Seq(S), NEW bp \in S
  PROVE  /\ <<bp>> \o s \in Seq(S)
         /\ IsInjective(s) /\ bp \notin Range(s) => IsInjective(<<bp>> \o s)
         /\ Range(<<bp>> \o s) = Range(s) \cup {bp}
<1>. DEFINE e == <<bp>> \o s
<1>1. e \in Seq(S) /\ Len(e) = Len(s) + 1 /\ e[1] = bp /\ \A k \in 1..Len(s) : e[k + 1] = s[k]
  OBVIOUS
<1>2. Len(s) \in Nat /\ DOMAIN s = 1..Len(s) /\ DOMAIN e = 1..(Len(s) + 1)
  BY <1>1
<1>. HIDE DEF e
<1>3. \A k \in DOMAIN e : k # 1 => k - 1 \in 1..Len(s) /\ e[k] = s[k - 1]
  BY <1>1, <1>2
<1>4. ASSUME IsInjective(s), bp \notin Range(s) PROVE IsInjective(e)
  <2>1. \A k \in DOMAIN e : k # 1 => e[k] # bp
    BY <1>2, <1>3, <1>4 DEF Range
  <2>2. \A j, k \in DOMAIN e : j # 1 /\ k # 1 /\ e[j] = e[k] => j = k
    BY <1>2, <1>3, <1>4 DEF IsInjective
  <2>. QED  BY <1>1, <2>1, <2>2 DEF IsInjective
<1>5. Range(e) = Range(s) \cup {bp}
  <2>1. \A x \in Range(e) : x \in Range(s) \cup {bp}
    BY <1>1, <1>2, <1>3 DEF Range
  <2>2. ASSUME NEW x \in Range(s) PROVE x \in Range(e)
    <3>1. PICK k \in 1..Len(s) : x = s[k]
      BY <1>2, <2>2 DEF Range
    <3>2. k + 1 \in DOMAIN e /\ e[k + 1] = x
      BY <1>1, <1>2, <3>1
    <3>. QED  BY <3>2 DEF Range
  <2>3. 1 \in DOMAIN e /\ e[1] = bp
    BY <1>1, <1>2
  <2>4. bp \in Range(e)
    BY <2>3 DEF Range
  <2>. QED  BY <2>1, <2>2, <2>4
<1>. QED  BY <1>1, <1>4, <1>5 DEF e

\* The list of each class has the blocks that K gives the class, once each.
ListsAre(h, K) ==
  \A l \in Classes : IsInjective(h.lists[l]) /\ Range(h.lists[l]) = K[l]

\* free_list_erase takes a block out of every list and leaves the memory
\* alone.
LEMMA Erase ==
  ASSUME NEW h \in Heaps, NEW bp
  PROVE  /\ free_list_erase(h, bp) \in Heaps
         /\ free_list_erase(h, bp).mem = h.mem
         /\ free_list_erase(h, bp).tail = h.tail
         /\ free_list_erase(h, bp).brk = h.brk
         /\ \A K : ListsAre(h, K) => ListsAre(free_list_erase(h, bp), [l \in Classes |-> K[l] \ {bp}])
<1>. DEFINE g == free_list_erase(h, bp)
            L == [l \in Classes |-> list_erase(h.lists[l], bp)]
<1>1. h.lists \in [Classes -> Seq(0..MaxHeap)]
  BY DEF Heaps, Classes
<1>2. L \in [Classes -> Seq(0..MaxHeap)]
  BY <1>1, EraseOne
<1>3. g = [h EXCEPT !.lists = L]
  BY <1>1 DEF free_list_erase
<1>. HIDE DEF g, L
<1>4. g.lists = L /\ g.mem = h.mem /\ g.tail = h.tail /\ g.brk = h.brk /\ g \in Heaps
  BY <1>2, <1>3 DEF Heaps, Classes
<1>5. ASSUME NEW K, ListsAre(h, K) PROVE ListsAre(g, [l \in Classes |-> K[l] \ {bp}])
  <2>. SUFFICES ASSUME NEW l \in Classes PROVE IsInjective(g.lists[l]) /\ Range(g.lists[l]) = K[l] \ {bp}
    BY DEF ListsAre
  <2>1. g.lists[l] = list_erase(h.lists[l], bp) /\ h.lists[l] \in Seq(0..MaxHeap)
    BY <1>1, <1>4 DEF L
  <2>2. IsInjective(h.lists[l]) /\ Range(h.lists[l]) = K[l]
    BY <1>5 DEF ListsAre
  <2>. QED  BY <2>1, <2>2, EraseOne
<1>. QED  BY <1>4, <1>5 DEF g

\* free_list_insert puts a block into the list of its size only and leaves
\* the memory alone.
LEMMA Insert ==
  ASSUME Numbers, NEW h \in Heaps, NEW bp \in 1..MaxHeap, h.mem[bp - 1] \in Metas
  PROVE  /\ free_list_insert(h, bp) \in Heaps
         /\ free_list_insert(h, bp).mem = h.mem
         /\ free_list_insert(h, bp).tail = h.tail
         /\ free_list_insert(h, bp).brk = h.brk
         /\ policy[1] # "implicit" =>
              \A K : ListsAre(h, K) /\ (\A l \in Classes : bp \notin K[l]) =>
                ListsAre(free_list_insert(h, bp),
                         [l \in Classes |-> IF l = list_of(Size(h, bp)) THEN K[l] \cup {bp} ELSE K[l]])
<1>1. CASE policy[1] = "implicit"
  BY <1>1 DEF free_list_insert
<1>2. CASE policy[1] # "implicit"
  <2>. DEFINE g == free_list_insert(h, bp)
              c == list_of(Size(h, bp))
              L == [h.lists EXCEPT ![c] = <<bp>> \o @]
  <2>1. h.lists \in [Classes -> Seq(0..MaxHeap)] /\ bp \in 0..MaxHeap
    BY HeapAssumption DEF Heaps, Classes
  <2>2. c \in Classes
    <3>1. Size(h, bp) \in Nat
      BY HeapAssumption DEF Size, Metas
    <3>. QED  BY <3>1, ClassOf
  <2>3. g = [h EXCEPT !.lists = L]
    BY <1>2 DEF free_list_insert, get_size, header, Size
  <2>. HIDE DEF c
  <2>4. \A l \in Classes : L[l] = IF l = c THEN <<bp>> \o h.lists[l] ELSE h.lists[l]
    BY <2>1, <2>2
  <2>5. L \in [Classes -> Seq(0..MaxHeap)]
    <3>1. \A l \in Classes : L[l] \in Seq(0..MaxHeap)
      BY <2>1, <2>4, PushOne, ZenonT(60)
    <3>2. DOMAIN L = Classes /\ L = [l \in DOMAIN L |-> L[l]]
      BY <2>1, ZenonT(60)
    <3>. HIDE DEF L
    <3>. QED  BY <3>1, <3>2
  <2>. HIDE DEF g, L
  <2>6. g.lists = L /\ g.mem = h.mem /\ g.tail = h.tail /\ g.brk = h.brk /\ g \in Heaps
    BY <2>3, <2>5 DEF Heaps, Classes
  <2>7. ASSUME NEW K, ListsAre(h, K), \A l \in Classes : bp \notin K[l]
        PROVE  ListsAre(g, [l \in Classes |-> IF l = c THEN K[l] \cup {bp} ELSE K[l]])
    <3>. SUFFICES ASSUME NEW l \in Classes
                  PROVE  IsInjective(g.lists[l]) /\ Range(g.lists[l]) = IF l = c THEN K[l] \cup {bp} ELSE K[l]
      BY DEF ListsAre
    <3>1. g.lists[l] = (IF l = c THEN <<bp>> \o h.lists[l] ELSE h.lists[l]) /\ h.lists[l] \in Seq(0..MaxHeap)
      BY <2>1, <2>4, <2>6
    <3>2. IsInjective(h.lists[l]) /\ Range(h.lists[l]) = K[l] /\ bp \notin K[l]
      BY <2>7 DEF ListsAre
    <3>3. CASE l = c
      <4>1. IsInjective(<<bp>> \o h.lists[l]) /\ Range(<<bp>> \o h.lists[l]) = Range(h.lists[l]) \cup {bp}
        <5>. DEFINE s == h.lists[l]
                    S == 0..MaxHeap
        <5>1. s \in Seq(S) /\ bp \in S /\ IsInjective(s) /\ bp \notin Range(s)
          BY <2>1, <3>1, <3>2
        <5>. HIDE DEF s, S
        <5>2. IsInjective(<<bp>> \o s) /\ Range(<<bp>> \o s) = Range(s) \cup {bp}
          BY <5>1, PushOne
        <5>. QED  BY <5>2 DEF s
      <4>. QED  BY <3>1, <3>2, <3>3, <4>1
    <3>4. CASE l # c
      BY <3>1, <3>2, <3>4
    <3>. QED  BY <3>3, <3>4
  <2>. QED  BY <2>6, <2>7 DEF g, c
<1>. QED  BY <1>1, <1>2

-----------------------------------------------------------------------------
(* Good heaps                                                              *)

FreeBy(h, B) == [l \in Classes |-> {b \in B : Alloc(h, b) = 0 /\ list_of(Size(h, b)) = l}]
Listed(h, B) == policy[1] # "implicit" => ListsAre(h, FreeBy(h, B))
Good(h) == Sound(h, Blocks(h), {}) /\ Listed(h, Blocks(h))
Used(h) == {b \in Blocks(h) : Alloc(h, b) = 1}
Saved(h, g, b) ==
  /\ Size(g, b) >= Size(h, b)
  /\ \A k \in b..(b + Size(h, b) - 2) : g.mem[k] = h.mem[k]

\* Lists with equal members are as good as each other.
LEMMA SameLists ==
  ASSUME NEW h, NEW K, NEW L, ListsAre(h, K), \A l \in Classes : K[l] = L[l]
  PROVE  ListsAre(h, L)
BY DEF ListsAre

\* The free blocks of each size class after blocks from m to e were joined.
LEMMA JoinedFree ==
  ASSUME NEW h, NEW B, Tiled(h, B), Bits(h, B), NEW m \in B, NEW e \in B \cup {h.tail},
         m < e, NEW a \in {0, 1}, NEW g, Joined(h, B, g, m, e, a), NEW l \in Classes
  PROVE  FreeBy(g, Without(B, m, e))[l] =
           (FreeBy(h, B)[l] \ (m..(e - 1))) \cup (IF a = 0 /\ list_of(e - m) = l THEN {m} ELSE {})
<1>. DEFINE C == Without(B, m, e)
<1>1. B \subseteq Nat /\ m \in Nat /\ e \in Nat
  BY Geometry
<1>2. Size(g, m) = e - m /\ Alloc(g, m) = a
  BY Join
<1>3. \A b \in B : b < m \/ b >= e => Size(g, b) = Size(h, b) /\ Alloc(g, b) = Alloc(h, b)
  BY Join DEF Outside
<1>4. \A b : b \in C <=> b \in B /\ (b <= m \/ b >= e)
  BY DEF Without
<1>5. \A b \in B : b \in m..(e - 1) <=> ~(b < m \/ b >= e)
  BY <1>1
<1>6. FreeBy(g, C)[l] = {b \in C : Alloc(g, b) = 0 /\ list_of(Size(g, b)) = l}
      /\ FreeBy(h, B)[l] = {b \in B : Alloc(h, b) = 0 /\ list_of(Size(h, b)) = l}
  BY ZenonT(60) DEF FreeBy
<1>. HIDE DEF C
<1>7. ASSUME NEW b
      PROVE  b \in FreeBy(g, C)[l] <=>
               b \in (FreeBy(h, B)[l] \ (m..(e - 1))) \cup (IF a = 0 /\ list_of(e - m) = l THEN {m} ELSE {})
  <2>1. CASE b = m
    <3>1. m \in C /\ m \in m..(e - 1)
      BY <1>1, <1>4
    <3>. QED  BY <1>2, <1>6, <2>1, <3>1
  <2>2. CASE b # m /\ b \in B
    <3>1. b \in C <=> b < m \/ b >= e
      BY <1>1, <1>4, <2>2
    <3>. QED  BY <1>3, <1>5, <1>6, <2>2, <3>1
  <2>3. CASE b \notin B
    BY <1>4, <1>6, <2>3, ZenonT(60)
  <2>. QED  BY <2>1, <2>2, <2>3
<1>. QED  BY <1>7 DEF C

\* absorb, the set_meta and sync_footer of coalesce, joins the blocks from m
\* to e and writes their footer.
LEMMA Absorbed ==
  ASSUME NEW h, NEW B, Tiled(h, B), NEW m \in B, NEW e \in B \cup {h.tail}, m < e,
         Prev(h, m) = 1, Prev(h, e) = 0
  PROVE  /\ Joined(h, B, absorb(h, m, e - m), m, e, 0)
         /\ absorb(h, m, e - m).mem[e - 2] = absorb(h, m, e - m).mem[m - 1]
         /\ absorb(h, m, e - m).lists = h.lists
<1>. DEFINE D == 0..(MaxHeap - 1)
            x == Meta(e - m, 1, 0)
            f == absorb(h, m, e - m)
            M == [h.mem EXCEPT ![m - 1] = x]
            N == [M EXCEPT ![e - 2] = x]
<1>1. /\ m \in 4..MaxHeap /\ e \in 4..MaxHeap /\ e - m \in 2..MaxHeap /\ h \in Heaps /\ h.mem[e - 1] \in Metas
      /\ MaxHeap \in Nat
  BY Geometry
<1>2. x \in Words
  BY <1>1 DEF Meta, Words
<1>3. h.mem \in [D -> Words] /\ m - 1 \in D /\ e - 2 \in D /\ e - 1 \in D /\ m - 1 # e - 2 /\ m - 1 # e - 1 /\ e - 1 # e - 2
  BY <1>1 DEF Heaps
<1>. HIDE DEF x
<1>4. M \in [D -> Words] /\ N \in [D -> Words] /\ N[m - 1] = x /\ N[e - 2] = x
      /\ M[m - 1] = x /\ \A k \in D : k # m - 1 /\ k # e - 2 => N[k] = h.mem[k]
  BY <1>2, <1>3, ZenonT(60)
<1>5. f = [h EXCEPT !.mem = N]
  <2>1. set_meta(h, m - 1, e - m, 1, 0) = [h EXCEPT !.mem = M]
    BY DEF set_meta, x
  <2>. DEFINE j == [h EXCEPT !.mem = M]
  <2>2. j.mem = M /\ [j EXCEPT !.mem = N] = [h EXCEPT !.mem = N]
    BY <1>1, ZenonT(60) DEF Heaps
  <2>3. footer(j, m) = e - 2
    <3>1. get_size(j, header(m)) = e - m
      BY <1>4, <2>2 DEF get_size, header, x, Meta
    <3>. QED  BY <1>1, <3>1 DEF footer
  <2>4. sync_footer(j, m) = [j EXCEPT !.mem = [j.mem EXCEPT ![e - 2] = j.mem[m - 1]]]
    BY <2>3, ZenonT(60) DEF sync_footer, header
  <2>5. sync_footer(j, m) = [j EXCEPT !.mem = N]
    BY <1>4, <2>2, <2>4, ZenonT(60)
  <2>6. f = sync_footer(j, m)
    BY <2>1 DEF absorb, header
  <2>. QED  BY <2>2, <2>5, <2>6
<1>. HIDE DEF f, M, N
<1>6. f \in Heaps /\ f.mem = N /\ f.tail = h.tail /\ f.brk = h.brk /\ f.lists = h.lists
  BY <1>1, <1>4, <1>5, ZenonT(60) DEF Heaps
<1>7. h.mem[e - 1] = Meta(Size(h, e), 0, Alloc(h, e))
  BY <1>1 DEF Metas, Meta, Size, Alloc, Prev
<1>8. N[e - 1] = h.mem[e - 1]
  BY <1>3, <1>4
<1>9. \A k \in D : k < m - 1 \/ k >= e => N[k] = h.mem[k]
  BY <1>1, <1>4
<1>10. Joined(h, B, f, m, e, 0)
  BY <1>4, <1>6, <1>7, <1>8, <1>9, ZenonT(60) DEF Joined, x
<1>. QED  BY <1>4, <1>6, <1>10, ZenonT(60) DEF f

-----------------------------------------------------------------------------
(* Merging free blocks                                                     *)

\* A heap that differs in its lists only.
SameMemory(h, g) == g \in Heaps /\ g.mem = h.mem /\ g.tail = h.tail /\ g.brk = h.brk

\* Headers and footers are read from the memory only.
LEMMA SameFields ==
  ASSUME NEW h, NEW g, g.mem = h.mem
  PROVE  \A b : Size(g, b) = Size(h, b) /\ Alloc(g, b) = Alloc(h, b) /\ Prev(g, b) = Prev(h, b)
                /\ (Footed(g, b) <=> Footed(h, b))
BY DEF Size, Alloc, Prev, Footed

\* A change of the lists changes no block.
LEMMA SameTiling ==
  ASSUME NEW h, NEW B, Tiled(h, B), Bits(h, B), NEW g, SameMemory(h, g)
  PROVE  Tiled(g, B) /\ Bits(g, B) /\ FreeBy(g, B) = FreeBy(h, B)
<1>1. g \in Heaps /\ g.mem = h.mem /\ g.tail = h.tail /\ g.brk = h.brk
  BY ZenonT(60) DEF SameMemory
<1>2. Tiled(g, B)
  BY <1>1, ZenonT(60) DEF Tiled, Size
<1>. QED  BY <1>1, <1>2, SameFields DEF Bits, FreeBy

\* free_list_update moves a block to the list of its size.
LEMMA Update ==
  ASSUME Numbers, NEW h \in Heaps, NEW bp \in 1..MaxHeap, h.mem[bp - 1] \in Metas, NEW K,
         policy[1] # "implicit" => ListsAre(h, K),
         policy[1] # "segregated" => /\ bp \in K[list_of(Size(h, bp))]
                                     /\ \A l \in Classes : l # list_of(Size(h, bp)) => bp \notin K[l]
  PROVE  /\ SameMemory(h, free_list_update(h, bp))
         /\ policy[1] # "implicit" =>
              ListsAre(free_list_update(h, bp),
                       [l \in Classes |-> (K[l] \ {bp}) \cup (IF l = list_of(Size(h, bp)) THEN {bp} ELSE {})])
<1>. DEFINE c == list_of(Size(h, bp))
            W == [l \in Classes |-> (K[l] \ {bp}) \cup (IF l = c THEN {bp} ELSE {})]
<1>1. CASE policy[1] # "segregated"
  <2>1. free_list_update(h, bp) = h
    BY <1>1 DEF free_list_update
  <2>2. \A l \in Classes : K[l] = W[l]
    BY <1>1, ZenonT(60)
  <2>3. policy[1] # "implicit" => ListsAre(h, W)
    <3>. HIDE DEF W
    <3>. QED  BY <2>2, SameLists
  <2>. QED  BY <2>1, <2>3 DEF SameMemory
<1>2. CASE policy[1] = "segregated"
  <2>. DEFINE g == free_list_erase(h, bp)
              j == free_list_insert(g, bp)
              V == [l \in Classes |-> K[l] \ {bp}]
              U == [l \in Classes |-> IF l = list_of(Size(g, bp)) THEN V[l] \cup {bp} ELSE V[l]]
  <2>1. g \in Heaps /\ g.mem = h.mem /\ g.tail = h.tail /\ g.brk = h.brk /\ ListsAre(g, V)
    BY <1>2, Erase
  <2>2. \A l \in Classes : bp \notin V[l]
    OBVIOUS
  <2>3. Size(g, bp) = Size(h, bp)
    BY <2>1 DEF Size
  <2>4. j = free_list_update(h, bp)
    BY <1>2, ZenonT(60) DEF free_list_update
  <2>. HIDE DEF g, V
  <2>5. j \in Heaps /\ j.mem = g.mem /\ j.tail = g.tail /\ j.brk = g.brk /\ ListsAre(j, U)
    BY <1>2, <2>1, <2>2, Insert, ZenonT(60)
  <2>6. \A l \in Classes : U[l] = W[l]
    BY <2>3, ZenonT(60) DEF V
  <2>7. ListsAre(j, W)
    <3>. HIDE DEF W, U, j
    <3>. QED  BY <2>5, <2>6, SameLists
  <2>. QED  BY <2>1, <2>4, <2>5, <2>7, ZenonT(60) DEF SameMemory
<1>. QED  BY <1>1, <1>2, ZenonT(60)

\* Once the free blocks from m to e are one and the lists have lost all of
\* them but m, free_list_update makes the heap good again.
LEMMA Merged ==
  ASSUME Numbers, NEW h, NEW B, NEW X, Sound(h, B, X), NEW m \in B, NEW e \in B \cup {h.tail}, m < e,
         Alloc(h, e) = 1, Prev(h, m) = 1,
         \A b \in B : m <= b /\ b < e => Alloc(h, b) = 0,
         \A b \in B \cap X : (m <= b /\ b < e) \/ Alloc(h, b) = 1,
         NEW f, Joined(h, B, f, m, e, 0), f.mem[e - 2] = f.mem[m - 1],
         policy[1] # "implicit" =>
           ListsAre(f, [l \in Classes |-> FreeBy(h, B)[l] \ ((m + 1)..(e - 1))])
  PROVE  LET g == free_list_update(f, m)
         IN  /\ Good(g) /\ Blocks(g) = Without(B, m, e) /\ g.tail = h.tail
             /\ Alloc(g, m) = 0 /\ Size(g, m) = e - m
             /\ Used(g) = {b \in B : Alloc(h, b) = 1}
             /\ \A b \in B : Alloc(h, b) = 1 => Saved(h, g, b)
<1>. DEFINE g == free_list_update(f, m)
            C == Without(B, m, e)
            K == FreeBy(h, B)
            V == [l \in Classes |-> K[l] \ ((m + 1)..(e - 1))]
            W == [l \in Classes |-> (V[l] \ {m}) \cup (IF l = list_of(Size(f, m)) THEN {m} ELSE {})]
<1>0. Tiled(h, B) /\ Bits(h, B) /\ m \in Nat /\ e \in Nat /\ B \subseteq Nat /\ MaxHeap \in Nat /\ m \in 1..MaxHeap
  <2>1. Tiled(h, B) /\ Bits(h, B)
    BY ZenonT(60) DEF Sound
  <2>. QED  BY <2>1, Geometry
<1>1. /\ Tiled(f, C) /\ Bits(f, C)
      /\ Size(f, m) = e - m /\ Alloc(f, m) = 0 /\ Prev(f, m) = Prev(h, m)
      /\ \A b \in B : b < m \/ b > e => f.mem[b - 1] = h.mem[b - 1]
      /\ Size(f, e) = Size(h, e) /\ Alloc(f, e) = Alloc(h, e)
      /\ Outside(h, f, B, m, e)
  BY <1>0, Join
<1>2. \A l \in Classes : FreeBy(f, C)[l] = (K[l] \ (m..(e - 1))) \cup (IF list_of(e - m) = l THEN {m} ELSE {})
  BY <1>0, JoinedFree
<1>3. f \in Heaps /\ f.tail = h.tail /\ f.brk = h.brk
  BY ZenonT(60) DEF Joined
<1>4. m \in C /\ f.mem[m - 1] \in Metas /\ Size(f, m) \in Nat
  <2>1. m \in C
    BY <1>0 DEF Without
  <2>. QED  BY <1>0, <1>1, <2>1 DEF Tiled
<1>14. \A b \in C : b \in B /\ (b = m \/ b < m \/ b >= e)
  BY <1>0 DEF Without
<1>5. SameMemory(f, g) /\ (policy[1] # "implicit" => ListsAre(g, W))
  <2>1. ASSUME policy[1] # "segregated"
        PROVE  m \in V[list_of(Size(f, m))] /\ \A l \in Classes : l # list_of(Size(f, m)) => m \notin V[l]
    <3>1. \A n : list_of(n) = 0
      BY <2>1, ZenonT(60) DEF list_of
    <3>2. Alloc(h, m) = 0 /\ 0 \in Classes /\ m \notin (m + 1)..(e - 1)
      BY <1>0, HeapAssumption DEF Classes
    <3>3. m \in K[0] /\ \A l \in Classes : l # 0 => m \notin K[l]
      BY <3>1, <3>2, ZenonT(60) DEF FreeBy
    <3>. QED  BY <3>1, <3>2, <3>3, ZenonT(60)
  <2>2. policy[1] # "implicit" => ListsAre(f, V)
    OBVIOUS
  <2>. HIDE DEF V, W
  <2>3. policy[1] # "implicit" =>
          ListsAre(g, [l \in Classes |-> (V[l] \ {m}) \cup (IF l = list_of(Size(f, m)) THEN {m} ELSE {})])
    BY <1>0, <1>3, <1>4, <2>1, <2>2, Update, ZenonT(60)
  <2>4. SameMemory(f, g)
    BY <1>0, <1>3, <1>4, <2>1, <2>2, Update, ZenonT(60)
  <2>. QED  BY <2>3, <2>4, ZenonT(60) DEF W
<1>6. Tiled(g, C) /\ Bits(g, C) /\ FreeBy(g, C) = FreeBy(f, C) /\ g.mem = f.mem /\ g.tail = h.tail
  BY <1>1, <1>3, <1>5, SameTiling, ZenonT(60) DEF SameMemory
<1>. HIDE DEF g
<1>7. Listed(g, C)
  <2>1. \A l \in Classes : W[l] = FreeBy(f, C)[l]
    <3>. SUFFICES ASSUME NEW l \in Classes PROVE W[l] = FreeBy(f, C)[l]
      BY ZenonT(60)
    <3>1. (K[l] \ ((m + 1)..(e - 1))) \ {m} = K[l] \ (m..(e - 1))
      <4>1. K[l] \subseteq Nat
        BY <1>0, ZenonT(60) DEF FreeBy
      <4>. HIDE DEF K
      <4>. QED  BY <1>0, <4>1
    <3>. HIDE DEF K, C
    <3>. QED  BY <1>1, <1>2, <3>1, ZenonT(60)
  <2>. HIDE DEF W, C
  <2>2. policy[1] # "implicit" => ListsAre(g, FreeBy(f, C))
    BY <1>5, <2>1, SameLists
  <2>. QED  BY <1>6, <2>2, ZenonT(60) DEF Listed
<1>8. Sound(g, C, {})
  <2>. SUFFICES ASSUME NEW b \in C, Alloc(f, b) = 0 PROVE Prev(f, b) = 1 /\ Footed(f, b)
    BY <1>6, SameFields DEF Sound
  <2>1. CASE b = m
    <3>1. m + (e - m) - 2 = e - 2
      BY <1>0
    <3>. QED  BY <1>1, <2>1, <3>1, ZenonT(60) DEF Footed
  <2>2. CASE b # m
    <3>1. b \in B /\ (b < m \/ b >= e)
      BY <1>14, <2>2, ZenonT(60)
    <3>2. b # e
      BY <1>1
    <3>3. b \in B /\ (b < m \/ b > e)
      BY <1>0, <3>1, <3>2
    <3>4. f.mem[b - 1] = h.mem[b - 1] /\ Size(f, b) = Size(h, b) /\ Alloc(h, b) = 0
      BY <1>1, <3>3, ZenonT(60) DEF Size, Alloc
    <3>5. b \notin X
      BY <1>0, <3>1, <3>4
    <3>6. Prev(h, b) = 1 /\ h.mem[b + Size(h, b) - 2] = h.mem[b - 1]
      BY <3>3, <3>4, <3>5, ZenonT(60) DEF Sound, Footed
    <3>7. b + Size(h, b) - 2 \in b..(b + Size(h, b) - 2)
      BY <1>0, <3>3, Geometry
    <3>8. f.mem[b + Size(h, b) - 2] = h.mem[b + Size(h, b) - 2]
      BY <1>1, <3>1, <3>7, ZenonT(60) DEF Outside
    <3>. QED  BY <3>4, <3>6, <3>8, ZenonT(60) DEF Footed, Prev
  <2>. QED  BY <2>1, <2>2, ZenonT(60)
<1>9. Blocks(g) = C
  BY <1>6, TiledBlocks, ZenonT(60)
<1>10. Good(g)
  BY <1>7, <1>8, <1>9, ZenonT(60) DEF Good
<1>11. Used(g) = {b \in B : Alloc(h, b) = 1}
  <2>1. ASSUME NEW b \in C, Alloc(g, b) = 1 PROVE b \in B /\ Alloc(h, b) = 1
    <3>1. Alloc(f, b) = 1
      BY <1>6, <2>1, ZenonT(60) DEF Alloc
    <3>2. b # m
      BY <1>1, <3>1
    <3>3. b \in B /\ (b < m \/ b >= e)
      BY <1>14, <3>2, ZenonT(60)
    <3>. QED  BY <1>1, <3>1, <3>3, ZenonT(60) DEF Outside
  <2>2. ASSUME NEW b \in B, Alloc(h, b) = 1 PROVE b \in C /\ Alloc(g, b) = 1
    <3>1. b < m \/ b >= e
      BY <1>0, <2>2
    <3>2. Alloc(f, b) = 1
      BY <1>1, <2>2, <3>1, ZenonT(60) DEF Outside
    <3>. QED  BY <1>0, <1>6, <3>1, <3>2 DEF Without, Alloc
  <2>. QED  BY <1>9, <2>1, <2>2, ZenonT(60) DEF Used
<1>12. ASSUME NEW b \in B, Alloc(h, b) = 1 PROVE Saved(h, g, b)
  <2>1. b < m \/ b >= e
    BY <1>0, <1>12
  <2>2. Size(g, b) = Size(h, b) /\ \A k \in b..(b + Size(h, b) - 2) : g.mem[k] = h.mem[k]
    BY <1>1, <1>6, <2>1 DEF Outside, Size
  <2>3. Size(h, b) \in Int
    BY <1>0, Geometry
  <2>. QED  BY <2>2, <2>3 DEF Saved
<1>13. Alloc(g, m) = 0 /\ Size(g, m) = e - m
  BY <1>1, <1>6 DEF Alloc, Size
<1>. QED  BY <1>6, <1>9, <1>10, <1>11, <1>12, <1>13, ZenonT(60) DEF g

-----------------------------------------------------------------------------
(* coalesce                                                                *)

Coalesced(h, B, g) ==
  /\ Good(g) /\ g.tail = h.tail
  /\ Used(g) = {b \in B : Alloc(h, b) = 1}
  /\ \A b \in B : Alloc(h, b) = 1 => Saved(h, g, b)

\* coalesce, from a heap that is sound except at the block bp just freed and
\* its successor, leaves a good heap with the same allocated blocks and a
\* free block that holds bp.
LEMMA Coalesce ==
  ASSUME Numbers, NEW h, NEW B, NEW bp \in B, Sound(h, B, {bp, bp + Size(h, bp)}), Listed(h, B),
         Alloc(h, bp) = 0, Footed(h, bp)
  PROVE  LET r == coalesce(h, bp)
         IN  /\ Coalesced(h, B, r.h) /\ r.bp \in Blocks(r.h) /\ Alloc(r.h, r.bp) = 0
             /\ Size(r.h, r.bp) >= Size(h, bp)
             /\ Prev(h, bp) = 0 => Size(r.h, r.bp) >= h.mem[bp - 2].size + Size(h, bp)
<1>. DEFINE r == coalesce(h, bp)
            N == bp + Size(h, bp)
            s == h.mem[bp - 2].size
            m == IF Prev(h, bp) = 0 THEN bp - s ELSE bp
            e == IF Alloc(h, N) = 0 THEN N + Size(h, N) ELSE N
            K == FreeBy(h, B)
            V == [l \in Classes |-> K[l] \ ((m + 1)..(e - 1))]
            f == IF Prev(h, bp) = 0 \/ Alloc(h, N) = 0 THEN absorb(h, m, e - m) ELSE h
            j == IF Prev(h, bp) = 0 THEN free_list_erase(f, bp) ELSE f
            i == IF Alloc(h, N) = 0 THEN free_list_erase(j, N) ELSE j
<1>0. Tiled(h, B) /\ Bits(h, B)
  BY ZenonT(60) DEF Sound
<1>1. /\ MaxHeap \in Nat /\ h.tail \in 4..MaxHeap /\ h \in Heaps
      /\ \A b \in B : /\ b \in 4..(h.tail - 1) /\ Size(h, b) \in 2..MaxHeap
                      /\ b + Size(h, b) \in B \cup {h.tail} /\ b + Size(h, b) <= h.tail
      /\ \A b \in B \cup {h.tail} : h.mem[b - 1] \in Metas /\ b \in 4..MaxHeap
      /\ \A b \in B : \A c \in B \cup {h.tail} : b < c => b + Size(h, b) <= c
  BY <1>0, Geometry, ZenonT(60)
<1>2. N \in B \cup {h.tail} /\ bp < N /\ Prev(h, N) = 0 /\ Size(h, bp) \in Nat /\ bp \in Nat /\ N \in Nat
  BY <1>0, <1>1 DEF Bits
<1>3. ASSUME Prev(h, bp) = 0
      PROVE  bp - s \in B /\ bp - s < bp /\ s \in Nat /\ Prev(h, bp - s) = 1 /\ Alloc(h, bp - s) = 0 /\ s = Size(h, bp - s)
  <2>1. bp # 4
    BY <1>0, <1>3 DEF Bits
  <2>2. PICK p \in B : p < bp /\ p + Size(h, p) = bp
    BY <1>0, <2>1, Before
  <2>3. Alloc(h, p) = 0
    BY <1>0, <1>3, <2>2, ZenonT(60) DEF Bits
  <2>4. p # bp /\ p # N /\ p \in Nat /\ Size(h, p) \in Nat
    BY <1>1, <1>2, <2>2
  <2>5. Prev(h, p) = 1 /\ h.mem[p + Size(h, p) - 2] = h.mem[p - 1]
    BY <2>3, <2>4 DEF Sound, Footed
  <2>8. h.mem[bp - 2] = h.mem[p - 1]
    <3>1. p + Size(h, p) - 2 = bp - 2
      BY <1>2, <2>2, <2>4
    <3>. QED  BY <2>5, <3>1
  <2>6. s = Size(h, p)
    BY <2>8, ZenonT(60) DEF Size
  <2>7. bp - s = p
    BY <1>2, <2>2, <2>4, <2>6
  <2>. QED  BY <2>2, <2>3, <2>4, <2>5, <2>6, <2>7
<1>4. ASSUME Alloc(h, N) = 0
      PROVE  N \in B /\ N + Size(h, N) \in B \cup {h.tail} /\ N < N + Size(h, N)
             /\ Alloc(h, N + Size(h, N)) # 0 /\ Prev(h, N + Size(h, N)) = 0 /\ Size(h, N) \in Nat
  <2>1. Alloc(h, h.tail) = 1
    BY <1>0 DEF Tiled, Alloc
  <2>2. N \in B
    BY <1>2, <1>4, <2>1
  <2>3. N + Size(h, N) \in B \cup {h.tail} /\ N < N + Size(h, N) /\ Size(h, N) \in Nat
    BY <1>1, <2>2
  <2>. DEFINE c == N + Size(h, N)
  <2>4. Prev(h, c) = 0
    BY <1>0, <1>4, <2>2, ZenonT(60) DEF Bits
  <2>5. ASSUME Alloc(h, c) = 0 PROVE FALSE
    <3>1. c \in B /\ c # N /\ c # bp
      BY <1>1, <1>2, <2>1, <2>3, <2>5
    <3>. QED  BY <2>4, <2>5, <3>1 DEF Sound
  <2>. QED  BY <2>2, <2>3, <2>4, <2>5, ZenonT(60)
<1>5. m \in B /\ m <= bp /\ Prev(h, m) = 1 /\ Alloc(h, m) = 0 /\ m \in Nat /\ s = s
  <2>1. CASE Prev(h, bp) = 0
    <3>1. m = bp - s
      BY <2>1, ZenonT(60)
    <3>. QED  BY <1>1, <1>2, <1>3, <2>1, <3>1
  <2>2. CASE Prev(h, bp) # 0
    <3>1. h.mem[bp - 1].prev \in {0, 1}
      BY <1>1 DEF Metas
    <3>. QED  BY <1>2, <2>2, <3>1 DEF Prev
  <2>. QED  BY <2>1, <2>2, ZenonT(60)
<1>6. e \in B \cup {h.tail} /\ N <= e /\ Prev(h, e) = 0 /\ Alloc(h, e) = 1 /\ e \in Nat
  <2>1. \A b \in B \cup {h.tail} : Alloc(h, b) \in {0, 1}
    BY <1>1, ZenonT(60) DEF Alloc, Metas
  <2>2. CASE Alloc(h, N) = 0
    <3>1. e = N + Size(h, N)
      BY <2>2, ZenonT(60)
    <3>. QED  BY <1>1, <1>2, <1>4, <2>1, <2>2, <3>1
  <2>3. CASE Alloc(h, N) # 0
    BY <1>2, <2>1, <2>3
  <2>. QED  BY <2>2, <2>3, ZenonT(60)
<1>7. m < e
  BY <1>2, <1>5, <1>6
<1>19. ASSUME NEW b \in B, m <= b, b < e, b # m, b # bp PROVE b = N /\ Alloc(h, N) = 0
  <2>1. b \in Nat
    BY <1>1
  <2>2. ~(b < bp)
    <3>. SUFFICES ASSUME b < bp PROVE FALSE
      BY ZenonT(60)
    <3>1. m < bp /\ m < b
      BY <1>2, <1>5, <1>19, <2>1
    <3>2. Prev(h, bp) = 0 /\ m = bp - s
      BY <1>2, <3>1
    <3>3. m + Size(h, m) <= b /\ m + Size(h, m) = bp
      BY <1>1, <1>2, <1>3, <1>5, <3>1, <3>2
    <3>. QED  BY <1>2, <2>1, <3>3
  <2>3. N <= b
    BY <1>1, <1>2, <1>19, <2>1, <2>2
  <2>4. Alloc(h, N) = 0
    BY <1>2, <1>19, <2>1, <2>3
  <2>5. e = N + Size(h, N) /\ N \in B
    BY <1>4, <2>4, ZenonT(60)
  <2>6. b < N + Size(h, N)
    BY <1>19, <2>5, ZenonT(60)
  <2>. HIDE DEF N, e, m
  <2>7. ~(N < b)
    BY <1>1, <1>2, <1>4, <2>1, <2>4, <2>5, <2>6
  <2>. QED  BY <1>2, <2>1, <2>3, <2>4, <2>7
<1>8. \A b \in B : m <= b /\ b < e => b = m \/ b = bp \/ (b = N /\ Alloc(h, N) = 0)
  <2>. HIDE DEF m, e, N
  <2>. QED  BY <1>19, ZenonT(60)
<1>9. \A b \in B : m <= b /\ b < e => Alloc(h, b) = 0
  BY <1>5, <1>8
<1>10. \A b \in B \cap {bp, N} : (m <= b /\ b < e) \/ Alloc(h, b) = 1
  <2>1. m <= bp /\ bp < e
    BY <1>2, <1>5, <1>6
  <2>2. Alloc(h, N) = 0 => m <= N /\ N < e
    BY <1>2, <1>4, <1>5
  <2>3. Alloc(h, N) \in {0, 1}
    BY <1>1, <1>2 DEF Alloc, Metas
  <2>. QED  BY <2>1, <2>2, <2>3, ZenonT(60)
<1>11. Joined(h, B, f, m, e, 0) /\ f.mem[e - 2] = f.mem[m - 1] /\ f.lists = h.lists /\ f \in Heaps
  <2>1. CASE Prev(h, bp) = 0 \/ Alloc(h, N) = 0
    <3>1. f = absorb(h, m, e - m)
      BY <2>1, ZenonT(60)
    <3>. HIDE DEF m, e, f
    <3>. QED  BY <1>0, <1>5, <1>6, <1>7, <3>1, Absorbed DEF Joined
  <2>2. CASE ~(Prev(h, bp) = 0 \/ Alloc(h, N) = 0)
    <3>1. f = h /\ m = bp /\ e = N /\ N - bp = Size(h, bp)
      BY <1>2, <2>2
    <3>2. h.mem[bp - 1] = Meta(Size(h, bp), Prev(h, bp), 0)
      BY <1>1, ZenonT(60) DEF Metas, Meta, Size, Prev, Alloc
    <3>3. h.mem[N - 1] = Meta(Size(h, N), 0, Alloc(h, N))
      BY <1>1, <1>2, ZenonT(60) DEF Metas, Meta, Size, Prev, Alloc
    <3>4. h.mem[N - 2] = h.mem[bp - 1]
      BY <1>2 DEF Footed
    <3>. HIDE DEF m, e, f, N
    <3>5. Joined(h, B, h, bp, N, 0)
      BY <1>1, <3>1, <3>2, <3>3, ZenonT(60) DEF Joined
    <3>. QED  BY <1>1, <3>1, <3>4, <3>5, ZenonT(60)
  <2>. QED  BY <2>1, <2>2, ZenonT(60)
<1>12. r.bp = m /\ r.h = free_list_update(i, m)
  <2>1. CASE Prev(h, bp) = 0 /\ Alloc(h, N) = 0
    <3>1. e - m = s + (Size(h, bp) + Size(h, N)) /\ m = bp - s
      BY <1>2, <1>3, <1>4, <2>1
    <3>. QED
      BY <2>1, <3>1, ZenonT(60) DEF coalesce, get_size, get_alloc, get_prev_alloc, header, next_block, prev_block,
                        prev_footer, Size, Alloc, Prev
  <2>2. CASE Prev(h, bp) = 0 /\ Alloc(h, N) # 0
    <3>1. e - m = s + Size(h, bp) /\ m = bp - s
      BY <1>2, <1>3, <2>2
    <3>. QED
      BY <2>2, <3>1, ZenonT(60) DEF coalesce, get_size, get_alloc, get_prev_alloc, header, next_block, prev_block,
                        prev_footer, Size, Alloc, Prev
  <2>3. CASE Prev(h, bp) # 0 /\ Alloc(h, N) = 0
    <3>1. e - m = Size(h, bp) + Size(h, N) /\ m = bp
      BY <1>2, <1>4, <2>3
    <3>. QED
      BY <2>3, <3>1, ZenonT(60) DEF coalesce, get_size, get_alloc, get_prev_alloc, header, next_block, prev_block,
                        prev_footer, Size, Alloc, Prev
  <2>4. CASE Prev(h, bp) # 0 /\ Alloc(h, N) # 0
    BY <2>4, ZenonT(60) DEF coalesce, get_size, get_alloc, get_prev_alloc, header, next_block, prev_block,
                        prev_footer, Size, Alloc, Prev
  <2>. QED  BY <2>1, <2>2, <2>3, <2>4, ZenonT(60)
<1>13. i.mem = f.mem /\ i.tail = f.tail /\ i.brk = f.brk /\ i \in Heaps
  <2>. HIDE DEF f
  <2>1. j.mem = f.mem /\ j.tail = f.tail /\ j.brk = f.brk /\ j \in Heaps
    BY <1>11, Erase, ZenonT(60)
  <2>. HIDE DEF j
  <2>. QED  BY <2>1, Erase, ZenonT(60)
<1>14. Joined(h, B, i, m, e, 0) /\ i.mem[e - 2] = i.mem[m - 1]
  <2>. HIDE DEF i, f, m, e
  <2>. QED  BY <1>11, <1>13 DEF Joined
<1>15. policy[1] # "implicit" => ListsAre(i, V)
  <2>. SUFFICES ASSUME policy[1] # "implicit" PROVE ListsAre(i, V)
    BY ZenonT(60)
  <2>1. ListsAre(f, K)
    BY <1>11, ZenonT(60) DEF Listed, ListsAre
  <2>. DEFINE J == IF Prev(h, bp) = 0 THEN [l \in Classes |-> K[l] \ {bp}] ELSE K
              I == IF Alloc(h, N) = 0 THEN [l \in Classes |-> J[l] \ {N}] ELSE J
  <2>2. ListsAre(j, J)
    <3>. HIDE DEF f, K
    <3>. QED  BY <1>11, <2>1, Erase, ZenonT(60)
  <2>3. j \in Heaps
    <3>. HIDE DEF f
    <3>. QED  BY <1>11, Erase, ZenonT(60)
  <2>4. ListsAre(i, I)
    <3>. HIDE DEF j, J
    <3>. QED  BY <2>2, <2>3, Erase, ZenonT(60)
  <2>5. \A l \in Classes : I[l] = V[l]
    <3>. SUFFICES ASSUME NEW l \in Classes PROVE I[l] = V[l]
      BY ZenonT(60)
    <3>1. K[l] \subseteq B /\ B \subseteq Nat
      BY <1>1 DEF FreeBy
    <3>. HIDE DEF K, m, e, N
    <3>2. bp \in (m + 1)..(e - 1) <=> bp # m
      BY <1>2, <1>5, <1>6
    <3>3. \A b \in B : b \in (m + 1)..(e - 1) => b = bp \/ (b = N /\ Alloc(h, N) = 0)
      BY <1>5, <1>6, <1>8, <3>1
    <3>4. Alloc(h, N) = 0 => N \in (m + 1)..(e - 1)
      BY <1>2, <1>4, <1>5, <1>6 DEF e
    <3>5. bp # m <=> Prev(h, bp) = 0
      BY <1>2, <1>3 DEF m
    <3>6. I[l] = (K[l] \ (IF Prev(h, bp) = 0 THEN {bp} ELSE {})) \ (IF Alloc(h, N) = 0 THEN {N} ELSE {})
      BY ZenonT(60)
    <3>7. V[l] = K[l] \ ((m + 1)..(e - 1))
      BY ZenonT(60)
    <3>. HIDE DEF I, V
    <3>. QED  BY <3>1, <3>2, <3>3, <3>4, <3>5, <3>6, <3>7
  <2>. HIDE DEF i, I, V
  <2>. QED  BY <2>4, <2>5, SameLists
<1>16. /\ Good(r.h) /\ Blocks(r.h) = Without(B, m, e) /\ r.h.tail = h.tail
       /\ Alloc(r.h, m) = 0 /\ Size(r.h, m) = e - m
       /\ Used(r.h) = {b \in B : Alloc(h, b) = 1}
       /\ \A b \in B : Alloc(h, b) = 1 => Saved(h, r.h, b)
  <2>. DEFINE X == {bp, N}
  <2>1. Sound(h, B, X)
    OBVIOUS
  <2>. HIDE DEF i, m, e, N, X
  <2>2. \A b \in B \cap X : (m <= b /\ b < e) \/ Alloc(h, b) = 1
    BY <1>10 DEF X
  <2>. DEFINE g == free_list_update(i, m)
  <2>3. /\ Good(g) /\ Blocks(g) = Without(B, m, e) /\ g.tail = h.tail
        /\ Alloc(g, m) = 0 /\ Size(g, m) = e - m
        /\ Used(g) = {b \in B : Alloc(h, b) = 1}
        /\ \A b \in B : Alloc(h, b) = 1 => Saved(h, g, b)
    BY <1>5, <1>6, <1>7, <1>9, <1>14, <1>15, <2>1, <2>2, Merged, ZenonT(60)
  <2>4. r.h = g
    BY <1>12, ZenonT(60)
  <2>. HIDE DEF g, r
  <2>. QED  BY <2>3, <2>4
<1>17. m \in Without(B, m, e)
  BY <1>5 DEF Without
<1>18. e - m >= Size(h, bp) /\ (Prev(h, bp) = 0 => e - m >= s + Size(h, bp))
  <2>1. e >= bp + Size(h, bp)
    BY <1>6, ZenonT(60)
  <2>2. Prev(h, bp) = 0 => m + s = bp
    BY <1>2, <1>3
  <2>. HIDE DEF e, m
  <2>. QED  BY <1>2, <1>3, <1>5, <1>6, <2>1, <2>2
<1>. QED  BY <1>12, <1>16, <1>17, <1>18, ZenonT(60) DEF Coalesced
=============================================================================
