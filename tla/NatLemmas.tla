------------------------------ MODULE NatLemmas ------------------------------
(***************************************************************************)
(* Facts about natural numbers that the proofs about linear searches,      *)
(* maxima, rings and counters rest on. Induction is by the least           *)
(* counterexample (LeastExists).                                           *)
(***************************************************************************)
EXTENDS Integers, FiniteSets, FiniteSetsExt, WellFoundedInduction, FiniteSetTheorems, TLAPS
USE SMTT(60), ZenonT(60), Z3T(60)

\* A set of natural numbers that is not empty has a least element: a linear
\* search from the lowest index ends on it.
LEMMA LeastExists ==
  ASSUME NEW T, T \subseteq Nat, T # {}
  PROVE  \E i \in T : \A j \in T : ~(j < i)
<1>. DEFINE R == {ss \in Nat \X Nat : ss[1] < ss[2]}
<1>1. IsWellFoundedOn(R, Nat)
  BY NatLessThanWellFounded, ZenonT(60) DEF OpToRel
<1>2. \E i \in T : \A j \in T : ~(<<j, i>> \in R)
  <2>. HIDE DEF R
  <2>. QED BY <1>1, WFMin, ZenonT(60)
<1>. QED  BY <1>2, ZenonT(60)

\* Finitely many natural numbers have an upper bound.
LEMMA BoundExists ==
  ASSUME NEW n \in Nat, NEW f \in [1..n -> Nat]
  PROVE  \E b \in Nat : \A i \in 1..n : f[i] <= b
<1>. DEFINE Bounded(k) == \E b \in Nat : \A i \in 1..k : f[i] <= b
<1>. DEFINE Bad == {k \in 0..n : ~Bounded(k)}
<1>. SUFFICES ASSUME Bad # {} PROVE FALSE
  <2>1. n \in 0..n
    OBVIOUS
  <2>2. n \notin Bad
    BY ZenonT(60)
  <2>3. Bounded(n)
    BY <2>1, <2>2
  <2>. QED  BY <2>3
<1>1. Bad \subseteq Nat
  OBVIOUS
<1>2. PICK k \in Bad : \A j \in Bad : ~(j < k)
  <2>. HIDE DEF Bad
  <2>. QED  BY <1>1, LeastExists, ZenonT(60)
<1>3. k # 0
  <2>1. Bounded(0)
    BY 0 \in Nat, 1..0 = {}, ZenonT(60)
  <2>. QED  BY <2>1
<1>4. k - 1 \in 0..n /\ k \in 1..n
  BY <1>3
<1>5. Bounded(k - 1)
  <2>. HIDE DEF Bounded
  <2>. QED  BY <1>2, <1>4
<1>6. PICK b \in Nat : \A i \in 1..(k-1) : f[i] <= b
  BY <1>5, ZenonT(60)
<1>. HIDE DEF Bad, Bounded
<1>7. f[k] \in Nat /\ k \in Nat
  BY <1>4
<1>8. ASSUME NEW i \in 1..k
      PROVE  f[i] <= b + f[k]
  <2>1. f[i] \in Nat /\ (i \in 1..(k-1) \/ i = k)
    BY <1>4
  <2>. QED  BY <2>1, <1>6, <1>7
<1>9. b + f[k] \in Nat
  BY <1>7
<1>10. Bounded(k)
  BY <1>8, <1>9, ZenonT(60) DEF Bounded
<1>. QED  BY <1>10 DEF Bad

\* Finitely many natural numbers, with 0, have a greatest one.
LEMMA GreatestExists ==
  ASSUME NEW n \in Nat, NEW f \in [1..n -> Nat]
  PROVE  \E m \in {f[i] : i \in 1..n} \cup {0} :
            \A x \in {f[i] : i \in 1..n} \cup {0} : m >= x
<1>. DEFINE S == {f[i] : i \in 1..n} \cup {0}
<1>. DEFINE B == {b \in Nat : \A x \in S : b >= x}
<1>1. B # {}
  <2>1. PICK b \in Nat : \A i \in 1..n : f[i] <= b
    BY BoundExists, ZenonT(60)
  <2>2. b \in B
    BY <2>1
  <2>. QED  BY <2>2, ZenonT(60)
<1>2. B \subseteq Nat /\ S \subseteq Nat
  OBVIOUS
<1>3. PICK m \in B : \A j \in B : ~(j < m)
  <2>. HIDE DEF B
  <2>. QED  BY <1>1, <1>2, LeastExists, ZenonT(60)
<1>4. m \in S
  <2>. SUFFICES ASSUME m \notin S PROVE FALSE
    OBVIOUS
  <2>1. m # 0
    OBVIOUS
  <2>2. \A x \in S : m - 1 >= x
    <3>. HIDE DEF S
    <3>. QED BY <1>2, <1>3
  <2>3. m - 1 \in B
    BY <2>1, <2>2
  <2>. QED  BY <1>3, <2>3
<1>. QED  BY <1>3, <1>4, ZenonT(60)

\* An index taken modulo n is an index of an array of n cells.
LEMMA ModRange ==
  ASSUME NEW n \in Nat \ {0}, NEW a \in Nat
  PROVE  a % n \in 0..(n-1)
OBVIOUS

\* Two counters less than n apart name different cells of a ring of n.
LEMMA ModDistinct ==
  ASSUME NEW n \in Nat \ {0}, NEW a \in Nat, NEW b \in Nat, a < b, b - a < n
  PROVE  a % n # b % n
<1>. DEFINE p == a \div n
<1>. DEFINE q == b \div n
<1>1. p \in Int /\ q \in Int /\ a = (n * p) + (a % n) /\ b = (n * q) + (b % n)
  OBVIOUS
<1>2. a % n \in Int /\ b % n \in Int
  OBVIOUS
<1>. HIDE DEF p, q
<1>. SUFFICES ASSUME a % n = b % n PROVE FALSE
  OBVIOUS
<1>3. b - a = n * q - n * p
  BY <1>1, <1>2
<1>4. n * q - n * p = n * (q - p)
  BY <1>1
<1>. DEFINE d == q - p
<1>5. d \in Int /\ b - a = n * d
  BY <1>1, <1>3, <1>4
<1>. HIDE DEF d
<1>6. CASE d <= 0
  <2>1. n * d <= 0
    BY <1>5, <1>6
  <2>. QED  BY <1>5, <2>1
<1>7. CASE d >= 1
  <2>1. n * d >= n
    BY <1>5, <1>7
  <2>. QED  BY <1>5, <2>1
<1>. QED  BY <1>5, <1>6, <1>7
-----------------------------------------------------------------------------
(* Sums over finite sets, and the size of an image.                         *)

\* The sum of f over S, and the equation that MapThenSumSet takes a solution
\* of: the sum over s is the value at a chosen element plus the sum over the
\* rest. SumOver and Agree name the hypotheses of the lemmas.
Pick(s) == CHOOSE x \in s : TRUE
Total(f, S) == MapThenSumSet(LAMBDA x : f[x], S)
Sums(g, f, S) ==
  g = [s \in SUBSET S |-> IF s = {} THEN 0 ELSE f[Pick(s)] + g[s \ {Pick(s)}]]

SumOver(g, f, S) ==
  IsFiniteSet(S) /\ (\A x \in S : f[x] \in Nat) /\ g \in [SUBSET S -> Nat] /\ Sums(g, f, S)
Agree(f, h, S) == \A x \in S : f[x] = h[x]

\* A set that is not empty has the element that Pick chooses.
LEMMA PickIn == ASSUME NEW s, s # {} PROVE Pick(s) \in s
BY DEF Pick

\* A subset of a finite set is finite and no larger, and loses one with each
\* element taken away.
LEMMA Sizes ==
  ASSUME NEW S, IsFiniteSet(S), NEW s \in SUBSET S
  PROVE  /\ IsFiniteSet(s) /\ Cardinality(s) \in Nat /\ Cardinality(s) <= Cardinality(S)
         /\ Cardinality(S) \in Nat
         /\ \A x \in s : Cardinality(s \ {x}) = Cardinality(s) - 1
         /\ Cardinality(s) = 0 <=> s = {}
<1>1. IsFiniteSet(s) /\ Cardinality(s) <= Cardinality(S)
  BY FS_Subset
<1>2. Cardinality(s) \in Nat /\ Cardinality(S) \in Nat
  BY <1>1, FS_CardinalityType
<1>3. \A x \in s : Cardinality(s \ {x}) = Cardinality(s) - 1
  BY <1>1, FS_RemoveElement
<1>4. Cardinality(s) = 0 <=> s = {}
  BY <1>1, FS_EmptySet
<1>. QED  BY <1>1, <1>2, <1>3, <1>4

\* The equation has a solution: one that is right on the sets of up to n
\* elements gives one that is right on those of n + 1.
LEMMA SumsExists ==
  ASSUME NEW S, IsFiniteSet(S), NEW f, \A x \in S : f[x] \in Nat
  PROVE  \E g \in [SUBSET S -> Nat] : Sums(g, f, S)
<1>. DEFINE Val(g, s) == IF s = {} THEN 0 ELSE f[Pick(s)] + g[s \ {Pick(s)}]
            Upto(n) == \E g \in [SUBSET S -> Nat] :
                         \A s \in SUBSET S : Cardinality(s) <= n => g[s] = Val(g, s)
            Bad == {n \in Nat : ~Upto(n)}
<1>1. Upto(0)
  <2>. DEFINE g == [s \in SUBSET S |-> 0]
  <2>1. g \in [SUBSET S -> Nat]
    OBVIOUS
  <2>2. ASSUME NEW s \in SUBSET S, Cardinality(s) <= 0 PROVE g[s] = Val(g, s)
    <3>1. s = {}
      BY <2>2, Sizes
    <3>. QED  BY <3>1
  <2>. QED  BY <2>1, <2>2, ZenonT(60)
<1>2. ASSUME NEW n \in Nat, Upto(n) PROVE Upto(n + 1)
  <2>1. PICK g \in [SUBSET S -> Nat] :
          \A s \in SUBSET S : Cardinality(s) <= n => g[s] = Val(g, s)
    BY <1>2
  <2>. DEFINE h == [s \in SUBSET S |-> Val(g, s)]
  <2>2. \A s \in SUBSET S : s # {} => Pick(s) \in S /\ s \ {Pick(s)} \in SUBSET S
    BY PickIn
  <2>3. h \in [SUBSET S -> Nat]
    BY <2>2
  <2>4. ASSUME NEW s \in SUBSET S, Cardinality(s) <= n + 1 PROVE h[s] = Val(h, s)
    <3>1. CASE s = {}
      BY <3>1
    <3>2. CASE s # {}
      <4>. DEFINE r == s \ {Pick(s)}
      <4>1. r \in SUBSET S /\ Cardinality(r) <= n
        BY <3>2, <2>4, PickIn, Sizes
      <4>2. g[r] = h[r]
        BY <4>1, <2>1, ZenonT(60)
      <4>. QED  BY <3>2, <4>2
    <3>. QED  BY <3>1, <3>2
  <2>. QED  BY <2>3, <2>4, ZenonT(60)
<1>3. Upto(Cardinality(S))
  <2>. HIDE DEF Upto
  <2>1. Cardinality(S) \in Nat
    BY FS_CardinalityType
  <2>2. ASSUME Bad # {} PROVE FALSE
    <3>1. PICK k \in Bad : \A j \in Bad : ~(j < k)
      <4>1. Bad \subseteq Nat
        OBVIOUS
      <4>. HIDE DEF Bad
      <4>. QED  BY <2>2, <4>1, LeastExists, ZenonT(60)
    <3>2. k # 0 /\ k - 1 \in Nat
      BY <3>1, <1>1
    <3>3. Upto(k - 1)
      BY <3>1, <3>2
    <3>4. Upto((k - 1) + 1)
      BY <3>2, <3>3, <1>2
    <3>. QED  BY <3>1, <3>4
  <2>. QED  BY <2>1, <2>2
<1>4. PICK g \in [SUBSET S -> Nat] : \A s \in SUBSET S : g[s] = Val(g, s)
  BY <1>3, Sizes, ZenonT(60)
<1>5. g = [s \in SUBSET S |-> Val(g, s)]
  BY <1>4
<1>. QED  BY <1>4, <1>5, ZenonT(60) DEF Sums

\* A solution gives the same sum whichever element is added last.
LEMMA SumsAny ==
  ASSUME NEW S, NEW f, NEW g, SumOver(g, f, S), NEW s \in SUBSET S, NEW x \in s
  PROVE  g[s] = f[x] + g[s \ {x}]
<1>. USE DEF SumOver
<1>. DEFINE Bad == {n \in Nat : \E t \in SUBSET S : \E y \in t :
                      Cardinality(t) = n /\ g[t] # f[y] + g[t \ {y}]}
<1>0. \A t \in SUBSET S : t # {} => g[t] = f[Pick(t)] + g[t \ {Pick(t)}]
  BY ZenonT(60) DEF Sums
<1>1. ASSUME Bad # {} PROVE FALSE
  <2>1. PICK n \in Bad : \A j \in Bad : ~(j < n)
    <3>1. Bad \subseteq Nat
      OBVIOUS
    <3>. HIDE DEF Bad
    <3>. QED  BY <1>1, <3>1, LeastExists, ZenonT(60)
  <2>2. PICK t \in SUBSET S : \E y \in t : Cardinality(t) = n /\ g[t] # f[y] + g[t \ {y}]
    BY <2>1, ZenonT(60)
  <2>y. PICK y \in t : Cardinality(t) = n /\ g[t] # f[y] + g[t \ {y}]
    BY <2>2, ZenonT(60)
  <2>. DEFINE p == Pick(t)
  <2>3. p \in t /\ p # y /\ g[t] = f[p] + g[t \ {p}]
    BY <1>0, <2>y, PickIn
  <2>. HIDE DEF p
  <2>4. t \ {p} \in SUBSET S /\ t \ {y} \in SUBSET S /\ (t \ {p}) \ {y} = (t \ {y}) \ {p}
        /\ (t \ {p}) \ {y} \in SUBSET S /\ y \in t \ {p} /\ p \in t \ {y}
    BY <2>3
  <2>5. Cardinality(t \ {p}) < n /\ Cardinality(t \ {y}) < n
        /\ Cardinality(t \ {p}) \in Nat /\ Cardinality(t \ {y}) \in Nat
    BY <2>y, <2>3, <2>4, Sizes
  <2>6. g[t \ {p}] = f[y] + g[(t \ {p}) \ {y}] /\ g[t \ {y}] = f[p] + g[(t \ {y}) \ {p}]
    BY <2>1, <2>4, <2>5, ZenonT(60)
  <2>7. PICK r \in Nat : r = g[(t \ {p}) \ {y}]
    BY <2>4
  <2>8. g[t] = f[p] + (f[y] + r) /\ g[t \ {y}] = f[p] + r
    BY <2>3, <2>4, <2>6, <2>7, ZenonT(60)
  <2>9. f[p] \in Nat /\ f[y] \in Nat
    BY <2>3
  <2>. QED  BY <2>y, <2>7, <2>8, <2>9
<1>2. Cardinality(s) \in Nat
  BY Sizes
<1>. QED  BY <1>1, <1>2, ZenonT(60)

\* Solutions for functions that agree on T give the same sum over T.
LEMMA SumsSame ==
  ASSUME NEW S, NEW T \in SUBSET S, NEW f, NEW h, Agree(f, h, T),
         NEW a, SumOver(a, f, S), NEW b, SumOver(b, h, T)
  PROVE  a[T] = b[T]
<1>. USE DEF SumOver, Agree
<1>. DEFINE Bad == {n \in Nat : \E t \in SUBSET T : Cardinality(t) = n /\ a[t] # b[t]}
<1>0. /\ \A t \in SUBSET T : a[t] = IF t = {} THEN 0 ELSE f[Pick(t)] + a[t \ {Pick(t)}]
      /\ \A t \in SUBSET T : b[t] = IF t = {} THEN 0 ELSE h[Pick(t)] + b[t \ {Pick(t)}]
  BY ZenonT(60) DEF Sums
<1>1. ASSUME Bad # {} PROVE FALSE
  <2>1. PICK n \in Bad : \A j \in Bad : ~(j < n)
    <3>1. Bad \subseteq Nat
      OBVIOUS
    <3>. HIDE DEF Bad
    <3>. QED  BY <1>1, <3>1, LeastExists, ZenonT(60)
  <2>2. PICK t \in SUBSET T : Cardinality(t) = n /\ a[t] # b[t]
    BY <2>1
  <2>3. t # {}
    BY <1>0, <2>2, ZenonT(60)
  <2>. DEFINE p == Pick(t)
  <2>4. p \in t
    BY <2>3, PickIn
  <2>5. a[t] = f[p] + a[t \ {p}] /\ b[t] = h[p] + b[t \ {p}]
    BY <1>0, <2>3
  <2>. HIDE DEF p
  <2>6. t \ {p} \in SUBSET T /\ Cardinality(t \ {p}) < n /\ Cardinality(t \ {p}) \in Nat
    BY <2>2, <2>4, Sizes
  <2>7. a[t \ {p}] = b[t \ {p}]
    BY <2>1, <2>6
  <2>. QED  BY <2>2, <2>4, <2>5, <2>7
<1>2. Cardinality(T) \in Nat
  BY Sizes
<1>. QED  BY <1>1, <1>2

\* A solution gives natural numbers.
LEMMA SumsType ==
  ASSUME NEW S, IsFiniteSet(S), NEW f, \A x \in S : f[x] \in Nat, NEW g, Sums(g, f, S)
  PROVE  g \in [SUBSET S -> Nat]
<1>. DEFINE Bad == {n \in Nat : \E t \in SUBSET S : Cardinality(t) = n /\ g[t] \notin Nat}
<1>0. \A t \in SUBSET S : g[t] = IF t = {} THEN 0 ELSE f[Pick(t)] + g[t \ {Pick(t)}]
  BY ZenonT(60) DEF Sums
<1>1. ASSUME Bad # {} PROVE FALSE
  <2>1. PICK n \in Bad : \A j \in Bad : ~(j < n)
    <3>1. Bad \subseteq Nat
      OBVIOUS
    <3>. HIDE DEF Bad
    <3>. QED  BY <1>1, <3>1, LeastExists, ZenonT(60)
  <2>2. PICK t \in SUBSET S : Cardinality(t) = n /\ g[t] \notin Nat
    BY <2>1
  <2>3. t # {}
    BY <1>0, <2>2
  <2>. DEFINE p == Pick(t)
  <2>4. p \in t
    BY <2>3, PickIn
  <2>5. g[t] = f[p] + g[t \ {p}]
    BY <1>0, <2>3
  <2>. HIDE DEF p
  <2>6. t \ {p} \in SUBSET S /\ Cardinality(t \ {p}) < n /\ Cardinality(t \ {p}) \in Nat
    BY <2>2, <2>4, Sizes
  <2>7. g[t \ {p}] \in Nat
    BY <2>1, <2>6
  <2>. QED  BY <2>2, <2>4, <2>5, <2>7
<1>2. ASSUME NEW t \in SUBSET S PROVE g[t] \in Nat
  BY <1>1, Sizes
<1>3. g = [t \in SUBSET S |-> IF t = {} THEN 0 ELSE f[Pick(t)] + g[t \ {Pick(t)}]]
  BY ZenonT(60) DEF Sums
<1>4. g = [t \in SUBSET S |-> g[t]]
  BY <1>0, <1>3
<1>. QED  BY <1>2, <1>4, ZenonT(60)

\* Total is what a solution of the equation gives.
LEMMA TotalIs ==
  ASSUME NEW S, IsFiniteSet(S), NEW f, \A x \in S : f[x] \in Nat
  PROVE  \E g : SumOver(g, f, S) /\ Total(f, S) = g[S]
<1>. DEFINE g == CHOOSE h : Sums(h, f, S)
<1>1. PICK h \in [SUBSET S -> Nat] : Sums(h, f, S)
  BY SumsExists, ZenonT(60)
<1>2. Sums(g, f, S)
  BY <1>1
<1>3. Total(f, S) = g[S]
  BY DEF Total, Sums, Pick, MapThenSumSet, MapThenFoldSet
<1>. HIDE DEF g
<1>4. g \in [SUBSET S -> Nat]
  BY <1>2, SumsType, ZenonT(60)
<1>. QED  BY <1>2, <1>3, <1>4 DEF SumOver

\* The sum over a finite set: 0 over the empty set, and any element can be
\* taken out of it.
LEMMA TotalRules ==
  ASSUME NEW S, IsFiniteSet(S), NEW f, \A x \in S : f[x] \in Nat
  PROVE  /\ Total(f, S) \in Nat
         /\ S = {} => Total(f, S) = 0
         /\ \A x \in S : Total(f, S) = f[x] + Total(f, S \ {x})
<1>1. PICK g : SumOver(g, f, S) /\ Total(f, S) = g[S]
  BY TotalIs
<1>2. Total(f, S) \in Nat /\ (S = {} => Total(f, S) = 0)
  BY <1>1 DEF SumOver, Sums
<1>3. ASSUME NEW x \in S PROVE Total(f, S) = f[x] + Total(f, S \ {x})
  <2>1. S \ {x} \in SUBSET S /\ IsFiniteSet(S \ {x}) /\ S \in SUBSET S
    BY FS_Subset
  <2>2. PICK h : SumOver(h, f, S \ {x}) /\ Total(f, S \ {x}) = h[S \ {x}]
    BY <2>1, TotalIs
  <2>3. Agree(f, f, S \ {x})
    BY DEF Agree
  <2>4. g[S \ {x}] = h[S \ {x}]
    BY <1>1, <2>1, <2>2, <2>3, SumsSame
  <2>5. g[S] = f[x] + g[S \ {x}]
    BY <1>1, <2>1, SumsAny
  <2>. QED  BY <1>1, <2>2, <2>4, <2>5
<1>. QED  BY <1>2, <1>3

\* The sum depends only on the values on the set.
LEMMA TotalSame ==
  ASSUME NEW S, IsFiniteSet(S), NEW f, NEW h, \A x \in S : f[x] \in Nat /\ f[x] = h[x]
  PROVE  Total(f, S) = Total(h, S)
<1>1. PICK a : SumOver(a, f, S) /\ Total(f, S) = a[S]
  BY TotalIs
<1>2. PICK b : SumOver(b, h, S) /\ Total(h, S) = b[S]
  BY TotalIs
<1>3. S \in SUBSET S /\ Agree(f, h, S)
  BY DEF Agree
<1>. QED  BY <1>1, <1>2, <1>3, SumsSame

\* The sum of a field of records is the sum of the values it has.
LEMMA TotalN ==
  ASSUME NEW S, NEW r, NEW f, \A x \in S : f[x] = r[x].n
  PROVE  MapThenSumSet(LAMBDA x : r[x].n, S) = Total(f, S)
<1>. DEFINE A(g) == g = [s \in SUBSET S |-> IF s = {} THEN 0 ELSE r[Pick(s)].n + g[s \ {Pick(s)}]]
<1>1. ASSUME NEW g PROVE A(g) <=> Sums(g, f, S)
  <2>1. ASSUME NEW s \in SUBSET S
        PROVE  (IF s = {} THEN 0 ELSE r[Pick(s)].n + g[s \ {Pick(s)}])
                 = (IF s = {} THEN 0 ELSE f[Pick(s)] + g[s \ {Pick(s)}])
    BY PickIn
  <2>. QED  BY <2>1 DEF Sums
<1>2. MapThenSumSet(LAMBDA x : r[x].n, S) = (CHOOSE g : A(g))[S]
  BY DEF Pick, MapThenSumSet, MapThenFoldSet
<1>3. Total(f, S) = (CHOOSE g : Sums(g, f, S))[S]
  BY DEF Total, Sums, Pick, MapThenSumSet, MapThenFoldSet
<1>4. (CHOOSE g : A(g)) = (CHOOSE g : Sums(g, f, S))
  <2>. HIDE DEF A
  <2>. QED  BY <1>1, ZenonT(60)
<1>. QED  BY <1>2, <1>3, <1>4, ZenonT(60)

\* The image of a finite set is finite and no larger.
LEMMA ImageSize ==
  ASSUME NEW S, IsFiniteSet(S), NEW f, f = [x \in S |-> f[x]]
  PROVE  LET T == {f[x] : x \in S} IN IsFiniteSet(T) /\ Cardinality(T) <= Cardinality(S)
<1>. DEFINE T == {f[x] : x \in S}
<1>1. f \in Surjection(S, T)
  BY DEF Surjection
<1>. QED  BY <1>1, FS_Surjection
=============================================================================
