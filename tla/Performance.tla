----------------------------- MODULE Performance ----------------------------
(***************************************************************************)
(* Code that was written for speed: the performance lab with its kernels,  *)
(* driver and timers, the metrics, and the matrix multiplications.         *)
(***************************************************************************)
EXTENDS Integers, Sequences, SequencesExt, FiniteSetsExt, FiniteSets

(***************************************************************************)
(* The image kernels and the driver that checks, times and ranks them.  An *)
(* image of dimension dim is a function on 0..dim^2-1; of a pixel's three  *)
(* colours, which are all treated alike, one is kept.  The time of a kernel*)
(* is an input (see Timing).                                               *)
(***************************************************************************)

CONSTANTS Block,      \* block_size of rotate
          OddDim,     \* the dimension every kernel is checked on first
          Dims        \* the dimensions it is timed on

RIDX(i, j, dim) == i * dim + j
Pixels(dim) == 0..(dim * dim - 1)
naive_rotate(dim, src, dst) ==
  [p \in Pixels(dim) |-> LET i == p % dim  j == dim - 1 - (p \div dim) IN src[RIDX(i, j, dim)]]
Blocks(dim) == {b \in 0..(dim - 1) : b % Block = 0}
\* Mutant: the last row of a block is left out.
InBlockShort(b) == b..(b + Block - 2)
InBlock(b) == b..(b + Block - 1)
\* The pixels the loops of rotate visit.  A block that sticks out of the image
\* reads and writes the images next to it, which is not modelled; no two steps
\* inside the image write the same pixel.
Visited(dim) == UNION {InBlock(bi) \X InBlock(bj) : bi, bj \in Blocks(dim)}
rotate(dim, src, dst) ==
  [p \in Pixels(dim) |->
     LET at == {x \in Visited(dim) : RIDX(dim - 1 - x[2], x[1], dim) = p /\ RIDX(x[1], x[2], dim) \in DOMAIN src}
     IN IF at = {} THEN dst[p] ELSE LET x == CHOOSE x \in at : TRUE IN src[RIDX(x[1], x[2], dim)]]

Low(i) == IF i = 0 THEN 0 ELSE i - 1
High(i, dim) == IF i = dim - 1 THEN i ELSE i + 1
avg(dim, i, j, src) ==
  LET near == {RIDX(ii, jj, dim) : ii \in Low(i)..High(i, dim), jj \in Low(j)..High(j, dim)}
  IN MapThenSumSet(LAMBDA p : src[p], near) \div Cardinality(near)
naive_smooth(dim, src, dst) == [p \in Pixels(dim) |-> avg(dim, p \div dim, p % dim, src)]
\* smooth keeps the sum of a window of three columns and slides it along each
\* row; the first and the last row have two rows in the window.
Column(dim, src, i, j) == MapThenSumSet(LAMBDA ii : src[RIDX(ii, j, dim)], Low(i)..High(i, dim))
OnEdge(dim, i) == i \in {0, dim - 1}
Corner(dim, i) == IF OnEdge(dim, i) THEN 4 ELSE 6
Middle(dim, i) == IF OnEdge(dim, i) THEN 6 ELSE 9
\* The column that leaves the sum after pixel j: left was mid before, and mid
\* was right before that.
\* Mutant: mid is overwritten before it was handed to left.
LeavingLate(j) == IF j = 1 THEN 0 ELSE j
Leaving(j) == j - 1
\* sum[j] is the sum when the loop comes to pixel j.
SmoothRow(dim, src, i) ==
  LET C(j) == Column(dim, src, i, j)
      sum[j \in 1..(dim - 1)] == IF j = 1 THEN C(0) + C(1) ELSE sum[j - 1] + C(j) - C(Leaving(j - 1))
  IN [j \in 0..(dim - 1) |-> CASE j = 0 -> sum[1] \div Corner(dim, i)
                               [] j = dim - 1 -> sum[j] \div Corner(dim, i)
                               [] OTHER -> (sum[j] + C(j + 1)) \div Middle(dim, i)]
smooth(dim, src, dst) == [p \in Pixels(dim) |-> SmoothRow(dim, src, p \div dim)[p % dim]]
-----------------------------------------------------------------------------
\* The driver.  A kernel is one of those of kernels.c or one that is wrong.
create(dim) == [orig |-> [p \in Pixels(dim) |-> p + 1], copy_of_orig |-> [p \in Pixels(dim) |-> p + 1], result |-> [p \in Pixels(dim) |-> 0]]
Run(k, dim, im) ==
  CASE k = "naive_rotate" -> [im EXCEPT !.result = naive_rotate(dim, im.orig, im.result)]
    [] k = "rotate" -> [im EXCEPT !.result = rotate(dim, im.orig, im.result)]
    [] k = "naive_smooth" -> [im EXCEPT !.result = naive_smooth(dim, im.orig, im.result)]
    [] k = "smooth" -> [im EXCEPT !.result = smooth(dim, im.orig, im.result)]
    [] k = "copies" -> [im EXCEPT !.result = im.orig]
    [] k = "inplace" -> [im EXCEPT !.orig = naive_rotate(dim, im.orig, im.result), !.result = naive_smooth(dim, im.orig, im.result)]
    [] k = "odd" -> IF dim = OddDim THEN [im EXCEPT !.result = naive_rotate(dim, im.orig, im.result)] ELSE im

check_orig(dim, im) == im.orig # im.copy_of_orig
check_rotate(dim, im) ==
  check_orig(dim, im) \/ \E i, j \in 0..(dim - 1) : im.orig[RIDX(i, j, dim)] # im.result[RIDX(dim - 1 - j, i, dim)]
check_average(dim, i, j, src) ==
  LET near == (Low(i)..High(i, dim)) \X (Low(j)..High(j, dim))
  IN MapThenSumSet(LAMBDA x : src[RIDX(x[1], x[2], dim)], near) \div Cardinality(near)
check_smooth(dim, im) ==
  check_orig(dim, im) \/ \E i, j \in 0..(dim - 1) : im.result[RIDX(i, j, dim)] # check_average(dim, i, j, im.orig)

\* The scores of one kind of kernel: the benchmarks tested so far leave the best
\* mean and its kernel; a time that is not positive ends the program.  The mean
\* is kept as the product whose root it is.
Passes(smoothing, k, dim) ==
  LET im == Run(k, dim, create(dim)) IN IF smoothing THEN ~check_smooth(dim, im) ELSE ~check_rotate(dim, im)
\* Mutant: only the odd dimension is checked.
CheckedOdd(smoothing, k) == Passes(smoothing, k, OddDim)
Checked(smoothing, k) == \A dim \in {OddDim} \cup ToSet(Dims) : Passes(smoothing, k, dim)
Baseline == 4
Mean(cpes) == FoldLeft(LAMBDA prod, c : prod * (Baseline \div c), 1, cpes)
Test(smoothing, s, b) ==
  IF s.exited \/ ~b.valid \/ ~Checked(smoothing, b.k) THEN s
  ELSE IF \E i \in DOMAIN b.cpes : b.cpes[i] <= 0 THEN [s EXCEPT !.exited = TRUE]
  ELSE IF Mean(b.cpes) > s.maxmean THEN [s EXCEPT !.maxmean = Mean(b.cpes), !.desc = b.k] ELSE s
test_rotate(s, b) == Test(FALSE, s, b)
test_smooth(s, b) == Test(TRUE, s, b)
add_function(benches, k, cpes) == Append(benches, [k |-> k, cpes |-> cpes, valid |-> FALSE])
\* Which benchmarks are tested: the graded one, those a file names, or all.
Chosen(mode, names, graded, benches) ==
  CASE mode = "autograder" -> <<[benches[1] EXCEPT !.k = graded, !.valid = TRUE]>>
    [] mode = "file" -> [i \in DOMAIN benches |-> [benches[i] EXCEPT !.valid = benches[i].k \in names]]
    [] OTHER -> [i \in DOMAIN benches |-> [benches[i] EXCEPT !.valid = TRUE]]
main(mode, names, rotates, smooths) ==
  LET none == [maxmean |-> 0, desc |-> "none", exited |-> FALSE]
      r == FoldLeft(test_rotate, none, Chosen(mode, names, "rotate", rotates))
  IN [rotate |-> r, smooth |-> FoldLeft(test_smooth, [none EXCEPT !.exited = r.exited], Chosen(mode, names, "smooth", smooths))]
-----------------------------------------------------------------------------
\* The blocked rotation is the plain one whenever the dimension is a multiple
\* of the block, as all the dimensions of the driver are; and both are what the
\* driver's own check accepts.
RotateExact(v) ==
  LET black == [p \in DOMAIN v.src |-> 0]
      im == [orig |-> v.src, copy_of_orig |-> v.src, result |-> rotate(v.dim, v.src, black)]
  IN v.dim % Block = 0 => im.result = naive_rotate(v.dim, v.src, black) /\ ~check_rotate(v.dim, im)

\* The sliding sums of smooth give every pixel the average of its neighbours,
\* on the edges and in the corners too: the pixels of the plain kernel and
\* those the driver's check expects.
SmoothExact(v) ==
  LET black == [p \in DOMAIN v.src |-> 0]
      im == [orig |-> v.src, copy_of_orig |-> v.src, result |-> smooth(v.dim, v.src, black)]
  IN v.dim >= 2 => im.result = naive_smooth(v.dim, v.src, black) /\ ~check_smooth(v.dim, im)

\* The score of the driver belongs to a kernel that was chosen and is right on
\* every dimension, and no other such kernel tested before the driver ended
\* had a better one.
BestScore(v) ==
  LET benches == FoldLeft(LAMBDA bs, b : add_function(bs, b.k, b.cpes), <<>>, v.benches)
      s == main(v.mode, v.names, benches, <<[k |-> "smooth", cpes |-> <<4, 4>>, valid |-> FALSE]>>)
      tried == Chosen(v.mode, v.names, "rotate", benches)
      right == {i \in DOMAIN tried : tried[i].valid /\ tried[i].k \in {"rotate", "naive_rotate"}}
      timed(i) == \A c \in DOMAIN tried[i].cpes : tried[i].cpes[c] > 0
      reached == {i \in right : \A h \in right : h <= i => timed(h)}
  IN /\ s.rotate.exited <=> reached # right
     /\ s.rotate.maxmean = Max({0} \cup {Mean(tried[i].cpes) : i \in reached})
     /\ s.rotate.desc # "none" => \E i \in reached : tried[i].k = s.rotate.desc /\ Mean(tried[i].cpes) = s.rotate.maxmean
     /\ s.smooth.desc = IF s.rotate.exited \/ (v.mode = "file" /\ "smooth" \notin v.names) THEN "none" ELSE "smooth"

-----------------------------------------------------------------------------
(***************************************************************************)
(* The timers of the performance lab: the cycle counter of clock.c, read   *)
(* as two words, the calibration of the compensating counter, and the      *)
(* K-best measurement of fcyc.c.  Times are natural numbers.               *)
(***************************************************************************)

CONSTANTS Word,           \* a word counts modulo this: 2^32 in clock.c
          THRESHOLD, RECORDTHRESH, NEVENT

access_counter(cycles) == [hi |-> (cycles \div Word) % Word, lo |-> cycles % Word]
Minus(a, b) == (a - b) % Word
\* Mutant: a low word that did not move counts as a borrow.
BorrowEqual(lo, ncyc_lo) == IF lo >= ncyc_lo THEN 1 ELSE 0
Borrow(lo, ncyc_lo) == IF lo > ncyc_lo THEN 1 ELSE 0
\* The cycles from a start at the time cyc to a read at the time ncyc.
get_counter(cyc, ncyc) ==
  LET c == access_counter(cyc)
      n == access_counter(ncyc)
      lo == Minus(n.lo, c.lo)
      hi == Minus(n.hi - c.hi, Borrow(lo, n.lo))
  IN hi * Word + lo

\* The loop of callibrate over a sequence of readings [t, c] of the cycles and
\* of the process's ticks.  Ratios are kept doubled: at most two ticks pass
\* between two readings.  0 is "not calibrated".
\* Mutant: the largest ratio is kept.
KeepLargest(cpt2, cyc) == (cyc = 0 \/ cyc < cpt2) /\ cpt2 > 2 * RECORDTHRESH
Keep(cpt2, cyc) == (cyc = 0 \/ cyc > cpt2) /\ cpt2 > 2 * RECORDTHRESH
Observe(s, r) ==
  IF s.e >= NEVENT \/ r.t - s.oldt < THRESHOLD THEN s
  ELSE IF r.c <= s.oldc THEN [s EXCEPT !.oldt = r.t]
  ELSE LET cpt2 == (2 * (r.t - s.oldt)) \div (r.c - s.oldc)
       IN [s EXCEPT !.oldt = r.t, !.oldc = r.c, !.e = @ + 1, !.cyc_per_tick2 = IF Keep(cpt2, @) THEN cpt2 ELSE @]
callibrate(readings) == FoldLeft(Observe, [oldt |-> 0, oldc |-> 0, e |-> 0, cyc_per_tick2 |-> 0], readings)
\* The measured time without the ticks in it; it may come out negative.
get_comp_counter(time, ticks, cyc_per_tick2) == time - (ticks * cyc_per_tick2) \div 2
-----------------------------------------------------------------------------
init_sampler(kbest) == [values |-> [i \in 1..kbest |-> 0], samplecount |-> 0]
RECURSIVE Sink(_, _)
Sink(values, pos) ==
  IF pos > 1 /\ values[pos - 1] > values[pos]
  THEN Sink([values EXCEPT ![pos - 1] = values[pos], ![pos] = values[pos - 1]], pos - 1) ELSE values
\* Mutant: a sample that beats the worst of the k best takes the place of the best.
PlaceFirst(s, val, kbest) == IF s.samplecount < kbest THEN s.samplecount + 1 ELSE IF val < s.values[kbest] THEN 1 ELSE 0
Place(s, val, kbest) == IF s.samplecount < kbest THEN s.samplecount + 1 ELSE IF val < s.values[kbest] THEN kbest ELSE 0
add_sample(s, val, kbest) ==
  LET pos == Place(s, val, kbest)
  IN [values |-> IF pos = 0 THEN s.values ELSE Sink([s.values EXCEPT ![pos] = val], pos), samplecount |-> s.samplecount + 1]
\* epsilon is a hundredth.
has_converged(s, kbest) == s.samplecount >= kbest /\ 101 * s.values[1] >= 100 * s.values[kbest]
\* samples are the times that the runs of f would take, one after the other.
RECURSIVE Sampled(_, _, _, _)
Sampled(s, samples, kbest, maxsamples) ==
  LET t == add_sample(s, samples[s.samplecount + 1], kbest)
  IN IF has_converged(t, kbest) \/ t.samplecount >= maxsamples THEN t ELSE Sampled(t, samples, kbest, maxsamples)
fcyc(samples, kbest, maxsamples) == Sampled(init_sampler(kbest), samples, kbest, maxsamples).values[1]

\* The buffer that is read to clear the cache: its size, 0 while there is none.
\* Mutant: the buffer of another size is kept.
set_cache_size_keeps(c, bytes) == [c EXCEPT !.cache_bytes = bytes]
set_fcyc_cache_size(c, bytes) == IF bytes # c.cache_bytes THEN [c EXCEPT !.cache_bytes = bytes, !.buf = 0] ELSE c
clear(c, block) ==
  LET buf == IF c.buf = 0 THEN c.cache_bytes ELSE c.buf
  IN [c EXCEPT !.buf = buf, !.read = {x \in 0..(c.cache_bytes \div 4 - 1) : x % (block \div 4) = 0}]
-----------------------------------------------------------------------------
\* Whatever word the counter carries into, the difference of two readings is
\* the number of cycles between them, up to the range of the two words.
CyclesExact(v) == get_counter(v.start, v.start + v.cycles) = v.cycles % (Word * Word)

\* The calibration is the least ratio above the threshold among the first
\* NEVENT ticks it saw, each measured from the last long gap before it; so
\* taking the ticks out of any of these gaps leaves no negative time.
CalibrationLeast(readings) ==
  LET s == callibrate(readings)
      n == Len(readings)
      at(i) == IF i = 0 THEN [t |-> 0, c |-> 0] ELSE readings[i]
      state(i) == callibrate(SubSeq(readings, 1, i))
      \* The gaps count from the last reading that ended one.
      events == {i \in 1..n : state(i).e > state(i - 1).e}
      ratio(i) == (2 * (at(i).t - state(i - 1).oldt)) \div (at(i).c - state(i - 1).oldc)
      good == {ratio(i) : i \in {j \in events : ratio(j) > 2 * RECORDTHRESH}}
  IN /\ Cardinality(events) <= NEVENT
     /\ s.cyc_per_tick2 = IF good = {} THEN 0 ELSE Min(good)
     /\ \A i \in {j \in events : ratio(j) > 2 * RECORDTHRESH} :
          get_comp_counter(at(i).t - state(i - 1).oldt, at(i).c - state(i - 1).oldc, s.cyc_per_tick2) >= 0

\* K-best: the measurement is the least of the samples taken, and it stops at
\* the first sample with which the k smallest of all samples so far lie within
\* the tolerance, or at the limit.
KBest(v) ==
  LET t == Sampled(init_sampler(v.k), v.samples, v.k, v.max)
      taken(n) == SubSeq(v.samples, 1, n)
      smallest(n) == SortSeq(taken(n), <)
      within(n) == n >= v.k /\ 101 * smallest(n)[1] >= 100 * smallest(n)[v.k]
      n == t.samplecount
  IN /\ fcyc(v.samples, v.k, v.max) = smallest(n)[1]
     /\ \A m \in 1..(n - 1) : ~within(m) /\ m < v.max
     /\ within(n) \/ n = v.max

\* However its size and the clearing alternate, clearing reads inside the
\* buffer, and one word of every block of the size that was asked for.
ClearInBounds(ops) ==
  LET c == FoldLeft(LAMBDA s, bytes : IF bytes = 0 THEN clear(s, 32) ELSE set_fcyc_cache_size(s, bytes),
                    [cache_bytes |-> 64, buf |-> 0, read |-> {}], ops)
      d == clear(c, 32)
  IN (\A x \in d.read : 4 * x < d.buf) /\ Cardinality(d.read) = c.cache_bytes \div 32

-----------------------------------------------------------------------------
(***************************************************************************)
(* The metrics over users and payments: the version that is unrolled by    *)
(* four, and the reference solution.  An average is a sum with a count.    *)
(***************************************************************************)

CONSTANT MaxUint32      \* 2^32 - 1 in the code

\* uint8(age) of the number in a field, and what ParseUint makes of a field
\* that does not fit into 32 bits.
Uint8(n) == n % 256
ParseUint(n) == IF n > MaxUint32 THEN MaxUint32 ELSE n
LoadData(users, payments) ==
  [ages |-> [i \in DOMAIN users |-> Uint8(users[i])], amounts |-> [i \in DOMAIN payments |-> ParseUint(payments[i])]]

Lane(s, lane) == {i \in 0..(((Len(s) \div 4) * 4) - 1) : i % 4 = lane}
AddUp(s, at) == FoldSet(LAMBDA i, acc : acc + s[i + 1], 0, at)
Unrolled(s) == AddUp(s, Lane(s, 0)) + AddUp(s, Lane(s, 1)) + AddUp(s, Lane(s, 2)) + AddUp(s, Lane(s, 3))
Squares(s) == [i \in DOMAIN s |-> s[i] * s[i]]
AverageAge(data) == <<Unrolled(data.ages), Len(data.ages)>>
AveragePaymentAmount(data) == <<Unrolled(data.amounts), Len(data.amounts)>>
\* The variance times the square of the count.
StdDevPaymentAmount(data) ==
  LET n == Len(data.amounts) IN n * Unrolled(Squares(data.amounts)) - Unrolled(data.amounts) * Unrolled(data.amounts)

Total(s) == AddUp(s, 0..(Len(s) - 1))
AverageAgeRef(data) == <<Total(data.ages), Len(data.ages)>>
AveragePaymentAmountRef(data) == <<Total(data.amounts), Len(data.amounts)>>
StdDevPaymentAmountRef(data) ==
  LET n == Len(data.amounts) IN n * Total(Squares(data.amounts)) - Total(data.amounts) * Total(data.amounts)
-----------------------------------------------------------------------------
\* On a multiple of four elements the unrolled metrics are the reference's; on
\* other lengths the last elements are counted but not added, so an average is
\* too small by exactly what they hold.
UnrolledAgrees(v) ==
  LET d == LoadData(v, v)
      n == Len(v)
      tail == Total(SubSeq(d.ages, (n \div 4) * 4 + 1, n))
  IN /\ AverageAge(d)[1] = AverageAgeRef(d)[1] - tail
     /\ AveragePaymentAmount(d)[1] = AveragePaymentAmountRef(d)[1] - Total(SubSeq(d.amounts, (n \div 4) * 4 + 1, n))
     /\ n % 4 = 0 => StdDevPaymentAmount(d) = StdDevPaymentAmountRef(d)

-----------------------------------------------------------------------------
(***************************************************************************)
(* Matrix multiplication: the rows split among threads, and the tiled and  *)
(* unrolled version.  Matrices are functions on pairs; an element is an    *)
(* integer.                                                                *)
(***************************************************************************)

CONSTANTS MAXTHREADS, Tile, Shapes    \* Shapes: the [rows, cols, bcols] tried
VARIABLES dims, prod, run, arg, pc   \* prod is C; run is what the main thread has started and joined

vars == <<dims, prod, run, arg, pc>>
Left(i, k) == 2 * i + k + 1
Right(k, j) == k + 3 * j + 1
Sum(i, j, ks) == MapThenSumSet(LAMBDA k : Left(i, k) * Right(k, j), ks)
matrix_multiply(i, j, cols) == Sum(i, j, 0..(cols - 1))

Threads == 0..MAXTHREADS
NoThread == [start |-> 0, end |-> 0, bcols |-> 0, i |-> 0, j |-> 0, k |-> -1]
\* -1 is what C holds before the multiplication.
Init == /\ dims \in Shapes
        /\ prod = [x \in (0..(dims.rows - 1)) \X (0..(dims.bcols - 1)) |-> -1]
        /\ run = [next |-> 0, end |-> 0, joined |-> 0]
        /\ arg = [t \in Threads |-> NoThread] /\ pc = [t \in Threads |-> "none"]

PerThread == dims.rows \div MAXTHREADS
Begin(t, start, end, bcols) ==
  /\ arg' = [arg EXCEPT ![t] = [NoThread EXCEPT !.start = start, !.end = end, !.bcols = bcols, !.i = start]]
  /\ pc' = [pc EXCEPT ![t] = "run"]
\* Mutant: a thread also takes the first row of the next one.
EndRowOver(end) == end + PerThread + 1
EndRow(end) == end + PerThread
Create ==
  /\ run.next < MAXTHREADS
  /\ run' = [run EXCEPT !.next = @ + 1, !.end = @ + PerThread]
  /\ Begin(run.next, run.end, EndRow(run.end), dims.bcols) /\ UNCHANGED <<dims, prod>>
\* The thread for the rows left over ends at a_cols, and b_cols is what malloc
\* left there.  Beyond the rows and the width of C it would write outside C,
\* which is not modelled: the shapes have no more columns than rows.
Leftover ==
  /\ run.next = MAXTHREADS /\ run.end # dims.rows
  /\ run' = [run EXCEPT !.next = @ + 1]
  /\ \E garbage \in 0..dims.bcols : Begin(MAXTHREADS, run.end, dims.cols, garbage)
  /\ UNCHANGED <<dims, prod>>
Created == run.next = MAXTHREADS + 1 \/ (run.next = MAXTHREADS /\ run.end = dims.rows)
Join == /\ Created /\ run.joined < run.next /\ pc[run.joined] = "done"
        /\ run' = [run EXCEPT !.joined = @ + 1] /\ UNCHANGED <<dims, prod, arg, pc>>

\* One access of a thread to its element of C: it is cleared, then the products
\* are added to it one by one.
thread(t) ==
  /\ pc[t] = "run"
  /\ LET a == arg[t]
         e == <<a.i, a.j>>
     IN \/ a.i >= a.end /\ pc' = [pc EXCEPT ![t] = "done"] /\ UNCHANGED <<prod, arg>>
        \/ a.i < a.end /\ a.j >= a.bcols /\ arg' = [arg EXCEPT ![t].i = @ + 1, ![t].j = 0] /\ UNCHANGED <<prod, pc>>
        \/ /\ a.i < a.end /\ a.j < a.bcols
           /\ prod' = [prod EXCEPT ![e] = IF a.k = -1 THEN 0 ELSE @ + Left(a.i, a.k) * Right(a.k, a.j)]
           /\ arg' = IF a.k = dims.cols - 1 THEN [arg EXCEPT ![t].k = -1, ![t].j = @ + 1] ELSE [arg EXCEPT ![t].k = @ + 1]
           /\ UNCHANGED pc
  /\ UNCHANGED <<dims, run>>
Returned == Created /\ run.joined = run.next
Next == Create \/ Leftover \/ Join \/ (\E t \in Threads : thread(t)) \/ (Returned /\ UNCHANGED vars)
-----------------------------------------------------------------------------
\* fast_matrix_multiply: what the tiles of one element of C add up to.
Starts(n) == {t \in 0..(n - 1) : t % Tile = 0}
End(t, n) == IF t + Tile < n THEN t + Tile ELSE n
UnrolledAt(tk, kend) == {k \in tk..(kend - 4) : (k - tk) % 4 = 0}
\* Mutant: the loop stops at the last multiple of four.
RestNone(tk, kend) == {}
Rest(tk, kend) == (tk + 4 * Cardinality(UnrolledAt(tk, kend)))..(kend - 1)
TileSum(i, j, tk, kend) ==
  LET acc(d) == Sum(i, j, {k + d : k \in UnrolledAt(tk, kend)})
  IN acc(0) + acc(1) + acc(2) + acc(3) + Sum(i, j, Rest(tk, kend))
fast_matrix_multiply(c0, i, j, s) ==
  MapThenSumSet(LAMBDA x : IF i \in x[1]..(End(x[1], s.rows) - 1) /\ j \in x[2]..(End(x[2], s.bcols) - 1)
                           THEN TileSum(i, j, x[3], End(x[3], s.cols)) ELSE 0,
                Starts(s.rows) \X Starts(s.bcols) \X Starts(s.cols)) + c0
-----------------------------------------------------------------------------
\* No thread is run or joined before it was created.
TypeOK == /\ \A t \in Threads : pc[t] \in {"none", "run", "done"} /\ (pc[t] = "none" <=> t >= run.next)
          /\ run.joined <= run.next

\* When the threads were joined every row of the equal shares is the product,
\* whatever the interleaving; a row left over is the product in the columns
\* that its thread was given, and untouched elsewhere and where the columns of
\* A end before the rows do.
SharesExact ==
  Returned =>
    \A x \in DOMAIN prod :
      IF x[1] < MAXTHREADS * PerThread \/ (x[1] < dims.cols /\ x[2] < arg[MAXTHREADS].bcols)
      THEN prod[x] = matrix_multiply(x[1], x[2], dims.cols) ELSE prod[x] = -1

\* No element is written again once its thread has gone past it: the threads
\* share C but no row of it.
RowsApart ==
  \A t, u \in Threads : t # u /\ pc[t] = "run" /\ pc[u] = "run" => (arg[t].i..(arg[t].end - 1)) \cap (arg[u].i..(arg[u].end - 1)) = {}

\* The tiled version adds exactly the product to what C held, whether or not
\* the tiles and the four accumulators divide the sizes evenly; so C has to be
\* zero before, unlike for the plain version.
TiledExact(s) ==
  \A i \in 0..(s.rows - 1), j \in 0..(s.bcols - 1) :
    fast_matrix_multiply(7, i, j, s) = 7 + matrix_multiply(i, j, s.cols)
=============================================================================
