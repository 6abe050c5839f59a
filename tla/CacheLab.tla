------------------------------ MODULE CacheLab ------------------------------
(***************************************************************************)
(* The cache lab: the transpose functions, and the driver that checks and  *)
(* scores them.                                                            *)
(***************************************************************************)
EXTENDS Integers, Sequences, SequencesExt

(***************************************************************************)
(* transpose_submit of the cache lab.  A matrix is a function on pairs of  *)
(* indices, B changes from assignment to assignment.  The sizes at which   *)
(* the function takes its special paths are parameters, and so are the     *)
(* sides of the blocks, which the code has as 32, 64, 8 and 16.            *)
(***************************************************************************)

CONSTANTS Small,   \* the size of the first path, 32
          Big,     \* the size of the second path, 64
          Side     \* the side of a block of the last path, 16

\* Assignments <<<row, column>, value>> to B, to different elements
PutAll(B, s) ==
  [c \in DOMAIN B |-> IF \E x \in DOMAIN s : s[x][1] = c THEN s[CHOOSE x \in DOMAIN s : s[x][1] = c][2] ELSE B[c]]
\* One row of an 8 by 8 block: read whole, then written
Row8(A, B, i, bj) == PutAll(B, [x \in 1..8 |-> <<<<bj + x - 1, i>>, A[i, bj + x - 1]>>])

\* The upper half of a block of the big matrix: the right quarter is parked
\* in B beside its place.
Upper(A, B, i, bj) ==
  PutAll(B, [x \in 1..8 |-> IF x <= 4 THEN <<<<bj + x - 1, i>>, A[i, bj + x - 1]>>
                            ELSE <<<<bj + x - 5, i + 4>>, A[i, bj + x - 1]>>])
\* Mutant: the parked values are read after the lower quarter overwrote them.
LowerLate(A, B, bi, j) ==
  LET B1 == PutAll(B, [x \in 1..4 |-> <<<<j, bi + 3 + x>>, A[bi + 3 + x, j]>>])
  IN PutAll(B1, [x \in 1..8 |-> IF x <= 4 THEN <<<<j + 4, bi + x - 1>>, B1[j, bi + 3 + x]>>
                                ELSE <<<<j + 4, bi + x - 1>>, A[bi + x - 1, j + 4]>>])
\* A row of parked values is read before the lower quarter overwrites it.
Lower(A, B, bi, j) ==
  LET parked == [x \in 1..4 |-> B[j, bi + 3 + x]]
      B1 == PutAll(B, [x \in 1..4 |-> <<<<j, bi + 3 + x>>, A[bi + 3 + x, j]>>])
  IN PutAll(B1, [x \in 1..8 |-> IF x <= 4 THEN <<<<j + 4, bi + x - 1>>, parked[x]>>
                                ELSE <<<<j + 4, bi + x - 1>>, A[bi + x - 1, j + 4]>>])

trans(M, N, A, B) == [c \in (0..(M - 1)) \X (0..(N - 1)) |-> A[c[2], c[1]]]

\* The bodies of the innermost loops, in the order the loops reach them
Steps(n, by) == [x \in 1..((n + by - 1) \div by) |-> (x - 1) * by]
Edge(b, n) == IF b + Side < n THEN Side ELSE n - b
Blocks(M, N, by) == FlattenSeq([x \in 1..Len(Steps(N, by)) |-> [y \in 1..Len(Steps(M, by)) |-> <<Steps(N, by)[x], Steps(M, by)[y]>>]])
Bodies(M, N) ==
  IF M = Small /\ N = Small
  THEN FlattenSeq([x \in 1..Len(Blocks(M, N, 8)) |-> LET b == Blocks(M, N, 8)[x] IN [i \in 1..8 |-> <<"row", b[1] + i - 1, b[2]>>]])
  ELSE IF M = Big /\ N = Big
  THEN FlattenSeq([x \in 1..Len(Blocks(M, N, 8)) |-> LET b == Blocks(M, N, 8)[x]
         IN [i \in 1..8 |-> IF i <= 4 THEN <<"upper", b[1] + i - 1, b[2]>> ELSE <<"lower", b[1], b[2] + i - 5>>]])
  ELSE FlattenSeq([x \in 1..Len(Blocks(M, N, Side)) |-> LET b == Blocks(M, N, Side)[x]
         IN [n \in 1..(Edge(b[1], N) * Edge(b[2], M)) |->
               <<"cell", b[1] + (n - 1) \div Edge(b[2], M), b[2] + ((n - 1) % Edge(b[2], M))>>]])
Body(A, B, o) ==
  CASE o[1] = "row" -> Row8(A, B, o[2], o[3])
    [] o[1] = "upper" -> Upper(A, B, o[2], o[3])
    [] o[1] = "lower" -> Lower(A, B, o[2], o[3])
    [] o[1] = "cell" -> [B EXCEPT ![<<o[3], o[2]>>] = A[o[2], o[3]]]
RECURSIVE Exec(_, _, _)
Exec(A, B, bodies) == IF DOMAIN B = {} \/ bodies = <<>> THEN B ELSE Exec(A, Body(A, B, Head(bodies)), Tail(bodies))
transpose_submit(M, N, A, B) == Exec(A, B, Bodies(M, N))

is_transpose(M, N, A, B) == \A i \in 0..(N - 1), j \in 0..(M - 1) : A[i, j] = B[j, i]
\* What tracegen looks at: the result against the baseline
validate(M, N, A, B) == \A c \in (0..(M - 1)) \X (0..(N - 1)) : B[c] = trans(M, N, A, B)[c]

\* Each path of transpose_submit transposes every matrix, of sizes that the
\* blocks do not divide also, whatever B held before; and the two tests of a
\* transpose, is_transpose and validate, agree.
Transposes(M, N) ==
  LET A == [c \in (0..(N - 1)) \X (0..(M - 1)) |-> 100 * c[1] + c[2]]
      B0 == [c \in (0..(M - 1)) \X (0..(N - 1)) |-> 0 - 1]
      B == transpose_submit(M, N, A, B0)
  IN /\ is_transpose(M, N, A, B) /\ validate(M, N, A, B)
     /\ is_transpose(M, N, A, B0) = validate(M, N, A, B0)

-----------------------------------------------------------------------------
(***************************************************************************)
(* The grading of the transpose functions of the cache lab: driver.py runs *)
(* test-trans once for each matrix size, test-trans runs tracegen under    *)
(* valgrind and the simulator for each registered function, and they hand  *)
(* each other files that outlive the run that wrote them.  A number of     *)
(* misses is represented by the run it was counted in, <<k, fn>> for        *)
(* function fn at size k; a file holds the run that wrote it, or NoRun.     *)
(***************************************************************************)

CONSTANTS Lists,    \* the lists of registered functions; TRUE: "Transpose submission"
          K         \* number of matrix sizes
NoRun == <<0, 0>>

VARIABLES funcs, correct,   \* the functions, and which are right at which size
          k, pc, fn,         \* size, place in test-trans, function
          results,          \* of test-trans
          file,             \* trace.tmp, .marker, trace.f<fn>, .csim_results
          scored,           \* what driver.py read, for each size
          failed            \* simulator runs that failed
vars == <<funcs, correct, k, pc, fn, results, file, scored, failed>>

NoResults == [funcid |-> 0, correct |-> 0, misses |-> NoRun]
Init ==
  /\ funcs \in Lists /\ correct \in [1..K -> [1..Len(funcs) -> BOOLEAN]]
  /\ k = 1 /\ pc = "loop" /\ fn = 1 /\ results = NoResults
  /\ file = [tmp |-> NoRun, marker |-> NoRun, part |-> [j \in 1..Len(funcs) |-> NoRun], csim |-> NoRun]
  /\ scored = <<>> /\ failed = {}
Fixed == UNCHANGED <<funcs, correct>>
-----------------------------------------------------------------------------
\* The line test-trans prints, as driver.py reads it: nothing, or the flag
\* and the misses.  driver.py then starts test-trans for the next size.
Printed(line) ==
  /\ scored' = Append(scored, line)
  /\ k' = k + 1 /\ fn' = 1 /\ results' = NoResults
  /\ pc' = IF k < K THEN "loop" ELSE "done"
  /\ Fixed /\ UNCHANGED <<file, failed>>

\* tracegen: 0 if validate found the transpose right, else the function's
\* number
exit_status(n, j) == IF correct[n][j] THEN 0 ELSE j

\* Mutant: a function that failed the validation is evaluated as well.
tracegenUnchecked ==
  /\ pc = "loop" /\ fn <= Len(funcs)
  /\ results' = [results EXCEPT !.funcid = IF funcs[fn] THEN fn ELSE @]
  /\ file' = [file EXCEPT !.tmp = <<k, fn>>, !.marker = <<k, fn>>]
  /\ pc' = "filter"
  /\ Fixed /\ UNCHANGED <<k, fn, scored, failed>>
\* eval_perf: which function is the submission, then tracegen.  tracegen
\* writes .marker before it calls the function.
tracegen ==
  /\ pc = "loop" /\ fn <= Len(funcs)
  /\ results' = [results EXCEPT !.funcid = IF funcs[fn] THEN fn ELSE @]
  /\ file' = [file EXCEPT !.tmp = <<k, fn>>, !.marker = <<k, fn>>]
  /\ IF exit_status(k, fn) = 0 THEN pc' = "filter" /\ fn' = fn ELSE pc' = "loop" /\ fn' = fn + 1
  /\ Fixed /\ UNCHANGED <<k, scored, failed>>

\* The part of the trace between the markers goes to trace.f<fn>.
filter ==
  /\ pc = "filter"
  /\ results' = [results EXCEPT !.correct = IF results.funcid = fn THEN 1 ELSE @]
  /\ file' = [file EXCEPT !.part[fn] = IF file.marker = file.tmp THEN file.tmp ELSE NoRun]
  /\ pc' = "csim" /\ Fixed /\ UNCHANGED <<k, fn, scored, failed>>

\* The status of the simulator is not looked at; without a file of results
\* the assertion ends the program before it prints.
csim_ref(ok) ==
  /\ pc = "csim"
  /\ file' = [file EXCEPT !.csim = IF ok THEN file.part[fn] ELSE @]
  /\ failed' = IF ok THEN failed ELSE failed \cup {<<k, fn>>}
  /\ pc' = "collect" /\ Fixed /\ UNCHANGED <<k, fn, results, scored>>
collect ==
  /\ pc = "collect" /\ file.csim # NoRun
  /\ results' = [results EXCEPT !.misses = IF results.funcid = fn THEN file.csim ELSE @]
  /\ pc' = "loop" /\ fn' = fn + 1 /\ Fixed /\ UNCHANGED <<k, file, scored, failed>>
NoFile == pc = "collect" /\ file.csim = NoRun /\ Printed(<<>>)

Finish ==
  /\ pc = "loop" /\ fn > Len(funcs)
  /\ Printed(IF results.funcid = 0 THEN <<0, NoRun>> ELSE <<results.correct, results.misses>>)
\* The alarm or a segmentation fault: "TEST_TRANS_RESULTS=0:0"
Handler == pc # "done" /\ Printed(<<0, NoRun>>)

Next == tracegen \/ filter \/ (\E ok \in BOOLEAN : csim_ref(ok)) \/ collect \/ NoFile \/ Finish \/ Handler
Spec == Init /\ [][Next]_vars
-----------------------------------------------------------------------------
\* Mutant: no test of the upper limit.
computeMissScoreUp(miss, lower, upper, full) ==
  IF miss <= lower THEN 10 * full ELSE (20 * full * (upper - miss) + (upper - lower)) \div (2 * (upper - lower))
\* driver.py: the points of a size, in tenths, from the misses and the limits
computeMissScore(miss, lower, upper, full) ==
  IF miss <= lower THEN 10 * full
  ELSE IF miss >= upper THEN 0
  ELSE (20 * full * (upper - miss) + (upper - lower)) \div (2 * (upper - lower))

\* More misses never give more points, and the points stay between none and
\* the full score, also just inside the limits.
MissScoreFair(lower, upper, full) ==
  \A miss \in 0..(upper + 2) :
    LET s == computeMissScore(miss, lower, upper, full)
    IN s >= 0 /\ s <= 10 * full /\ computeMissScore(miss + 1, lower, upper, full) <= s
-----------------------------------------------------------------------------
\* The driver is where the code says, and its files hold runs that were made.
TypeOK ==
  /\ k \in 1..(K + 1) /\ fn \in 1..(Len(funcs) + 1) /\ Len(scored) = k - 1
  /\ pc \in {"loop", "filter", "csim", "collect", "done"}
  /\ \A f \in {file.tmp, file.marker, file.csim} : f \in {NoRun} \cup ((1..K) \X (1..Len(funcs)))

\* Points for a size mean that the submission was right at that size, and the
\* misses are its own at that size, unless the simulator failed on it: then
\* they are those of the last run that left results.
PointsEarned ==
  \A n \in 1..Len(scored) :
    scored[n] # <<>> /\ scored[n][1] = 1 =>
      \E j \in 1..Len(funcs) : /\ funcs[j] /\ correct[n][j]
                               /\ scored[n][2] = <<n, j>> \/ <<n, j>> \in failed
=============================================================================
