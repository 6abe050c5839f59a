--------------------------- MODULE DataStructures ---------------------------
(***************************************************************************)
(* Data structures: big integers, interval lists, query iterators with the *)
(* table file, the tree of word groups, and the bit-vector set.            *)
(***************************************************************************)
EXTENDS Integers, SequencesExt, Bitwise, Sequences, TLC, FiniteSets

(***************************************************************************)
(* The arbitrary-precision integers of cpython_int.c.  A PyLongObject is   *)
(* its ob_size, which carries the sign, and its digits, least significant  *)
(* first.  Digits have DigitBits bits instead of 30 and int64_t has IntBits instead of   *)
(* 64, with 2 * DigitBits < IntBits < 3 * DigitBits as in the code.  malloc succeeds.            *)
(***************************************************************************)

CONSTANTS DigitBits, IntBits

BASE == 2^DigitBits
INT64_MAX == 2^(IntBits - 1) - 1
INT64_MIN == -(2^(IntBits - 1))
FAIL == 2^IntBits               \* the return code -1 of pylong_to_int64
NULL == [ob_size |-> 0, ob_digit |-> <<"NULL">>]

Py_ABS(x) == IF x < 0 THEN -x ELSE x
Count(op) == Py_ABS(op.ob_size)
Digit(op, i) == IF i <= Count(op) THEN op.ob_digit[i] ELSE 0
Sized(op, size) == [op EXCEPT !.ob_size = size]

pylong_alloc(size) == [ob_size |-> size, ob_digit |-> [i \in 1..size |-> 0]]

pylong_clamp(op) ==
  LET n == Max({0} \cup {i \in 1..Count(op) : op.ob_digit[i] # 0})
  IN  Sized(op, IF op.ob_size < 0 THEN -n ELSE n)

pylong_verify_invariants(op) ==
  op.ob_size = 0 \/ (/\ op.ob_digit[Count(op)] # 0
                     /\ \A i \in 1..Count(op) : op.ob_digit[i] \in 0..(BASE - 1))

\* The magnitude is the two's complement negation in a IntBits-bit word.
pylong_from_int64(val) ==
  LET uval == IF val < 0 THEN (2^IntBits - (val % 2^IntBits)) % 2^IntBits ELSE val
      count == Min({k \in 0..3 : uval < BASE^k})
  IN  IF val = 0 THEN pylong_alloc(0)
      ELSE pylong_clamp([ob_size |-> IF val < 0 THEN -count ELSE count,
                         ob_digit |-> [i \in 1..3 |-> (uval \div BASE^(i - 1)) % BASE]])

\* Mutant: the most negative value is taken for an overflow.
max_neg_less == INT64_MAX

max_neg == 2^(IntBits - 1)

\* uval is shifted in a IntBits-bit word: the bits of a third digit beyond it go.
pylong_to_int64(op) ==
  LET n == Count(op)
      uval == FoldRight(LAMBDA dig, acc : ((acc * BASE) % 2^IntBits) + dig, SubSeq(op.ob_digit, 1, n), 0)
  IN  IF n > 3 THEN FAIL
      ELSE IF op.ob_size >= 0 THEN IF uval > INT64_MAX THEN FAIL ELSE uval
      ELSE IF uval > max_neg THEN FAIL ELSE -uval

pylong_compare_magnitude(a, b) ==
  LET differ == {i \in 1..Count(a) : a.ob_digit[i] # Digit(b, i)} IN
  CASE Count(a) > Count(b) -> 1 [] Count(a) < Count(b) -> -1
    [] OTHER -> IF differ = {} THEN 0 ELSE IF a.ob_digit[Max(differ)] > b.ob_digit[Max(differ)] THEN 1 ELSE -1

SignOf(a) == IF a.ob_size > 0 THEN 1 ELSE IF a.ob_size < 0 THEN -1 ELSE 0

pylong_compare(a, b) ==
  IF SignOf(a) # SignOf(b) THEN IF SignOf(a) > SignOf(b) THEN 1 ELSE -1
  ELSE IF SignOf(a) = 0 THEN 0
  ELSE IF SignOf(a) > 0 THEN pylong_compare_magnitude(a, b) ELSE pylong_compare_magnitude(b, a)

\* The digit loops, least significant first: the digits so far and the carry
\* or borrow.  Where b has no more digits only a's and the carry count.
AddStep(a, b, acc, i) ==
  LET sum == Digit(a, i) + Digit(b, i) + acc.c IN [z |-> Append(acc.z, sum % BASE), c |-> sum \div BASE]

pylong_add_magnitude(a, b) ==
  LET n == Max({Count(a), Count(b)})
      r == FoldLeft(LAMBDA acc, i : AddStep(a, b, acc, i), [z |-> <<>>, c |-> 0], [i \in 1..n |-> i])
  IN  pylong_clamp([ob_size |-> IF r.c > 0 THEN n + 1 ELSE n, ob_digit |-> Append(r.z, r.c)])

\* Mutant: the borrow is not passed on.
SubStepOnce(a, b, acc, i) ==
  LET diff == Digit(a, i) - Digit(b, i) IN [z |-> Append(acc.z, diff % BASE), c |-> 0]

SubStep(a, b, acc, i) ==
  LET diff == Digit(a, i) - Digit(b, i) - acc.c
  IN  IF diff < 0 THEN [z |-> Append(acc.z, diff + BASE), c |-> 1] ELSE [z |-> Append(acc.z, diff), c |-> 0]

pylong_sub_magnitude(a, b) ==
  LET r == FoldLeft(LAMBDA acc, i : SubStep(a, b, acc, i), [z |-> <<>>, c |-> 0], [i \in 1..Count(a) |-> i])
  IN  pylong_clamp([ob_size |-> Count(a), ob_digit |-> r.z])

pylong_neg(a) == Sized(a, -a.ob_size)

pylong_add(a, b) ==
  CASE a.ob_size = 0 -> b
    [] a.ob_size # 0 /\ b.ob_size = 0 -> a
    [] a.ob_size * b.ob_size > 0 ->
         LET z == pylong_add_magnitude(a, b) IN IF a.ob_size < 0 THEN pylong_neg(z) ELSE z
    [] OTHER ->
         LET cmp == pylong_compare_magnitude(a, b)
             big == IF cmp > 0 THEN a ELSE b
             z == pylong_sub_magnitude(big, IF cmp > 0 THEN b ELSE a)
         IN  IF cmp = 0 THEN pylong_alloc(0) ELSE IF big.ob_size < 0 THEN pylong_neg(z) ELSE z

pylong_sub(a, b) == pylong_add(a, pylong_neg(b))

\* One row of the schoolbook product; the carry runs on past b's digits.
MulRow(z, i, a, b) ==
  LET row[j \in 0..(Count(a) + Count(b) - i + 1)] ==
        IF j = 0 THEN [z |-> z, c |-> 0]
        ELSE LET prev == row[j - 1]
                 k == i + j - 1
                 prod == prev.z[k] + prev.c + (IF j <= Count(b) THEN a.ob_digit[i] * b.ob_digit[j] ELSE 0)
             IN  IF j <= Count(b) \/ prev.c > 0
                 THEN [z |-> [prev.z EXCEPT ![k] = prod % BASE], c |-> prod \div BASE] ELSE prev
  IN  row[Count(a) + Count(b) - i + 1].z

pylong_mul(a, b) ==
  LET n == Count(a) + Count(b) IN
  IF a.ob_size = 0 \/ b.ob_size = 0 THEN pylong_alloc(0)
  ELSE pylong_clamp([ob_size |-> IF (a.ob_size < 0) # (b.ob_size < 0) THEN -n ELSE n,
                     ob_digit |-> FoldLeft(LAMBDA z, i : MulRow(z, i, a, b),
                                           [k \in 1..n |-> 0], [i \in 1..Count(a) |-> i])])

pylong_invert(a) == pylong_neg(pylong_add(a, pylong_from_int64(1)))

pylong_and(a, b) ==
  LET n == Min({Count(a), Count(b)}) IN
  IF a.ob_size < 0 \/ b.ob_size < 0 THEN NULL
  ELSE pylong_clamp([ob_size |-> n, ob_digit |-> [i \in 1..n |-> a.ob_digit[i] & b.ob_digit[i]]])

\* Dispatch through the type's number suite: an object is its type and its
\* value, and a slot refuses operands that are not both of its type.
PyNumber_Add(v, w) ==
  IF v[1] # w[1] THEN NULL ELSE IF v[1] = "int" THEN pylong_add(v[2], w[2]) ELSE v[2] + w[2]
PyNumber_Multiply(v, w) ==
  IF v[1] # w[1] THEN NULL ELSE IF v[1] = "int" THEN pylong_mul(v[2], w[2]) ELSE v[2] * w[2]
-----------------------------------------------------------------------------
\* The integer an object stands for, and the object of an integer.
Value(op) == LET m == FoldRight(LAMBDA dig, acc : acc * BASE + dig, SubSeq(op.ob_digit, 1, Count(op)), 0)
             IN  IF op.ob_size < 0 THEN -m ELSE m
Same(op, x) == pylong_verify_invariants(op) /\ Value(op) = x

\* The operations are those of the integers, and every result is in normal
\* form: no leading zero, every digit below the base.  Carries and borrows
\* run through several digits, and operands of opposite sign cancel.
ArithmeticExact(x, y) ==
  LET a == pylong_from_int64(x)
      b == pylong_from_int64(y) IN
  /\ Same(PyNumber_Add(<<"int", a>>, <<"int", b>>), x + y) /\ Same(pylong_sub(a, b), x - y)
  /\ Same(PyNumber_Multiply(<<"int", a>>, <<"int", b>>), x * y) /\ Same(pylong_invert(a), -x - 1)
  /\ pylong_compare(a, b) = (IF x > y THEN 1 ELSE IF x < y THEN -1 ELSE 0)
  /\ x >= 0 /\ y >= 0 => Same(pylong_and(a, b), x & y)
  /\ PyNumber_Add(<<"int", a>>, <<"float", y>>) = NULL

\* Conversions: every int64_t survives the round trip, the most negative
\* one included, and an integer of at most IntBits bits that is no int64_t is
\* refused.
ConversionsExact(x, y) ==
  LET product == pylong_mul(pylong_from_int64(x), pylong_from_int64(y)) IN
  /\ Same(pylong_from_int64(x), x) /\ pylong_to_int64(pylong_from_int64(x)) = x
  /\ Py_ABS(x * y) < 2^IntBits =>
       pylong_to_int64(product) = IF x * y \in INT64_MIN..INT64_MAX THEN x * y ELSE FAIL

-----------------------------------------------------------------------------
(***************************************************************************)
(* Exercise 14: merging half-open intervals.  The decorators raise when a  *)
(* contract is broken; a raise is modelled by an interval nobody can make.   *)
(***************************************************************************)

Interval(a, b) == [start |-> a, end |-> b]
Raised == <<Interval(0, 0)>>

is_valid_interval(iv) == iv.start < iv.end
\* Mutant: intervals that only touch do not count.
are_intervals_overlapping(a, b) == b.start < a.end
are_intervals_touching_or_overlapping(a, b) == b.start <= a.end
is_sorted_intervals(s) == \A i \in 1..(Len(s) - 1) : s[i].start <= s[i + 1].start
is_pairwise_disjoint(s) == \A i \in 1..(Len(s) - 1) : s[i].end < s[i + 1].start

requires(p, res) == IF p THEN res ELSE Raised
ensures(q, res) == IF q THEN res ELSE Raised

MaxOf(a, b) == IF a >= b THEN a ELSE b

legacy_merge_intervals(raw) ==
  IF raw = <<>> THEN <<>>
  ELSE FoldLeft(LAMBDA merged, cur :
                  LET n == Len(merged)
                  IN IF cur.start <= merged[n].end THEN [merged EXCEPT ![n].end = MaxOf(@, cur.end)] ELSE Append(merged, cur),
                <<raw[1]>>, Tail(raw))

\* Mutant: the end is that of the interval that starts last.
merge_two_last(a, b) == <<Interval(a.start, b.end)>>
merge_two_touching(a, b) ==
  LET res == Interval(a.start, MaxOf(a.end, b.end))
  IN requires(is_valid_interval(a) /\ is_valid_interval(b) /\ a.start <= b.start
                /\ are_intervals_touching_or_overlapping(a, b),
              ensures(is_valid_interval(res), <<res>>))

verify_loop_invariant(c) == IF is_pairwise_disjoint(c) /\ is_sorted_intervals(c) THEN c ELSE Raised

collapse_step(c, candidate) ==
  IF c = Raised THEN Raised
  ELSE LET n == Len(c)
           merged == merge_two_touching(c[n], candidate)
       IN IF ~are_intervals_touching_or_overlapping(c[n], candidate) THEN verify_loop_invariant(Append(c, candidate))
          ELSE IF merged = Raised THEN Raised ELSE verify_loop_invariant([c EXCEPT ![n] = merged[1]])
collapse_sorted_intervals(s) ==
  requires((\A i \in DOMAIN s : is_valid_interval(s[i])) /\ is_sorted_intervals(s),
           IF s = <<>> THEN <<>>
           ELSE LET r == FoldLeft(collapse_step, verify_loop_invariant(<<s[1]>>), Tail(s))
                IN IF r = Raised THEN Raised ELSE ensures(is_pairwise_disjoint(r), r))

sort_intervals_by_start(s) == SortSeq(s, LAMBDA x, y : x.start < y.start \/ (x.start = y.start /\ x.end < y.end))

consolidate_intervals(s) ==
  LET r == collapse_sorted_intervals(sort_intervals_by_start(s))
  IN IF r = Raised THEN Raised ELSE ensures(is_pairwise_disjoint(r), r)
-----------------------------------------------------------------------------
Points(s) == UNION {s[i].start..(s[i].end - 1) : i \in DOMAIN s}

\* For every list of valid intervals no contract is broken, the result covers
\* exactly the points of the input, and it is the only such list of intervals
\* with a gap between any two.
ConsolidateExact(s) ==
  LET r == consolidate_intervals(s)
  IN /\ r # Raised /\ Points(r) = Points(s)
     /\ \A i \in 1..(Len(r) - 1) : r[i].end \notin Points(s) /\ r[i].end < r[i + 1].start

\* The legacy function gives the same on sorted input.
LegacyAgrees(s) == is_sorted_intervals(s) => legacy_merge_intervals(s) = consolidate_intervals(s)

-----------------------------------------------------------------------------
(***************************************************************************)
(* The query executor: a plan of operators, each an iterator that pulls    *)
(* from the one below it, and the writer of the table file format.  st     *)
(* holds the counter of each operator: the rows a SCAN gave, the tuples a  *)
(* LIMIT let through.                                                      *)
(***************************************************************************)

Eof(st) == [ok |-> FALSE, tup |-> <<>>, st |-> st]
Got(tup, st) == [ok |-> TRUE, tup |-> tup, st |-> st]
NewFileScan(headers, records) ==
  [i \in DOMAIN records |-> [j \in DOMAIN headers |-> [Name |-> headers[j], Value |-> records[i][j]]]]
ScanNext(tuples, k, st) == IF st[k] >= Len(tuples) THEN Eof(st) ELSE Got(tuples[st[k] + 1], [st EXCEPT ![k] = @ + 1])
EqualExpression(op, tup) == \E j \in DOMAIN tup : tup[j].Name = op.Col /\ tup[j].Value = op.Val
Project(op, tup) == SelectSeq(tup, LAMBDA c : c.Name \in op.Cols)

\* IterNext of the k-th operator of the plan; the operator below it is the next
\* one, since translate builds the plan from its last operator.
RECURSIVE IterNext(_, _, _, _)
RECURSIVE SelectionNext(_, _, _, _)
SelectionNext(plan, tuples, k, st) ==
  LET r == IterNext(plan, tuples, k + 1, st)
  IN IF ~r.ok THEN Eof(r.st)
     ELSE IF EqualExpression(plan[k], r.tup) THEN r
     ELSE SelectionNext(plan, tuples, k, r.st)
\* Mutant: the count is looked at after the pull.
LimitNextLate(plan, tuples, k, st) ==
  LET r == IterNext(plan, tuples, k + 1, st)
  IN IF ~r.ok \/ st[k] >= plan[k].N THEN Eof(r.st) ELSE Got(r.tup, [r.st EXCEPT ![k] = @ + 1])
\* Mutant: one tuple too many.
LimitNextMore(plan, tuples, k, st) ==
  IF st[k] > plan[k].N THEN Eof(st)
  ELSE LET r == IterNext(plan, tuples, k + 1, st)
       IN IF ~r.ok THEN Eof(r.st) ELSE Got(r.tup, [r.st EXCEPT ![k] = @ + 1])
LimitNext(plan, tuples, k, st) ==
  IF st[k] >= plan[k].N THEN Eof(st)
  ELSE LET r == IterNext(plan, tuples, k + 1, st)
       IN IF ~r.ok THEN Eof(r.st) ELSE Got(r.tup, [r.st EXCEPT ![k] = @ + 1])
ProjectionNext(plan, tuples, k, st) ==
  LET r == IterNext(plan, tuples, k + 1, st) IN IF r.ok THEN Got(Project(plan[k], r.tup), r.st) ELSE Eof(r.st)
IterNext(plan, tuples, k, st) ==
  CASE plan[k].Op = "SCAN" -> ScanNext(tuples, k, st)
    [] plan[k].Op = "SELECTION" -> SelectionNext(plan, tuples, k, st)
    [] plan[k].Op = "LIMIT" -> LimitNext(plan, tuples, k, st)
    [] plan[k].Op = "PROJECTION" -> ProjectionNext(plan, tuples, k, st)

\* A plan of which TranslatePlan makes an iterator that has its source.
translate(plan) == plan # <<>> /\ plan[Len(plan)].Op = "SCAN"
RECURSIVE Pulled(_, _, _)
Pulled(plan, tuples, st) ==
  LET r == IterNext(plan, tuples, 1, st)
  IN IF ~r.ok THEN [response |-> <<>>, st |-> r.st]
     ELSE LET rest == Pulled(plan, tuples, r.st)
          IN [rest EXCEPT !.response = <<[j \in DOMAIN r.tup |-> r.tup[j].Value]>> \o @]
handleQuery(plan, headers, records) ==
  Pulled(plan, NewFileScan(headers, records), [k \in DOMAIN plan |-> 0])
-----------------------------------------------------------------------------
\* writer.go.  Strings are sequences of bytes.
RECURSIVE PutUvarint(_)
PutUvarint(x) == IF x < 128 THEN <<x>> ELSE <<128 + (x % 128)>> \o PutUvarint(x \div 128)
NewFileWriter(columns, rows) == [columnNames |-> columns, numRows |-> rows, numWritten |-> 0, file |-> <<>>, refused |-> 0]
\* The marshalled header: its version, its rows and its columns.
HeaderBytes(w) == <<1, w.numRows>> \o FlattenSeq(w.columnNames)
writeHeader(w) == [w EXCEPT !.file = @ \o PutUvarint(Len(HeaderBytes(w))) \o HeaderBytes(w)]
Row(t) == FlattenSeq([i \in DOMAIN t |-> PutUvarint(Len(t[i])) \o t[i]])
\* Mutant: the header goes in front of every row.
HeaderDueAlways(w) == TRUE
HeaderDue(w) == w.numWritten = 0
AppendRow(w, t) ==
  LET h == IF HeaderDue(w) THEN writeHeader(w) ELSE w
  IN IF Len(t) # Len(w.columnNames) THEN [h EXCEPT !.refused = @ + 1]
     ELSE [h EXCEPT !.file = @ \o Row(t), !.numWritten = @ + 1]
Close(w) == w.numWritten = w.numRows
-----------------------------------------------------------------------------
RECURSIVE Answer(_, _, _)
Answer(plan, tuples, k) ==
  LET op == plan[k]
      below == IF op.Op = "SCAN" THEN <<>> ELSE Answer(plan, tuples, k + 1)
  IN CASE op.Op = "SCAN" -> tuples
       [] op.Op = "SELECTION" -> SelectSeq(below, LAMBDA t : EqualExpression(op, t))
       [] op.Op = "LIMIT" -> SubSeq(below, 1, IF op.N < Len(below) THEN op.N ELSE Len(below))
       [] op.Op = "PROJECTION" -> [i \in DOMAIN below |-> Project(op, below[i])]

\* Pulled one tuple at a time through any order of operators, a plan answers
\* what its operators give on whole tables, one after the other.
QueryExact(v) ==
  translate(v.plan) =>
    LET want == Answer(v.plan, NewFileScan(v.headers, v.records), 1)
    IN handleQuery(v.plan, v.headers, v.records).response = [i \in DOMAIN want |-> [j \in DOMAIN want[i] |-> want[i][j].Value]]

\* A limit never pulls a tuple it cannot let through: with nothing but
\* projections around a limit the table is read exactly as far as the answer
\* goes.
LimitStopsScan(v) ==
  translate(v.plan) /\ (\E k \in DOMAIN v.plan : v.plan[k].Op = "LIMIT")
    /\ (\A k \in 1..(Len(v.plan) - 1) : v.plan[k].Op \in {"LIMIT", "PROJECTION"}) =>
    LET r == handleQuery(v.plan, v.headers, v.records) IN r.st[Len(v.plan)] = Len(r.response)

\* The file format: when Close finds the promised number of rows the file is
\* one header and the accepted rows, though rows of a wrong width were refused
\* in between.  (A refusal before the first row leaves a second header.)
FileWhole(v) ==
  LET w0 == NewFileWriter(v.headers, v.rows)
      w == FoldLeft(AppendRow, w0, v.records)
      good == SelectSeq(v.records, LAMBDA t : Len(t) = Len(v.headers))
      early == CHOOSE n \in 0..Len(v.records) :
                 /\ \A i \in 1..n : Len(v.records[i]) # Len(v.headers)
                 /\ n < Len(v.records) => Len(v.records[n + 1]) = Len(v.headers)
      header == writeHeader(w0).file
      opened == IF early < Len(v.records) THEN early + 1 ELSE early
  IN Close(w) => /\ Len(good) = v.rows
                 /\ w.file = FlattenSeq([i \in 1..opened |-> header]) \o FlattenSeq([i \in DOMAIN good |-> Row(good[i])])

-----------------------------------------------------------------------------
(***************************************************************************)
(* Chapter6/2.c: words are grouped by their first K characters.  Groups    *)
(* are the nodes of a binary search tree; a group is a list, whose head    *)
(* takes the place of the former head in the tree.  Nodes are numbered as  *)
(* they are allocated and 0 is NULL.                                       *)
(***************************************************************************)

CONSTANTS K

\* strncmp: words are sequences of positive numbers, and a word ends with 0.
At(w, i) == IF i <= Len(w) THEN w[i] ELSE 0
Prefix(w) == [i \in 1..K |-> At(w, i)]
strncmp(v, w) ==
  LET d == {i \in 1..K : At(v, i) # At(w, i)}
      i == CHOOSE x \in d : \A y \in d : x <= y
  IN  IF d = {} THEN 0 ELSE At(v, i) - At(w, i)

Node(w) == [word |-> w, next |-> 0, left |-> 0, right |-> 0]
\* Where the walk of traverse ends: the node, the one before it, and the last
\* comparison.
RECURSIVE Descend(_, _, _, _)
Descend(node, w, t, prev) ==
  LET c == strncmp(w, node[t].word)
      child == IF c < 0 THEN node[t].left ELSE node[t].right
  IN  IF c = 0 \/ child = 0 THEN [t |-> t, prev |-> prev, c |-> c] ELSE Descend(node, w, child, t)

\* The new node becomes the head of the group of t.
\* Mutant: the subtrees stay with the former head.
TakeOverBare(node, new, t) == [node EXCEPT ![new].next = t]
TakeOver(node, new, t) == [node EXCEPT ![new].left = node[t].left, ![new].right = node[t].right, ![new].next = t,
                                       ![t].left = 0, ![t].right = 0]
traverse(st, w) ==
  LET node == Append(st.node, Node(w))
      new == Len(node)
      e == Descend(node, w, st.head, st.head)
      taken == TakeOver(node, new, e.t)
  IN  CASE st.head = 0 -> [node |-> node, head |-> new]
        [] st.head # 0 /\ e.c < 0 -> [st EXCEPT !.node = [node EXCEPT ![e.t].left = new]]
        [] st.head # 0 /\ e.c > 0 -> [st EXCEPT !.node = [node EXCEPT ![e.t].right = new]]
        [] OTHER -> [head |-> IF e.t = st.head THEN new ELSE st.head,
                     node |-> IF taken[e.prev].left = e.t THEN [taken EXCEPT ![e.prev].left = new]
                              ELSE [taken EXCEPT ![e.prev].right = new]]
RECURSIVE Grouped(_)
Grouped(ws) == IF ws = <<>> THEN [node |-> <<>>, head |-> 0] ELSE traverse(Grouped(Front(ws)), Last(ws))

\* The groups in the order they are printed.
RECURSIVE ListOf(_, _)
ListOf(node, n) == IF n = 0 THEN <<>> ELSE <<node[n].word>> \o ListOf(node, node[n].next)
RECURSIVE dfs(_, _)
dfs(node, n) == IF n = 0 THEN <<>> ELSE <<ListOf(node, n)>> \o dfs(node, node[n].left) \o dfs(node, node[n].right)
-----------------------------------------------------------------------------
\* Every group dfs prints is all the words with one beginning, the last one
\* read first, and every word is in one group: no subtree is lost or printed
\* twice when a group gets a new head.
GroupsWhole(ws) ==
  LET st == Grouped(ws)
      gs == dfs(st.node, st.head)
      Of(p) == Reverse(SelectSeq(ws, LAMBDA w : Prefix(w) = p))
  IN  /\ Len(gs) = Cardinality({Prefix(ws[i]) : i \in DOMAIN ws})
      /\ {gs[i] : i \in DOMAIN gs} = {Of(Prefix(ws[i])) : i \in DOMAIN ws}

-----------------------------------------------------------------------------
(***************************************************************************)
(* The bit-vector set: a sequence of words, each the set of the bits that  *)
(* are 1.                                                                  *)
(***************************************************************************)

CONSTANTS W,          \* bits of a word: 64 in the code
          Ints        \* the numbers that are added and removed
VARIABLES words, copy, abs   \* two IntSets, and the sets they stand for

vars == <<words, copy, abs>>
Has(v, x) == (x \div W) < Len(v) /\ (x % W) \in v[(x \div W) + 1]
Grown(v, word) == v \o [i \in 1..(word + 1 - Len(v)) |-> {}]
Add(v, x) ==
  LET g == IF (x \div W) >= Len(v) THEN Grown(v, x \div W) ELSE v
  IN [g EXCEPT ![(x \div W) + 1] = @ \cup {x % W}]
AddAll(v, numbers) == FoldLeft(Add, v, numbers)
\* Mutant: the words beyond the end of the first set are left out.
UnionWithShort(v, u) == [i \in DOMAIN v |-> v[i] \cup (IF i \in DOMAIN u THEN u[i] ELSE {})]
UnionWith(v, u) ==
  [i \in 1..Len(v) |-> v[i] \cup (IF i \in DOMAIN u THEN u[i] ELSE {})] \o SubSeq(u, Len(v) + 1, Len(u))
RemoveFrom(v, x) == IF (x \div W) < Len(v) THEN [v EXCEPT ![(x \div W) + 1] = @ \ {x % W}] ELSE v
LenOf(v) == FoldLeft(LAMBDA n, word : n + Cardinality(word), 0, v)
String(v) == FoldLeft(LAMBDA r, i : r \o SetToSortSeq({W * (i - 1) + j : j \in v[i]}, <), <<>>, [i \in DOMAIN v |-> i])

Init == words = <<>> /\ copy = <<>> /\ abs = [s |-> {}, t |-> {}]
DoAdd == \E x \in Ints : words' = Add(words, x) /\ abs' = [abs EXCEPT !.s = @ \cup {x}] /\ UNCHANGED copy
DoAddAll == \E x, y \in Ints : words' = AddAll(words, <<x, y>>) /\ abs' = [abs EXCEPT !.s = @ \cup {x, y}] /\ UNCHANGED copy
DoRemove == \E x \in Ints : words' = RemoveFrom(words, x) /\ abs' = [abs EXCEPT !.s = @ \ {x}] /\ UNCHANGED copy
Union == words' = UnionWith(words, copy) /\ abs' = [abs EXCEPT !.s = @ \cup abs.t] /\ UNCHANGED copy
Clear == words' = <<>> /\ abs' = [abs EXCEPT !.s = {}] /\ UNCHANGED copy
Copy == copy' = words /\ abs' = [abs EXCEPT !.t = abs.s] /\ UNCHANGED words
Next == DoAdd \/ DoAddAll \/ DoRemove \/ Union \/ Clear \/ Copy
-----------------------------------------------------------------------------
\* The words hold bits of a word only.
TypeOK == \A v \in {words, copy} : \A i \in DOMAIN v : v[i] \subseteq 0..(W - 1)

\* However the words grew and the copies were made, membership, size and the
\* printed numbers, in order and once each, are those of the set.
IsSet ==
  \A v \in {<<words, abs.s>>, <<copy, abs.t>>} :
    /\ \A x \in Ints : Has(v[1], x) <=> x \in v[2]
    /\ LenOf(v[1]) = Cardinality(v[2]) /\ String(v[1]) = SetToSortSeq(v[2], <)
=============================================================================
