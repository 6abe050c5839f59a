------------------------------ MODULE Mdriver ------------------------------
(***************************************************************************)
(* mdriver.c replays trace files against libc's malloc and against the     *)
(* package of mm.c and judges the package.  The package is external here:  *)
(* while it is judged it may return any address, or NULL, and may lose the *)
(* bytes of a block it moves; faults records how it broke malloc's         *)
(* contract, for comparison with the driver's verdict.                     *)
(***************************************************************************)
EXTENDS Integers, SequencesExt

CONSTANTS Tracefiles,     \* a sequence of files: num_ids, num_ops, the request lines
          Addr, Lo, Hi,   \* what the package may return; mem_heap_lo and mem_heap_hi
          ALIGNMENT, run_libc

NULL == -1

VARIABLES d,      \* the driver: pass, trace number, request, errors, verdicts, status
          trace,  \* trace->blocks and trace->block_sizes
          ranges, \* the range list: payloads as lo, hi
          mem,    \* the bytes of the heap
          live,   \* the blocks the package has handed out: address and size
          faults  \* what the package did wrong in this pass

vars == <<d, trace, ranges, mem, live, faults>>

Ops == Tracefiles[d.t].ops
Op == Ops[d.i]
Block == trace[Op.i].block

\* read_trace asserts the header's two counts; FREE requests take no part
\* in the largest index.
read_trace(f) ==
  /\ Max({0} \cup {f.ops[k].i : k \in {j \in 1..Len(f.ops) : f.ops[j].t # "f"}}) = f.num_ids - 1
  /\ f.num_ops = Len(f.ops)

\* The passes of main: with -l, libc twice for every trace; then for every
\* trace mm_valid and, if it succeeded, mm_util and mm_speed.
After(p, t, ok) ==
  CASE p = "libc_valid" -> <<"libc_speed", t>>
    [] p = "libc_speed" -> IF t < Len(Tracefiles) THEN <<"libc_valid", t + 1>> ELSE <<"mm_valid", 1>>
    [] p = "mm_valid" /\ ok -> <<"mm_util", t>>
    [] p = "mm_util" -> <<"mm_speed", t>>
    [] OTHER -> <<"mm_valid", t + 1>>

Status(t) ==
  IF t > Len(Tracefiles) THEN "done" ELSE IF read_trace(Tracefiles[t]) THEN "run" ELSE "assert"

\* The next pass, on a heap that is reset and an empty range list
Turn(p, t, errors, valid) ==
  /\ d' = [pass |-> p, t |-> t, i |-> 1, errors |-> errors, valid |-> valid, status |-> Status(t)]
  /\ ranges' = {} /\ live' = {} /\ faults' = {} /\ mem' = [a \in Addr |-> NULL]
  /\ UNCHANGED trace

malloc_error(fs) ==
  LET n == After("mm_valid", d.t, FALSE)
  IN  Turn(n[1], n[2], d.errors + 1, Append(d.valid, [ok |-> FALSE, faults |-> fs]))

EndPass ==
  LET n == After(d.pass, d.t, TRUE) IN
  /\ d.status = "run" /\ d.i > Len(Ops)
  /\ Turn(n[1], n[2], d.errors,
          IF d.pass = "mm_valid" THEN Append(d.valid, [ok |-> TRUE, faults |-> faults]) ELSE d.valid)
-----------------------------------------------------------------------------
\* Mutant: only the first byte of the payload is looked up.
Clear1(rs, lo, hi) == \A r \in rs : lo \notin r[1]..r[2]

Clear(rs, lo, hi) == \A r \in rs : lo \notin r[1]..r[2] /\ hi \notin r[1]..r[2]

add_range(rs, lo, size) ==
  LET hi == lo + size - 1
  IN  lo % ALIGNMENT = 0 /\ lo \in Lo..Hi /\ hi \in Lo..Hi /\ Clear(rs, lo, hi)

remove_range(rs, lo) == {r \in rs : r[1] # lo}

memset(m, p, index, size) == [a \in Addr |-> IF a >= p /\ a < p + size THEN index ELSE m[a]]

\* The driver's bookkeeping when the block at p is accepted in place of those in rs
Accept(p, rs, m, others, fs) ==
  /\ ranges' = rs \cup {<<p, p + Op.s - 1>>}
  /\ trace' = [trace EXCEPT ![Op.i] = [block |-> p, size |-> Op.s]]
  /\ mem' = memset(m, p, Op.i, Op.s)
  /\ live' = others \cup {<<p, Op.s>>}
  /\ faults' = faults \cup fs
  /\ d' = [d EXCEPT !.i = @ + 1]

\* How a block of size bytes at p breaks the contract, next to the others
Surrounds(p, size, b) == p < b[1] /\ p + size > b[1] + b[2]
FaultsAt(p, size, others) ==
  IF p = NULL THEN {"null"}
  ELSE {f \in {"align", "outside", "overlap", "contains"} :
          CASE f = "align" -> p % ALIGNMENT # 0
            [] f = "outside" -> p < Lo \/ p + size - 1 > Hi
            [] f = "contains" -> \E b \in others : Surrounds(p, size, b)
            [] f = "overlap" -> \E b \in others : p < b[1] + b[2] /\ b[1] < p + size /\ ~Surrounds(p, size, b)}

ValidAlloc(p) ==
  LET fs == FaultsAt(p, Op.s, live) IN
  IF p # NULL /\ add_range(ranges, p, Op.s) THEN Accept(p, ranges, mem, live, fs)
  ELSE malloc_error(faults \cup fs)

\* The package has moved the block to p, with its bytes or without.
ValidRealloc(p, keeps) ==
  LET n == Min({Op.s, trace[Op.i].size})
      rs == remove_range(ranges, Block)
      others == {b \in live : b[1] # Block}
      moved == [a \in Addr |-> IF keeps /\ a >= p /\ a < p + n THEN mem[Block + a - p] ELSE mem[a]]
      At(a) == IF a \in Addr THEN moved[a] ELSE NULL
      fs == FaultsAt(p, Op.s, others)
            \cup (IF \E j \in 0..(n - 1) : At(p + j) # mem[Block + j] THEN {"data"} ELSE {}) IN
  IF p # NULL /\ add_range(rs, p, Op.s) /\ \A j \in 0..(n - 1) : At(p + j) = Op.i
  THEN Accept(p, rs, moved, others, fs) ELSE malloc_error(faults \cup fs)

ValidFree ==
  /\ ranges' = remove_range(ranges, Block)
  /\ live' = {b \in live : b[1] # Block}
  /\ d' = [d EXCEPT !.i = @ + 1]
  /\ UNCHANGED <<trace, mem, faults>>

eval_mm_valid ==
  /\ d.status = "run" /\ d.pass = "mm_valid" /\ d.i <= Len(Ops)
  /\ \/ Op.t = "a" /\ \E p \in Addr \cup {NULL} : ValidAlloc(p)
     \/ Op.t = "r" /\ \E p \in Addr \cup {NULL}, keeps \in BOOLEAN : ValidRealloc(p, keeps)
     \/ Op.t = "f" /\ ValidFree

\* Mutant: a moved block is not recorded.
RecordedAlloc(p, sized) ==
  [trace EXCEPT ![Op.i] = [block |-> IF Op.t = "a" THEN p ELSE @.block, size |-> IF sized THEN Op.s ELSE @.size]]

Recorded(p, sized) == [trace EXCEPT ![Op.i] = [block |-> p, size |-> IF sized THEN Op.s ELSE @.size]]

\* The other passes trust the allocator: blocks come and go, and a NULL
\* ends the program.  Any address that is not in use will do.
Replay(sized) ==
  LET p == Min(Addr \ {b[1] : b \in live}) IN
  /\ IF Op.t = "f" THEN live' = live \ {<<Block, Op.i>>} /\ UNCHANGED trace
     ELSE /\ live' = (IF Op.t = "r" THEN live \ {<<Block, Op.i>>} ELSE live) \cup {<<p, Op.i>>}
          /\ trace' = Recorded(p, sized)
  /\ d' = [d EXCEPT !.i = @ + 1]
  /\ UNCHANGED <<ranges, mem, faults>>

Passing(p) == d.status = "run" /\ d.pass = p /\ d.i <= Len(Ops)
eval_mm_util_step == Passing("mm_util") /\ Replay(TRUE)
eval_mm_speed == Passing("mm_speed") /\ Replay(FALSE)
eval_libc_valid == Passing("libc_valid") /\ Replay(FALSE)
eval_libc_speed == Passing("libc_speed") /\ Replay(FALSE)
OutOfMemory ==
  /\ d.pass # "mm_valid" /\ Passing(d.pass) /\ Op.t # "f"
  /\ d' = [d EXCEPT !.status = "exit"] /\ UNCHANGED <<trace, ranges, mem, live, faults>>

\* Mutant: the old size of a moved block stays in the total.
NewTotalKept(total, old, o) == IF o.t = "f" THEN total - old ELSE total + o.s

NewTotal(total, old, o) ==
  CASE o.t = "f" -> total - old [] o.t = "r" -> total + (o.s - old) [] OTHER -> total + o.s

\* The high water mark eval_mm_util accumulates: total_size, its maximum
\* and block_sizes after each request
eval_mm_util(ops) ==
  FoldLeft(LAMBDA acc, o :
             LET total == NewTotal(acc.total, acc.sizes[o.i], o)
             IN  [total |-> total, max |-> IF o.t # "f" /\ total > acc.max THEN total ELSE acc.max,
                  sizes |-> IF o.t = "f" THEN acc.sizes ELSE [acc.sizes EXCEPT ![o.i] = o.s]],
           [total |-> 0, max |-> 0, sizes |-> [i \in {ops[k].i : k \in 1..Len(ops)} |-> 0]], ops).max

Finished == d.status # "run" /\ UNCHANGED vars

Init ==
  /\ d = [pass |-> IF run_libc THEN "libc_valid" ELSE "mm_valid", t |-> 1, i |-> 1, errors |-> 0,
          valid |-> <<>>, status |-> Status(1)]
  /\ trace = [i \in 0..Max({f.num_ids : f \in {Tracefiles[t] : t \in 1..Len(Tracefiles)}}) |->
                [block |-> NULL, size |-> 0]]
  /\ ranges = {} /\ live = {} /\ faults = {} /\ mem = [a \in Addr |-> NULL]

Next ==
  \/ eval_mm_valid \/ eval_mm_util_step \/ eval_mm_speed \/ eval_libc_valid \/ eval_libc_speed
  \/ EndPass \/ OutOfMemory \/ Finished

Spec == Init /\ [][Next]_vars
-----------------------------------------------------------------------------
\* The type invariant.
TypeOK == d.status = "run" => d.t \in DOMAIN Tracefiles /\ d.i \in 1..(Len(Ops) + 1)

\* The verdicts are right: the package is accepted on a trace only if every
\* block it returned was aligned, inside the heap and apart from the others
\* and kept its bytes, with one exception, a block that contains another
\* one entirely; it is rejected only if it did something wrong.  The number
\* of errors is the number of traces it failed.
VerdictRight ==
  /\ \A k \in DOMAIN d.valid : IF d.valid[k].ok THEN d.valid[k].faults \subseteq {"contains"}
                               ELSE d.valid[k].faults # {}
  /\ d.errors = Quantify(DOMAIN d.valid, LAMBDA k : ~d.valid[k].ok)

\* In every pass, over libc or the package, after whatever the passes
\* before it left in the trace record, the driver frees and moves only
\* blocks of this pass that are still in use.
FreesLive ==
  Passing(d.pass) /\ Op.t # "a" =>
    IF d.pass = "mm_valid" THEN \E b \in live : b[1] = Block ELSE <<Block, Op.i>> \in live

\* The high water mark is the largest total of live sizes after any request.
HighWaterExact ==
  \A t \in 1..Len(Tracefiles) :
    LET ops == Tracefiles[t].ops
        LastOf(k, i) == {j \in 1..k : ops[j].i = i /\ \A l \in (j + 1)..k : ops[l].i # i}
        Total(k) == MapThenSumSet(LAMBDA j : IF ops[j].t = "f" THEN 0 ELSE ops[j].s,
                                  UNION {LastOf(k, ops[j].i) : j \in 1..k})
    IN  read_trace(Tracefiles[t]) => eval_mm_util(ops) = Max({Total(k) : k \in 1..Len(ops)})
=============================================================================
