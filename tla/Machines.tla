------------------------------ MODULE Machines ------------------------------
(***************************************************************************)
(* Processors: the byte machines, the compiler with its own machine, and   *)
(* the pipelined processor of exercise 19.                                 *)
(***************************************************************************)
EXTENDS Integers, SequencesExt, TLC, Sequences

(***************************************************************************)
(* The three byte machines of 01-virtual-machine: the reference solution,  *)
(* bradvm and selfvm.  Memory has Size bytes instead of 256, and a byte is *)
(* a number below Size; Halt is the largest byte, as 0xff is.  A machine   *)
(* is its memory m, its registers r (0 to 2), its program counter pc and a *)
(* status.  In the reference machine and selfvm register 0 is the pc.      *)
(***************************************************************************)

CONSTANTS Size, DATABOUNDARY

Load == 1
Store == 2
Add == 3
Sub == 4
Addi == 5
Subi == 6
Jump == 7
Beqz == 8
Halt == Size - 1

Byte(n) == n % Size
CodeStart == DATABOUNDARY + 1
Stop(s, why) == [s EXCEPT !.status = why]

\* An index out of the register file or of memory is a panic.
Reg(s, i) == IF i \in 0..2 THEN s.r[i] ELSE 0
SetReg(s, i, v) == IF i \in 0..2 THEN [s EXCEPT !.r[i] = Byte(v)] ELSE Stop(s, "panic")
SetMem(s, a, v) == [s EXCEPT !.m[a] = v]
-----------------------------------------------------------------------------
\* reference-solution/vm.go.  The operands are fetched at byte addresses.
loadProcedure(s, o1, o2) == SetReg(s, o1, s.m[o2])
storeProcedure(s, o1, o2) == IF o1 \in 0..2 THEN SetMem(s, o2, s.r[o1]) ELSE Stop(s, "panic")
addProcedure(s, o1, o2) == IF o2 \in 0..2 THEN SetReg(s, o1, Reg(s, o1) + s.r[o2]) ELSE Stop(s, "panic")
subProcedure(s, o1, o2) == IF o2 \in 0..2 THEN SetReg(s, o1, Reg(s, o1) - s.r[o2]) ELSE Stop(s, "panic")
addiProcedure(s, o1, o2) == SetReg(s, o1, Reg(s, o1) + o2)
subiProcedure(s, o1, o2) == SetReg(s, o1, Reg(s, o1) - o2)
jumpProcedure(s, o1) == SetReg(s, 0, o1)
beqzProcedure(s, o1, o2) ==
  IF o1 \notin 0..2 THEN Stop(s, "panic") ELSE IF s.r[o1] = 0 THEN SetReg(s, 0, s.r[0] + o2) ELSE s

Execute(s, op, o1, o2) ==
  CASE op = Load -> loadProcedure(s, o1, o2) [] op = Store -> storeProcedure(s, o1, o2)
    [] op = Add -> addProcedure(s, o1, o2)   [] op = Sub -> subProcedure(s, o1, o2)
    [] op = Addi -> addiProcedure(s, o1, o2) [] op = Subi -> subiProcedure(s, o1, o2)
    [] op = Jump -> jumpProcedure(s, o1)     [] op = Beqz -> beqzProcedure(s, o1, o2)
    [] op = Halt -> Stop(s, "halt")          [] OTHER -> Stop(s, "fatal")

\* Mutant: a jump is followed by the advance of the other instructions.
LengthAll(op) == IF op = Halt THEN 1 ELSE IF op = Jump THEN 2 ELSE 3

Length(op) == IF op = Halt THEN 1 ELSE IF op = Jump THEN 0 ELSE 3

compute(s) ==
  LET pc == s.r[0]
      op == s.m[pc]
      t == Execute(s, op, s.m[Byte(pc + 1)], s.m[Byte(pc + 2)])
  IN  IF t.status \in {"panic", "fatal"} THEN t ELSE SetReg(t, 0, t.r[0] + Length(op))
-----------------------------------------------------------------------------
\* bradvm: decode reads past the end as a panic, and the counter is an int
\* apart from the registers.
Signed(b) == IF b >= Size \div 2 THEN b - Size ELSE b

decode(s) ==
  LET op == s.m[s.pc]
      len == IF op = Halt THEN 1 ELSE IF op = Jump THEN 2 ELSE 3
  IN  IF op \notin 1..8 \cup {Halt} \/ s.pc + len > Size THEN [op |-> -1, a |-> 0, b |-> 0, len |-> 0]
      ELSE [op |-> op, a |-> IF len > 1 THEN s.m[s.pc + 1] ELSE 0, b |-> IF len > 2 THEN s.m[s.pc + 2] ELSE 0,
            len |-> len]

execute(s, inst) ==
  LET next == [s EXCEPT !.pc = @ + inst.len]
      a == inst.a
      b == inst.b IN
  CASE inst.op = -1 -> Stop(s, "panic")
    [] inst.op = Beqz -> IF a \notin 0..2 THEN Stop(s, "panic")
                         ELSE IF s.r[a] # 0 THEN next ELSE [next EXCEPT !.pc = @ + Signed(b)]
    [] inst.op = Jump -> [s EXCEPT !.pc = a]
    [] inst.op = Addi -> addiProcedure(next, a, b) [] inst.op = Subi -> subiProcedure(next, a, b)
    [] inst.op = Add -> addProcedure(next, a, b)   [] inst.op = Sub -> subProcedure(next, a, b)
    [] inst.op = Load -> loadProcedure(next, a, b) [] inst.op = Store -> storeProcedure(next, a, b)
    [] inst.op = Halt -> Stop(s, "halt")

Run(s) == IF s.pc \notin 0..(Size - 1) THEN Stop(s, "panic") ELSE execute(s, decode(s))
-----------------------------------------------------------------------------
\* selfvm: an instruction is three bytes packed in a word, and only the
\* first four operations and Halt exist.
Fetch(s) == (s.m[s.r[0]] * Size + s.m[Byte(s.r[0] + 1)]) * Size + s.m[Byte(s.r[0] + 2)]

DecodeAndExecute(s, instruction) ==
  LET op == instruction \div (Size * Size)
      a == Byte(instruction \div Size)
      b == Byte(instruction)
      t == CASE op = Load -> loadProcedure(s, a, b) [] op = Store -> storeProcedure(s, a, b)
             [] op = Add -> addProcedure(s, a, b)   [] op = Sub -> subProcedure(s, a, b)
             [] op = Halt -> Stop(s, "halt")        [] OTHER -> Stop(s, "fatal")
  IN  IF t.status \in {"panic", "fatal"} THEN t
      ELSE SetReg(t, 0, t.r[0] + (IF op = Halt THEN 1 ELSE 3))

\* Mutant: the room is one byte too large.
RoomInclusive(start, end) == Byte(end - start + 2)

Room(start, end) == Byte(end - start + 1)

\* writeToMemory: the room is computed in a byte.
writeToMemory(m, b, start, end) ==
  IF Len(b) > Room(start, end) THEN m
  ELSE FoldLeft(LAMBDA acc, j : [acc EXCEPT ![Byte(start + j - 1)] = b[j]], m, [j \in 1..Len(b) |-> j])

WriteInstructions(m, b, start) == writeToMemory(m, b, start, Size - 1)
WriteData(m, b, start) == writeToMemory(m, b, start, DATABOUNDARY)
-----------------------------------------------------------------------------
Machine(m, pc0) == [m |-> m, r |-> (0 :> pc0 @@ 1 :> 0 @@ 2 :> 0), pc |-> CodeStart, status |-> "run"]

\* A machine after at most n cycles
Cycles(s, n, Cycle(_)) == FoldLeft(LAMBDA t, k : IF t.status = "run" THEN Cycle(t) ELSE t, s, [k \in 1..n |-> k])

\* Loaded with the same code and data, the machines compute the same: after
\* the same number of cycles they have the same memory and general
\* registers, and they stop together, as long as the code does not use
\* register 0.  The reference machine adds a branch offset in a byte and
\* bradvm adds a signed one to an int: they part only where a branch or the
\* end of memory makes bradvm panic.  selfvm takes part in code without its
\* missing instructions.
VmsAgree(code, data, n) ==
  LET m == WriteData(WriteInstructions([a \in 0..(Size - 1) |-> 0], code, CodeStart), data, 1)
      ref == Cycles(Machine(m, CodeStart), n, compute)
      brad == Cycles(Machine(m, 0), n, Run)
      self == Cycles(Machine(m, CodeStart), n, LAMBDA s : DecodeAndExecute(s, Fetch(s)))
      General(s) == <<s.m, s.r[1], s.r[2], s.status = "halt">>
  IN  /\ brad.status \notin {"panic"} => General(ref) = General(brad)
      /\ self.status # "fatal" => General(ref) = General(self)

\* A write that starts inside its region lands whole in it or changes
\* nothing, whatever the byte arithmetic of the room; only instructions
\* written from address 0 are refused although they fit.
WritesConfined(b, start) ==
  LET blank == [a \in 0..(Size - 1) |-> 0]
      Exact(end) == [a \in 0..(Size - 1) |->
        IF start + Len(b) - 1 <= end /\ a \in start..(start + Len(b) - 1) THEN b[a - start + 1] ELSE 0]
  IN  /\ start <= DATABOUNDARY => WriteData(blank, b, start) = Exact(DATABOUNDARY)
      /\ WriteInstructions(blank, b, start) = IF start = 0 THEN blank ELSE Exact(Size - 1)

-----------------------------------------------------------------------------
(***************************************************************************)
(* The compiler of 03-compiler, from a Go function f(x, y byte) byte to    *)
(* assembly (compile.go), to bytecode (assemble.go), run on a stack        *)
(* machine (vm.go); with it Evaluate of 01-eval and SortFunctions of       *)
(* 02-refactor, which work on the same syntax trees.                       *)
(*                                                                         *)
(* An expression is <<"lit", n>>, <<"id", name>>, <<"paren", e>> or        *)
(* <<"bin", op, l, r>>; a statement <<"return", e>>, <<"assign", v, e>>,   *)
(* <<"if", cond, body, els>>, <<"for", cond, body>>, <<"block", list>> or  *)
(* <<"none">>, the Else of an if without one.  Memory has MemSize bytes       *)
(* instead of 256.  The globals varToMem and nextMemoryLocation, which     *)
(* outlive a compilation, are the record g.                                *)
(***************************************************************************)

CONSTANT MemSize

Wrap(n) == n % MemSize
instructionStart == 8
FirstGlobals == [varToMem |-> [v \in {} |-> 0], nextMemoryLocation |-> 3]
-----------------------------------------------------------------------------
\* compile.go.  What an eval function returns: the assembly, the globals,
\* and whether it failed.
Asm(code, g) == [code |-> code, g |-> g, err |-> FALSE]
Failed(g) == [code |-> <<>>, g |-> g, err |-> TRUE]

OpName == ("+" :> "add") @@ ("-" :> "sub") @@ ("*" :> "mul") @@ ("/" :> "div") @@ ("==" :> "eq") @@ ("<" :> "lt") @@ (">" :> "gt")
getOpAsStringBuilder(op) == IF op \in DOMAIN OpName THEN <<<<OpName[op]>>>> ELSE <<>>

RECURSIVE evalExpr(_, _), evalStmt(_, _)

\* Mutant: the right operand is evaluated first.
OperandsSwapped(l, r, op) == r \o l \o op

Operands(l, r, op) == l \o r \o op

evalExpr(n, g) ==
  CASE n[1] = "lit" -> Asm(<<<<"pushi", Wrap(n[2])>>>>, g)
    [] n[1] = "id" -> IF n[2] \notin DOMAIN g.varToMem THEN Failed(g) ELSE Asm(<<<<"push", g.varToMem[n[2]]>>>>, g)
    [] n[1] = "paren" -> evalExpr(n[2], g)
    [] n[1] = "bin" -> LET l == evalExpr(n[3], g)
                           r == evalExpr(n[4], g)
                       IN  IF l.err \/ r.err THEN Failed(g)
                           ELSE Asm(Operands(l.code, r.code, getOpAsStringBuilder(n[2])), g)

evalReturn(n, g) ==
  LET e == evalExpr(n[2], g) IN IF e.err THEN e ELSE Asm(e.code \o <<<<"pop", 0>>, <<"halt">>>>, g)

Named(v, g) == [varToMem |-> (v :> g.nextMemoryLocation) @@ g.varToMem, nextMemoryLocation |-> g.nextMemoryLocation + 1]

evalAssign(n, g) ==
  LET e == evalExpr(n[3], g)
      h == IF n[2] \in DOMAIN g.varToMem THEN g ELSE Named(n[2], g)
  IN  IF e.err THEN e ELSE Asm(e.code \o <<<<"pop", h.varToMem[n[2]]>>>>, h)

evalIfElse(n, g) ==
  LET c == evalExpr(n[2], g)
      b == evalStmt(n[3], g)
      e == evalStmt(n[4], b.g)
  IN  CASE c.err -> Failed(g)
        [] ~c.err /\ b.err -> Failed(b.g)
        [] ~c.err /\ ~b.err /\ e.err -> Failed(e.g)
        [] OTHER -> Asm(c.code \o <<<<"jeqz", "l2">>, <<"label", "l1">>>> \o b.code \o <<<<"label", "l2">>>> \o e.code, e.g)

evalFor(n, g) ==
  LET c == evalExpr(n[2], g)
      b == evalStmt(n[3], g)
  IN  CASE c.err -> Failed(g)
        [] ~c.err /\ b.err -> Failed(b.g)
        [] OTHER -> Asm(<<<<"jump", "l2">>, <<"label", "l1">>>> \o b.code \o <<<<"label", "l2">>>> \o c.code
                          \o <<<<"pushi", 1>>, <<"neq">>, <<"jeqz", "l1">>>>, b.g)

\* A statement of a block that fails ends the block, and the error is that
\* of the inner scope: the block itself succeeds with what it has so far.
evalBlock(list, g) ==
  LET Stmt(acc, n) ==
        IF acc.cut THEN acc
        ELSE LET r == evalStmt(n, acc.g) IN [code |-> acc.code \o r.code, g |-> r.g, cut |-> r.err]
      all == FoldLeft(Stmt, [code |-> <<>>, g |-> g, cut |-> FALSE], list)
  IN  Asm(all.code, all.g)

evalStmt(n, g) ==
  CASE n[1] = "return" -> evalReturn(n, g)
    [] n[1] = "assign" -> evalAssign(n, g)
    [] n[1] = "if" -> evalIfElse(n, g)
    [] n[1] = "for" -> evalFor(n, g)
    [] n[1] = "block" -> evalBlock(n[2], g)
    [] n[1] = "none" -> Asm(<<>>, g)

compile(body, g) == evalStmt(body, [g EXCEPT !.varToMem = ("x" :> 1) @@ ("y" :> 2) @@ @])
-----------------------------------------------------------------------------
\* assemble.go, in two passes
Opcode == ("push" :> 1) @@ ("pushi" :> 2) @@ ("pop" :> 3) @@ ("add" :> 16) @@ ("sub" :> 17) @@ ("mul" :> 18)
  @@ ("div" :> 19) @@ ("eq" :> 20) @@ ("lt" :> 21) @@ ("gt" :> 22) @@ ("neq" :> 23) @@ ("leq" :> 24)
  @@ ("geq" :> 25) @@ ("jump" :> 32) @@ ("jeqz" :> 33) @@ ("halt" :> MemSize - 1)
instructionSize(line) == IF line[1] = "label" THEN 0 ELSE Len(line)

labels(asm) ==
  LET Line(acc, line) ==
        [addr |-> Wrap(acc.addr + instructionSize(line)),
         labels |-> IF line[1] = "label" THEN (line[2] :> acc.addr) @@ acc.labels ELSE acc.labels]
  IN  FoldLeft(Line, [addr |-> instructionStart, labels |-> [v \in {} |-> 0]], asm).labels

\* A jump to a label that was never set reads 0 from the map.
assemble(asm) ==
  LET at == labels(asm)
      Bytes(line) ==
        CASE line[1] = "label" -> <<>>
          [] line[1] \in {"jump", "jeqz"} -> <<Opcode[line[1]], IF line[2] \in DOMAIN at THEN at[line[2]] ELSE 0>>
          [] line[1] \in {"push", "pushi", "pop"} -> <<Opcode[line[1]], Wrap(line[2])>>
          [] OTHER -> <<Opcode[line[1]]>>
  IN  FlattenSeq([k \in 1..Len(asm) |-> Bytes(asm[k])])
-----------------------------------------------------------------------------
\* vm.go.  applyOp divides by zero as a panic, Panic here.
Panic == -1
Truth(b) == IF b THEN 1 ELSE 0
applyOp(op, r1, r2) ==
  CASE op = 16 -> Wrap(r1 + r2) [] op = 17 -> Wrap(r1 - r2) [] op = 18 -> Wrap(r1 * r2)
    [] op = 19 -> IF r2 = 0 THEN Panic ELSE r1 \div r2
    [] op = 20 -> Truth(r1 = r2) [] op = 21 -> Truth(r1 < r2) [] op = 22 -> Truth(r1 > r2)
    [] op = 23 -> Truth(r1 # r2) [] op = 24 -> Truth(r1 <= r2) [] op = 25 -> Truth(r1 >= r2)

\* One turn of vm_execute's loop
vm_execute(s) ==
  LET op == s.memory[s.pc]
      arg == s.memory[Wrap(s.pc + 1)]
      up1 == Wrap(s.sp + 1)
      up2 == Wrap(s.sp + 2)
      Pushed(v) == [s EXCEPT !.memory[s.sp] = v, !.sp = Wrap(s.sp - 1), !.pc = Wrap(s.pc + 2)]
  IN  CASE op = MemSize - 1 -> [s EXCEPT !.status = "halt"]
        [] op = 1 -> Pushed(s.memory[arg])
        [] op = 2 -> Pushed(arg)
        [] op = 3 -> [s EXCEPT !.memory[arg] = s.memory[up1], !.sp = up1, !.pc = Wrap(s.pc + 2)]
        [] op \in 16..25 -> LET v == applyOp(op, s.memory[up2], s.memory[up1]) IN
                            IF v = Panic THEN [s EXCEPT !.status = "panic"]
                            ELSE [s EXCEPT !.memory[up2] = v, !.sp = up1, !.pc = Wrap(s.pc + 1)]
        [] op = 32 -> [s EXCEPT !.pc = arg]
        [] op = 33 -> [s EXCEPT !.sp = up1, !.pc = IF s.memory[up1] = 0 THEN arg ELSE Wrap(s.pc + 2)]
        [] OTHER -> [s EXCEPT !.status = "error"]

RECURSIVE Turns(_, _)
Turns(s, fuel) == IF fuel = 0 \/ s.status # "run" THEN s ELSE Turns(vm_execute(s), fuel - 1)

\* runVM, for at most fuel turns
runVM(bytecode, x, y, fuel) ==
  LET At(a) == CASE a = 1 -> x [] a = 2 -> y
                 [] a \in instructionStart..(instructionStart + Len(bytecode) - 1) -> bytecode[a - instructionStart + 1]
                 [] OTHER -> 0
  IN  Turns([memory |-> [a \in 0..(MemSize - 1) |-> At(a)], pc |-> instructionStart, sp |-> MemSize - 1, status |-> "run"], fuel)
-----------------------------------------------------------------------------
\* 01-eval: Go's int division truncates, and by zero panics.
Quo(a, b) == LET q == (IF a < 0 THEN -a ELSE a) \div (IF b < 0 THEN -b ELSE b) IN IF (a < 0) = (b < 0) THEN q ELSE -q

RECURSIVE Evaluate(_)
Evaluate(n) ==
  CASE n[1] = "lit" -> [v |-> n[2], err |-> "nil"]
    [] n[1] = "paren" -> Evaluate(n[2])
    [] n[1] = "bin" ->
         LET l == Evaluate(n[3])
             r == Evaluate(n[4])
         IN  CASE l.err # "nil" -> l
               [] l.err = "nil" /\ r.err # "nil" -> r
               [] l.err = "nil" /\ r.err = "nil" /\ n[2] = "/" /\ r.v = 0 -> [v |-> -1, err |-> "panic"]
               [] OTHER -> [err |-> "nil", v |-> CASE n[2] = "+" -> l.v + r.v [] n[2] = "-" -> l.v - r.v
                                                   [] n[2] = "*" -> l.v * r.v [] n[2] = "/" -> Quo(l.v, r.v)
                                                   [] OTHER -> 0]
    [] OTHER -> [v |-> -1, err |-> "assumptions"]

\* 02-refactor: the two lists are written back over the list they came from.
\* Mutant: the functions are written from the start again.
FuncsFrom0(nonFuncs) == 0

FuncsFrom(nonFuncs) == Len(nonFuncs)

SortFunctions(rootList) ==
  LET funcs == SortSeq(SelectSeq(rootList, LAMBDA d : d[1] = "func"), LAMBDA a, b : a[2] < b[2])
      nonFuncs == SelectSeq(rootList, LAMBDA d : d[1] # "func")
      Over(list, from, root) == [k \in 1..Len(root) |-> IF k - from \in 1..Len(list) THEN list[k - from] ELSE root[k]]
  IN  Over(funcs, FuncsFrom(nonFuncs), Over(nonFuncs, 0, rootList))
-----------------------------------------------------------------------------
\* What a Go function means: its result, or Panic, or Loops after fuel
\* turns of a loop.  A value is carried with the variables so far.
Loops == -2
Fell == -3

RECURSIVE ValueOf(_, _), Meaning(_, _, _)
ValueOf(e, env) ==
  CASE e[1] = "lit" -> Wrap(e[2])
    [] e[1] = "id" -> env[e[2]]
    [] e[1] = "paren" -> ValueOf(e[2], env)
    [] e[1] = "bin" -> LET l == ValueOf(e[3], env)
                           r == ValueOf(e[4], env)
                       IN  IF l = Panic \/ r = Panic THEN Panic
                           ELSE CASE e[2] = "+" -> (l + r) % MemSize [] e[2] = "-" -> (l - r) % MemSize
                                  [] e[2] = "*" -> (l * r) % MemSize [] e[2] = "<" -> Truth(l < r)
                                  [] e[2] = ">" -> Truth(l > r) [] e[2] = "==" -> Truth(l = r)
                                  [] e[2] = "/" -> IF r = 0 THEN Panic ELSE l \div r

Outcome(res, env) == [res |-> res, env |-> env]
Meaning(n, env, fuel) ==
  CASE n[1] = "return" -> Outcome(ValueOf(n[2], env), env)
    [] n[1] = "assign" -> LET v == ValueOf(n[3], env) IN IF v = Panic THEN Outcome(Panic, env) ELSE Outcome(Fell, (n[2] :> v) @@ env)
    [] n[1] = "if" -> LET c == ValueOf(n[2], env) IN
                      IF c = Panic THEN Outcome(Panic, env) ELSE Meaning(IF c = 1 THEN n[3] ELSE n[4], env, fuel)
    [] n[1] = "for" -> LET c == ValueOf(n[2], env) IN
                       CASE fuel = 0 -> Outcome(Loops, env)
                         [] fuel > 0 /\ c # 1 -> Outcome(IF c = Panic THEN Panic ELSE Fell, env)
                         [] OTHER -> LET b == Meaning(n[3], env, fuel) IN
                                     IF b.res # Fell THEN b ELSE Meaning(n, b.env, fuel - 1)
    [] n[1] = "block" -> FoldLeft(LAMBDA o, m : IF o.res # Fell THEN o ELSE Meaning(m, o.env, fuel), Outcome(Fell, env), n[2])
    [] n[1] = "none" -> Outcome(Fell, env)

\* The programs the comments of compile.go promise: one construct with
\* labels, and an if body that returns before the else block follows.
Supported(body) ==
  LET withLabels == SelectSeq(body[2], LAMBDA n : n[1] \in {"if", "for"})
      Flat(n) == n[1] = "block" => \A k \in 1..Len(n[2]) : n[2][k][1] \in {"assign", "return"}
      Returns(n) == n[2] # <<>> /\ Last(n[2])[1] = "return"
  IN  /\ Len(withLabels) <= 1
      /\ \A k \in 1..Len(withLabels) :
           /\ Flat(withLabels[k][3])
           /\ withLabels[k][1] = "if" => Returns(withLabels[k][3]) /\ Flat(withLabels[k][4])

\* The compiled function computes what Go says it does, with the stack back
\* where it was, also when functions compiled before it have left their
\* variables behind, as long as no variable has been given a cell of the
\* instructions.
CompiledRight(bodies, x, y) ==
  LET g == FoldLeft(LAMBDA h, b : compile(b, h).g, FirstGlobals, Front(bodies))
      body == Last(bodies)
      c == compile(body, g)
      s == runVM(assemble(c.code), x, y, 60)
      o == Meaning(body, ("x" :> x) @@ ("y" :> y), 5)
  IN  Supported(body) /\ c.g.nextMemoryLocation <= instructionStart /\ o.res \notin {Loops, Fell} =>
        IF o.res = Panic THEN s.status = "panic"
        ELSE s.status = "halt" /\ s.memory[0] = o.res /\ s.sp = MemSize - 1

\* 01-eval and the compiler agree on constant expressions without division:
\* the compiled result is Evaluate's, as a byte.
EvaluateAgrees(e) ==
  LET v == Evaluate(e)
      s == runVM(assemble(compile(<<"block", <<<<"return", e>>>>>>, FirstGlobals).code), 0, 0, 60)
  IN  v.err = "nil" => s.status = "halt" /\ s.memory[0] = Wrap(v.v)

\* SortFunctions keeps every declaration exactly once, the functions last
\* and in order, the others first and in their old order.
SortKeepsDecls(decls) ==
  LET r == SortFunctions(decls)
      n == Len(SelectSeq(decls, LAMBDA d : d[1] # "func")) IN
  /\ \A d \in ToSet(decls) : Len(SelectSeq(r, LAMBDA e : e = d)) = Len(SelectSeq(decls, LAMBDA e : e = d))
  /\ SubSeq(r, 1, n) = SelectSeq(decls, LAMBDA d : d[1] # "func")
  /\ \A k \in (n + 1)..(Len(r) - 1) : r[k][2] <= r[k + 1][2]

-----------------------------------------------------------------------------
(***************************************************************************)
(* The five-stage pipeline of exercise 19.  One pipeline_step is one       *)
(* cycle, done from the last stage to the first as in the code, so that    *)
(* decode reads a register after write-back has written it.  A stage       *)
(* register is NoInst where the code's is invalid or a bubble; only their  *)
(* conjunction is ever tested.  The stall and forwarding functions are     *)
(* the stubs the file has: nothing stalls and nothing is forwarded, so     *)
(* the program must keep dependent instructions apart itself.              *)
(***************************************************************************)

REG_NONE == 0
NoInst == [valid |-> FALSE]

\* An instruction without its pc, which Layout gives: 2 bytes for a jump, 1
\* for a halt, 3 for any other.
make_inst(op, dst, srcA, srcB, imm, addr) ==
  [op |-> op, dst |-> dst, srcA |-> srcA, srcB |-> srcB, imm |-> imm, addr |-> addr, pc |-> 0]
ProgramLength(inst) == IF inst.op = "JUMP" THEN 2 ELSE IF inst.op = "HALT" THEN 1 ELSE 3
Layout(code) ==
  FoldLeft(LAMBDA acc, inst : [prog |-> Append(acc.prog, [inst EXCEPT !.pc = acc.pc]), pc |-> acc.pc + ProgramLength(inst)],
           [prog |-> <<>>, pc |-> 8], code).prog

pipeline_init(memory, forwarding) ==
  [pc |-> 8, d |-> NoInst, e |-> NoInst, m |-> NoInst, w |-> NoInst, halted |-> FALSE, forwarding |-> forwarding,
   registers |-> [r \in 0..3 |-> 0], memory |-> memory, cycle_count |-> 0, stall_count |-> 0, inst_retired |-> 0]

detect_load_use_hazard(pipe) == FALSE
detect_raw_stall_in_decode(pipe) == FALSE
resolve_forwarding(pipe, src) == "FWD_NONE"
get_forwarded_value(pipe, fwd, raw) == raw
-----------------------------------------------------------------------------
WriteBack(pipe) ==
  LET w == pipe.w
  IN IF ~w.valid THEN pipe
     ELSE [pipe EXCEPT !.registers = IF w.inst.dst = REG_NONE THEN @
                                     ELSE [@ EXCEPT ![w.inst.dst] = IF w.inst.op = "LOAD" THEN w.valM ELSE w.valE],
                       !.halted = @ \/ w.inst.op = "HALT",
                       !.inst_retired = @ + 1]

\* What the memory stage hands to write-back
Loaded(pipe) ==
  IF ~pipe.m.valid THEN NoInst
  ELSE [valid |-> TRUE, inst |-> pipe.m.inst, valE |-> pipe.m.valE,
        valM |-> IF pipe.m.inst.op = "LOAD" THEN pipe.memory[pipe.m.inst.addr] ELSE 0]
Stored(pipe) ==
  IF pipe.m.valid /\ pipe.m.inst.op = "STORE"
  THEN [pipe.memory EXCEPT ![pipe.m.inst.addr] = pipe.m.valA] ELSE pipe.memory

ALU(inst, opA, opB) ==
  CASE inst.op = "ADD" -> (opA + opB) % 256
    [] inst.op = "SUB" -> (opA - opB) % 256
    [] inst.op = "ADDI" -> (opA + inst.imm) % 256
    [] inst.op = "SUBI" -> (opA - inst.imm) % 256
    [] OTHER -> 0
Taken(inst, opA) == inst.op = "JUMP" \/ (inst.op = "BEQZ" /\ opA = 0)
Target(inst) == IF inst.op = "JUMP" THEN inst.addr ELSE inst.pc + 3 + inst.imm

Decoded(pipe) ==
  LET Raw(src) == IF src = REG_NONE THEN 0 ELSE pipe.registers[src]
      Val(src) == IF pipe.forwarding THEN get_forwarded_value(pipe, resolve_forwarding(pipe, src), Raw(src)) ELSE Raw(src)
  IN IF ~pipe.d.valid THEN NoInst
     ELSE [valid |-> TRUE, inst |-> pipe.d.inst, valA |-> Val(pipe.d.inst.srcA), valB |-> Val(pipe.d.inst.srcB)]

Fetched(pipe, prog) ==
  IF pipe.halted \/ pipe.pc >= Len(prog) * 3 + 8 THEN NoInst
  ELSE LET i == SelectInSeq(prog, LAMBDA inst : inst.pc = pipe.pc)
       IN IF i = 0 THEN NoInst ELSE [valid |-> TRUE, inst |-> prog[i]]

\* Mutant: a taken branch does not flush decode.
KeepDecode(pipe) == pipe.d
\* What decode holds after a taken branch
FlushDecode(pipe) == NoInst

pipeline_step(pipe0, prog) ==
  LET pipe == WriteBack([pipe0 EXCEPT !.cycle_count = @ + 1])
      taken == pipe.e.valid /\ Taken(pipe.e.inst, pipe.e.valA)
      stall == IF pipe.forwarding THEN detect_load_use_hazard(pipe) ELSE detect_raw_stall_in_decode(pipe)
      next_d == IF taken THEN FlushDecode(pipe) ELSE IF stall THEN pipe.d ELSE Fetched(pipe, prog)
  IN [pipe EXCEPT
        !.memory = Stored(pipe), !.w = Loaded(pipe), !.d = next_d,
        !.m = IF pipe.e.valid THEN [valid |-> TRUE, inst |-> pipe.e.inst, valA |-> pipe.e.valA,
                                    valE |-> ALU(pipe.e.inst, pipe.e.valA, pipe.e.valB)] ELSE NoInst,
        !.e = IF taken \/ stall THEN NoInst ELSE Decoded(pipe),
        !.pc = IF taken THEN Target(pipe.e.inst) ELSE IF ~stall /\ next_d.valid THEN @ + ProgramLength(next_d.inst) ELSE @,
        !.stall_count = IF stall /\ ~taken THEN @ + 1 ELSE @]
-----------------------------------------------------------------------------
\* The machine without a pipeline: one instruction after the other.  trace is
\* what it executed, taken the number of branches it took.
Sequential(s, prog) ==
  LET i == SelectInSeq(prog, LAMBDA x : x.pc = s.pc)
      inst == prog[i]
      Val(src) == IF src = REG_NONE THEN 0 ELSE s.registers[src]
      jumps == Taken(inst, Val(inst.srcA))
  IN IF i = 0 THEN [s EXCEPT !.status = "lost"]
     ELSE [s EXCEPT
       !.registers = IF inst.dst = REG_NONE THEN @
                     ELSE [@ EXCEPT ![inst.dst] = IF inst.op = "LOAD" THEN s.memory[inst.addr]
                                                  ELSE ALU(inst, Val(inst.srcA), Val(inst.srcB))],
       !.memory = IF inst.op = "STORE" THEN [@ EXCEPT ![inst.addr] = Val(inst.srcA)] ELSE @,
       !.pc = IF jumps THEN Target(inst) ELSE @ + ProgramLength(inst),
       !.status = IF inst.op = "HALT" THEN "halted" ELSE @,
       !.trace = Append(@, inst), !.taken = IF jumps THEN @ + 1 ELSE @]

RECURSIVE SeqRun(_, _, _)
SeqRun(s, prog, fuel) ==
  IF fuel = 0 \/ s.status # "run" THEN s ELSE SeqRun(Sequential(s, prog), prog, fuel - 1)
RECURSIVE PipeRun(_, _, _)
PipeRun(pipe, prog, fuel) ==
  IF fuel = 0 \/ pipe.halted THEN pipe ELSE PipeRun(pipeline_step(pipe, prog), prog, fuel - 1)

\* No instruction reads a register that one of the two executed before it
\* writes: two instructions apart, write-back comes before decode in the cycle.
Apart(trace) ==
  \A i, j \in 1..Len(trace) :
     i < j /\ j <= i + 2 /\ trace[i].dst # REG_NONE => trace[i].dst \notin {trace[j].srcA, trace[j].srcB}

\* A program whose dependent instructions are three apart leaves the registers
\* and the memory the machine without a pipeline leaves, with or without
\* forwarding; a taken branch costs two cycles and lets no instruction behind
\* it do anything.  Only a store right behind the halt still happens: it is in
\* the memory stage in the cycle that the halt is written back.
PipelineAgrees(code, memory) ==
  LET prog == Layout(code)
      s == SeqRun([pc |-> 8, registers |-> [r \in 0..3 |-> 0], memory |-> memory, status |-> "run",
                   trace |-> <<>>, taken |-> 0], prog, 40)
      i == SelectInSeq(prog, LAMBDA x : x.pc = s.pc)
      stores == i # 0 /\ prog[i].op = "STORE" /\ s.pc < Len(prog) * 3 + 8
      behind == IF stores THEN [s.memory EXCEPT ![prog[i].addr] = IF prog[i].srcA = REG_NONE THEN 0 ELSE s.registers[prog[i].srcA]]
                ELSE s.memory
  IN s.status = "halted" /\ Apart(IF stores THEN Append(s.trace, prog[i]) ELSE s.trace) =>
       \A forwarding \in BOOLEAN :
         LET p == PipeRun(pipeline_init(memory, forwarding), prog, 160)
         IN /\ p.halted
            /\ p.registers = s.registers
            /\ p.memory = behind
            /\ p.inst_retired = Len(s.trace)
            /\ p.cycle_count = Len(s.trace) + 4 + 2 * s.taken
=============================================================================
