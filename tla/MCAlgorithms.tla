---------------------------- MODULE MCAlgorithms ----------------------------
(***************************************************************************)
(* The stores, servers, machines and algorithms of the repository whose    *)
(* properties are safety properties, for TLC.  They share one run and have *)
(* nothing to do with each other: prog says which one a behaviour is       *)
(* about.  A program or a machine keeps its variables in v1, v2, ...; a    *)
(* behaviour of a pure algorithm chooses one input, v1.                    *)
(***************************************************************************)
EXTENDS Integers, SequencesExt, FiniteSetsExt, TLC

VARIABLES prog, v1, v2, v3, v4, v5, v6, v7, v8, v9, v10, v11
vars == <<prog, v1, v2, v3, v4, v5, v6, v7, v8, v9, v10, v11>>

Words(S, n) == UNION {[1..k -> S] : k \in 0..n}
Choose(p, inputs) == prog = "start" /\ prog' = p /\ v1' \in inputs /\ UNCHANGED <<v2, v3, v4, v5, v6, v7, v8, v9, v10, v11>>
-----------------------------------------------------------------------------
Ldb == INSTANCE LevelDb WITH
  Keys <- {1, 2}, Values <- {1, 2, 3}, MaxLevel <- 2, MaxLog <- 3, MaxCrashes <- 1, table <- v1,
  log <- v2, walgo <- v3, at <- v4, next <- v5, scan <- v6, crashes <- v7
\* Insert and Delete of the skip list leave every level a part of the one
\* below.
SkipListOrdered == prog = "leveldb" => Ldb!SkipListOrdered
\* Put and Delete of the skip list database behave as on a store of versions.
ImplementsVersions == prog = "leveldb" => Ldb!VersionStep
\* The write-ahead log gives what the table holds, also after a recovery.
LogGivesTable == prog = "leveldb" => Ldb!LogGivesTable
\* A RangeScan of the skip list misses no node that stays in the list.
ScanMissesNothing == prog = "leveldb" => Ldb!ScanMissesNothing

Arr == INSTANCE ArrayKv WITH
  Keys <- {1, 2, 3}, Values <- {7, 8}, NoValue <- 0, entries <- v1, tuples <- v2, idx <- v3
\* The array database behaves as a map under Put, Delete and Get.
ImplementsMap == prog = "array" => Arr!MapStep
\* RangeScan of the array database returns exactly the pairs of its range.
ScanExact == prog = "array" => Arr!ScanStep

Lnk == INSTANCE LinkedKv WITH
  Keys <- {1, 2}, Values <- {1, 2}, MaxNodes <- 4, node <- v1, entries <- v2, cur <- v3, end <- v4
\* The linked list stays in key order, with at most two nodes of a key.
SortedTwice == prog = "linked" => Lnk!SortedTwice
\* A Put of the linked-list database changes what Get returns for its key
\* only.
OneKeyAtATime == prog = "linked" => Lnk!PutStep
\* An iterator of the linked-list database visits keys in ascending order.
ScanAscends == prog = "linked" => Lnk!IterStep

Kvf == INSTANCE KvFile WITH
  Conns <- {1, 2}, Keys <- {5, 6}, Values <- {1, 2}, NoValue <- 0, MaxFile <- 4, file <- v1,
  req <- v2, first <- v3, safe <- v4
\* In kvstore.go a Get returns the value first set, whatever other connections
\* do.
FirstSetWins == prog = "kvfile" => Kvf!FirstSetWins
\* In kvstore.go a Get reads records only at their boundaries.
ScansAligned == prog = "kvfile" => Kvf!ScansAligned

Cs == INSTANCE Csapp WITH
  Data <- <<"a", "nl", "b", "b", "nl", "c">>, NL <- "nl", RIO_BUFSIZE <- 2, KernelCap <- 3,
  Wants <- {2, 3}, MaxCalls <- 4, LONG_MIN <- -128, left <- v1, kernel <- v2, rio <- v3,
  call <- v4, out <- v5
\* The rio functions of csapp.c neither lose nor repeat a byte.
StreamConserved == prog = "rio" => Cs!StreamConserved
\* A short count of rio_readn and rio_readnb means the end of the input.
ShortMeansEof == prog = "rio" => Cs!ShortMeansEof
\* rio_readlineb returns lines whole, one at a time.
LinesWhole == prog = "rio" => Cs!LinesWhole

Sel == INSTANCE EchoSelect WITH
  Conns <- {1, 2, 3}, Lines <- <<2, 1, 0>>, FD_SETSIZE <- 2, BufSize <- 3, net <- v1, p <- v2,
  byte_cnt <- v3, eager <- v4
\* The pool of echoservers.c agrees with the open connections.
PoolConsistent == prog = "select" => Sel!PoolConsistent
\* check_clients passes over no descriptor that select reported.
NoReadySkipped == prog = "select" => Sel!NoReadySkipped
\* A client of echoservers.c that waits for each echo loses nothing.
PatientLossless == prog = "select" => Sel!PatientLossless
\* echoservers.c sends back only what was sent, in order, and counts it.
EchoInOrder == prog = "select" => Sel!EchoInOrder

\* exercises 01, 02, 04, 05 and 17
Tx == INSTANCE Parsing WITH
  CharsetCap <- 2
Texts == Words({"a", "7", "_", " "}, 4)
Patterns == Words({"a", "\\", "w", "7", "_"}, 2)
\* The matchers of the exercises agree where they match the same patterns.
MatchersAgree == prog = "matchers" => \A p \in Patterns : Tx!MatchersAgree(v1, p)
\* The searches find the first or last match there is.
SearchesExact == prog = "matchers" => \A p \in Patterns : Tx!SearchesExact(v1, p)
\* Bracket groups are cut out and matched exactly.
GroupsExact == prog = "matchers" => \A p \in Patterns : Tx!GroupsExact(v1, p)

\* cpython_int.c, with integers of 5 bits in digits of 2
Ds == INSTANCE DataStructures WITH
  DigitBits <- 2, IntBits <- 5, W <- 2, Ints <- {0, 1, 2, 5}, K <- 2, words <- v1, copy <- v2,
  abs <- v3
Ints == Ds!INT64_MIN..Ds!INT64_MAX
\* Arithmetic on digits is arithmetic on integers, and results are normalised.
ArithmeticExact == prog = "pylong" => \A y \in Ints : Ds!ArithmeticExact(v1, y)
\* Conversions round trip or report the overflow, up to both ends of the
\* range.
ConversionsExact == prog = "pylong" => \A y \in Ints : Ds!ConversionsExact(v1, y)

\* bits.c, with words of 8 bits and floats of 4 + 3 bits
Bits == INSTANCE DataLab WITH
  W <- 8, EXP <- 4, FRAC <- 3, TestSets <- {}, tests <- v1, only <- v2, timed <- v3, at <- v4,
  idx <- v5, a <- v6, env <- v7, alarm <- v8, errors <- v9, points <- v10, verdict <- v11
\* The integer puzzles of bits.c compute what their comments say.
IntPuzzlesExact == prog = "datalab" => \A y \in {0, 1, 5, 127, 128, 200, 255} : Bits!IntPuzzlesExact(v1, y)
\* The float puzzles of bits.c compute what their comments say, but for the
\* last binade.
FloatPuzzlesExact == prog = "datalab" => Bits!FloatPuzzlesExact(v1)
\* fshow prints the value of every finite float.
ShownExact == prog = "datalab" => Bits!ShownExact(v1)

\* the byte machines: every code of two instructions before an Addi and a
\* Store
Ma == INSTANCE Machines WITH
  Size <- 32, DATABOUNDARY <- 7, MemSize <- 64
Instructions == {<<1, 1, 1>>, <<1, 2, 2>>, <<3, 1, 2>>, <<4, 1, 2>>, <<5, 2, 30>>, <<6, 1, 1>>, <<7, 8>>,
                 <<8, 1, 26>>, <<8, 2, 3>>, <<2, 1, 0>>}
Codes == {p \o q \o <<5, 2, 30>> \o <<2, 1, 0, 31>> : p \in Instructions, q \in Instructions}
\* The three byte machines compute the same.
VmsAgree == prog = "vm" => \A data \in {<<0, 5>>, <<2, 1>>} : Ma!VmsAgree(v1, data, 12)
\* A write to the memory of selfvm lands whole in its region or nowhere.
WritesConfined == prog = "vm" => \A start \in 0..31 : Ma!WritesConfined(SubSeq(v1, 1, 4), start)

\* eval_14: all short token sequences, and flat and parenthesised ones
Operand == {<<"num", 1>>, <<"id", "x">>}
Joint == {Tx!Op("+"), Tx!Op("-"), Tx!Op("*"), Tx!Op("/")}
Tokens == Operand \cup {<<"id", "sin">>, Tx!Op("("), Tx!Op(")"), Tx!Op("-"), Tx!Op("*"), Tx!Op(",")}
Inputs == Words(Tokens, 4)
  \cup {<<a, b, <<"num", 2>>, c, d, e, <<"id", "y">>>> : a \in Operand, b \in Joint, c \in Joint, d \in Operand, e \in Joint}
  \cup {<<a, b, Tx!Op("("), <<"num", 2>>, c, d, Tx!Op(")")>> : a \in Operand, b \in Joint, c \in Joint, d \in Operand}
\* What Format prints of a parsed expression parses to the same expression.
FormatRoundTrips == prog = "expr" => Tx!FormatRoundTrips(v1)
\* An expression that passed Check evaluates without a panic.
CheckedEvaluates == prog = "expr" => Tx!CheckedEvaluates(v1)
\* parseBinary gives * and / precedence and groups to the left.
PrecedenceRight == prog = "expr" => Tx!PrecedenceRight(v1)

\* the compiler: expressions, assignments, an if and a for, compiled first or
\* after functions that have used up cells
X == <<"id", "x">>
Y == <<"id", "y">>
Id(v) == <<"id", v>>
Lit(n) == <<"lit", n>>
Bin(op, l, r) == <<"bin", op, l, r>>
Return(e) == <<"return", e>>
Assign(v, e) == <<"assign", v, e>>
Braces(s) == <<"block", s>>
Arith == {"+", "-", "*", "/"}
Conds == {Bin(op, X, Y) : op \in {"<", ">", "=="}}
Exprs == {X, Lit(3)}
  \cup {Bin(op, a, b) : op \in Arith, a \in {X, Lit(2)}, b \in {Y, Lit(5)}}
  \cup {Bin(p, Bin(op, X, Y), <<"paren", Bin(q, Y, Lit(1))>>) : p \in Arith, op \in Arith, q \in {"+", "/"}}
Bodies == {Braces(<<Return(e)>>) : e \in Exprs}
  \cup {Braces(<<Assign("a", e), Assign("b", Bin("-", X, Id("a"))), Assign("a", Y), Return(Bin("+", Id("a"), Id("b")))>>) : e \in Exprs}
  \cup {Braces(<<Assign("c", Lit(9)), <<"if", c, Braces(<<Return(X)>>), e>>, Return(Id("c"))>>) :
          c \in Conds, e \in {<<"none">>, Braces(<<Assign("c", Y)>>), Braces(<<Assign("d", Y), Return(Id("d"))>>)}}
  \cup {Braces(<<Assign("e", Lit(0)), <<"for", c, Braces(<<Assign("e", Bin("+", Id("e"), Y)), Assign("x", Bin("+", X, Lit(1)))>>)>>,
                Return(Id("e"))>>) : c \in Conds}
Before == {<<>>, <<Braces(<<Assign("f", Lit(1)), Assign("x", Lit(1)), Return(X)>>)>>,
           <<Braces(<<Assign("p", Lit(1)), Assign("q", X), Return(X)>>), Braces(<<Assign("b", X), Return(X)>>)>>}
Constants == {Bin(op, Bin(q, Lit(a), Lit(7)), Lit(40)) : op \in Arith \ {"/"}, q \in Arith \ {"/"}, a \in {0, 30}}
  \cup {Bin(op, Lit(a), <<"paren", Bin(q, Lit(9), Lit(40))>>) : op \in Arith \ {"/"}, q \in Arith \ {"/"}, a \in {1, 30}}
\* A compiled function computes what Go says it does.
CompiledRight == prog = "compiler" => \A b \in Before, n \in {<<0, 3>>, <<2, 2>>, <<5, 0>>, <<63, 2>>} :
  Ma!CompiledRight(Append(b, v1), n[1], n[2])
\* Evaluate and the compiled code agree on constant expressions.
EvaluateAgrees == prog = "constant" => Ma!EvaluateAgrees(v1)
\* SortFunctions keeps every declaration once, the functions sorted at the
\* end.
SortKeepsDecls == prog = "decls" => Ma!SortKeepsDecls(v1)

\* exercise 11, with addresses of 4 bits
Bump == INSTANCE BumpAllocator WITH
  W <- 4, Arenas <- {<<3, 6>>, <<9, 6>>}, Sizes <- {0, 1, 2, 5, 14, 15},
  Aligns <- {0, 1, 3, 4, 8}, MaxBlocks <- 3, MaxAlignT <- 2, alloc <- v1, live <- v2, saved <- v3
\* Live blocks of the bump allocator are aligned, in the arena and disjoint.
BlocksDisjoint == prog = "bump" => Bump!BlocksDisjoint

\* exercises 09 and 10
Buf == INSTANCE Buffers WITH
  Bufs <- {"buf", "clone"}, Blocks <- {1, 2, 3}, Bytes <- {1, 2}, MaxCap <- 2, Undef <- 9,
  heap <- v1, buf <- v2, block <- v3, want <- v4
\* Every allocated block has one owner, also after a failed allocation.
OwnsExactly == prog = "buffers" => Buf!OwnsExactly
\* A buffer holds what was appended to it, whatever happens to its clone.
BytesKept == prog = "buffers" => Buf!BytesKept

\* mdriver.c over an allocator that may return any block, right or wrong
Line(t, i, s) == [t |-> t, i |-> i, s |-> s]
Traces == <<[num_ids |-> 2, num_ops |-> 4, ops |-> <<Line("a", 0, 1), Line("a", 1, 2), Line("r", 0, 3), Line("f", 1, 0)>>],
            [num_ids |-> 2, num_ops |-> 4, ops |-> <<Line("a", 0, 2), Line("r", 0, 3), Line("f", 0, 0), Line("a", 1, 1)>>]>>
Drv == INSTANCE Mdriver WITH
  Tracefiles <- Traces, Addr <- 0..8, Lo <- 2, Hi <- 7, ALIGNMENT <- 2, run_libc <- TRUE, d <- v1,
  trace <- v2, ranges <- v3, mem <- v4, live <- v5, faults <- v6
\* The driver passes an allocator exactly if it did nothing wrong that it
\* looks for.
VerdictRight == prog = "mdriver" => Drv!VerdictRight
\* The driver frees and reallocates only live blocks.
FreesLive == prog = "mdriver" => Drv!FreesLive
\* The high-water mark is the largest total of live payloads.
HighWaterExact == prog = "mdriver" => Drv!HighWaterExact

\* exercise 19: short programs, one that loops among them
I(op, dst, srcA, srcB, imm, addr) == Ma!make_inst(op, dst, srcA, srcB, imm, addr)
Nop == I("NOP", 0, 0, 0, 0, 0)
Load == I("LOAD", 1, 0, 0, 0, 1)
Kinds == {Load, I("STORE", 0, 1, 0, 0, 2), I("ADD", 2, 1, 1, 0, 0), I("SUB", 3, 0, 1, 0, 0), I("ADDI", 3, 2, 0, 255, 0),
          I("BEQZ", 0, 2, 0, 3, 0), I("BEQZ", 0, 1, 0, 3, 0), I("JUMP", 0, 0, 0, 0, 20)}
Halt == I("HALT", 0, 0, 0, 0, 0)
Loop == <<Load, Nop, Nop, I("BEQZ", 0, 1, 0, 8, 0), I("ADD", 2, 2, 1, 0, 0), I("SUBI", 1, 1, 0, 1, 0),
          I("JUMP", 0, 0, 0, 0, 11), I("STORE", 0, 2, 0, 0, 2), Halt>>
PipePrograms == {Loop}
  \cup {<<a, b, Nop, c, d, Halt>> \o t : a \in Kinds, b \in {Nop, I("ADDI", 3, 0, 0, 7, 0)}, c \in Kinds, d \in Kinds,
                                         t \in {<<>>, <<I("STORE", 0, 1, 0, 0, 1), I("STORE", 0, 3, 0, 0, 2)>>}}
\* The pipeline of exercise 19 computes what a machine without one does, if
\* dependent instructions are three apart.
PipelineAgrees == prog = "pipeline" => Ma!PipelineAgrees(v1, [a \in 1..2 |-> 3 * (2 - a)])

\* the cache lab: two registered functions, two sizes
Cl == INSTANCE CacheLab WITH
  Lists <- {<<TRUE>>, <<FALSE, TRUE>>, <<TRUE, FALSE>>, <<FALSE>>}, K <- 2, Small <- 8, Big <- 16,
  Side <- 4, funcs <- v1, correct <- v2, k <- v3, pc <- v4, fn <- v5, results <- v6, file <- v7,
  scored <- v8, failed <- v9
\* The cache lab gives points for a transposition that was right at that size,
\* and for its own misses.
PointsEarned == prog = "transdriver" => Cl!PointsEarned

TransSizes == {<<8, 8>>, <<16, 16>>} \cup ((0..6) \X (3..9))
ScoreLimits == {<<3, 6, 8>>, <<13, 20, 8>>, <<20, 30, 10>>, <<0, 1, 1>>}
\* transpose_submit transposes on each of its paths.
Transposes == prog = "transpose" => Cl!Transposes(v1[1], v1[2])
\* More misses never give more points.
MissScoreFair == prog = "limits" => Cl!MissScoreFair(v1[1], v1[2], v1[3])

\* the reference shell: lines with operators, a background command and
\* commands that are not found
ShellLines == {<<"true">>, <<"bad">>, <<"exit">>, <<"false", "&&", "true">>, <<"true", "&", "false", "||", "true">>,
                <<"false", "||", "alias", "&&", "true">>, <<"bad", "&", "true", "&&", "true">>, <<"&&", "true">>}
ShellInputs == [1..2 -> ShellLines]
Sh == INSTANCE Shell WITH
  Inputs <- ShellInputs, Pids <- 1..4, Found <- {"true", "false"}, stdin <- v1, proc <- v2
\* The shell goes on after a foreground command only without children.
WaitDrains == prog = "shell" => Sh!WaitDrains
\* A command behind && or || runs as the status of the one before it says, if
\* there are no background commands.
ChainStep == prog = "shell" => Sh!ChainStep

\* exercise 13: scopes that own their symbols, with mallocs that fail
Sco == INSTANCE Scopes WITH
  Keys <- {"x", "y"}, Vals <- {"1", "2"}, MaxBlocks <- 8, MaxDepth <- 2, live <- v1, used <- v2,
  env <- v3, entry <- v4, want <- v5
\* Every block is owned once, whichever mallocs failed.
NoLeak == prog = "scopes" => Sco!NoLeak
\* A lookup gives the newest binding of the innermost scope.
LookupInnermost == prog = "scopes" => Sco!LookupInnermost

\* A shift inside a value copies the old bytes.
ShiftExact == prog = "shift" => Sco!ShiftExact(v1)

\* exercise 14: lists of intervals
AnInterval == {iv \in [start : 0..4, end : 0..4] : iv.start < iv.end}
\* The merged list covers exactly the same points and breaks no contract.
ConsolidateExact == prog = "intervals" => Ds!ConsolidateExact(v1)
\* The legacy merge agrees on sorted input.
LegacyAgrees == prog = "intervals" => Ds!LegacyAgrees(v1)

\* exercise 16: drills on files whose calls may fail
Fs == INSTANCE FsDrills WITH
  todo <- v1, mode <- v2, dir <- v3, nlink <- v4, fd <- v5, cwd <- v6, brk <- v7, result <- v8,
  failed <- v9
\* A drill that returned left nothing behind.
LeavesNothing == prog = "fsdrills" => Fs!LeavesNothing
\* The asserts of a drill hold when they are reached.
AssertsHold == prog = "fsdrills" => Fs!AssertsHold

\* traceroute: the packets of a trace
Pk == INSTANCE Packets
\* An answer decodes to the probe it answers.
AnswerDecodes == prog = "icmp" => Pk!AnswerDecodes(v1)
\* The checksum of a probe is right for the identifiers up to 31743 and wrong
\* beyond.
ProbeSumsToZero == prog = "icmp" => Pk!ProbeSumsToZero(v1)

\* traceroute: a trace over two hops
Tro == INSTANCE Traceroute WITH
  HOPS <- 2, MaxTTL <- 3, IDS <- 9, MaxLoss <- 1, at <- v1, i <- v2, j <- v3, counter <- v4,
  traceMap <- v5, net <- v6, rows <- v7, isComplete <- v8, trouble <- v9, asked <- v10
\* Every row pairs a probe with the host that answered it.
RowsPaired == prog = "trace" => Tro!RowsPaired
\* Trace returns only after a message from the destination.
ReturnMeansReached == prog = "trace" => Tro!ReturnMeansReached
\* Without losses the first round that reaches the destination is the last.
EndsPromptly == prog = "trace" => Tro!EndsPromptly

\* the readers of a packet capture, on captures of up to three packets, and
\* HTTP messages
Packet(server, seq, flags, ipopt, tcpopt, data) ==
  [server |-> server, seq |-> seq, flags |-> flags, ipopt |-> ipopt, tcpopt |-> tcpopt, data |-> data]
Packets == {Packet(FALSE, 300, 16, 0, 0, <<9>>), Packet(TRUE, 255, 18, 0, 1, <<>>), Packet(TRUE, 255, 16, 0, 0, <<1, 2>>),
            Packet(TRUE, 257, 24, 1, 1, <<3>>), Packet(TRUE, 258, 16, 0, 0, <<4>>)}
\* The response is put together in order from segments in any order.
Reassembles == prog = "capture" => Pk!Reassembles(v1)
\* Of a capture that is cut off the whole records are read.
WholeRecords == prog = "capture" => Pk!WholeRecords(v1)
\* The modular parser comes out at the next record.
ReaderAligned == prog = "capture" => Pk!ReaderAligned(v1)
\* A message falls into title, headers and body.
HttpParts == prog = "http" => Pk!HttpParts(v1)

\* the DNS clients
\* A response with pointers is read back as it was written.
ResponseReadBack == prog = "dns" /\ (\A i \in DOMAIN v1.labels : v1.labels[i] # <<>>) => Pk!ResponseReadBack(v1)
\* Every bit of the flags counts in exactly one field.
FlagsExact == prog = "dns" => Pk!FlagsExact(v1)
\* The C client prints the name it was given.
NamePrinted == prog = "dns" => Pk!NamePrinted(v1)

\* the Boolean expression language: scanner and parser
Chunks == {<<"A", "N", "D">>, <<"O", "R">>, <<"N", "O", "T">>, <<"x">>, <<"1">>, <<" ">>, <<"\n">>, <<"?">>}
\* The tokens are the longest runs of letters and digits.
TokensExact == prog = "lox" => Tx!TokensExact(FlattenSeq(v1))
\* A parse uses what it reads and groups from the left.
ParseShape == prog = "parse" => Tx!ParseShape(FlattenSeq(v1))

\* the query executor, over plans of up to three operators above the scan, and
\* the table file writer
Operator(op, col, val, n, cols) == [Op |-> op, Col |-> col, Val |-> val, N |-> n, Cols |-> cols]
Operators == {Operator("SELECTION", "a", 1, 0, {}), Operator("SELECTION", "b", 1, 0, {}), Operator("LIMIT", "", 0, 0, {}), Operator("LIMIT", "", 0, 2, {}),
              Operator("PROJECTION", "", 0, 0, {"b"}), Operator("SCAN", "", 0, 0, {})}
\* A plan pulled tuple by tuple answers what its operators give on whole
\* tables.
QueryExact == prog = "query" => Ds!QueryExact(v1)
\* A limit never pulls a tuple it cannot let through.
LimitStopsScan == prog = "query" => Ds!LimitStopsScan(v1)
\* A file that Close accepts is its header and the accepted rows.
FileWhole == prog = "table" => Ds!FileWhole(v1)

\* the image kernels of the performance lab and their driver
Image(d, src) == [dim |-> d, src |-> src]
Images == {Image(2, s) : s \in [0..3 -> {0, 1, 65535}]} \cup {Image(3, [p \in 0..8 |-> IF p \in {a, b} THEN 65535 ELSE p]) : a, b \in 0..8}
          \cup UNION {{Image(d, [p \in 0..(d * d - 1) |-> IF p = a THEN 65535 ELSE (p * p) % 7]) : a \in 0..(d * d - 1)} : d \in 4..6}
Bench(k, cpes) == [k |-> k, cpes |-> cpes]
Benches == {Bench("rotate", <<1, 2>>), Bench("naive_rotate", <<4, 4>>), Bench("rotate", <<2, 0>>),
            Bench("copies", <<1, 1>>), Bench("inplace", <<1, 1>>), Bench("odd", <<1, 1>>)}
MatShape(r, c, b) == [rows |-> r, cols |-> c, bcols |-> b]
MatShapes == {MatShape(2, 2, 2), MatShape(3, 2, 1), MatShape(3, 3, 2), MatShape(4, 1, 1)}
Perf == INSTANCE Performance WITH
  Block <- 2, OddDim <- 4, Dims <- <<2, 4>>, Word <- 4, THRESHOLD <- 2, RECORDTHRESH <- 3,
  NEVENT <- 2, MAXTHREADS <- 2, Tile <- 6, Shapes <- MatShapes, MaxUint32 <- 999, dims <- v1,
  prod <- v2, run <- v3, arg <- v4, pc <- v5
\* The blocked rotation is the plain one.
RotateExact == prog = "image" => Perf!RotateExact(v1)
\* The sliding sums give every pixel the average of its neighbours.
SmoothExact == prog = "image" => Perf!SmoothExact(v1)
\* The best score belongs to a kernel that is right on every dimension.
BestScore == prog = "bench" => Perf!BestScore(v1)

\* the timers of the performance lab, with words of four values
Total(g, k, i) == FoldLeft(LAMBDA n, x : n + x[k], 0, SubSeq(g, 1, i))
Readings == {[i \in DOMAIN g |-> [t |-> Total(g, 1, i), c |-> Total(g, 2, i)]] : g \in Words({1, 4, 7, 9} \X {0, 1, 2}, 3)}
\* The difference of two readings is the number of cycles between them.
CyclesExact == prog = "cycles" => Perf!CyclesExact(v1)
\* The calibration is the least ratio above the threshold.
CalibrationLeast == prog = "ticks" => Perf!CalibrationLeast(v1)
\* A measurement stops when the k smallest samples agree, and is the least.
KBest == prog = "kbest" => Perf!KBest(v1)
\* Clearing the cache reads inside its buffer.
ClearInBounds == prog = "clears" => Perf!ClearInBounds(v1)

\* matrix multiplication by threads, and in tiles
\* After the join the rows of the equal shares are the product.
SharesExact == prog = "matmul" => Perf!SharesExact
\* No two threads share a row.
RowsApart == prog = "matmul" => Perf!RowsApart

\* The tiled version adds the product to C.
TiledExact == prog = "tiles" => Perf!TiledExact(v1)

\* the metrics over users and payments
\* The unrolled metrics are the reference on multiples of four elements.
UnrolledAgrees == prog = "metrics" => Perf!UnrolledAgrees(v1)

\* the bit-vector set, with words of two bits
\* The bit vector is the set it stands for.
IsSet == prog = "intset" => Ds!IsSet

\* opening connections and listening sockets, and sio_putl
\* The helpers that open sockets leave the caller with exactly what they
\* return.
DescriptorsKept == prog = "netopen" => Cs!DescriptorsKept(v1)
\* sio_putl writes the number it was given.
PutlReadsBack == prog = "putl" => Cs!PutlReadsBack(v1)

\* words in groups in a search tree
\* The groups printed are all the words with one beginning.
GroupsWhole == prog = "groups" => Ds!GroupsWhole(v1)

-----------------------------------------------------------------------------
Init ==
  \/ prog = "start" /\ v1 = 0 /\ v2 = 0 /\ v3 = 0 /\ v4 = 0 /\ v5 = 0 /\ v6 = 0 /\ v7 = 0 /\ v8 = 0 /\ v9 = 0 /\ v10 = 0 /\ v11 = 0
  \/ prog = "leveldb" /\ Ldb!Init /\ v8 = 0 /\ v9 = 0 /\ v10 = 0 /\ v11 = 0
  \/ prog = "array" /\ Arr!Init /\ v4 = 0 /\ v5 = 0 /\ v6 = 0 /\ v7 = 0 /\ v8 = 0 /\ v9 = 0 /\ v10 = 0 /\ v11 = 0
  \/ prog = "linked" /\ Lnk!Init /\ v5 = 0 /\ v6 = 0 /\ v7 = 0 /\ v8 = 0 /\ v9 = 0 /\ v10 = 0 /\ v11 = 0
  \/ prog = "kvfile" /\ Kvf!Init /\ v5 = 0 /\ v6 = 0 /\ v7 = 0 /\ v8 = 0 /\ v9 = 0 /\ v10 = 0 /\ v11 = 0
  \/ prog = "rio" /\ Cs!Init /\ v6 = 0 /\ v7 = 0 /\ v8 = 0 /\ v9 = 0 /\ v10 = 0 /\ v11 = 0
  \/ prog = "select" /\ Sel!Init /\ v5 = 0 /\ v6 = 0 /\ v7 = 0 /\ v8 = 0 /\ v9 = 0 /\ v10 = 0 /\ v11 = 0
  \/ prog = "bump" /\ Bump!Init /\ v4 = 0 /\ v5 = 0 /\ v6 = 0 /\ v7 = 0 /\ v8 = 0 /\ v9 = 0 /\ v10 = 0 /\ v11 = 0
  \/ prog = "buffers" /\ Buf!Init /\ v5 = 0 /\ v6 = 0 /\ v7 = 0 /\ v8 = 0 /\ v9 = 0 /\ v10 = 0 /\ v11 = 0
  \/ prog = "mdriver" /\ Drv!Init /\ v7 = 0 /\ v8 = 0 /\ v9 = 0 /\ v10 = 0 /\ v11 = 0
  \/ prog = "transdriver" /\ Cl!Init /\ v10 = 0 /\ v11 = 0
  \/ prog = "shell" /\ Sh!Init /\ v3 = 0 /\ v4 = 0 /\ v5 = 0 /\ v6 = 0 /\ v7 = 0 /\ v8 = 0 /\ v9 = 0 /\ v10 = 0 /\ v11 = 0
  \/ prog = "scopes" /\ Sco!Init /\ v6 = 0 /\ v7 = 0 /\ v8 = 0 /\ v9 = 0 /\ v10 = 0 /\ v11 = 0
  \/ prog = "fsdrills" /\ Fs!Init /\ v10 = 0 /\ v11 = 0
  \/ prog = "trace" /\ Tro!Init /\ v11 = 0
  \/ prog = "matmul" /\ Perf!Init /\ v6 = 0 /\ v7 = 0 /\ v8 = 0 /\ v9 = 0 /\ v10 = 0 /\ v11 = 0
  \/ prog = "intset" /\ Ds!Init /\ v4 = 0 /\ v5 = 0 /\ v6 = 0 /\ v7 = 0 /\ v8 = 0 /\ v9 = 0 /\ v10 = 0 /\ v11 = 0

Next ==
  \/ prog = "leveldb" /\ Ldb!Next /\ UNCHANGED <<prog, v8, v9, v10, v11>>
  \/ prog = "array" /\ Arr!Next /\ UNCHANGED <<prog, v4, v5, v6, v7, v8, v9, v10, v11>>
  \/ prog = "linked" /\ Lnk!Next /\ UNCHANGED <<prog, v5, v6, v7, v8, v9, v10, v11>>
  \/ prog = "kvfile" /\ Kvf!Next /\ UNCHANGED <<prog, v5, v6, v7, v8, v9, v10, v11>>
  \/ prog = "rio" /\ Cs!Next /\ UNCHANGED <<prog, v6, v7, v8, v9, v10, v11>>
  \/ prog = "select" /\ Sel!Next /\ UNCHANGED <<prog, v5, v6, v7, v8, v9, v10, v11>>
  \/ Choose("matchers", Texts)
  \/ Choose("pylong", Ints)
  \/ Choose("datalab", 0..255)
  \/ Choose("vm", Codes)
  \/ Choose("expr", Inputs)
  \/ Choose("compiler", Bodies)
  \/ Choose("constant", Constants)
  \/ Choose("decls", Words({<<"func", 1>>, <<"func", 2>>, <<"other", 1>>, <<"other", 2>>}, 4))
  \/ prog = "bump" /\ Bump!Next /\ UNCHANGED <<prog, v4, v5, v6, v7, v8, v9, v10, v11>>
  \/ prog = "buffers" /\ Buf!Next /\ UNCHANGED <<prog, v5, v6, v7, v8, v9, v10, v11>>
  \/ prog = "mdriver" /\ Drv!Next /\ UNCHANGED <<prog, v7, v8, v9, v10, v11>>
  \/ Choose("pipeline", PipePrograms)
  \/ prog = "transdriver" /\ Cl!Next /\ UNCHANGED <<prog, v10, v11>>
  \/ Choose("transpose", TransSizes)
  \/ Choose("limits", ScoreLimits)
  \/ prog = "shell" /\ Sh!Next /\ UNCHANGED <<prog, v3, v4, v5, v6, v7, v8, v9, v10, v11>>
  \/ prog = "scopes" /\ Sco!Next /\ UNCHANGED <<prog, v6, v7, v8, v9, v10, v11>>
  \/ Choose("shift", [1..3 -> 1..3])
  \/ Choose("intervals", UNION {[1..n -> AnInterval] : n \in 0..3})
  \/ prog = "fsdrills" /\ Fs!Next /\ UNCHANGED <<prog, v10, v11>>
  \/ Choose("icmp", [id : {0, 1, 255, 2047, 31743, 31744, 65535}, seq : {0, 258}, data : Words({0, 1, 255}, 3)])
  \/ prog = "trace" /\ Tro!Next /\ UNCHANGED <<prog, v11>>
  \/ Choose("capture", Words(Packets, 3))
  \/ Choose("http", [title : Words({65, 13, 10}, 2), headers : Words({66, 13, 10}, 3), body : Words({67, 13, 10}, 2)])
  \/ Choose("dns", [labels : UNION {[1..n -> {<<>>, <<97>>, <<98, 99>>}] : n \in 1..3}, data : UNION {[1..n -> {<<>>, <<7>>, <<1, 2, 3, 4>>}] : n \in 0..2}])
  \/ Choose("lox", Words(Chunks, 4))
  \/ Choose("parse", Words({<<"A", "N", "D", " ">>, <<"O", "R", " ">>, <<"N", "O", "T", " ">>, <<"x", " ">>}, 5))
  \/ Choose("query", [plan : Words(Operators, 4), headers : {<<"a", "b">>}, records : {<<>>, <<<<1, 2>>, <<2, 1>>, <<1, 1>>>>}])
  \/ Choose("table", [headers : {<<<<97>>>>, <<<<97>>, <<98>>>>}, rows : 0..2, records : Words({<<<<>>>>, <<<<7>>, [i \in 1..130 |-> 1]>>, <<<<1, 2>>>>}, 3)])
  \/ Choose("image", Images)
  \/ Choose("bench", [benches : Words(Benches, 2) \ {<<>>}, mode : {"all", "file", "autograder"}, names : {{"rotate", "odd"}, {"naive_rotate", "smooth"}}])
  \/ Choose("cycles", [start : 0..15, cycles : 0..17])
  \/ Choose("ticks", Readings)
  \/ Choose("kbest", [samples : [1..4 -> {100, 101, 102, 103}], k : 1..3, max : 1..4])
  \/ Choose("clears", Words({0, 32, 128}, 4))
  \/ prog = "matmul" /\ Perf!Next /\ UNCHANGED <<prog, v6, v7, v8, v9, v10, v11>>
  \/ Choose("tiles", [rows : {1, 7}, cols : 1..13, bcols : {1, 8}])
  \/ Choose("metrics", Words({0, 3, 257, 1000}, 5))
  \/ prog = "intset" /\ Ds!Next /\ UNCHANGED <<prog, v4, v5, v6, v7, v8, v9, v10, v11>>
  \/ Choose("netopen", [found : BOOLEAN, listens : BOOLEAN, list : Words({"nosocket", "refused", "stuck", "ok"}, 3)])
  \/ Choose("putl", -128..127)
  \/ Choose("groups", Words({<<1, 2>>, <<2, 1, 1>>, <<2, 1, 2>>, <<2, 2>>, <<3>>}, 5))

Spec == Init /\ [][Next]_vars




\* Text and tables: matchers and searches find what there is, parsers build
\* the tree their grammar gives, and queries, interval lists, word groups and
\* bit vectors hold what their definitions say.
TextsRead ==
  /\ prog = "intset" => Ds!TypeOK
  /\ MatchersAgree /\ SearchesExact /\ GroupsExact /\ FormatRoundTrips
  /\ CheckedEvaluates /\ PrecedenceRight /\ ConsolidateExact
  /\ LegacyAgrees /\ TokensExact /\ ParseShape /\ QueryExact
  /\ LimitStopsScan /\ FileWhole /\ IsSet /\ GroupsWhole


=============================================================================
