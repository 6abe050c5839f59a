------------------------------ MODULE FsDrills ------------------------------
(***************************************************************************)
(* Exercise 16: drills on directories, hard links, a FIFO and the program  *)
(* break.  Any call may fail.  A drill is a list of calls, each with what  *)
(* the code does when it fails: ignore it, or clean up and return false.   *)
(***************************************************************************)
EXTENDS Integers, Sequences

VARIABLES todo, mode, dir, nlink, fd, cwd, brk, result, failed
vars == <<todo, mode, dir, nlink, fd, cwd, brk, result, failed>>

Call(op, x, cleanup) == [op |-> op, x |-> x, n |-> 0, cleanup |-> cleanup, may |-> FALSE]
Try(op, x) == [op |-> op, x |-> x, n |-> 0, cleanup |-> <<>>, may |-> TRUE]   \* the result is ignored
Number(op, n, may) == [op |-> op, x |-> "", n |-> n, cleanup |-> <<>>, may |-> may]
Assert(op, n) == Number(op, n, FALSE)

test_directory_lifecycle ==
  <<Try("unlink", "sandbox"), Call("create", "sandbox", <<>>), Call("chdir", "sandbox", <<Try("unlink", "sandbox")>>),
    Call("stat", "sandbox", <<Try("chdir", "orig"), Try("unlink", "sandbox")>>), Call("chdir", "orig", <<>>),
    Call("unlink", "sandbox", <<>>)>>

Close1 == <<Try("close", "file1"), Try("unlink", "file1")>>
\* What the failure of the second fstat undoes.
\* Mutant: it removes only the first name.
UnlinkFirst == Close1
UnlinkBoth == Append(Close1, Try("unlink", "file2"))
test_hard_link_invariant ==
  LET c3 == <<Try("unlink", "file2")>>
  IN <<Try("unlink", "file1"), Try("unlink", "file2"), Call("create", "file1", <<>>), Call("write", "file1", Close1),
       Call("stat", "file1", Close1), Assert("nlink", 1), Call("link", "file2", Close1), Call("stat", "file1", UnlinkBoth),
       Assert("nlink", 2), Try("close", "file1"), Call("unlink", "file1", c3), Call("open", "file2", c3),
       Call("stat", "file2", <<Try("close", "file2")>> \o c3), Assert("nlink", 1), Try("close", "file2"),
       Call("unlink", "file2", <<>>)>>

test_mknod_fifo ==
  <<Try("unlink", "fifo"), Call("create", "fifo", <<>>), Call("stat", "fifo", <<Try("unlink", "fifo")>>), Call("unlink", "fifo", <<>>)>>

test_program_break_sbrk == <<Number("sbrk", 0, FALSE), Number("sbrk", 1024, FALSE), Assert("brk", 1024), Number("sbrk", -1024, TRUE)>>

Drills == {test_directory_lifecycle, test_hard_link_invariant, test_mknod_fifo, test_program_break_sbrk}
-----------------------------------------------------------------------------
Init ==
  /\ todo \in Drills /\ dir \in SUBSET {todo[n].x : n \in {k \in DOMAIN todo : todo[k].op = "unlink"}}
  /\ mode = "running" /\ result = "none" /\ nlink = 0 /\ fd = {} /\ cwd = "orig" /\ brk = 0 /\ failed = {}

\* When the kernel can do a call, and what it does.  nlink is the link count of
\* the inode the drill made; a stale first file may share it with the second.
Can(i) ==
  /\ i.op = "create" /\ i.x # "file1" => i.x \notin dir
  /\ i.op = "link" => i.x \notin dir
  /\ i.op = "unlink" => i.x \in dir
Does(i) ==
  /\ dir' = CASE i.op \in {"create", "link"} -> dir \cup {i.x} [] i.op = "unlink" -> dir \ {i.x} [] OTHER -> dir
  /\ nlink' \in CASE i.op = "create" -> 1..(IF i.x \in dir THEN 2 ELSE 1) [] i.op = "link" -> {nlink + 1}
                   [] i.op = "unlink" /\ nlink > 0 -> {nlink - 1} [] OTHER -> {nlink}
  /\ fd' = CASE i.op = "open" \/ (i.op = "create" /\ i.x = "file1") -> fd \cup {i.x} [] i.op = "close" -> fd \ {i.x} [] OTHER -> fd
  /\ cwd' = IF i.op = "chdir" THEN i.x ELSE cwd
  /\ brk' = IF i.op = "sbrk" THEN brk + i.n ELSE brk
Holds(i) == CASE i.op = "nlink" -> nlink = i.n [] i.op = "brk" -> brk = i.n [] OTHER -> TRUE

Succeed ==
  /\ todo # <<>> /\ todo[1].op \notin {"nlink", "brk"} /\ Can(todo[1]) /\ Does(todo[1])
  /\ todo' = Tail(todo) /\ UNCHANGED <<mode, result, failed>>
Fail ==
  /\ todo # <<>> /\ todo[1].op \notin {"nlink", "brk"} /\ UNCHANGED <<dir, nlink, fd, cwd, brk, result>>
  /\ failed' = IF todo[1].op = "unlink" /\ todo[1].x \notin dir THEN failed ELSE failed \cup {<<todo[1].op, todo[1].x>>}
  /\ IF todo[1].may THEN todo' = Tail(todo) /\ UNCHANGED mode ELSE todo' = todo[1].cleanup /\ mode' = "cleanup"
Check ==
  /\ todo # <<>> /\ todo[1].op \in {"nlink", "brk"} /\ UNCHANGED <<dir, nlink, fd, cwd, brk, failed, mode>>
  /\ IF Holds(todo[1]) THEN todo' = Tail(todo) /\ UNCHANGED result ELSE todo' = <<>> /\ result' = "assert"
Return ==
  /\ todo = <<>> /\ result = "none" /\ result' = (IF mode = "running" THEN "true" ELSE "false")
  /\ UNCHANGED <<todo, mode, dir, nlink, fd, cwd, brk, failed>>

Next == Succeed \/ Fail \/ Check \/ Return
Spec == Init /\ [][Next]_vars
-----------------------------------------------------------------------------
\* The drill returns once, and a count of links is never negative.
TypeOK == result \in {"none", "true", "false", "assert"} /\ nlink >= 0 /\ brk \in {0, 1024} /\ mode \in {"running", "cleanup"}

\* A drill that returned left no name and no descriptor behind and is back in
\* its directory, whichever call failed, unless a call that removes, closes or
\* goes back failed itself.  Names an
\* earlier run left are gone too.
LeavesNothing ==
  result \in {"true", "false"} /\ (\A f \in failed : f[1] \notin {"unlink", "close"} /\ f # <<"chdir", "orig">>) =>
    fd = {} /\ cwd = "orig" /\ dir = {}

\* The asserts on the link count and on the break hold whenever they are
\* reached, unless a stale name could not be removed.
AssertsHold == result = "assert" => \E f \in failed : f[1] = "unlink"
=============================================================================
