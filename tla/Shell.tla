------------------------------- MODULE Shell --------------------------------
(***************************************************************************)
(* The shell of the reference solution on exceptional control flow         *)
(* (shell.c).  A line is a sequence of words.  A command that exec does    *)
(* not find leaves its process running the code of the shell: Execvp       *)
(* returns, and the child goes on in ExecProgram and main with its copy of *)
(* the variables.  All these shells read the same standard input.          *)
(***************************************************************************)
EXTENDS Integers, Sequences

CONSTANTS Inputs,     \* the possible contents of standard input
          Pids,       \* 1 is the shell that is started
          Found       \* the commands exec finds

Operators == {"&&", "||", "&", "|"}
Undef == -1           \* exit_status before it was assigned

VARIABLES stdin, proc
vars == <<stdin, proc>>

NULL == [command |-> "NULL", operator |-> "NULL", next |-> <<>>]
NoProc == [kind |-> "none", parent |-> 0, at |-> "top", token |-> NULL, exit_status |-> 1, child_pid |-> 0, status |-> 0,
           own |-> 0, alone |-> TRUE]
Init ==
  /\ stdin \in Inputs
  /\ proc = [p \in Pids |-> IF p = 1 THEN [NoProc EXCEPT !.kind = "shell"] ELSE NoProc]

Children(p) == {c \in Pids : proc[c].parent = p /\ proc[c].kind \in {"shell", "command", "zombie"}}
-----------------------------------------------------------------------------
\* An operator counts only with a space behind it, so not as the last word.
GetOperator(s, n) == IF n < Len(s) /\ s[n] \in Operators THEN s[n] ELSE ""
ParseArgs(s) ==
  LET ends == {n \in 1..Len(s) : GetOperator(s, n) # ""}
      n == IF ends = {} THEN Len(s) + 1 ELSE CHOOSE x \in ends : \A y \in ends : x <= y
  IN [command |-> IF n = 1 THEN "NULL" ELSE s[1],
      operator |-> IF s = <<>> THEN "NULL" ELSE IF ends = {} THEN "" ELSE s[n],
      next |-> SubSeq(s, n + 1, Len(s))]

ContinueExec(operator, exit_status) ==
  CASE operator = "&&" -> exit_status = 0 [] operator = "||" -> exit_status # 0 [] operator = "&" -> TRUE [] OTHER -> FALSE

Dead(r, status) == [r EXCEPT !.kind = "zombie", !.status = status, !.token = NULL, !.at = "top"]

\* The top of the loop of main.  An exit_status nobody assigned has any value;
\* without input the token is all NULL and strcmp ends the shell.
Top(p) ==
  /\ proc[p].kind = "shell" /\ proc[p].at = "top"
  /\ \E st \in IF proc[p].exit_status = Undef THEN {0, 1} ELSE {proc[p].exit_status} :
       IF proc[p].token.next # <<>> /\ ContinueExec(proc[p].token.operator, st)
       THEN /\ proc' = [proc EXCEPT ![p].token = ParseArgs(proc[p].token.next), ![p].exit_status = st, ![p].at = "run"]
            /\ UNCHANGED stdin
       ELSE IF stdin = <<>> THEN proc' = [proc EXCEPT ![p] = Dead(@, 2)] /\ UNCHANGED stdin
       ELSE /\ proc' = [proc EXCEPT ![p].token = ParseArgs(Head(stdin)), ![p].exit_status = st, ![p].at = "run"]
            /\ stdin' = Tail(stdin)

Builtin(p) ==
  /\ proc[p].kind = "shell" /\ proc[p].at = "run" /\ UNCHANGED stdin
  /\ \/ proc[p].token.command = "alias" /\ proc' = [proc EXCEPT ![p].at = "top"]
     \/ proc[p].token.command = "exit" /\ proc' = [proc EXCEPT ![p] = Dead(@, 0)]

\* ExecProgram up to the wait: the child runs the command, or is a shell.
Forked(p) ==
  IF proc[p].token.command \in Found
  THEN [NoProc EXCEPT !.kind = "command", !.parent = p, !.token = proc[p].token]
  ELSE [proc[p] EXCEPT !.parent = p, !.child_pid = 0, !.at = "top", !.exit_status = Undef, !.own = Undef]
ExecProgram(p) ==
  /\ proc[p].kind = "shell" /\ proc[p].at = "run" /\ proc[p].token.command \notin {"alias", "exit"} /\ UNCHANGED stdin
  /\ LET go(r, c) == [r EXCEPT !.at = IF r.token.operator = "&" THEN "top" ELSE "wait", !.child_pid = c,
                                !.exit_status = Undef, !.own = Undef, !.alone = Children(p) = {}]
     IN \/ proc' = [proc EXCEPT ![p] = go(@, -1)]     \* fork fails
        \/ \E c \in Pids :
             /\ proc[c].kind = "none" /\ \A d \in Pids : proc[d].kind = "none" => c <= d
             /\ proc' = [proc EXCEPT ![c] = Forked(p), ![p] = go(@, c)]

\* One wait of the loop in ExecProgram; own and alone only record what became
\* of the command itself and whether it was the only child.
Reap(p, c) ==
  /\ proc[p].kind = "shell" /\ proc[p].at = "wait" /\ c \in Children(p) /\ proc[c].kind = "zombie" /\ UNCHANGED stdin
  /\ proc' = [proc EXCEPT ![c].kind = "gone", ![p].exit_status = proc[c].status,
                          ![p].own = IF c = proc[p].child_pid THEN proc[c].status ELSE @]
\* Mutant: the loop ends with the first child.
WaitEndsFirst(p) ==
  /\ proc[p].kind = "shell" /\ proc[p].at = "wait" /\ proc[p].exit_status # Undef /\ UNCHANGED stdin
  /\ proc' = [proc EXCEPT ![p].at = "top"]
WaitEnds(p) ==
  /\ proc[p].kind = "shell" /\ proc[p].at = "wait" /\ Children(p) = {} /\ UNCHANGED stdin
  /\ proc' = [proc EXCEPT ![p].at = "top"]

Finish(c) ==
  /\ proc[c].kind = "command" /\ UNCHANGED stdin
  /\ proc' = [proc EXCEPT ![c] = Dead(@, IF @.token.command = "false" THEN 1 ELSE 0)]

\* SIGINT at the first shell: the child it started last is terminated, if
\* there still is one.
SigintHandler ==
  /\ proc[1].kind = "shell" /\ proc[1].child_pid > 0 /\ UNCHANGED stdin
  /\ proc' = [p \in Pids |-> IF p = 1 THEN [proc[1] EXCEPT !.child_pid = 0]
                             ELSE IF p = proc[1].child_pid /\ proc[p].kind \in {"command", "shell"} THEN Dead(proc[p], 2)
                             ELSE proc[p]]

Next ==
  \/ SigintHandler
  \/ \E p \in Pids : Top(p) \/ Builtin(p) \/ ExecProgram(p) \/ WaitEnds(p) \/ Finish(p) \/ \E c \in Pids : Reap(p, c)
Spec == Init /\ [][Next]_vars
-----------------------------------------------------------------------------
\* The processes keep their types, and a child is younger than its parent.
TypeOK ==
  \A p \in Pids : /\ proc[p].kind \in {"none", "shell", "command", "zombie", "gone"} /\ proc[p].at \in {"top", "run", "wait"}
                  /\ proc[p].parent < p /\ proc[p].exit_status \in {Undef, 0, 1, 2}

\* A shell that waited for a foreground command goes on only when it has no
\* child left, background ones included: no zombie stays behind it.
WaitDrains ==
  \A p \in Pids : proc[p].kind = "shell" /\ proc[p].at = "top" /\ proc[p].token.operator # "&"
                    /\ proc[p].child_pid # 0 => Children(p) = {}

\* The command behind && runs only if the one before it gave 0, the command
\* behind || only if it did not, when that one was the shell's only child and
\* was not interrupted.  With a background child the status compared is that
\* of whichever child was reaped last.
ChainStep ==
  \A p \in Pids :
    proc[p].kind = "shell" /\ proc[p].at = "top" /\ proc'[p].at = "run" /\ stdin' = stdin
      /\ proc[p].alone /\ proc[p].own # Undef =>
        /\ proc[p].token.operator = "&&" => proc[p].own = 0
        /\ proc[p].token.operator = "||" => proc[p].own # 0
=============================================================================
