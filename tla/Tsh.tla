-------------------------------- MODULE Tsh ---------------------------------
(***************************************************************************)
(* Job control in the tiny shell (labs/07_shlab/shlab-handout/tsh.c): the  *)
(* main routine (read, eval, waitfg, bg/fg), its signal handlers, which    *)
(* interrupt it and each other wherever a signal is not blocked, and the   *)
(* kernel and the children as the shell sees them.                         *)
(*                                                                         *)
(* A stretch of the main routine or of a handler that runs with every      *)
(* signal blocked touches only the shell's own data, so it is one step.    *)
(***************************************************************************)
EXTENDS JobTable

CHLD == "SIGCHLD"
INT == "SIGINT"
TSTP == "SIGTSTP"
KeyboardSignals == {INT, TSTP}

VARIABLES
  pc,      \* where the main routine is
  cur,     \* the child eval has just forked: its pid and its job state
  susp,    \* waitfg waits until this is 0
  pend,    \* signals pending for the shell
  hand,    \* progress of sigchld_handler
  got,     \* what its last waitpid returned: pid and status
  proc,    \* life of each process
  unrep,   \* stopped children whose stop waitpid has not reported yet
  csig,    \* keyboard signals sent to a child that it has not acted on
  why      \* why the shell exited

shellVars == <<jobs, nextjid, pc, cur, susp, hand, got, why>>
kernelVars == <<proc, unrep, csig>>
vars == <<shellVars, pend, kernelVars>>

\* "prompt": reading a command, nothing blocked (main, line 148);
\* "forked": eval between Fork and the block of all signals (190-202);
\* "waitfg": in Sigsuspend with an empty mask (358).
PCs == {"prompt", "forked", "waitfg", "exited"}
\* "loop": about to call waitpid; "got": waitpid returned a child and the
\* signals are not blocked yet (381-382).
HandlerPCs == {"idle", "loop", "got"}
\* "forked": still in the shell's process group and with its handlers;
\* "grouped": after Setpgid, before execve; "free": the pid is unused.
ProcStates == {"free", "forked", "grouped", "running", "stopped", "zombie"}
Reasons == {"none", "quit", "bgfg_state", "job_not_found",
            "kill_before_setpgid", "kill_after_reap"}

TypeOK ==
  /\ jobs \in [Slots -> Job]
  /\ nextjid \in Nat \ {0}
  /\ pc \in PCs
  /\ cur \in [pid : Pids \cup {NoPid}, state : {UNDEF, FG, BG}]
  /\ susp \in {0, 1}
  /\ pend \subseteq {CHLD, INT, TSTP}
  /\ hand \in HandlerPCs
  /\ got \in [pid : Pids \cup {NoPid}, status : {"none", "stopped", "gone"}]
  /\ proc \in [Pids -> ProcStates]
  /\ unrep \subseteq Pids
  /\ csig \in [Pids -> SUBSET KeyboardSignals]
  /\ why \in Reasons

NoChild == [pid |-> NoPid, state |-> UNDEF]
NothingReaped == [pid |-> NoPid, status |-> "none"]

Init ==
  /\ InitJobs
  /\ pc = "prompt"
  /\ cur = NoChild
  /\ susp = 0
  /\ pend = {}
  /\ hand = "idle"
  /\ got = NothingReaped
  /\ proc = [p \in Pids |-> "free"]
  /\ unrep = {}
  /\ csig = [p \in Pids |-> {}]
  /\ why = "none"
-----------------------------------------------------------------------------
(* The signal mask, and the calls that end the shell or send signals.      *)

\* Signals the shell does not take now: eval blocks SIGCHLD before Fork,
\* and the kernel blocks SIGCHLD while its handler runs.
BlockedForgotten == IF hand = "idle" THEN {} ELSE {CHLD}
Blocked == IF pc = "forked" \/ hand # "idle" THEN {CHLD} ELSE {}

Deliverable(s) == pc # "exited" /\ s \in pend \ Blocked

\* exit, reached from quit, app_error and unix_error
Exit(reason) ==
  /\ pc' = "exited"
  /\ why' = reason
  /\ UNCHANGED <<jobs, nextjid, cur, susp, hand, got>>

\* There is a process group p to kill: from Setpgid until p is reaped.
GroupExists(p) == proc[p] \in {"grouped", "running", "stopped", "zombie"}

\* Kill(-p, SIGCONT): resumes a stopped child at once, which cancels an
\* unreported stop and a SIGTSTP still pending, and tells the parent.
SendCont(p) ==
  /\ proc' = [proc EXCEPT ![p] = IF @ = "stopped" THEN "running" ELSE @]
  /\ unrep' = unrep \ {p}
  /\ csig' = [csig EXCEPT ![p] = @ \ {TSTP}]
  /\ pend' = IF proc[p] = "stopped" THEN pend \cup {CHLD} ELSE pend

\* Kill(-p, s) for a keyboard signal; a zombie does not react.
SendKeyboard(p, s) ==
  /\ csig' = [csig EXCEPT ![p] = IF proc[p] = "zombie" THEN @ ELSE @ \cup {s}]
  /\ UNCHANGED <<proc, unrep>>

\* Kill on a process group that does not exist: unix_error("Kill error").
KillError(p) ==
  /\ Exit(IF proc[p] = "forked" THEN "kill_before_setpgid" ELSE "kill_after_reap")
  /\ UNCHANGED kernelVars
-----------------------------------------------------------------------------
(* The main routine.                                                       *)

AtPrompt == pc = "prompt" /\ hand = "idle"

\* eval up to Fork: SIGCHLD is blocked, then the child is created.
Fork(p, st) ==
  /\ AtPrompt
  /\ proc[p] = "free"
  /\ nextjid <= JidBound
  /\ pc' = "forked"
  /\ cur' = [pid |-> p, state |-> st]
  /\ proc' = [proc EXCEPT ![p] = "forked"]
  /\ UNCHANGED <<jobs, nextjid, susp, pend, hand, got, unrep, csig, why>>

\* waitfg up to its first Sigsuspend.
WaitfgNoReset == pc' = "waitfg" /\ susp' = 0
Waitfg == pc' = "waitfg" /\ susp' = 1

\* The rest of eval in the parent: all signals blocked, addjob (its result
\* is not looked at), then waitfg or back to the prompt.
EvalAdd ==
  /\ pc = "forked"
  /\ AddJob(cur.pid, cur.state)
  /\ \/ cur.state = FG /\ Waitfg
     \/ cur.state = BG /\ pc' = "prompt" /\ UNCHANGED susp
  /\ cur' = NoChild
  /\ UNCHANGED <<pend, hand, got, kernelVars, why>>

\* The while loop of waitfg ends, and the caller restores its mask.
WaitfgReturn ==
  /\ pc = "waitfg"
  /\ hand = "idle"
  /\ susp = 0
  /\ pc' = "prompt"
  /\ UNCHANGED <<jobs, nextjid, cur, susp, pend, hand, got, kernelVars, why>>

\* The job do_bgfg works on, named by a process id or by %jobid.
NamedSlots ==
  UNION ({GetJobPid(jobs, p) : p \in Pids} \cup {GetJobJid(jobs, n) : n \in 1..JidBound})

\* bg: only a stopped job changes.
BgKeepsState(i) ==
  /\ jobs[i].state = ST
  /\ UNCHANGED tableVars
  /\ SendCont(jobs[i].pid)
  /\ UNCHANGED <<pc, cur, susp, hand, got, why>>
Bg(i) ==
  /\ jobs[i].state = ST
  /\ SetState(i, BG)
  /\ SendCont(jobs[i].pid)
  /\ UNCHANGED <<pc, cur, susp, hand, got, why>>

\* fg: a stopped job is continued; the job is then waited for.
FgNoWait(i) ==
  /\ IF jobs[i].state = ST THEN SendCont(jobs[i].pid) ELSE UNCHANGED <<pend, kernelVars>>
  /\ SetState(i, FG)
  /\ UNCHANGED <<pc, cur, susp, hand, got, why>>
Fg(i) ==
  /\ IF jobs[i].state = ST THEN SendCont(jobs[i].pid) ELSE UNCHANGED <<pend, kernelVars>>
  /\ SetState(i, FG)
  /\ Waitfg
  /\ UNCHANGED <<cur, hand, got, why>>

\* do_bgfg, all signals blocked: a job in another state ends the shell, and
\* so does a Kill that finds no process group.
DoBgfg(i) ==
  /\ AtPrompt
  /\ IF jobs[i].state \notin {BG, ST}
       THEN Exit("bgfg_state") /\ UNCHANGED <<pend, kernelVars>>
       ELSE IF jobs[i].state = ST /\ ~GroupExists(jobs[i].pid)
              THEN KillError(jobs[i].pid) /\ UNCHANGED pend
              ELSE Bg(i) \/ Fg(i)

\* quit, and end of file on standard input.
Quit == AtPrompt /\ Exit("quit") /\ UNCHANGED <<pend, kernelVars>>

\* sigquit_handler: the driver program ends the shell at any point.
Sigquit == pc # "exited" /\ Exit("quit") /\ UNCHANGED <<pend, kernelVars>>
-----------------------------------------------------------------------------
(* The signal handlers.                                                    *)

\* The kernel starts sigchld_handler.
SigchldEnter ==
  /\ Deliverable(CHLD)
  /\ pend' = pend \ {CHLD}
  /\ hand' = "loop"
  /\ UNCHANGED <<jobs, nextjid, pc, cur, susp, got, kernelVars, why>>

\* waitpid(-1, &status, WNOHANG | WUNTRACED) finds a zombie, which it
\* removes, or a stop not reported before.
WaitpidFinds(p) ==
  /\ hand = "loop" /\ pc # "exited"
  /\ \/ proc[p] = "zombie"
        /\ got' = [pid |-> p, status |-> "gone"]
        /\ proc' = [proc EXCEPT ![p] = "free"]
        /\ UNCHANGED unrep
     \/ proc[p] = "stopped" /\ p \in unrep
        /\ got' = [pid |-> p, status |-> "stopped"]
        /\ unrep' = unrep \ {p}
        /\ UNCHANGED proc
  /\ hand' = "got"
  /\ UNCHANGED <<jobs, nextjid, pc, cur, susp, pend, csig, why>>

\* waitpid finds nothing: the handler returns.
WaitpidEmpty ==
  /\ hand = "loop" /\ pc # "exited"
  /\ \A p \in Pids : proc[p] # "zombie" /\ ~(proc[p] = "stopped" /\ p \in unrep)
  /\ hand' = "idle"
  /\ UNCHANGED <<jobs, nextjid, pc, cur, susp, pend, got, kernelVars, why>>

\* The body of the loop, signals blocked: wake waitfg if the child was in
\* the foreground, then mark the job stopped or delete it.
WakeAlways(i) == susp' = 0
WakeNever(i) == susp' = susp
Wake(i) == susp' = IF jobs[i].state = FG THEN 0 ELSE susp

SigchldBodyOnce ==
  /\ hand = "got" /\ pc # "exited"
  /\ \E i \in GetJobPid(jobs, got.pid) :
       /\ Wake(i)
       /\ \/ got.status = "stopped" /\ SetState(i, ST)
          \/ got.status = "gone" /\ DeleteJob(got.pid)
  /\ hand' = "idle"
  /\ got' = NothingReaped
  /\ UNCHANGED <<pc, cur, why, pend, kernelVars>>
SigchldBody ==
  /\ hand = "got" /\ pc # "exited"
  /\ \/ \E i \in GetJobPid(jobs, got.pid) :
          /\ Wake(i)
          /\ \/ got.status = "stopped" /\ SetState(i, ST)
             \/ got.status = "gone" /\ DeleteJob(got.pid)
          /\ hand' = "loop"
          /\ got' = NothingReaped
          /\ UNCHANGED <<pc, cur, why>>
     \/ /\ GetJobPid(jobs, got.pid) = {}
        /\ Exit("job_not_found")
  /\ UNCHANGED <<pend, kernelVars>>

\* sigint_handler and sigtstp_handler: the signal goes on to the process
\* group of the foreground job, if there is one.
Forward(s) ==
  /\ Deliverable(s)
  /\ pend' = pend \ {s}
  /\ \/ FgSlot(jobs) = {} /\ UNCHANGED <<shellVars, kernelVars>>
     \/ \E i \in FgSlot(jobs) :
          LET p == jobs[i].pid IN
          \/ GroupExists(p) /\ SendKeyboard(p, s) /\ UNCHANGED shellVars
          \/ ~GroupExists(p) /\ KillError(p)
-----------------------------------------------------------------------------
(* The terminal, the kernel and the children.                              *)

\* ctrl-c or ctrl-z: the terminal signals the shell's process group, in
\* which a child stays until it has called Setpgid.
Keyboard(s) ==
  /\ pc # "exited"
  /\ pend' = pend \cup {s}
  /\ csig' = [p \in Pids |-> IF proc[p] = "forked" THEN csig[p] \cup {s} ELSE csig[p]]
  /\ UNCHANGED <<shellVars, proc, unrep>>

ChildStep(p, from, to) ==
  /\ proc[p] = from
  /\ proc' = [proc EXCEPT ![p] = to]

\* The child's branch of eval: Setpgid(0, 0), then execve.
Setpgid(p) ==
  /\ ChildStep(p, "forked", "grouped")
  /\ UNCHANGED <<shellVars, pend, unrep, csig>>
Execve(p) ==
  /\ ChildStep(p, "grouped", "running")
  /\ UNCHANGED <<shellVars, pend, unrep, csig>>

\* Before execve the child runs the shell's handler on its own copy of the
\* job list, in which no job is in the foreground: the signal has no effect.
InheritedHandler(p) ==
  /\ proc[p] \in {"forked", "grouped"}
  /\ csig[p] # {}
  /\ \E s \in csig[p] : csig' = [csig EXCEPT ![p] = @ \ {s}]
  /\ UNCHANGED <<shellVars, pend, proc, unrep>>

\* The child exits (by itself, or because execve failed) or is killed.
Die(p) ==
  /\ proc[p] \in {"forked", "grouped", "running", "stopped"}
  /\ proc' = [proc EXCEPT ![p] = "zombie"]
  /\ unrep' = unrep \ {p}
  /\ csig' = [csig EXCEPT ![p] = {}]
  /\ pend' = pend \cup {CHLD}
  /\ UNCHANGED shellVars

\* A running program stops: it got a SIGTSTP, or stopped itself.
Stop(p) ==
  /\ ChildStep(p, "running", "stopped")
  /\ unrep' = unrep \cup {p}
  /\ csig' = [csig EXCEPT ![p] = @ \ {TSTP}]
  /\ pend' = pend \cup {CHLD}
  /\ UNCHANGED shellVars

\* The default action of a keyboard signal in a running program.
TakeSignal(p) ==
  \/ proc[p] = "running" /\ INT \in csig[p] /\ Die(p)
  \/ proc[p] = "running" /\ TSTP \in csig[p] /\ Stop(p)

Child(p) == Setpgid(p) \/ Execve(p) \/ InheritedHandler(p) \/ Die(p) \/ Stop(p)

\* After exit the shell does nothing any more.
Exited == pc = "exited" /\ UNCHANGED vars
-----------------------------------------------------------------------------
Shell ==
  \/ \E p \in Pids, st \in {FG, BG} : Fork(p, st)
  \/ EvalAdd
  \/ WaitfgReturn
  \/ \E i \in NamedSlots : DoBgfg(i)
  \/ Quit

Handlers ==
  \/ SigchldEnter
  \/ \E p \in Pids : WaitpidFinds(p)
  \/ WaitpidEmpty
  \/ SigchldBody
  \/ \E s \in KeyboardSignals : Forward(s)
  \/ Sigquit

Environment ==
  \/ \E s \in KeyboardSignals : Keyboard(s)
  \/ pc # "exited" /\ \E p \in Pids : Child(p)
  \/ Exited

Next == Shell \/ Handlers \/ Environment

Spec == Init /\ [][Next]_vars

\* The kernel runs the shell whenever it can run, starts the handler of a
\* pending signal at the first return to user mode with the signal not
\* blocked, and lets a running program act on a signal sent to it.
Fairness ==
  /\ WF_vars(EvalAdd)
  /\ WF_vars(WaitfgReturn)
  /\ SF_vars(SigchldEnter)
  /\ WF_vars(\E p \in Pids : WaitpidFinds(p))
  /\ WF_vars(WaitpidEmpty)
  /\ WF_vars(SigchldBody)
  /\ \A s \in KeyboardSignals : SF_vars(Forward(s))
  /\ \A p \in Pids : WF_vars(TakeSignal(p) /\ pc # "exited")

FairSpec == Spec /\ Fairness
-----------------------------------------------------------------------------
(* Properties.                                                             *)

Tracked(p) == \E i \in Slots : jobs[i].pid = p
Reaped(p) == hand = "got" /\ got = [pid |-> p, status |-> "gone"]

\* The comment on job states (tsh.c:35): at most one job is in the
\* foreground, whatever eval, do_bgfg and the handlers do in whatever order.
AtMostOneFG ==
  \A i, j \in Slots : jobs[i].state = FG /\ jobs[j].state = FG => i = j

\* waitfg is in step with the job list: the shell waits as long as there is
\* a foreground job (it never prompts beside one), and while it waits with
\* susp = 1 there is a foreground job to wake it, or a child addjob refused.
ForegroundWaited ==
  pc # "exited" =>
    /\ (\E i \in Slots : jobs[i].state = FG) => pc = "waitfg" /\ susp = 1
    /\ pc = "waitfg" /\ susp = 1 =>
         \/ \E i \in Slots : jobs[i].state = FG
         \/ \E p \in Pids : ~Tracked(p) /\ (proc[p] # "free" \/ Reaped(p))

\* The job list and the kernel agree on which children exist: a process has
\* at most one job, and a job's process has not been reaped, except between
\* the waitpid that reaped it and the deletejob of the same iteration.
JobsAreChildren ==
  /\ \A i, j \in Slots : jobs[i].pid = jobs[j].pid /\ i # j => jobs[i].pid = NoPid
  /\ \A p \in Pids : Tracked(p) => (proc[p] # "free" \/ Reaped(p))

\* The job list and the kernel agree on which jobs are stopped: a job is
\* marked ST only while its process is stopped or dead, and a stop that
\* waitpid has reported is recorded by the end of the iteration.
StopsRecorded ==
  pc # "exited" =>
    \A i \in Slots : jobs[i].pid # NoPid =>
      LET p == jobs[i].pid IN
      /\ jobs[i].state = ST => proc[p] \in {"stopped", "zombie"} \/ Reaped(p)
      /\ proc[p] = "stopped" /\ p \notin unrep =>
           jobs[i].state = ST \/ (hand = "got" /\ got.pid = p)

\* The two internal checks of the shell (tsh.c:326 and tsh.c:384) never
\* fail: do_bgfg finds only BG and ST jobs, and every child that waitpid
\* returns has a job, as long as the list has a slot for every process.
InternalChecksHold == why \notin {"bgfg_state", "job_not_found"}

\* sigchld_handler reaps every dead child (tsh.c:369), also when several
\* die while one SIGCHLD is pending, or while eval has SIGCHLD blocked.
ZombiesReaped ==
  \A p \in Pids : proc[p] = "zombie" ~> (proc[p] # "zombie" \/ pc = "exited")

\* A foreground program that is running when ctrl-c arrives does not keep
\* the shell: it ends or stops, and the shell leaves waitfg.
CtrlCEndsWait ==
  (/\ pc = "waitfg" /\ INT \in pend
   /\ \E i \in FgSlot(jobs) : proc[jobs[i].pid] = "running") ~> pc # "waitfg"
-----------------------------------------------------------------------------
(* What the source says of the program and the program does not do.        *)

\* "Catch it and send it along to the foreground job" (tsh.c:409): the
\* signal reaches the foreground job, also one that has just been started or
\* has just ended; Kill does not fail and end the shell.
ForwardReachesJob == why \notin {"kill_before_setpgid", "kill_after_reap"}
=============================================================================
