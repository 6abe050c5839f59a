------------------------------ MODULE TshProofs ------------------------------
(***************************************************************************)
(* The invariants of the tiny shell, proved for every set of process ids,  *)
(* every length of the job list and every bound on job ids.                *)
(***************************************************************************)
EXTENDS Tsh, NatLemmas, FiniteSetTheorems, TLAPS
USE SMTT(60), ZenonT(60), Z3T(60)

\* What getjobpid finds is a slot of process p.
LEMMA GetJobPidFinds ==
  ASSUME NEW js, NEW p, NEW i \in GetJobPid(js, p)
  PROVE  i \in Slots /\ js[i].pid = p
BY DEF GetJobPid, First

\* When getjobpid finds nothing, no slot is of process p.
LEMMA GetJobPidFails ==
  ASSUME NEW js, NEW p, GetJobPid(js, p) = {}
  PROVE  \A i \in Slots : js[i].pid # p
<1>. DEFINE T == {i \in Slots : js[i].pid = p}
<1>. SUFFICES ASSUME T # {} PROVE FALSE
  OBVIOUS
<1>1. T \subseteq Nat
  BY JobTableAssumption DEF Slots
<1>2. PICK i \in T : \A j \in T : ~(j < i)
  BY <1>1, LeastExists, ZenonT(60)
<1>. QED  BY <1>2 DEF GetJobPid, First

\* When fgpid finds nothing, no job is in the foreground; what it finds is.
LEMMA FgSlotFinds ==
  ASSUME NEW js, NEW i \in FgSlot(js)
  PROVE  i \in Slots /\ js[i].state = FG
BY DEF FgSlot, First

\* maxjid is a natural number.
LEMMA MaxJidType ==
  ASSUME NEW js \in [Slots -> Job]
  PROVE  MaxJid(js) \in Nat
<1>. DEFINE f == [i \in 1..MAXJOBS |-> js[i].jid]
<1>. DEFINE S == {js[i].jid : i \in Slots} \cup {0}
<1>1. MAXJOBS \in Nat /\ f \in [1..MAXJOBS -> Nat]
  BY JobTableAssumption DEF Slots, Job
<1>2. S = {f[i] : i \in 1..MAXJOBS} \cup {0} /\ S \subseteq Nat
  BY DEF Slots, Job
<1>3. \E m \in S : \A x \in S : m >= x
  <2>. HIDE DEF f, S
  <2>1. \E m \in {f[i] : i \in 1..MAXJOBS} \cup {0} :
           \A x \in {f[i] : i \in 1..MAXJOBS} \cup {0} : m >= x
    BY <1>1, GreatestExists, ZenonT(60)
  <2>. QED  BY <2>1, <1>2, ZenonT(60)
<1>4. MaxJid(js) \in S
  <2>. HIDE DEF S
  <2>1. Max(S) \in S
    BY <1>3 DEF Max
  <2>. QED  BY <2>1, ZenonT(60) DEF MaxJid, S
<1>. QED  BY <1>2, <1>4
-----------------------------------------------------------------------------
\* An empty slot is empty in every field.
TableOK ==
  \A i \in Slots :
    /\ jobs[i].pid = NoPid <=> jobs[i].state = UNDEF
    /\ jobs[i].pid = NoPid <=> jobs[i].jid = 0

\* Between Fork and addjob the new child exists, cannot be reaped (SIGCHLD
\* is blocked and its handler is not running) and has no job.
CurOK ==
  pc = "forked" =>
    /\ cur.pid \in Pids
    /\ cur.state \in {FG, BG}
    /\ proc[cur.pid] # "free"
    /\ proc[cur.pid] = "stopped" => cur.pid \in unrep
    /\ ~Tracked(cur.pid)
    /\ hand = "idle"

\* What waitpid returned is still true when the loop body looks at it.
GotOK ==
  hand = "got" =>
    /\ got.pid \in Pids
    /\ \/ got.status = "gone" /\ proc[got.pid] = "free"
       \/ got.status = "stopped" /\ proc[got.pid] \in {"stopped", "zombie"}

\* Only a stopped child has a stop to report.
UnrepOK == \A p \in unrep : proc[p] = "stopped"

IInv ==
  /\ TypeOK
  /\ TableOK
  /\ CurOK
  /\ GotOK
  /\ UnrepOK
  /\ AtMostOneFG
  /\ ForegroundWaited
  /\ JobsAreChildren
  /\ StopsRecorded

\* The empty shell satisfies the invariant.
LEMMA InitIInv == Init => IInv
BY JobTableAssumption DEF Init, InitJobs, ClearedJob, IInv, TypeOK, TableOK, CurOK, GotOK, UnrepOK,
   AtMostOneFG, ForegroundWaited, JobsAreChildren, StopsRecorded, Job, UNDEF, FG, BG, ST,
   PCs, HandlerPCs, ProcStates, Reasons, NoChild, NothingReaped, Tracked, Reaped, CHLD, INT, TSTP,
   KeyboardSignals

\* A step of the terminal, the kernel or a child: the shell's data does not
\* change, no pid becomes used or free, a stopped or dead child stays so, and
\* a new stop is one to report.
LEMMA EnvironmentStep ==
  ASSUME IInv, UNCHANGED shellVars, TypeOK', UnrepOK',
         \A p \in Pids :
           /\ proc'[p] = "free" <=> proc[p] = "free"
           /\ proc[p] \in {"stopped", "zombie"} => proc'[p] \in {"stopped", "zombie"}
           /\ proc'[p] = "stopped" /\ p \notin unrep' => proc[p] = "stopped" /\ p \notin unrep
  PROVE  IInv'
<1>. USE DEF shellVars
<1>1. TypeOK'
  OBVIOUS
<1>2. TableOK'
  BY DEF IInv, TableOK
<1>3. CurOK'
  BY DEF IInv, CurOK, Tracked, TypeOK
<1>4. GotOK'
  BY DEF IInv, GotOK, TypeOK
<1>5. UnrepOK'
  OBVIOUS
<1>6. AtMostOneFG'
  BY DEF IInv, AtMostOneFG
<1>7. ForegroundWaited'
  BY DEF IInv, ForegroundWaited, Tracked, Reaped, TypeOK
<1>8. JobsAreChildren'
  BY DEF IInv, JobsAreChildren, Tracked, Reaped, TypeOK
<1>9. StopsRecorded'
  BY DEF IInv, StopsRecorded, Reaped, TypeOK, Job
<1>. QED  BY <1>1, <1>2, <1>3, <1>4, <1>5, <1>6, <1>7, <1>8, <1>9 DEF IInv

\* The shell exits: the job list and the children stay as they are.
LEMMA ExitStep ==
  ASSUME IInv, NEW r \in Reasons, Exit(r), UNCHANGED kernelVars,
         pend' \subseteq {CHLD, INT, TSTP}
  PROVE  IInv'
<1>. USE DEF Exit, kernelVars
<1>1. TypeOK'
  BY DEF IInv, TypeOK, PCs
<1>2. TableOK'
  BY DEF IInv, TableOK
<1>3. CurOK'
  BY DEF IInv, CurOK, Tracked
<1>4. GotOK'
  BY DEF IInv, GotOK
<1>5. UnrepOK'
  BY DEF IInv, UnrepOK
<1>6. AtMostOneFG'
  BY DEF IInv, AtMostOneFG
<1>7. ForegroundWaited'
  BY DEF IInv, ForegroundWaited, Tracked, Reaped
<1>8. JobsAreChildren'
  BY DEF IInv, JobsAreChildren, Tracked, Reaped
<1>9. StopsRecorded'
  BY DEF IInv, StopsRecorded, Reaped
<1>. QED  BY <1>1, <1>2, <1>3, <1>4, <1>5, <1>6, <1>7, <1>8, <1>9 DEF IInv

\* eval up to Fork: the new child has a pid that was free, so no job.
LEMMA ForkStep ==
  ASSUME IInv, NEW p \in Pids, NEW st \in {FG, BG}, Fork(p, st)
  PROVE  IInv'
<1>. USE DEF Fork, AtPrompt
<1>1. TypeOK'
  BY DEF IInv, TypeOK, PCs, ProcStates
<1>2. TableOK'
  BY DEF IInv, TableOK
<1>3. CurOK'
  BY DEF IInv, CurOK, Tracked, TypeOK, JobsAreChildren, Reaped
<1>4. GotOK'
  BY DEF IInv, GotOK
<1>5. UnrepOK'
  BY DEF IInv, UnrepOK, TypeOK
<1>6. AtMostOneFG'
  BY DEF IInv, AtMostOneFG
<1>7. ForegroundWaited'
  BY DEF IInv, ForegroundWaited, Tracked, Reaped, TypeOK
<1>8. JobsAreChildren'
  BY DEF IInv, JobsAreChildren, Tracked, Reaped, TypeOK
<1>9. StopsRecorded'
  BY DEF IInv, StopsRecorded, Reaped, TypeOK, Job, JobsAreChildren, Tracked
<1>. QED  BY <1>1, <1>2, <1>3, <1>4, <1>5, <1>6, <1>7, <1>8, <1>9 DEF IInv

\* addjob: what eval adds is its new child, in an empty slot.
LEMMA EvalAddStep ==
  ASSUME IInv, EvalAdd
  PROVE  IInv'
<1>. DEFINE New(i) == [pid |-> cur.pid, jid |-> nextjid, state |-> cur.state]
<1>a. /\ pc = "forked" /\ cur.pid \in Pids /\ cur.state \in {FG, BG}
      /\ proc[cur.pid] # "free" /\ ~Tracked(cur.pid) /\ hand = "idle"
      /\ proc[cur.pid] = "stopped" => cur.pid \in unrep
      /\ \A i \in Slots : jobs[i].state # FG
  BY DEF IInv, CurOK, ForegroundWaited, EvalAdd
<1>b. \/ /\ cur.state = FG /\ pc' = "waitfg" /\ susp' = 1
      \/ /\ cur.state = BG /\ pc' = "prompt" /\ susp' = susp
  BY DEF EvalAdd, Waitfg
<1>c. cur' = NoChild /\ UNCHANGED <<pend, hand, got, proc, unrep, csig, why>>
  BY DEF EvalAdd, kernelVars
<1>d. \/ /\ UNCHANGED <<jobs, nextjid>>
         /\ \A i \in Slots : jobs[i].pid # NoPid
      \/ \E i \in Slots :
           /\ jobs[i].pid = NoPid
           /\ jobs' = [jobs EXCEPT ![i] = New(i)]
           /\ nextjid' \in Nat \ {0}
  BY JobTableAssumption DEF EvalAdd, AddJob, First, BumpJid, tableVars, IInv, TypeOK
<1>1. TypeOK'
  BY <1>a, <1>b, <1>c, <1>d, JobTableAssumption DEF IInv, TypeOK, PCs, NoChild, Job
<1>2. TableOK'
  BY <1>a, <1>b, <1>c, <1>d, JobTableAssumption DEF IInv, TableOK, UNDEF, FG, BG, TypeOK, Job
<1>3. CurOK'
  BY <1>a, <1>b, <1>c, <1>d, JobTableAssumption DEF IInv, CurOK, Tracked
<1>4. GotOK'
  BY <1>a, <1>b, <1>c, <1>d, JobTableAssumption DEF IInv, GotOK
<1>5. UnrepOK'
  BY <1>a, <1>b, <1>c, <1>d, JobTableAssumption DEF IInv, UnrepOK
<1>6. AtMostOneFG'
  BY <1>a, <1>b, <1>c, <1>d, JobTableAssumption DEF IInv, AtMostOneFG, TypeOK, Job
<1>7. ForegroundWaited'
  BY <1>a, <1>b, <1>c, <1>d, JobTableAssumption DEF IInv, ForegroundWaited, Tracked, Reaped, TypeOK, Job, FG, BG
<1>8. JobsAreChildren'
  BY <1>a, <1>b, <1>c, <1>d, JobTableAssumption DEF IInv, JobsAreChildren, Tracked, Reaped, TypeOK, Job
<1>9. StopsRecorded'
  BY <1>a, <1>b, <1>c, <1>d, JobTableAssumption DEF IInv, StopsRecorded, Reaped, TypeOK, Job, FG, BG, ST
<1>. QED  BY <1>1, <1>2, <1>3, <1>4, <1>5, <1>6, <1>7, <1>8, <1>9 DEF IInv

\* waitfg returns: susp = 0, so there is no foreground job.
LEMMA WaitfgReturnStep ==
  ASSUME IInv, WaitfgReturn
  PROVE  IInv'
<1>. USE DEF WaitfgReturn, kernelVars
<1>1. TypeOK'
  BY DEF IInv, TypeOK, PCs
<1>2. TableOK'
  BY DEF IInv, TableOK
<1>3. CurOK'
  BY DEF IInv, CurOK, Tracked
<1>4. GotOK'
  BY DEF IInv, GotOK
<1>5. UnrepOK'
  BY DEF IInv, UnrepOK
<1>6. AtMostOneFG'
  BY DEF IInv, AtMostOneFG
<1>7. ForegroundWaited'
  BY DEF IInv, ForegroundWaited, Tracked, Reaped
<1>8. JobsAreChildren'
  BY DEF IInv, JobsAreChildren, Tracked, Reaped
<1>9. StopsRecorded'
  BY DEF IInv, StopsRecorded, Reaped
<1>. QED  BY <1>1, <1>2, <1>3, <1>4, <1>5, <1>6, <1>7, <1>8, <1>9 DEF IInv

\* bg and fg on a job that do_bgfg accepts: at the prompt no job is in the
\* foreground, and a stopped job has a process to continue.
LEMMA BgStep ==
  ASSUME IInv, NEW i \in Slots, AtPrompt, Bg(i), jobs[i].pid \in Pids
  PROVE  IInv'
<1>. USE DEF Bg, SetState, SendCont, AtPrompt
<1>1. TypeOK'
  BY DEF IInv, TypeOK, Job, ProcStates, BG, CHLD, INT, TSTP
<1>2. TableOK'
  BY DEF IInv, TableOK, TypeOK, Job, UNDEF, ST, BG
<1>3. CurOK'
  BY DEF IInv, CurOK, Tracked, TypeOK
<1>4. GotOK'
  BY DEF IInv, GotOK
<1>5. UnrepOK'
  BY DEF IInv, UnrepOK, TypeOK
<1>6. AtMostOneFG'
  BY DEF IInv, AtMostOneFG, TypeOK, Job, FG, BG, ST
<1>7. ForegroundWaited'
  BY DEF IInv, ForegroundWaited, Tracked, Reaped, TypeOK, Job, FG, BG, ST
<1>8. JobsAreChildren'
  BY DEF IInv, JobsAreChildren, Tracked, Reaped, TypeOK, Job
<1>9. StopsRecorded'
  BY DEF IInv, StopsRecorded, Reaped, TypeOK, Job, BG, ST, JobsAreChildren
<1>. QED  BY <1>1, <1>2, <1>3, <1>4, <1>5, <1>6, <1>7, <1>8, <1>9 DEF IInv

\* fg puts a job in the foreground and waits for it.
LEMMA FgStep ==
  ASSUME IInv, NEW i \in Slots, AtPrompt, Fg(i), jobs[i].pid \in Pids
  PROVE  IInv'
<1>. USE DEF Fg, SetState, SendCont, AtPrompt, Waitfg, kernelVars
<1>1. TypeOK'
  BY DEF IInv, TypeOK, Job, ProcStates, FG, CHLD, INT, TSTP, PCs
<1>2. TableOK'
  BY JobTableAssumption DEF IInv, TableOK, TypeOK, Job, UNDEF, FG
<1>3. CurOK'
  BY DEF IInv, CurOK, Tracked, TypeOK
<1>4. GotOK'
  BY DEF IInv, GotOK
<1>5. UnrepOK'
  BY DEF IInv, UnrepOK, TypeOK
<1>6. AtMostOneFG'
  BY DEF IInv, AtMostOneFG, TypeOK, Job, ForegroundWaited
<1>7. ForegroundWaited'
  BY DEF IInv, ForegroundWaited, Tracked, Reaped, TypeOK, Job
<1>8. JobsAreChildren'
  BY DEF IInv, JobsAreChildren, Tracked, Reaped, TypeOK, Job
<1>9. StopsRecorded'
  BY DEF IInv, StopsRecorded, Reaped, TypeOK, Job, FG, BG, ST, JobsAreChildren
<1>. QED  BY <1>1, <1>2, <1>3, <1>4, <1>5, <1>6, <1>7, <1>8, <1>9 DEF IInv

\* The slots do_bgfg can be told to work on hold jobs.
LEMMA NamedSlotsHoldJobs ==
  ASSUME IInv, NEW i \in NamedSlots
  PROVE  i \in Slots /\ jobs[i].pid \in Pids /\ jobs[i].state # UNDEF
<1>1. \/ \E p \in Pids : i \in GetJobPid(jobs, p)
      \/ \E n \in 1..JidBound : i \in GetJobJid(jobs, n)
  BY DEF NamedSlots
<1>2. i \in Slots /\ (jobs[i].pid \in Pids \/ jobs[i].jid >= 1)
  BY <1>1 DEF GetJobPid, GetJobJid, First
<1>. QED  BY <1>2, JobTableAssumption DEF IInv, TypeOK, TableOK, Job, UNDEF

\* do_bgfg as a whole, its error exits included.
LEMMA DoBgfgStep ==
  ASSUME IInv, NEW i \in NamedSlots, DoBgfg(i)
  PROVE  IInv'
<1>1. i \in Slots /\ jobs[i].pid \in Pids
  BY NamedSlotsHoldJobs
<1>2. AtPrompt
  BY DEF DoBgfg
<1>3. CASE Bg(i)
  BY <1>1, <1>2, <1>3, BgStep
<1>4. CASE Fg(i)
  BY <1>1, <1>2, <1>4, FgStep
<1>5. ASSUME NEW r \in Reasons, Exit(r), UNCHANGED kernelVars, UNCHANGED pend PROVE IInv'
  BY <1>5, ExitStep DEF IInv, TypeOK
<1>6. "bgfg_state" \in Reasons /\ "kill_before_setpgid" \in Reasons /\ "kill_after_reap" \in Reasons
  BY DEF Reasons
<1>. QED  BY <1>3, <1>4, <1>5, <1>6 DEF DoBgfg, KillError

\* sigchld_handler starts: SIGCHLD is not blocked, so eval is not between
\* Fork and addjob.
LEMMA SigchldEnterStep ==
  ASSUME IInv, SigchldEnter
  PROVE  IInv'
<1>. USE DEF SigchldEnter, Deliverable, Blocked, kernelVars
<1>1. TypeOK'
  BY DEF IInv, TypeOK, HandlerPCs
<1>2. TableOK'
  BY DEF IInv, TableOK
<1>3. CurOK'
  BY DEF IInv, CurOK, Tracked
<1>4. GotOK'
  BY DEF IInv, GotOK
<1>5. UnrepOK'
  BY DEF IInv, UnrepOK
<1>6. AtMostOneFG'
  BY DEF IInv, AtMostOneFG
<1>7. ForegroundWaited'
  BY DEF IInv, ForegroundWaited, Tracked, Reaped
<1>8. JobsAreChildren'
  BY DEF IInv, JobsAreChildren, Tracked, Reaped
<1>9. StopsRecorded'
  BY DEF IInv, StopsRecorded, Reaped
<1>. QED  BY <1>1, <1>2, <1>3, <1>4, <1>5, <1>6, <1>7, <1>8, <1>9 DEF IInv

\* waitpid reaps a zombie or reports a stop.
LEMMA WaitpidFindsStep ==
  ASSUME IInv, NEW p \in Pids, WaitpidFinds(p)
  PROVE  IInv'
<1>. USE DEF WaitpidFinds
<1>1. TypeOK'
  BY DEF IInv, TypeOK, HandlerPCs, ProcStates
<1>2. TableOK'
  BY DEF IInv, TableOK
<1>3. CurOK'
  BY DEF IInv, CurOK, Tracked, TypeOK
<1>4. GotOK'
  BY DEF IInv, GotOK, TypeOK
<1>5. UnrepOK'
  BY DEF IInv, UnrepOK, TypeOK
<1>6. AtMostOneFG'
  BY DEF IInv, AtMostOneFG
<1>7. ForegroundWaited'
  BY DEF IInv, ForegroundWaited, Tracked, Reaped, TypeOK
<1>8. JobsAreChildren'
  BY DEF IInv, JobsAreChildren, Tracked, Reaped, TypeOK
<1>9. StopsRecorded'
  BY DEF IInv, StopsRecorded, Reaped, TypeOK, Job
<1>. QED  BY <1>1, <1>2, <1>3, <1>4, <1>5, <1>6, <1>7, <1>8, <1>9 DEF IInv

\* sigchld_handler returns.
LEMMA WaitpidEmptyStep ==
  ASSUME IInv, WaitpidEmpty
  PROVE  IInv'
<1>. USE DEF WaitpidEmpty, kernelVars
<1>1. TypeOK'
  BY DEF IInv, TypeOK, HandlerPCs
<1>2. TableOK'
  BY DEF IInv, TableOK
<1>3. CurOK'
  BY DEF IInv, CurOK, Tracked
<1>4. GotOK'
  BY DEF IInv, GotOK
<1>5. UnrepOK'
  BY DEF IInv, UnrepOK
<1>6. AtMostOneFG'
  BY DEF IInv, AtMostOneFG
<1>7. ForegroundWaited'
  BY DEF IInv, ForegroundWaited, Tracked, Reaped
<1>8. JobsAreChildren'
  BY DEF IInv, JobsAreChildren, Tracked, Reaped
<1>9. StopsRecorded'
  BY DEF IInv, StopsRecorded, Reaped
<1>. QED  BY <1>1, <1>2, <1>3, <1>4, <1>5, <1>6, <1>7, <1>8, <1>9 DEF IInv

\* The loop body for a child that stopped.
LEMMA SigchldStopStep ==
  ASSUME IInv, hand = "got", pc # "exited", NEW i \in Slots, jobs[i].pid = got.pid,
         got.status = "stopped", Wake(i), SetState(i, ST), hand' = "loop", got' = NothingReaped,
         UNCHANGED <<pc, cur, why, pend, kernelVars>>
  PROVE  IInv'
<1>. USE DEF Wake, SetState, kernelVars
<1>a. got.pid \in Pids /\ proc[got.pid] \in {"stopped", "zombie"}
  BY DEF IInv, GotOK
<1>b. pc # "forked"
  BY DEF IInv, CurOK
<1>1. TypeOK'
  BY <1>a, <1>b, JobTableAssumption DEF IInv, TypeOK, NothingReaped, HandlerPCs, Job, ST
<1>2. TableOK'
  BY <1>a, <1>b, JobTableAssumption DEF IInv, TableOK, TypeOK, Job, UNDEF, ST
<1>3. CurOK'
  BY <1>a, <1>b, JobTableAssumption DEF IInv, CurOK, Tracked
<1>4. GotOK'
  BY <1>a, <1>b, JobTableAssumption DEF IInv, GotOK
<1>5. UnrepOK'
  BY <1>a, <1>b, JobTableAssumption DEF IInv, UnrepOK
<1>6. AtMostOneFG'
  BY <1>a, <1>b, JobTableAssumption DEF IInv, AtMostOneFG, TypeOK, Job, FG, ST
<1>7. ForegroundWaited'
  BY <1>a, <1>b, JobTableAssumption DEF IInv, ForegroundWaited, Tracked, Reaped, TypeOK, Job, FG, ST, AtMostOneFG
<1>8. JobsAreChildren'
  BY <1>a, <1>b, JobTableAssumption DEF IInv, JobsAreChildren, Tracked, Reaped, TypeOK, Job
<1>9. StopsRecorded'
  BY <1>a, <1>b, JobTableAssumption DEF IInv, StopsRecorded, Reaped, TypeOK, Job, JobsAreChildren
<1>. QED  BY <1>1, <1>2, <1>3, <1>4, <1>5, <1>6, <1>7, <1>8, <1>9 DEF IInv

\* The loop body for a child that is gone: its one job is deleted.
LEMMA SigchldGoneStep ==
  ASSUME IInv, hand = "got", pc # "exited", NEW i \in Slots, jobs[i].pid = got.pid,
         got.status = "gone", Wake(i), DeleteJob(got.pid), hand' = "loop", got' = NothingReaped,
         UNCHANGED <<pc, cur, why, pend, kernelVars>>
  PROVE  IInv'
<1>. USE DEF Wake, kernelVars
<1>a. got.pid \in Pids /\ proc[got.pid] = "free"
  BY DEF IInv, GotOK
<1>b. pc # "forked"
  BY DEF IInv, CurOK
<1>c. jobs' = [jobs EXCEPT ![i] = ClearedJob] /\ nextjid' = MaxJid(jobs') + 1
  <2>1. PICK k \in GetJobPid(jobs, got.pid) :
          /\ jobs' = [jobs EXCEPT ![k] = ClearedJob]
          /\ nextjid' = MaxJid(jobs') + 1
    BY DEF DeleteJob
  <2>2. k = i
    BY <1>a, <2>1, GetJobPidFinds, JobTableAssumption DEF IInv, JobsAreChildren
  <2>. QED  BY <2>1, <2>2
<1>d. jobs' \in [Slots -> Job]
  BY <1>c DEF IInv, TypeOK, ClearedJob, Job, UNDEF
<1>e. nextjid' \in Nat \ {0}
  <2>1. MaxJid(jobs') \in Nat
    BY <1>d, MaxJidType, ZenonT(60)
  <2>. QED  BY <1>c, <2>1
<1>1. TypeOK'
  BY <1>a, <1>b, <1>c, <1>d, <1>e, JobTableAssumption DEF IInv, TypeOK, NothingReaped, HandlerPCs
<1>2. TableOK'
  BY <1>a, <1>b, <1>c, <1>d, <1>e, JobTableAssumption DEF IInv, TableOK, TypeOK, Job, UNDEF, ClearedJob
<1>3. CurOK'
  BY <1>a, <1>b, <1>c, <1>d, <1>e, JobTableAssumption DEF IInv, CurOK, Tracked
<1>4. GotOK'
  BY <1>a, <1>b, <1>c, <1>d, <1>e, JobTableAssumption, ZenonT(60) DEF IInv, GotOK
<1>5. UnrepOK'
  BY <1>a, <1>b, <1>c, <1>d, <1>e, JobTableAssumption DEF IInv, UnrepOK
<1>6. AtMostOneFG'
  BY <1>a, <1>b, <1>c, <1>d, <1>e, JobTableAssumption DEF IInv, AtMostOneFG, TypeOK, Job, FG, UNDEF, ClearedJob
<1>7. ForegroundWaited'
  BY <1>a, <1>b, <1>c, <1>d, <1>e, JobTableAssumption DEF IInv, ForegroundWaited, Tracked, Reaped, TypeOK, Job, FG, UNDEF, ClearedJob, AtMostOneFG
<1>8. JobsAreChildren'
  BY <1>a, <1>b, <1>c, <1>d, <1>e, JobTableAssumption DEF IInv, JobsAreChildren, Tracked, Reaped, TypeOK, Job, ClearedJob
<1>9. StopsRecorded'
  BY <1>a, <1>b, <1>c, <1>d, <1>e, JobTableAssumption DEF IInv, StopsRecorded, Reaped, TypeOK, Job, ClearedJob, JobsAreChildren
<1>. QED  BY <1>1, <1>2, <1>3, <1>4, <1>5, <1>6, <1>7, <1>8, <1>9 DEF IInv

\* One iteration of the loop of sigchld_handler.
LEMMA SigchldBodyStep ==
  ASSUME IInv, SigchldBody
  PROVE  IInv'
<1>1. hand = "got" /\ pc # "exited" /\ UNCHANGED <<pend, kernelVars>>
  BY DEF SigchldBody
<1>2. CASE Exit("job_not_found")
  <2>1. "job_not_found" \in Reasons
    BY DEF Reasons
  <2>. QED  BY <1>1, <1>2, <2>1, ExitStep DEF IInv, TypeOK
<1>3. ASSUME NEW i \in GetJobPid(jobs, got.pid), Wake(i),
             \/ got.status = "stopped" /\ SetState(i, ST)
             \/ got.status = "gone" /\ DeleteJob(got.pid),
             hand' = "loop", got' = NothingReaped, UNCHANGED <<pc, cur, why>>
      PROVE  IInv'
  <2>1. i \in Slots /\ jobs[i].pid = got.pid
    BY GetJobPidFinds
  <2>. QED  BY <1>1, <1>3, <2>1, SigchldStopStep, SigchldGoneStep, ZenonT(60)
<1>. QED  BY <1>2, <1>3 DEF SigchldBody

\* ctrl-c and ctrl-z forwarded by the shell.
LEMMA ForwardStep ==
  ASSUME IInv, NEW s \in KeyboardSignals, Forward(s)
  PROVE  IInv'
<1>1. pend' \subseteq {CHLD, INT, TSTP}
  BY DEF Forward, IInv, TypeOK
<1>2. CASE UNCHANGED <<shellVars, kernelVars>>
  <2>1. TypeOK' /\ UnrepOK'
    BY <1>1, <1>2 DEF IInv, TypeOK, UnrepOK, shellVars, kernelVars
  <2>. QED  BY <1>2, <2>1, EnvironmentStep DEF kernelVars
<1>3. ASSUME NEW p \in Pids, SendKeyboard(p, s), UNCHANGED shellVars
      PROVE  IInv'
  <2>1. TypeOK'
    BY <1>1, <1>3 DEF IInv, TypeOK, shellVars, SendKeyboard
  <2>2. UnrepOK'
    BY <1>3 DEF IInv, UnrepOK, SendKeyboard
  <2>. QED  BY <1>3, <2>1, <2>2, EnvironmentStep DEF SendKeyboard
<1>4. ASSUME NEW p \in Pids, KillError(p)
      PROVE  IInv'
  <2>1. "kill_before_setpgid" \in Reasons /\ "kill_after_reap" \in Reasons
    BY DEF Reasons
  <2>. QED  BY <1>1, <1>4, <2>1, ExitStep DEF KillError
<1>5. ASSUME NEW i \in FgSlot(jobs)
      PROVE  jobs[i].pid \in Pids
  BY FgSlotFinds DEF IInv, TypeOK, TableOK, Job, FG, UNDEF
<1>. QED  BY <1>2, <1>3, <1>4, <1>5 DEF Forward

\* ctrl-c and ctrl-z reach the shell.
LEMMA KeyboardStep ==
  ASSUME IInv, NEW s \in KeyboardSignals, Keyboard(s)
  PROVE  IInv'
<1>1. TypeOK' /\ UnrepOK'
  BY DEF Keyboard, IInv, TypeOK, UnrepOK, shellVars, KeyboardSignals, INT, TSTP, CHLD
<1>. QED  BY <1>1, EnvironmentStep DEF Keyboard

\* A step of a child.
LEMMA ChildStepOK ==
  ASSUME IInv, NEW p \in Pids, Child(p)
  PROVE  IInv'
<1>. USE DEF IInv, TypeOK, UnrepOK, shellVars, ProcStates, ChildStep
<1>1. CASE Setpgid(p)
  BY <1>1, EnvironmentStep DEF Setpgid
<1>2. CASE Execve(p)
  BY <1>2, EnvironmentStep DEF Execve
<1>3. CASE InheritedHandler(p)
  BY <1>3, EnvironmentStep DEF InheritedHandler
<1>4. CASE Die(p)
  BY <1>4, EnvironmentStep DEF Die
<1>5. CASE Stop(p)
  BY <1>5, EnvironmentStep DEF Stop
<1>. QED  BY <1>1, <1>2, <1>3, <1>4, <1>5 DEF Child

\* The invariant is inductive.
LEMMA NextIInv == IInv /\ [Next]_vars => IInv'
<1>. SUFFICES ASSUME IInv, [Next]_vars PROVE IInv'
  OBVIOUS
<1>1. CASE Shell
  <2>1. CASE Quit
    BY <2>1, ExitStep DEF Quit, Reasons, IInv, TypeOK
  <2>. QED  BY <1>1, <2>1, ForkStep, EvalAddStep, WaitfgReturnStep, DoBgfgStep DEF Shell
<1>2. CASE Handlers
  <2>1. CASE Sigquit
    BY <2>1, ExitStep DEF Sigquit, Reasons, IInv, TypeOK
  <2>. QED  BY <1>2, <2>1, SigchldEnterStep, WaitpidFindsStep, WaitpidEmptyStep,
                SigchldBodyStep, ForwardStep DEF Handlers
<1>3. CASE UNCHANGED vars
  <2>1. TypeOK' /\ UnrepOK'
    BY <1>3 DEF IInv, TypeOK, UnrepOK, vars, shellVars, kernelVars
  <2>. QED  BY <1>3, <2>1, EnvironmentStep DEF vars, kernelVars
<1>4. CASE Environment
  BY <1>3, <1>4, KeyboardStep, ChildStepOK DEF Environment, Exited
<1>. QED  BY <1>1, <1>2, <1>3, <1>4 DEF Next

\* Every reachable state of the shell satisfies the invariant.
LEMMA IInvInvariant == Spec => []IInv
BY InitIInv, NextIInv, PTL DEF Spec
-----------------------------------------------------------------------------
\* The types of the shell's state.
THEOREM TypeCorrect == Spec => []TypeOK
BY IInvInvariant, PTL DEF IInv

\* At most one job is in the foreground (tsh.c:35), for any number of jobs.
THEOREM OneForeground == Spec => []AtMostOneFG
BY IInvInvariant, PTL DEF IInv

\* waitfg waits exactly while there is a foreground job: no lost wakeup and
\* no prompt beside a running foreground job.
THEOREM ForegroundIsWaited == Spec => []ForegroundWaited
BY IInvInvariant, PTL DEF IInv

\* The job list names only unreaped children, each once.
THEOREM JobsTrackChildren == Spec => []JobsAreChildren
BY IInvInvariant, PTL DEF IInv

\* The ST mark and the kernel's view of stopped children agree.
THEOREM StopsAreRecorded == Spec => []StopsRecorded
BY IInvInvariant, PTL DEF IInv
-----------------------------------------------------------------------------
\* With a slot for every process, each child that waitpid can return has a
\* job, except the one eval has forked and not added yet.
AllTracked ==
  pc # "exited" =>
    \A p \in Pids : proc[p] # "free" \/ Reaped(p) =>
      Tracked(p) \/ (pc = "forked" /\ p = cur.pid)

\* A job list without an empty slot holds as many processes as it has slots.
LEMMA FullListNeedsMorePids ==
  ASSUME IInv, IsFiniteSet(Pids), Cardinality(Pids) <= MAXJOBS,
         \A i \in Slots : jobs[i].pid # NoPid, NEW p \in Pids
  PROVE  Tracked(p)
<1>. SUFFICES ASSUME ~Tracked(p) PROVE FALSE
  OBVIOUS
<1>. DEFINE f == [i \in Slots |-> jobs[i].pid]
<1>. DEFINE T == Pids \ {p}
<1>1. IsFiniteSet(T) /\ Cardinality(T) = Cardinality(Pids) - 1 /\ Cardinality(Pids) \in Nat
  BY FS_RemoveElement, FS_CardinalityType
<1>2. IsFiniteSet(Slots) /\ Cardinality(Slots) = MAXJOBS
  <2>1. 1 \in Int /\ MAXJOBS \in Int /\ ~(1 > MAXJOBS)
    BY JobTableAssumption
  <2>2. IsFiniteSet(1..MAXJOBS) /\ Cardinality(1..MAXJOBS) = MAXJOBS - 1 + 1
    BY <2>1, FS_Interval
  <2>. QED  BY <2>1, <2>2 DEF Slots
<1>3. f \in [Slots -> T]
  BY DEF IInv, TypeOK, Job, Tracked
<1>4. Cardinality(T) < Cardinality(Slots)
  BY <1>1, <1>2, JobTableAssumption
<1>5. PICK x, y \in Slots : x # y /\ f[x] = f[y]
  <2>. HIDE DEF f, T
  <2>. QED  BY <1>1, <1>2, <1>3, <1>4, FS_PigeonHole
<1>. QED  BY <1>5 DEF IInv, JobsAreChildren

\* A change of state leaves every slot with its process.
LEMMA SetStateKeepsPids ==
  ASSUME IInv, NEW i \in Slots, NEW st, SetState(i, st)
  PROVE  \A k \in Slots : jobs'[k].pid = jobs[k].pid
BY DEF SetState, IInv, TypeOK, Job

\* Every step keeps AllTracked, and none finds a check violated.
LEMMA NextAllTracked ==
  ASSUME IsFiniteSet(Pids), Cardinality(Pids) <= MAXJOBS,
         IInv, AllTracked, InternalChecksHold, [Next]_vars
  PROVE  AllTracked' /\ InternalChecksHold'
<1>. USE DEF AllTracked, InternalChecksHold, shellVars, kernelVars
<1>1. ASSUME NEW p \in Pids, NEW st \in {FG, BG}, Fork(p, st)
      PROVE  AllTracked' /\ InternalChecksHold'
  BY <1>1, ZenonT(60) DEF Fork, AtPrompt, Tracked, Reaped, IInv, TypeOK
<1>2. CASE EvalAdd
  <2>1. UNCHANGED <<hand, got, proc, why>> /\ pc = "forked" /\ cur.pid \in Pids
    BY <1>2, ZenonT(60) DEF EvalAdd, IInv, CurOK
  <2>2. CASE UNCHANGED jobs /\ \A i \in Slots : jobs[i].pid # NoPid
    BY <2>1, <2>2, FullListNeedsMorePids, ZenonT(60) DEF Tracked, Reaped
  <2>3. ASSUME NEW i \in Slots, jobs[i].pid = NoPid,
               jobs' = [jobs EXCEPT ![i] = [pid |-> cur.pid, jid |-> nextjid, state |-> cur.state]]
        PROVE  AllTracked' /\ InternalChecksHold'
    <3>1. \A p \in Pids : Tracked(p) => Tracked(p)'
      BY <2>3, JobTableAssumption, ZenonT(60) DEF Tracked, IInv, TypeOK
    <3>2. jobs'[i].pid = cur.pid
      BY <2>3, ZenonT(60) DEF IInv, TypeOK
    <3>. QED  BY <2>1, <3>1, <3>2 DEF Reaped, Tracked
  <2>. QED  BY <1>2, <2>2, <2>3, ZenonT(60) DEF EvalAdd, AddJob, First, tableVars
<1>3. CASE WaitfgReturn
  BY <1>3, ZenonT(60) DEF WaitfgReturn, Tracked, Reaped
<1>4. ASSUME NEW i \in NamedSlots, DoBgfg(i)
      PROVE  AllTracked' /\ InternalChecksHold'
  <2>1. i \in Slots /\ jobs[i].pid \in Pids /\ jobs[i].state \in {BG, ST}
    BY <1>4, NamedSlotsHoldJobs DEF DoBgfg, AtPrompt, IInv, ForegroundWaited, TypeOK, Job
  <2>2. CASE Bg(i) \/ Fg(i)
    <3>1. UNCHANGED <<hand, got, cur, why>> /\ pc # "forked"
      BY <1>4, <2>2, ZenonT(60) DEF Bg, Fg, DoBgfg, AtPrompt
    <3>2. \A p \in Pids : proc'[p] # "free" => proc[p] # "free"
      BY <2>1, <2>2, ZenonT(60) DEF Bg, Fg, SendCont, IInv, TypeOK
    <3>3. \A k \in Slots : jobs'[k].pid = jobs[k].pid
      <4>1. PICK st \in {BG, FG} : SetState(i, st)
        BY <2>2, ZenonT(60) DEF Bg, Fg
      <4>. QED  BY <2>1, <4>1, SetStateKeepsPids, ZenonT(60)
    <3>. QED  BY <3>1, <3>2, <3>3, <1>4, ZenonT(60) DEF Reaped, Tracked, DoBgfg, AtPrompt
  <2>. QED  BY <1>4, <2>1, <2>2, ZenonT(60) DEF DoBgfg, KillError, Exit
<1>5. CASE Quit \/ Sigquit
  BY <1>5, ZenonT(60) DEF Quit, Sigquit, Exit
<1>6. CASE SigchldEnter
  BY <1>6, ZenonT(60) DEF SigchldEnter, Deliverable, Tracked, Reaped
<1>7. ASSUME NEW p \in Pids, WaitpidFinds(p)
      PROVE  AllTracked' /\ InternalChecksHold'
  <2>1. pc \notin {"exited", "forked"} /\ proc[p] # "free" /\ UNCHANGED <<jobs, why>>
    BY <1>7 DEF WaitpidFinds, IInv, CurOK
  <2>2. \A q \in Pids : Tracked(q)' <=> Tracked(q)
    BY <2>1 DEF Tracked
  <2>3. \A q \in Pids : proc'[q] # "free" => proc[q] # "free"
    BY <1>7 DEF WaitpidFinds, IInv, TypeOK
  <2>4. got' = [pid |-> p, status |-> "gone"] \/ got' = [pid |-> p, status |-> "stopped"]
    BY <1>7, ZenonT(60) DEF WaitpidFinds
  <2>5. \A q \in Pids : Reaped(q)' => q = p
    <3>1. SUFFICES ASSUME NEW q \in Pids, got' = [pid |-> q, status |-> "gone"]
                   PROVE  q = p
      BY ZenonT(60) DEF Reaped
    <3>2. got'.pid = q /\ got'.pid = p
      BY <3>1, <2>4, ZenonT(60)
    <3>. QED  BY <3>2
  <2>. QED  BY <2>1, <2>2, <2>3, <2>5, ZenonT(60)
<1>8. CASE WaitpidEmpty
  BY <1>8, ZenonT(60) DEF WaitpidEmpty, Tracked, Reaped
<1>9. CASE SigchldBody
  <2>1. hand = "got" /\ pc \notin {"exited", "forked"} /\ UNCHANGED <<cur, proc>>
    BY <1>9, ZenonT(60) DEF SigchldBody, Exit, IInv, CurOK
  <2>2. got.pid \in Pids /\ (proc[got.pid] # "free" \/ Reaped(got.pid))
    BY <2>1 DEF IInv, GotOK, TypeOK, Reaped
  <2>3. GetJobPid(jobs, got.pid) # {}
    BY <2>1, <2>2, GetJobPidFails DEF Tracked
  <2>4. hand' = "loop" /\ UNCHANGED <<pc, why>>
    BY <1>9, <2>3 DEF SigchldBody
  <2>5. ASSUME NEW p \in Pids, proc[p] # "free" PROVE Tracked(p)'
    <3>1. Tracked(p)
      BY <2>1, <2>5
    <3>2. CASE got.status = "stopped"
      <4>1. PICK i \in Slots : SetState(i, ST)
        BY <1>9, <2>3, <3>2, GetJobPidFinds, ZenonT(60) DEF SigchldBody
      <4>2. \A k \in Slots : jobs'[k].pid = jobs[k].pid
        BY <4>1, SetStateKeepsPids, ZenonT(60)
      <4>. QED  BY <3>1, <4>2 DEF Tracked
    <3>3. CASE got.status = "gone"
      <4>1. DeleteJob(got.pid) /\ proc[got.pid] = "free"
        BY <1>9, <2>1, <2>3, <3>3, ZenonT(60) DEF SigchldBody, IInv, GotOK
      <4>2. PICK i \in GetJobPid(jobs, got.pid) : jobs' = [jobs EXCEPT ![i] = ClearedJob]
        <5>1. PICK k \in Slots : k \in GetJobPid(jobs, got.pid) /\ jobs[k].pid = got.pid
          BY <2>3, GetJobPidFinds, ZenonT(60)
        <5>. QED  BY <4>1, <5>1 DEF DeleteJob
      <4>3. i \in Slots /\ jobs[i].pid # p
        <5>1. i \in Slots /\ jobs[i].pid = got.pid
          BY <4>2, GetJobPidFinds
        <5>. QED  BY <4>1, <2>5, <5>1
      <4>. QED  BY <3>1, <4>2, <4>3 DEF Tracked, IInv, TypeOK
    <3>. QED  BY <2>1, <3>2, <3>3 DEF IInv, GotOK
  <2>. QED  BY <2>1, <2>4, <2>5 DEF Reaped
<1>10. ASSUME NEW s \in KeyboardSignals, Forward(s)
       PROVE  AllTracked' /\ InternalChecksHold'
  BY <1>10, ZenonT(60) DEF Forward, SendKeyboard, KillError, Exit, Tracked, Reaped
<1>11. ASSUME NEW s \in KeyboardSignals, Keyboard(s)
       PROVE  AllTracked' /\ InternalChecksHold'
  BY <1>11 DEF Keyboard, Tracked, Reaped
<1>12. ASSUME NEW p \in Pids, Child(p)
       PROVE  AllTracked' /\ InternalChecksHold'
  <2>1. UNCHANGED shellVars /\ \A q \in Pids : proc'[q] # "free" => proc[q] # "free"
    BY <1>12 DEF Child, Setpgid, Execve, InheritedHandler, Die, Stop, ChildStep, IInv, TypeOK
  <2>. QED  BY <2>1 DEF Tracked, Reaped
<1>13. CASE UNCHANGED vars
  BY <1>13, ZenonT(60) DEF vars, Tracked, Reaped
<1>. QED  BY <1>1, <1>2, <1>3, <1>4, <1>5, <1>6, <1>7, <1>8, <1>9, <1>10, <1>11, <1>12, <1>13, ZenonT(60)
          DEF Next, Shell, Handlers, Environment, Exited

\* With at most MAXJOBS processes at a time, the shell's own checks in
\* do_bgfg and sigchld_handler never fail.
THEOREM ChecksHold ==
  ASSUME IsFiniteSet(Pids), Cardinality(Pids) <= MAXJOBS
  PROVE  Spec => []InternalChecksHold
<1>1. Init => AllTracked /\ InternalChecksHold
  BY DEF Init, AllTracked, InternalChecksHold, Reaped
<1>2. IInv /\ AllTracked /\ InternalChecksHold /\ [Next]_vars
        => (AllTracked /\ InternalChecksHold)'
  BY NextAllTracked
<1>. QED  BY <1>1, <1>2, IInvInvariant, PTL DEF Spec
=============================================================================
