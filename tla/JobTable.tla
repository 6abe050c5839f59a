------------------------------ MODULE JobTable ------------------------------
(***************************************************************************)
(* The job list of the tiny shell (labs/07_shlab/shlab-handout/tsh.c):     *)
(* the array jobs[MAXJOBS], the counter nextjid, and the helper routines   *)
(* that read and update them.  A routine of tsh.c that takes the list as   *)
(* an argument is an operator that takes the list; one that changes it is  *)
(* an action on the variables jobs and nextjid.                            *)
(***************************************************************************)
EXTENDS Naturals, FiniteSets, FiniteSetsExt

CONSTANTS
  Pids,      \* process ids the kernel may hand out
  NoPid,     \* the pid 0 of an empty slot
  MAXJOBS,   \* length of the job list (16 in tsh.c)
  JidBound   \* jobs get ids up to this bound in the model

ASSUME JobTableAssumption ==
  /\ NoPid \notin Pids
  /\ MAXJOBS \in Nat \ {0}
  /\ JidBound \in Nat \ {0}

Slots == 1..MAXJOBS

\* Job states; UNDEF marks an empty slot.
UNDEF == "UNDEF"
FG == "FG"
BG == "BG"
ST == "ST"

Job == [pid : Pids \cup {NoPid}, jid : Nat, state : {UNDEF, FG, BG, ST}]

VARIABLES
  jobs,      \* the job list
  nextjid    \* next job id to allocate

tableVars == <<jobs, nextjid>>
-----------------------------------------------------------------------------
\* clearjob: what it leaves in a slot.
ClearedJob == [pid |-> NoPid, jid |-> 0, state |-> UNDEF]

\* The slots a linear search for the first slot satisfying P ends on: one
\* slot, or none.
First(P(_)) == {i \in Slots : P(i) /\ \A j \in Slots : j < i => ~P(j)}

\* initjobs
InitJobs ==
  /\ jobs = [i \in Slots |-> ClearedJob]
  /\ nextjid = 1

\* maxjid: the largest allocated job id, 0 when the list is empty.
MaxJid(js) == Max({js[i].jid : i \in Slots} \cup {0})

\* fgpid: the slot of the first foreground job.
FgSlot(js) == First(LAMBDA i : js[i].state = FG)

\* getjobpid
GetJobPid(js, p) == First(LAMBDA i : js[i].pid = p)

\* getjobjid (a jid below 1 finds nothing)
GetJobJid(js, n) == {i \in First(LAMBDA k : js[k].jid = n) : n >= 1}

\* pid2jid: the job id of process p, 0 when it has no job.
Pid2Jid(js, p) ==
  IF \E i \in Slots : js[i].pid = p
    THEN js[CHOOSE i \in GetJobPid(js, p) : TRUE].jid
    ELSE 0

\* nextjid++, then back to 1 when it has passed MAXJOBS.
BumpJid == nextjid' = IF nextjid + 1 > MAXJOBS THEN 1 ELSE nextjid + 1

\* addjob: the first empty slot takes the job; with no empty slot the list
\* does not change and the job is refused.
AddJob(p, st) ==
  \/ \E i \in First(LAMBDA k : jobs[k].pid = NoPid) :
       /\ jobs' = [jobs EXCEPT ![i] = [pid |-> p, jid |-> nextjid, state |-> st]]
       /\ BumpJid
  \/ /\ \A i \in Slots : jobs[i].pid # NoPid
     /\ UNCHANGED tableVars

\* deletejob: the first slot of process p is cleared and nextjid becomes
\* one more than the largest id left; without such a slot nothing changes.
DeleteJobNotCleared(p) == jobs' = jobs /\ nextjid' = MaxJid(jobs) + 1
DeleteJob(p) ==
  \/ \E i \in GetJobPid(jobs, p) :
       /\ jobs' = [jobs EXCEPT ![i] = ClearedJob]
       /\ nextjid' = MaxJid(jobs') + 1
  \/ /\ \A i \in Slots : jobs[i].pid # p
     /\ UNCHANGED tableVars

\* What the shell does to a job it has found: a new state.
SetState(i, st) ==
  /\ jobs' = [jobs EXCEPT ![i].state = st]
  /\ UNCHANGED nextjid
-----------------------------------------------------------------------------
(* The list on its own: children are added and deleted in any order.       *)

TableNext ==
  \/ \E p \in Pids :
       /\ \A i \in Slots : jobs[i].pid # p
       /\ nextjid <= JidBound
       /\ AddJob(p, BG)
  \/ \E p \in Pids : (\E i \in Slots : jobs[i].pid = p) /\ DeleteJob(p)

TableSpec == InitJobs /\ [][TableNext]_tableVars

\* pid2jid and getjobjid are inverse: the id that the shell prints for a
\* job ("[%d] (%d) %s") names that job in a later bg or fg.
JobIdNamesJob ==
  \A p \in Pids : \A i \in GetJobPid(jobs, p) :
    i \in GetJobJid(jobs, Pid2Jid(jobs, p))
=============================================================================
