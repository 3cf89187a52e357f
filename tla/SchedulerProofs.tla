-------------------------- MODULE SchedulerProofs --------------------------
(***************************************************************************)
(* Proofs about Scheduler, for any tasks, transitions, projects and         *)
(* processes.                                                               *)
(***************************************************************************)
EXTENDS Scheduler, FiniteSetTheorems, WellFoundedInduction, TLAPS

(* Where a scheduler is inside the lock section, and where it has a job.    *)
Locked == {"focus", "consider", "apply", "commit"}
Running == {"run", "loaded", "permitted", "admitted", "working"}
WithJob == {"apply", "commit", "run", "loaded", "permitted", "admitted", "working"}

(* A job has a task and a transition from its creation on; an absent one    *)
(* has no attempts and no delivery, and starts follow their admission.      *)
JobBound(j) ==
    /\ jobs[j].creation = "none" => jobs[j].status = "absent"
    /\ jobs[j].creation # "none" => jobs[j].task \in Tasks /\ jobs[j].edge \in Transitions
    /\ jobs[j].status = "absent" => jobs[j].admitted = 0 /\ jobs[j].acceptance = "none"
    /\ jobs[j].acceptance = "committed" => jobs[j].delivered
    /\ jobs[j].delivered => jobs[j].acceptance # "none"
    /\ jobs[j].attempts <= jobs[j].admitted

(* What a scheduler process in state x is about is in the given jobs.       *)
Bound(s, x, js) ==
    /\ x.pc \in WithJob => /\ x.job \in Jobs /\ js[x.job].creation # "none"
                           /\ Home[js[x.job].task] = Serves[s]
    /\ x.pc \in WithJob \ {"apply"} => js[x.job].status # "absent"
    /\ x.pc \in {"focus", "consider"} => x.view \in Vaults
    /\ x.pc = "consider" => x.queue \subseteq TasksOf(Serves[s])
    /\ x.pc = "loading" => \A j \in x.todo : js[j].creation # "none"
    /\ x.pc = "recovering" => \A j \in x.todo : js[j].acceptance # "none"

LockHeld == \A s \in Schedulers : op[s].pc \in Locked => lock = s

(* A job whose creation is being applied has at most been recovered and     *)
(* failed by others; nobody runs it.                                        *)
Applying(s) == op[s].pc = "apply" =>
    /\ jobs[op[s].job].status \in {"absent", "pending", "failed"}
    /\ jobs[op[s].job].acceptance = "none" /\ jobs[op[s].job].admitted = 0
    /\ \A u \in Schedulers : op[u].pc \in Running => op[u].job # op[s].job

TBase ==
    /\ TypeOK /\ LockHeld
    /\ \A j \in Jobs : JobBound(j)
    /\ \A s \in Schedulers : Bound(s, op[s], jobs) /\ Applying(s)

(* An executor is the only one of its job; one that may start a worker has  *)
(* found room for it, and the record it has written is the next one.        *)
Ready(s) == op[s].pc \in Executing =>
    /\ \A u \in Schedulers : op[u].pc \in Executing /\ op[u].job = op[s].job => u = s
    /\ op[s].pc \in {"permitted", "admitted"} => jobs[op[s].job].attempts < MaxTotal
    /\ op[s].pc = "admitted" =>
         jobs[op[s].job].admitted = jobs[op[s].job].attempts + 1

TInv == TBase /\ \A s \in Schedulers : Ready(s)

-----------------------------------------------------------------------------
LEMMA Smallest ==
  ASSUME NEW S, S \subseteq Nat, S # {}
  PROVE  \E n \in S : \A m \in S : n <= m
<1>1. PICK n \in S : \A m \in S : ~ (<<m, n>> \in OpToRel(<, Nat))
  BY WFMin, NatLessThanWellFounded
<1>2. \A m \in S : ~ (m < n)
  <2> SUFFICES ASSUME NEW m \in S, m < n PROVE <<m, n>> \in OpToRel(<, Nat)
    BY <1>1
  <2>1. <<m, n>> \in Nat \X Nat /\ <<m, n>>[1] = m /\ <<m, n>>[2] = n
    BY <1>1
  <2> QED  BY <2>1 DEF OpToRel
<1>3. n \in Nat /\ \A m \in S : m \in Nat
  BY <1>1
<1>4. \A m \in S : n <= m
  BY <1>2, <1>3
<1> QED
  BY <1>1, <1>4

(* The first task of some in board order is one of them.                    *)
LEMMA FirstIsOne ==
  ASSUME NEW ts, ts \subseteq Tasks, ts # {}
  PROVE  First(ts) \in ts
<1>1. \E n \in {Board[t] : t \in ts} : \A m \in {Board[t] : t \in ts} : n <= m
  <2>1. {Board[t] : t \in ts} \subseteq Nat /\ {Board[t] : t \in ts} # {}
    BY BoardAssumption
  <2> QED  BY <2>1, Smallest
<1>2. \E t \in ts : \A u \in ts : Board[t] <= Board[u]
  BY <1>1
<1> QED
  BY <1>2 DEF First

LEMMA FreshIsJob ==
  ASSUME FreshJobs # {}
  PROVE  Min(FreshJobs) \in Jobs /\ jobs[Min(FreshJobs)].creation = "none"
<1>1. FreshJobs \subseteq Nat
  <2>1. Cardinality(Jobs) \in Nat
    BY JobsAssumption, FS_CardinalityType
  <2> QED  BY <2>1, JobsAssumption DEF FreshJobs
<1>2. \E n \in FreshJobs : \A m \in FreshJobs : n <= m
  BY <1>1, Smallest
<1>3. Min(FreshJobs) \in FreshJobs
  BY <1>2 DEF Min
<1> QED
  BY <1>3 DEF FreshJobs

LEMMA StampTyped == Stamp \in Nat
<1>1. {j \in Jobs : jobs[j].settled > 0} \in SUBSET Jobs
  OBVIOUS
<1>2. Cardinality({j \in Jobs : jobs[j].settled > 0}) \in Nat
  BY <1>1, JobsAssumption, FS_Subset, FS_CardinalityType
<1> QED
  BY <1>2 DEF Stamp

LEMMA RecordTypes ==
  ASSUME TInv, NEW j \in Jobs
  PROVE  /\ jobs[j] \in JobRecord /\ JobBound(j)
         /\ jobs[j].status \in {"absent", "pending", "running", "completion_submitted",
                                "completion_rejected", "accepted", "failed"}
         /\ jobs[j].creation \in {"none", "prepared", "committed", "failed"}
         /\ jobs[j].acceptance \in {"none", "prepared", "committed"}
         /\ jobs[j].attempts \in 0..MaxTotal /\ jobs[j].admitted \in 0..MaxTotal
         /\ jobs[j].attempts <= jobs[j].admitted /\ jobs[j].delivered \in BOOLEAN
         /\ jobs[j].revision \in 0..MaxRevision
         /\ jobs[j].edge \in Transitions \cup {NoEdge} /\ jobs[j].settled \in Nat
         /\ jobs[j].recent \in BOOLEAN
  BY DEF TInv, TBase, TypeOK, JobRecord, JobBound

LEMMA OpTypes ==
  ASSUME TInv, NEW s \in Schedulers
  PROVE  /\ op[s] \in SchedulerState /\ Bound(s, op[s], jobs) /\ Applying(s)
         /\ op[s].todo \subseteq Jobs /\ op[s].past \subseteq Jobs /\ op[s].queue \subseteq Tasks
         /\ Ready(s)
         /\ op[s].view \in Vaults \cup {<<>>} /\ op[s].job \in Jobs \cup {NoJob}
         /\ op[s].pc \in {"gone", "idle", "loading", "recovering", "focus", "consider", "apply",
                          "commit", "run", "loaded", "permitted", "admitted", "working"}
  BY DEF TInv, TBase, TypeOK, SchedulerState

LEMMA IdleTyped ==
  ASSUME NEW past \in SUBSET Jobs
  PROVE  Idle(past) \in SchedulerState /\ Idle(past).pc = "idle"
  BY DEF Idle, SchedulerState

LEMMA IdleAtTyped ==
  ASSUME NEW past \in SUBSET Jobs, NEW pc \in {"gone", "idle"}
  PROVE  /\ [Idle(past) EXCEPT !.pc = pc] \in SchedulerState
         /\ [Idle(past) EXCEPT !.pc = pc].pc = pc
  BY DEF Idle, SchedulerState

LEMMA IdleWithTyped ==
  ASSUME NEW past \in SUBSET Jobs, NEW j \in Jobs
  PROVE  /\ [Idle(past) EXCEPT !.pc = "run", !.job = j] \in SchedulerState
         /\ [Idle(past) EXCEPT !.pc = "run", !.job = j].pc = "run"
         /\ [Idle(past) EXCEPT !.pc = "run", !.job = j].job = j
  BY DEF Idle, SchedulerState

LEMMA InitTyped == Init => TInv
<1> SUFFICES ASSUME Init PROVE TInv
  OBVIOUS
<1>1. NewRecord \in JobRecord /\ NewRecord.creation = "none" /\ NewRecord.status = "absent"
      /\ NewRecord.admitted = 0 /\ NewRecord.attempts = 0 /\ NewRecord.acceptance = "none"
      /\ ~ NewRecord.delivered
  BY BoundsAssumption DEF NewRecord, JobRecord
<1>2. Idle({}) \in SchedulerState /\ Idle({}).pc = "idle"
  BY IdleTyped
<1>3. vault \in Vaults
  BY WorkflowAssumption, BoundsAssumption DEF Init, Vaults
<1>4. TypeOK
  BY <1>1, <1>2, <1>3, BoundsAssumption DEF Init, TypeOK
<1>5. \A j \in Jobs : JobBound(j)
  BY <1>1 DEF Init, JobBound
<1>6. \A s \in Schedulers : Bound(s, op[s], jobs) /\ Applying(s)
  BY <1>2 DEF Init, Bound, Applying, WithJob, Running
<1>7. LockHeld
  BY <1>2 DEF Init, LockHeld, Locked
<1>8. \A s \in Schedulers : Ready(s)
  BY <1>2 DEF Init, Ready, Executing
<1> QED
  BY <1>4, <1>5, <1>6, <1>7, <1>8 DEF TInv, TBase

-----------------------------------------------------------------------------
(* What every step does to the jobs: what has been created stays of the     *)
(* task, the transition and the revision it was created for.                *)
JobsKeep ==
    /\ jobs' \in [Jobs -> JobRecord]
    /\ \A j \in Jobs :
         /\ JobBound(j)'
         /\ jobs[j].creation # "none" =>
              /\ jobs'[j].creation # "none" /\ jobs'[j].task = jobs[j].task
              /\ jobs'[j].edge = jobs[j].edge /\ jobs'[j].revision = jobs[j].revision
         /\ jobs[j].status # "absent" => jobs'[j].status # "absent"
         /\ jobs[j].acceptance # "none" => jobs'[j].acceptance # "none"
         /\ jobs[j].delivered => jobs'[j].delivered

LEMMA NothingKeeps ==
  ASSUME TInv, UNCHANGED jobs
  PROVE  JobsKeep
  BY DEF TInv, TBase, TypeOK, JobsKeep, JobBound

(* A new record of a job that has been created.                             *)
Succeeds(j, r) ==
    /\ r \in JobRecord
    /\ r.creation # "none" /\ r.task = jobs[j].task /\ r.edge = jobs[j].edge
    /\ r.revision = jobs[j].revision
    /\ jobs[j].status # "absent" => r.status # "absent"
    /\ r.status = "absent" => r.admitted = 0 /\ r.acceptance = "none"
    /\ r.acceptance = "committed" => r.delivered
    /\ r.delivered => r.acceptance # "none"
    /\ jobs[j].delivered => r.delivered
    /\ r.attempts <= r.admitted
    /\ jobs[j].acceptance # "none" => r.acceptance # "none"

LEMMA OneKeeps ==
  ASSUME TInv, NEW j \in Jobs, jobs[j].creation # "none", NEW r, Succeeds(j, r),
         jobs' = [jobs EXCEPT ![j] = r]
  PROVE  JobsKeep
<1>1. jobs \in [Jobs -> JobRecord]
  BY DEF TInv, TBase, TypeOK
<1>2. jobs' \in [Jobs -> JobRecord]
  BY <1>1 DEF Succeeds
<1>3. \A k \in Jobs : jobs'[k] = IF k = j THEN r ELSE jobs[k]
  BY <1>1
<1>4. \A k \in Jobs : k # j => JobBound(k)'
  BY <1>3 DEF TInv, TBase, JobBound
<1>5. JobBound(j)'
  BY <1>3, RecordTypes DEF JobBound, Succeeds
<1> QED
  BY <1>2, <1>3, <1>4, <1>5 DEF JobsKeep, Succeeds

(* A step of one process.                                                   *)
LEMMA OpMoves ==
  ASSUME TInv, NEW s \in Schedulers, NEW x \in SchedulerState, op' = [op EXCEPT ![s] = x],
         JobsKeep, Bound(s, x, jobs'),
         x.pc \in Locked => lock' = s,
         \A u \in Schedulers \ {s} : lock = u => lock' = u
  PROVE  /\ op' \in [Schedulers -> SchedulerState] /\ LockHeld'
         /\ \A u \in Schedulers : Bound(u, op'[u], jobs')
<1>1. op \in [Schedulers -> SchedulerState]
  BY DEF TInv, TBase, TypeOK
<1>2. op' \in [Schedulers -> SchedulerState] /\ \A u \in Schedulers \ {s} : op'[u] = op[u]
  BY <1>1
<1>3. op'[s] = x
  BY <1>1
<1>4. LockHeld'
  BY <1>2, <1>3 DEF TInv, TBase, LockHeld
<1>5. ASSUME NEW u \in Schedulers \ {s} PROVE Bound(u, op[u], jobs')
  <2>1. Bound(u, op[u], jobs) /\ op[u].todo \subseteq Jobs
    BY OpTypes
  <2> QED
    BY <2>1 DEF Bound, JobsKeep, WithJob, Running
<1> QED
  BY <1>2, <1>3, <1>4, <1>5

(* What process s going to state x leaves to those that apply a creation,   *)
(* and what it may itself begin to apply.                                   *)
OthersApply(s, x) ==
    \A u \in Schedulers \ {s} : op[u].pc = "apply" =>
        /\ jobs'[op[u].job].status \in {"absent", "pending", "failed"}
        /\ jobs'[op[u].job].acceptance = "none" /\ jobs'[op[u].job].admitted = 0
        /\ x.pc \in Running => x.job # op[u].job

BeginsApply(s, x) == x.pc = "apply" =>
    /\ jobs'[x.job].status \in {"absent", "pending", "failed"}
    /\ jobs'[x.job].acceptance = "none" /\ jobs'[x.job].admitted = 0
    /\ \A u \in Schedulers \ {s} : op[u].pc \in Running => op[u].job # x.job

LEMMA ApplyingKept ==
  ASSUME TInv, NEW s \in Schedulers, NEW x, op' = [op EXCEPT ![s] = x],
         OthersApply(s, x), BeginsApply(s, x)
  PROVE  \A u \in Schedulers : Applying(u)'
<1>1. op \in [Schedulers -> SchedulerState]
  BY DEF TInv, TBase, TypeOK
<1>2. \A u \in Schedulers \ {s} : op'[u] = op[u]
  BY <1>1
<1>3. op'[s] = x
  BY <1>1
<1>4. ASSUME NEW u \in Schedulers \ {s} PROVE Applying(u)'
  BY <1>2, <1>3, OpTypes DEF Applying, OthersApply, Running
<1>5. Applying(s)'
  BY <1>2, <1>3 DEF Applying, BeginsApply, Running
<1> QED
  BY <1>4, <1>5

LEMMA TInvWhole ==
  ASSUME TInv, JobsKeep, vault' \in Vaults, lock' \in Schedulers \cup {Free},
         op' \in [Schedulers -> SchedulerState], LockHeld',
         edits' \in 0..MaxEdits, crashes' \in 0..MaxCrashes,
         \A u \in Schedulers : Bound(u, op'[u], jobs') /\ Applying(u)'
  PROVE  TBase'
  BY DEF TInv, TBase, TypeOK, JobsKeep

(* Inside the lock section a process is alone, and a run is of a job whose  *)
(* creation is not being applied.                                           *)
LEMMA LockedAlone ==
  ASSUME TInv, NEW s \in Schedulers, op[s].pc \in Locked, NEW u \in Schedulers \ {s}
  PROVE  op[u].pc \notin Locked
  BY DEF TInv, TBase, LockHeld

LEMMA RunApart ==
  ASSUME TInv, NEW s \in Schedulers, op[s].pc \in Running, NEW u \in Schedulers,
         op[u].pc = "apply"
  PROVE  op[s].job # op[u].job
  BY OpTypes DEF Applying, Running

-----------------------------------------------------------------------------
(* All that a step of process s to state x must be for the invariant.       *)
Stepped(s, x) ==
    /\ x \in SchedulerState /\ op' = [op EXCEPT ![s] = x]
    /\ JobsKeep /\ Bound(s, x, jobs')
    /\ lock' \in Schedulers \cup {Free}
    /\ x.pc \in Locked => lock' = s
    /\ \A u \in Schedulers \ {s} : lock = u => lock' = u
    /\ vault' \in Vaults /\ edits' \in 0..MaxEdits /\ crashes' \in 0..MaxCrashes

LEMMA SteppedTyped ==
  ASSUME TInv, NEW s \in Schedulers, NEW x, Stepped(s, x), OthersApply(s, x), BeginsApply(s, x)
  PROVE  TBase' /\ JobsKeep
<1>1. /\ op' \in [Schedulers -> SchedulerState] /\ LockHeld'
      /\ \A u \in Schedulers : Bound(u, op'[u], jobs')
  BY OpMoves DEF Stepped
<1>2. \A u \in Schedulers : Applying(u)'
  BY ApplyingKept DEF Stepped
<1> QED
  BY <1>1, <1>2, TInvWhole DEF Stepped

LEMMA SteppedElsewhere ==
  ASSUME TInv, NEW s \in Schedulers, NEW x, Stepped(s, x), OthersApply(s, x), x.pc # "apply"
  PROVE  TBase' /\ JobsKeep
  BY SteppedTyped DEF BeginsApply, Running

(* A step that touches no job.                                              *)
LEMMA QuietApply ==
  ASSUME TInv, NEW s \in Schedulers, UNCHANGED jobs, NEW x, x.pc \notin Running
  PROVE  OthersApply(s, x)
  BY OpTypes DEF OthersApply, Applying, Running

LEMMA LockedApply ==
  ASSUME TInv, NEW s \in Schedulers, op[s].pc \in Locked, NEW x
  PROVE  OthersApply(s, x)
  BY LockedAlone DEF OthersApply, Locked, Running

(* A run writes its own job.                                                *)
LEMMA RunApply ==
  ASSUME TInv, NEW s \in Schedulers, op[s].pc \in Running, NEW r,
         jobs' = [jobs EXCEPT ![op[s].job] = r],
         NEW x, x.pc \in Running => x.job = op[s].job
  PROVE  OthersApply(s, x)
<1> SUFFICES ASSUME NEW u \in Schedulers \ {s}, op[u].pc = "apply"
             PROVE  /\ jobs'[op[u].job] = jobs[op[u].job] /\ op[s].job # op[u].job
                    /\ Applying(u)
  BY DEF OthersApply, Applying, Running
<1>1. op[s].job # op[u].job
  BY RunApart
<1>2. jobs \in [Jobs -> JobRecord] /\ op[u].job \in Jobs
  BY OpTypes DEF TInv, TBase, TypeOK, Bound, WithJob, Running
<1> QED
  BY <1>1, <1>2, OpTypes

LEMMA VariableTypes ==
  ASSUME TInv
  PROVE  /\ vault \in Vaults /\ jobs \in [Jobs -> JobRecord] /\ lock \in Schedulers \cup {Free}
         /\ op \in [Schedulers -> SchedulerState]
         /\ edits \in 0..MaxEdits /\ crashes \in 0..MaxCrashes
  BY DEF TInv, TBase, TypeOK

(* Which processes have the lock when it changes hands.                     *)
LEMMA LockReleased ==
  ASSUME TInv, NEW s \in Schedulers, op[s].pc \in Locked
  PROVE  lock = s
  BY DEF TInv, TBase, LockHeld

-----------------------------------------------------------------------------
LEMMA LoadTyped ==
  ASSUME TInv, NEW s \in Schedulers, LoadContext(s)
  PROVE  TBase' /\ JobsKeep
<1> DEFINE x == [op[s] EXCEPT
         !.pc = "loading",
         !.todo = {j \in Jobs : jobs[j].creation = "prepared" /\ Home[jobs[j].task] = Serves[s]},
         !.past = IF s \in Daemons THEN @ ELSE Failed(Jobs)]
<1>1. Failed(Jobs) \subseteq Jobs
  BY DEF Failed
<1>2. x \in SchedulerState /\ x.pc = "loading"
      /\ x.todo = {j \in Jobs : jobs[j].creation = "prepared" /\ Home[jobs[j].task] = Serves[s]}
  BY <1>1, OpTypes DEF SchedulerState
<1>3. op' = [op EXCEPT ![s] = x]
  BY VariableTypes DEF LoadContext
<1> HIDE DEF x
<1>4. JobsKeep
  BY NothingKeeps DEF LoadContext
<1>5. Bound(s, x, jobs')
  BY <1>2 DEF Bound, WithJob, LoadContext, Running
<1>6. Stepped(s, x)
  BY <1>2, <1>3, <1>4, <1>5, VariableTypes DEF Stepped, LoadContext, Locked
<1>7. OthersApply(s, x)
  BY <1>2, QuietApply DEF LoadContext, Running
<1> QED
  BY <1>2, <1>6, <1>7, SteppedElsewhere

LEMMA RecreatedSucceeds ==
  ASSUME TInv, NEW j \in Jobs, jobs[j].creation # "none"
  PROVE  /\ Succeeds(j, RecreatedIfFree(j))
         /\ RecreatedIfFree(j).acceptance = jobs[j].acceptance
         /\ RecreatedIfFree(j).attempts = jobs[j].attempts
         /\ RecreatedIfFree(j).admitted = jobs[j].admitted
         /\ RecreatedIfFree(j).delivered = jobs[j].delivered
         /\ \/ RecreatedIfFree(j).status = jobs[j].status
            \/ jobs[j].status = "absent" /\ RecreatedIfFree(j).status = "pending"
  BY RecordTypes DEF RecreatedIfFree, Succeeds, JobRecord, JobBound

LEMMA RecoverCreationTyped ==
  ASSUME TInv, NEW s \in Schedulers, NEW j \in Jobs, RecoverCreation(s, j)
  PROVE  TBase' /\ JobsKeep
<1> DEFINE x == [op[s] EXCEPT !.todo = @ \ {j}]
<1> DEFINE r == RecreatedIfFree(j)
<1>1. op[s].pc = "loading" /\ jobs[j].creation # "none"
  BY OpTypes DEF RecoverCreation, At, Bound
<1>2. x \in SchedulerState /\ x.pc = "loading" /\ x.todo = op[s].todo \ {j}
  BY <1>1, OpTypes DEF SchedulerState
<1>3. op' = [op EXCEPT ![s] = x] /\ jobs' = [jobs EXCEPT ![j] = r]
  BY VariableTypes DEF RecoverCreation
<1>a. /\ Succeeds(j, r) /\ r.acceptance = jobs[j].acceptance /\ r.admitted = jobs[j].admitted
      /\ \/ r.status = jobs[j].status
         \/ jobs[j].status = "absent" /\ r.status = "pending"
  BY <1>1, RecreatedSucceeds
<1> HIDE DEF x, r
<1>4. JobsKeep
  BY <1>1, <1>3, <1>a, OneKeeps
<1>5. Bound(s, x, jobs')
  BY <1>1, <1>2, <1>4, OpTypes DEF Bound, WithJob, JobsKeep, Running
<1>6. Stepped(s, x)
  BY <1>2, <1>3, <1>4, <1>5, VariableTypes DEF Stepped, RecoverCreation, Locked
<1>7. OthersApply(s, x)
  <2> SUFFICES ASSUME NEW u \in Schedulers \ {s}, op[u].pc = "apply"
               PROVE  /\ jobs'[op[u].job].status \in {"absent", "pending", "failed"}
                      /\ jobs'[op[u].job].acceptance = "none" /\ jobs'[op[u].job].admitted = 0
    BY <1>2 DEF OthersApply, Running
  <2>1. op[u].job \in Jobs /\ Applying(u)
    BY OpTypes DEF Bound, WithJob, Running
  <2> QED
    BY <1>3, <1>a, <2>1, VariableTypes DEF Applying, Running
<1> QED
  BY <1>2, <1>6, <1>7, SteppedElsewhere

LEMMA ListAcceptancesTyped ==
  ASSUME TInv, NEW s \in Schedulers, ListAcceptances(s)
  PROVE  TBase' /\ JobsKeep
<1> DEFINE todo == {j \in Listed(Serves[s]) : /\ jobs[j].acceptance # "none"
                                              /\ jobs[j].status # "accepted"}
<1> DEFINE x == [op[s] EXCEPT !.pc = "recovering", !.todo = todo]
<1>1. todo \subseteq Jobs
  BY DEF Listed, Recorded
<1>2. x \in SchedulerState /\ x.pc = "recovering" /\ x.todo = todo
  BY <1>1, OpTypes DEF SchedulerState
<1>3. op' = [op EXCEPT ![s] = x]
  BY VariableTypes DEF ListAcceptances
<1> HIDE DEF x
<1>4. JobsKeep
  BY NothingKeeps DEF ListAcceptances
<1>5. Bound(s, x, jobs')
  BY <1>2 DEF Bound, WithJob, ListAcceptances, Running
<1>6. Stepped(s, x)
  BY <1>2, <1>3, <1>4, <1>5, VariableTypes DEF Stepped, ListAcceptances, Locked
<1>7. OthersApply(s, x)
  BY <1>2, QuietApply DEF ListAcceptances, Running
<1> QED
  BY <1>2, <1>6, <1>7, SteppedElsewhere

LEMMA VaultMoved ==
  ASSUME TInv, NEW t \in Tasks, NEW st \in States
  PROVE  [vault EXCEPT ![t].state = st] \in Vaults
  BY VariableTypes DEF Vaults

LEMMA EdgeTypes ==
  ASSUME NEW e \in Transitions
  PROVE  e.from \in States /\ e.to \in States /\ e.worker \in BOOLEAN
  BY WorkflowAssumption

LEMMA RecoverAcceptanceTyped ==
  ASSUME TInv, NEW s \in Schedulers, NEW j \in Jobs, RecoverAcceptance(s, j)
  PROVE  TBase' /\ JobsKeep
<1> DEFINE x == [op[s] EXCEPT !.todo = @ \ {j}]
<1> DEFINE r == [jobs[j] EXCEPT !.acceptance = "committed", !.delivered = TRUE,
                                !.status = "accepted",
                                !.recent = FALSE, !.settled = Stamp]
<1>1. op[s].pc = "recovering" /\ jobs[j].acceptance # "none"
  BY OpTypes DEF RecoverAcceptance, At, Bound
<1>0. jobs[j].creation # "none" /\ jobs[j].task \in Tasks /\ jobs[j].edge \in Transitions
  BY <1>1, RecordTypes DEF JobBound
<1>2. x \in SchedulerState /\ x.pc = "recovering" /\ x.todo = op[s].todo \ {j}
  BY <1>1, OpTypes DEF SchedulerState
<1>3. op' = [op EXCEPT ![s] = x]
  BY VariableTypes DEF RecoverAcceptance
<1>a. Succeeds(j, r)
  BY <1>0, RecordTypes, StampTyped DEF Succeeds, JobRecord
<1>b. \/ UNCHANGED <<vault, jobs>>
      \/ jobs' = [jobs EXCEPT ![j] = r] /\ vault' = [vault EXCEPT ![jobs[j].task].state = jobs[j].edge.to]
  BY VariableTypes DEF RecoverAcceptance
<1> HIDE DEF x, r
<1>4. JobsKeep
  BY <1>0, <1>a, <1>b, OneKeeps, NothingKeeps
<1>c. vault' \in Vaults
  BY <1>0, <1>b, VaultMoved, EdgeTypes, VariableTypes
<1>5. Bound(s, x, jobs')
  BY <1>1, <1>2, <1>4, OpTypes DEF Bound, WithJob, JobsKeep, Running
<1>6. Stepped(s, x)
  BY <1>2, <1>3, <1>4, <1>5, <1>c, VariableTypes DEF Stepped, RecoverAcceptance, Locked
<1>7. OthersApply(s, x)
  <2> SUFFICES ASSUME NEW u \in Schedulers \ {s}, op[u].pc = "apply"
               PROVE  /\ jobs'[op[u].job].status \in {"absent", "pending", "failed"}
                      /\ jobs'[op[u].job].acceptance = "none" /\ jobs'[op[u].job].admitted = 0
    BY <1>2 DEF OthersApply, Running
  <2>1. op[u].job \in Jobs /\ Applying(u)
    BY OpTypes DEF Bound, WithJob, Running
  <2>2. op[u].job # j
    BY <1>1, <2>1 DEF Applying, Running
  <2>3. jobs'[op[u].job] = jobs[op[u].job]
    BY <1>b, <2>1, <2>2, VariableTypes
  <2> QED
    BY <2>1, <2>3 DEF Applying, Running
<1> QED
  BY <1>2, <1>6, <1>7, SteppedElsewhere

-----------------------------------------------------------------------------
LEMMA TakeLockTyped ==
  ASSUME TInv, NEW s \in Schedulers, TakeLock(s)
  PROVE  TBase' /\ JobsKeep
<1> DEFINE x == [op[s] EXCEPT !.pc = "focus", !.view = vault]
<1>1. x \in SchedulerState /\ x.pc = "focus" /\ x.view = vault
  BY OpTypes, VariableTypes DEF SchedulerState
<1>2. op' = [op EXCEPT ![s] = x]
  BY VariableTypes DEF TakeLock
<1> HIDE DEF x
<1>3. JobsKeep
  BY NothingKeeps DEF TakeLock
<1>4. Bound(s, x, jobs')
  BY <1>1, VariableTypes DEF Bound, WithJob, Running
<1>5. \A u \in Schedulers \ {s} : lock = u => lock' = u
  BY LockAssumption DEF TakeLock
<1>6. Stepped(s, x)
  BY <1>1, <1>2, <1>3, <1>4, <1>5, VariableTypes DEF Stepped, TakeLock, Locked
<1>7. OthersApply(s, x)
  BY <1>1, QuietApply DEF TakeLock, Running
<1> QED
  BY <1>1, <1>6, <1>7, SteppedElsewhere

LEMMA IdleKeepsPast ==
  ASSUME TInv, NEW s \in Schedulers
  PROVE  op[s].past \in SUBSET Jobs
  BY OpTypes

(* The lock is given back: at the end of a tick, on an error, and with a    *)
(* job handed out.                                                          *)
LEMMA Released ==
  ASSUME TInv, NEW s \in Schedulers, op[s].pc \in Locked, JobsKeep,
         NEW x \in SchedulerState, op' = [op EXCEPT ![s] = x], lock' = Free,
         x.pc \in {"gone", "idle", "run"}, x.pc = "run" => Bound(s, x, jobs'),
         UNCHANGED <<vault, edits, crashes>>
  PROVE  TBase' /\ JobsKeep
<1>1. Bound(s, x, jobs')
  BY DEF Bound, WithJob, Running
<1>2. \A u \in Schedulers \ {s} : lock = u => lock' = u
  BY LockReleased
<1>3. Stepped(s, x)
  BY <1>1, <1>2, VariableTypes DEF Stepped, Locked
<1>4. OthersApply(s, x)
  BY LockedApply
<1> QED
  BY <1>3, <1>4, SteppedElsewhere

LEMMA EndTickTyped ==
  ASSUME TInv, NEW s \in Schedulers, op[s].pc \in Locked, JobsKeep,
         EndTick(s) \/ ErrorTick(s), UNCHANGED <<vault, edits, crashes>>
  PROVE  TBase' /\ JobsKeep
<1>1. CASE EndTick(s)
  <2>1. Idle(op[s].past) \in SchedulerState /\ Idle(op[s].past).pc = "idle"
    BY IdleTyped, IdleKeepsPast
  <2> QED  BY <1>1, <2>1, Released DEF EndTick
<1>2. CASE ErrorTick(s)
  <2> DEFINE pc == IF s \in Daemons THEN "gone" ELSE "idle"
  <2> DEFINE x == [Idle(op[s].past) EXCEPT !.pc = pc]
  <2>0. pc \in {"gone", "idle"}
    OBVIOUS
  <2>2. op' = [op EXCEPT ![s] = x] /\ lock' = Free
    BY <1>2 DEF ErrorTick
  <2> HIDE DEF pc
  <2>3. op[s].past \in SUBSET Jobs
    BY IdleKeepsPast
  <2>1. x \in SchedulerState /\ x.pc = pc
    BY ONLY <2>0, <2>3, IdleAtTyped
  <2> HIDE DEF x
  <2> QED  BY <2>0, <2>1, <2>2, Released
<1> QED  BY <1>1, <1>2

LEMMA HandOutTyped ==
  ASSUME TInv, NEW s \in Schedulers, op[s].pc \in Locked, JobsKeep,
         NEW j \in Jobs, jobs'[j].creation # "none", Home[jobs'[j].task] = Serves[s],
         jobs'[j].status # "absent",
         HandOut(s, j), UNCHANGED <<vault, edits, crashes>>
  PROVE  TBase' /\ JobsKeep
<1> DEFINE x == [Idle(op[s].past) EXCEPT !.pc = "run", !.job = j]
<1>1. x \in SchedulerState /\ x.pc = "run" /\ x.job = j
  BY IdleWithTyped, IdleKeepsPast
<1>2. op' = [op EXCEPT ![s] = x] /\ lock' = Free
  BY DEF HandOut
<1> HIDE DEF x
<1>3. Bound(s, x, jobs')
  BY <1>1 DEF Bound, WithJob, Running
<1> QED
  BY <1>1, <1>2, <1>3, Released

LEMMA LaneJobsListed ==
  ASSUME TInv, NEW p, NEW v, NEW j \in LaneJobs(p, v)
  PROVE  j \in Jobs /\ jobs[j].status \in Active /\ Home[jobs[j].task] = p
  BY DEF LaneJobs, ActiveJobs, Listed, Recorded, StoreOf, ProjectOf

LEMMA LaneHeldTyped ==
  ASSUME TInv, NEW s \in Schedulers, LaneHeld(s)
  PROVE  TBase' /\ JobsKeep
<1>1. op[s].pc \in Locked /\ JobsKeep /\ UNCHANGED <<vault, jobs, edits, crashes>>
  BY NothingKeeps DEF LaneHeld, At, Locked
<1>2. EndTick(s) \/ \E j \in RepairReady(LaneJobs(Serves[s], op[s].view)) : HandOut(s, j)
  BY DEF LaneHeld
<1>3. CASE EndTick(s)
  BY <1>1, <1>3, EndTickTyped
<1>4. ASSUME NEW j \in RepairReady(LaneJobs(Serves[s], op[s].view)), HandOut(s, j)
      PROVE  TBase' /\ JobsKeep
  <2>1. j \in Jobs /\ Home[jobs[j].task] = Serves[s] /\ jobs[j].status = "completion_rejected"
    BY LaneJobsListed DEF RepairReady
  <2>2. jobs[j].creation # "none"
    BY <2>1, RecordTypes DEF JobBound
  <2> QED
    BY <1>1, <1>4, <2>1, <2>2, HandOutTyped
<1> QED
  BY <1>2, <1>3, <1>4

LEMMA LaneTasksOwn ==
  ASSUME NEW p, NEW v
  PROVE  LaneTasks(p, v) \subseteq TasksOf(p)
<1> DEFINE started == {t \in TasksOf(p) :
                        /\ CanGoOn(v, t)
                        /\ \E j \in Listed(p) : jobs[j].task = t /\ jobs[j].status = "accepted"}
<1>1. started # {} => First(started) \in started
  BY FirstIsOne DEF TasksOf
<1> QED
  BY <1>1 DEF LaneTasks

LEMMA LaneOpenTyped ==
  ASSUME TInv, NEW s \in Schedulers, LaneOpen(s)
  PROVE  TBase' /\ JobsKeep
<1> DEFINE q == LaneTasks(Serves[s], op[s].view)
<1> DEFINE x == [op[s] EXCEPT !.pc = "consider", !.queue = q]
<1>0. q \subseteq TasksOf(Serves[s]) /\ q \subseteq Tasks
  BY LaneTasksOwn DEF TasksOf
<1>1. op[s].pc = "focus"
  BY DEF LaneOpen, At
<1>2. x \in SchedulerState /\ x.pc = "consider" /\ x.queue = q /\ x.view = op[s].view
  BY <1>0, OpTypes DEF SchedulerState
<1>3. op' = [op EXCEPT ![s] = x]
  BY VariableTypes DEF LaneOpen
<1> HIDE DEF x, q
<1>4. JobsKeep
  BY NothingKeeps DEF LaneOpen
<1>5. Bound(s, x, jobs')
  BY <1>0, <1>1, <1>2, OpTypes DEF Bound, WithJob, Running
<1>6. Stepped(s, x)
  BY <1>1, <1>2, <1>3, <1>4, <1>5, VariableTypes, LockReleased DEF Stepped, LaneOpen, Locked
<1>7. OthersApply(s, x)
  BY <1>1, LockedApply DEF Locked
<1> QED
  BY <1>2, <1>6, <1>7, SteppedElsewhere

LEMMA LaneUnresolvedTyped ==
  ASSUME TInv, NEW s \in Schedulers, LaneUnresolved(s)
  PROVE  TBase' /\ JobsKeep
  BY NothingKeeps, EndTickTyped DEF LaneUnresolved, At, Locked

LEMMA NothingDueTyped ==
  ASSUME TInv, NEW s \in Schedulers, NothingDue(s)
  PROVE  TBase' /\ JobsKeep
  BY NothingKeeps, EndTickTyped DEF NothingDue, At, Locked

LEMMA SkipTyped ==
  ASSUME TInv, NEW s \in Schedulers, Skip(s)
  PROVE  TBase' /\ JobsKeep
<1> DEFINE x == [op[s] EXCEPT !.queue = @ \ {First(@)}]
<1>1. op[s].pc = "consider"
  BY DEF Skip, At
<1>2. x \in SchedulerState /\ x.pc = "consider" /\ x.view = op[s].view
      /\ x.queue \subseteq op[s].queue
  BY <1>1, OpTypes DEF SchedulerState
<1>3. op' = [op EXCEPT ![s] = x]
  BY VariableTypes DEF Skip, NextTask
<1> HIDE DEF x
<1>4. JobsKeep
  BY NothingKeeps DEF Skip
<1>5. Bound(s, x, jobs')
  BY <1>1, <1>2, OpTypes DEF Bound, WithJob, Running
<1>6. Stepped(s, x)
  BY <1>1, <1>2, <1>3, <1>4, <1>5, VariableTypes, LockReleased DEF Stepped, Skip, NextTask, Locked
<1>7. OthersApply(s, x)
  BY <1>1, LockedApply DEF Locked
<1> QED
  BY <1>2, <1>6, <1>7, SteppedElsewhere

(* The task and the transition that are admitted.                           *)
LEMMA CandidateOf ==
  ASSUME TInv, NEW s \in Schedulers, op[s].pc = "consider", NEW e \in Candidate(s)
  PROVE  /\ First(op[s].queue) \in op[s].queue /\ First(op[s].queue) \in TasksOf(Serves[s])
         /\ First(op[s].queue) \in Tasks /\ Home[First(op[s].queue)] = Serves[s]
         /\ e \in Transitions /\ e.worker /\ e.from = op[s].view[First(op[s].queue)].state
         /\ DependenciesMet(op[s].view, First(op[s].queue))
         /\ Admissible(s, First(op[s].queue), e)
<1>1. op[s].queue # {} /\ op[s].queue \subseteq TasksOf(Serves[s]) /\ op[s].queue \subseteq Tasks
  BY OpTypes DEF Candidate, Bound
<1>2. First(op[s].queue) \in op[s].queue
  BY <1>1, FirstIsOne
<1>3. e \in Selected(op[s].view[First(op[s].queue)].state) /\ Admissible(s, First(op[s].queue), e)
      /\ DependenciesMet(op[s].view, First(op[s].queue))
  BY <1>1 DEF Candidate
<1>4. e \in Eligible(op[s].view[First(op[s].queue)].state)
  BY <1>3 DEF Selected
<1> QED
  BY <1>1, <1>2, <1>3, <1>4 DEF Eligible, TasksOf

(* A fresh job is created.                                                  *)
Prepares(j, t, e, n) ==
    jobs' = [jobs EXCEPT ![j].creation = "prepared", ![j].task = t, ![j].edge = e,
                         ![j].revision = n]

LEMMA FreshKeeps ==
  ASSUME TInv, NEW j \in Jobs, jobs[j].creation = "none",
         NEW t \in Tasks, NEW e \in Transitions, NEW n \in 0..MaxRevision,
         Prepares(j, t, e, n)
  PROVE  /\ JobsKeep
         /\ jobs'[j].creation = "prepared" /\ jobs'[j].task = t /\ jobs'[j].edge = e
         /\ jobs'[j].revision = n
         /\ jobs'[j].status = "absent" /\ jobs'[j].acceptance = "none" /\ jobs'[j].admitted = 0
         /\ \A k \in Jobs \ {j} : jobs'[k] = jobs[k]
<1> DEFINE r == [jobs[j] EXCEPT !.creation = "prepared", !.task = t, !.edge = e, !.revision = n]
<1>1. /\ jobs[j].status = "absent" /\ jobs[j].acceptance = "none" /\ jobs[j].admitted = 0
      /\ jobs[j].attempts <= jobs[j].admitted /\ ~ jobs[j].delivered
  BY RecordTypes DEF JobBound
<1>2. /\ r \in JobRecord /\ r.creation = "prepared" /\ r.task = t /\ r.edge = e /\ r.revision = n
      /\ r.status = "absent" /\ r.acceptance = "none" /\ r.admitted = 0
      /\ r.attempts <= r.admitted /\ r.delivered = jobs[j].delivered /\ ~ r.delivered
  <2>1. jobs[j] \in JobRecord
    BY RecordTypes
  <2>2. r \in JobRecord
    BY ONLY <2>1, t \in Tasks, e \in Transitions, n \in 0..MaxRevision DEF JobRecord
  <2>3. r.creation = "prepared" /\ r.task = t /\ r.edge = e /\ r.revision = n
    BY ONLY <2>1 DEF JobRecord
  <2>4. /\ r.status = jobs[j].status /\ r.acceptance = jobs[j].acceptance
        /\ r.attempts = jobs[j].attempts /\ r.admitted = jobs[j].admitted
        /\ r.delivered = jobs[j].delivered
    BY ONLY <2>1 DEF JobRecord
  <2> HIDE DEF r
  <2> QED  BY <1>1, <2>2, <2>3, <2>4
<1>3. jobs' = [jobs EXCEPT ![j] = r]
  BY VariableTypes DEF Prepares
<1> HIDE DEF r
<1>a. jobs \in [Jobs -> JobRecord]
  BY VariableTypes
<1>b. r \in JobRecord
  BY <1>2
<1>4. jobs' \in [Jobs -> JobRecord] /\ jobs'[j] = r /\ \A k \in Jobs \ {j} : jobs'[k] = jobs[k]
  BY ONLY <1>3, <1>a, <1>b, j \in Jobs
<1>5. JobBound(j)'
  BY <1>2, <1>4 DEF JobBound
<1>6. \A k \in Jobs \ {j} : JobBound(k)'
  BY <1>4, RecordTypes DEF JobBound
<1>7. JobsKeep
  BY <1>1, <1>2, <1>4, <1>5, <1>6 DEF JobsKeep
<1> QED
  BY <1>2, <1>4, <1>7

LEMMA CreateTyped ==
  ASSUME TInv, NEW s \in Schedulers, NEW e \in Transitions, Create(s, e)
  PROVE  TBase' /\ JobsKeep
<1> DEFINE t == First(op[s].queue)
<1> DEFINE j == Min(FreshJobs)
<1>1. op[s].pc = "consider" /\ e \in Candidate(s) /\ UNCHANGED <<vault, edits, crashes>>
  BY DEF Create, At
<1>2. t \in Tasks /\ Home[t] = Serves[s]
  BY <1>1, CandidateOf
<1>3. j \in Jobs /\ jobs[j].creation = "none"
  BY FreshIsJob DEF Create
<1>4. CASE ErrorTick(s) /\ UNCHANGED jobs
  BY <1>1, <1>4, NothingKeeps, EndTickTyped DEF Locked
<1>5. CASE /\ jobs' = [jobs EXCEPT ![j].creation = "prepared", ![j].task = t,
                                   ![j].edge = e, ![j].revision = vault[t].revision]
           /\ op' = [op EXCEPT ![s].pc = "apply", ![s].job = j]
           /\ UNCHANGED lock
  <2> DEFINE x == [op[s] EXCEPT !.pc = "apply", !.job = j]
  <2>1. vault[t].revision \in 0..MaxRevision
    BY <1>2, VariableTypes DEF Vaults
  <2>2. op' = [op EXCEPT ![s] = x]
    BY <1>5, VariableTypes
  <2> HIDE DEF t, j
  <2>3. x \in SchedulerState /\ x.pc = "apply" /\ x.job = j
    BY <1>3, OpTypes DEF SchedulerState
  <2> HIDE DEF x
  <2>p. Prepares(j, t, e, vault[t].revision)
    BY <1>5 DEF Prepares
  <2>4. /\ JobsKeep /\ jobs'[j].creation = "prepared" /\ jobs'[j].task = t
        /\ jobs'[j].status = "absent" /\ jobs'[j].acceptance = "none" /\ jobs'[j].admitted = 0
    BY <1>2, <1>3, <2>1, <2>p, FreshKeeps
  <2>5. Bound(s, x, jobs')
    BY <1>2, <1>3, <2>3, <2>4 DEF Bound, WithJob, Running
  <2>6. Stepped(s, x)
    BY <1>1, <1>5, <2>2, <2>3, <2>4, <2>5, VariableTypes, LockReleased DEF Stepped, Locked
  <2>7. OthersApply(s, x)
    BY <1>1, LockedApply DEF Locked
  <2>8. BeginsApply(s, x)
    <3>1. \A u \in Schedulers : op[u].pc \in Running => op[u].job # j
      BY <1>3, OpTypes DEF Bound, WithJob, Running
    <3> QED  BY <2>3, <2>4, <3>1 DEF BeginsApply, Running
  <2> QED
    BY <2>6, <2>7, <2>8, SteppedTyped
<1> QED
  BY <1>4, <1>5 DEF Create

LEMMA ApplyCreationTyped ==
  ASSUME TInv, NEW s \in Schedulers, ApplyCreation(s)
  PROVE  TBase' /\ JobsKeep
<1> DEFINE j == op[s].job
<1>1. op[s].pc = "apply" /\ UNCHANGED <<vault, edits, crashes>>
  BY DEF ApplyCreation, At
<1>2. j \in Jobs /\ jobs[j].creation # "none" /\ Home[jobs[j].task] = Serves[s]
      /\ jobs[j].acceptance = "none" /\ jobs[j].admitted = 0
  BY <1>1, OpTypes DEF Bound, WithJob, Applying, Running
<1>3. CASE /\ jobs' = [jobs EXCEPT ![j].status = "pending"]
           /\ op' = [op EXCEPT ![s].pc = "commit"]
           /\ UNCHANGED lock
  <2> DEFINE r == [jobs[j] EXCEPT !.status = "pending"]
  <2> DEFINE x == [op[s] EXCEPT !.pc = "commit"]
  <2>1. jobs' = [jobs EXCEPT ![j] = r] /\ op' = [op EXCEPT ![s] = x]
    BY <1>3, VariableTypes
  <2>2. Succeeds(j, r) /\ r.status = "pending"
    BY <1>2, RecordTypes DEF Succeeds, JobRecord, JobBound
  <2>3. x \in SchedulerState /\ x.pc = "commit" /\ x.job = j
    BY OpTypes DEF SchedulerState
  <2> HIDE DEF r, x, j
  <2>4. JobsKeep
    BY <1>2, <2>1, <2>2, OneKeeps
  <2>5. jobs'[j] = r
    BY <1>2, <2>1, VariableTypes
  <2>6. Bound(s, x, jobs')
    BY <1>2, <2>2, <2>3, <2>4, <2>5 DEF Bound, WithJob, JobsKeep, Running
  <2>7. Stepped(s, x)
    BY <1>1, <1>3, <2>1, <2>3, <2>4, <2>6, VariableTypes, LockReleased DEF Stepped, Locked
  <2>8. OthersApply(s, x)
    BY <1>1, LockedApply DEF Locked
  <2> QED
    BY <2>3, <2>7, <2>8, SteppedElsewhere
<1>4. CASE jobs' = [jobs EXCEPT ![j].creation = "failed"] /\ ErrorTick(s)
  <2> DEFINE r == [jobs[j] EXCEPT !.creation = "failed"]
  <2>1. jobs' = [jobs EXCEPT ![j] = r]
    BY <1>4, VariableTypes
  <2>2. Succeeds(j, r)
    BY <1>2, RecordTypes DEF Succeeds, JobRecord, JobBound
  <2> HIDE DEF r, j
  <2>3. JobsKeep
    BY <1>2, <2>1, <2>2, OneKeeps
  <2> QED
    BY <1>1, <1>4, <2>3, EndTickTyped DEF Locked
<1> QED
  BY <1>3, <1>4 DEF ApplyCreation

LEMMA CommitCreationTyped ==
  ASSUME TInv, NEW s \in Schedulers, CommitCreation(s)
  PROVE  TBase' /\ JobsKeep
<1> DEFINE j == op[s].job
<1> DEFINE r == [jobs[j] EXCEPT !.creation = "committed"]
<1>1. op[s].pc = "commit" /\ HandOut(s, j) /\ UNCHANGED <<vault, edits, crashes>>
  BY DEF CommitCreation, At
<1>2. j \in Jobs /\ jobs[j].creation # "none" /\ Home[jobs[j].task] = Serves[s]
      /\ jobs[j].status # "absent"
  BY <1>1, OpTypes DEF Bound, WithJob, Running
<1>3. jobs' = [jobs EXCEPT ![j] = r]
  BY VariableTypes DEF CommitCreation
<1>4. Succeeds(j, r)
  BY <1>2, RecordTypes DEF Succeeds, JobRecord, JobBound
<1> HIDE DEF r, j
<1>5. JobsKeep
  BY <1>2, <1>3, <1>4, OneKeeps
<1>6. jobs'[j].creation # "none" /\ Home[jobs'[j].task] = Serves[s] /\ jobs'[j].status # "absent"
  BY <1>2, <1>5 DEF JobsKeep
<1> QED
  BY <1>1, <1>2, <1>5, <1>6, HandOutTyped DEF Locked

-----------------------------------------------------------------------------
(* The account: what is charged, and what has been admitted.                *)
ChargedTo(p, t, e, r) == UNION {{j} \X Charged(j, r) : j \in OfTransition(Listed(p), t, e)}

LEMMA AccountFinite ==
  ASSUME TInv, NEW p, NEW t, NEW e, NEW r
  PROVE  /\ IsFiniteSet(ChargedTo(p, t, e, r)) /\ IsFiniteSet(Admitted(t, e, r))
         /\ Cardinality(ChargedTo(p, t, e, r)) \in Nat /\ Cardinality(Admitted(t, e, r)) \in Nat
<1>1. IsFiniteSet(1..MaxTotal)
  BY FS_Interval, BoundsAssumption
<1>2. IsFiniteSet(Jobs \X (1..MaxTotal))
  BY <1>1, JobsAssumption, FS_Product
<1>3. ChargedTo(p, t, e, r) \subseteq Jobs \X (1..MaxTotal)
  <2>1. \A j \in Jobs : Charged(j, r) \subseteq 1..MaxTotal
    BY RecordTypes, BoundsAssumption DEF Charged
  <2>2. OfTransition(Listed(p), t, e) \subseteq Jobs
    BY DEF OfTransition, Listed, Recorded
  <2> QED  BY <2>1, <2>2 DEF ChargedTo
<1>4. Admitted(t, e, r) \subseteq Jobs \X (1..MaxTotal)
  <2>1. \A j \in Jobs : 1..jobs[j].admitted \subseteq 1..MaxTotal
    BY RecordTypes, BoundsAssumption
  <2>2. OfTransition(Recorded, t, e) \subseteq Jobs
    BY DEF OfTransition, Recorded
  <2> QED  BY <2>1, <2>2 DEF Admitted
<1> QED
  BY <1>2, <1>3, <1>4, FS_Subset, FS_CardinalityType

(* What has been admitted is charged.                                       *)
LEMMA AdmittedCharged ==
  ASSUME TInv, NEW p, NEW t \in Tasks, Home[t] = p, NEW e, NEW r
  PROVE  /\ Admitted(t, e, r) \subseteq ChargedTo(p, t, e, r)
         /\ Cardinality(Admitted(t, e, r)) <= Consumed(p, t, e, r)
<1>1. ASSUME NEW j \in OfTransition(Recorded, t, e), jobs[j].revision = r,
             NEW n \in 1..jobs[j].admitted
      PROVE  j \in OfTransition(Listed(p), t, e) /\ n \in Charged(j, r)
  <2>1. j \in Jobs /\ jobs[j].task = t
    BY DEF OfTransition, Recorded
  <2>2. jobs[j].admitted \in Nat /\ jobs[j].admitted > 0
    BY <2>1, RecordTypes
  <2>3. n \in Charged(j, r)
    BY <1>1, <2>2 DEF Charged
  <2> QED  BY <2>1, <2>3 DEF OfTransition, Listed, StoreOf, ProjectOf
<1>2. Admitted(t, e, r) \subseteq ChargedTo(p, t, e, r)
  BY <1>1 DEF Admitted, ChargedTo
<1> QED
  BY <1>2, AccountFinite, FS_Subset DEF Consumed, ChargedTo

(* An account with room leaves room in each job.                            *)
LEMMA RoomInJob ==
  ASSUME TInv, NEW j \in Jobs, jobs[j].status # "absent",
         AccountHasRoom(Home[jobs[j].task], jobs[j].task, jobs[j].edge, jobs[j].revision)
  PROVE  jobs[j].admitted + 1 \in 0..MaxTotal
<1> DEFINE C == ChargedTo(Home[jobs[j].task], jobs[j].task, jobs[j].edge, jobs[j].revision)
<1>0. jobs[j].admitted \in Nat /\ MaxTotal \in Nat \ {0} /\ jobs[j].admitted <= MaxTotal
  BY RecordTypes, BoundsAssumption
<1>1. CASE jobs[j].admitted = 0
  BY <1>0, <1>1
<1>2. CASE jobs[j].admitted > 0
  <2>1. {j} \X (1..jobs[j].admitted) \subseteq C
    <3>1. j \in OfTransition(Listed(Home[jobs[j].task]), jobs[j].task, jobs[j].edge)
      BY DEF OfTransition, Listed, Recorded, StoreOf, ProjectOf
    <3>2. Charged(j, jobs[j].revision) = 1..jobs[j].admitted
      BY <1>2 DEF Charged
    <3> QED  BY <3>1, <3>2 DEF ChargedTo
  <2>2. IsFiniteSet(1..jobs[j].admitted) /\ Cardinality(1..jobs[j].admitted) = jobs[j].admitted
    <3> DEFINE n == jobs[j].admitted
    <3>1. n \in Nat /\ n > 0 /\ n \in Int /\ 1 \in Int
      BY <1>0, <1>2
    <3> HIDE DEF n
    <3>2. IsFiniteSet(1..n) /\ Cardinality(1..n) = IF 1 > n THEN 0 ELSE n - 1 + 1
      BY <3>1, FS_Interval
    <3>3. Cardinality(1..n) = n
      BY <3>1, <3>2
    <3> QED  BY <3>2, <3>3 DEF n
  <2>3. Cardinality({j} \X (1..jobs[j].admitted)) = jobs[j].admitted
    <3> DEFINE S == {j}
               I == 1..jobs[j].admitted
    <3>1. IsFiniteSet(S) /\ Cardinality(S) = 1
      BY FS_Singleton
    <3>2. IsFiniteSet(I) /\ Cardinality(I) = jobs[j].admitted
      BY <2>2
    <3> HIDE DEF S, I
    <3>3. Cardinality(S \X I) = Cardinality(S) * Cardinality(I)
      BY ONLY <3>1, <3>2, FS_Product
    <3>4. Cardinality(S \X I) = jobs[j].admitted
      BY <1>0, <3>1, <3>2, <3>3
    <3> QED  BY <3>4 DEF S, I
  <2>4. Cardinality({j} \X (1..jobs[j].admitted)) <= Cardinality(C)
    BY <2>1, AccountFinite, FS_Subset
  <2>5. Cardinality(C) < MaxTotal /\ Cardinality(C) \in Nat
    BY AccountFinite DEF AccountHasRoom, Consumed, ChargedTo
  <2> QED  BY <1>0, <2>3, <2>4, <2>5
<1> QED
  BY <1>0, <1>1, <1>2

-----------------------------------------------------------------------------
(* A step of the run of a job writes its record.                            *)
LEMMA RunStepTyped ==
  ASSUME TInv, NEW s \in Schedulers, op[s].pc \in Running,
         NEW r, Succeeds(op[s].job, r), jobs' = [jobs EXCEPT ![op[s].job] = r],
         NEW pc \in Executing, op' = op \/ op' = [op EXCEPT ![s].pc = pc],
         vault' \in Vaults, UNCHANGED <<lock, edits, crashes>>
  PROVE  TBase' /\ JobsKeep
<1> DEFINE x == IF op' = op THEN op[s] ELSE [op[s] EXCEPT !.pc = pc]
<1>1. op[s].job \in Jobs /\ jobs[op[s].job].creation # "none"
      /\ jobs[op[s].job].status # "absent" /\ Home[jobs[op[s].job].task] = Serves[s]
  BY OpTypes DEF Bound, WithJob, Running
<1>2. op' = [op EXCEPT ![s] = x]
  BY VariableTypes
<1>3. x \in SchedulerState /\ x.pc \in Running /\ x.job = op[s].job
  BY OpTypes DEF SchedulerState, Executing, Running
<1> HIDE DEF x
<1>4. JobsKeep
  BY <1>1, OneKeeps
<1>5. Bound(s, x, jobs')
  BY <1>1, <1>3, <1>4 DEF Bound, WithJob, JobsKeep, Running
<1>6. Stepped(s, x)
  BY <1>2, <1>3, <1>4, <1>5, VariableTypes DEF Stepped, Locked, Running
<1>7. OthersApply(s, x)
  BY <1>3, RunApply
<1> QED
  BY <1>3, <1>6, <1>7, SteppedElsewhere DEF Running

LEMMA OwnRecord ==
  ASSUME TInv, NEW s \in Schedulers, op[s].pc \in Running
  PROVE  /\ op[s].job \in Jobs /\ jobs[op[s].job].creation # "none"
         /\ jobs[op[s].job].status # "absent" /\ Home[jobs[op[s].job].task] = Serves[s]
         /\ jobs[op[s].job].task \in Tasks /\ jobs[op[s].job].edge \in Transitions
  BY OpTypes, RecordTypes DEF Bound, WithJob, JobBound, Running

LEMMA SettledSucceeds ==
  ASSUME TInv, NEW j \in Jobs, jobs[j].creation # "none",
         NEW status \in {"accepted", "failed"},
         NEW cause \in {"none", "exit", "retryable", "permanent", "reconciled"}
  PROVE  /\ Succeeds(j, SettledAs(jobs[j], status, cause))
         /\ SettledAs(jobs[j], status, cause).status = status
         /\ SettledAs(jobs[j], status, cause).acceptance = jobs[j].acceptance
         /\ SettledAs(jobs[j], status, cause).creation = jobs[j].creation
         /\ SettledAs(jobs[j], status, cause).attempts = jobs[j].attempts
         /\ SettledAs(jobs[j], status, cause).admitted = jobs[j].admitted
         /\ SettledAs(jobs[j], status, cause).delivered = jobs[j].delivered
<1> DEFINE r == SettledAs(jobs[j], status, cause)
<1>1. jobs[j] \in JobRecord /\ Stamp \in Nat
  BY RecordTypes, StampTyped
<1>2. r \in JobRecord
  <2>1. PICK n \in Nat, b \in BOOLEAN : n = Stamp /\ b = (cause # "none")
    BY <1>1
  <2> DEFINE first == [jobs[j] EXCEPT !.status = status, !.cause = cause]
  <2>2. first \in JobRecord
    BY ONLY <1>1, status \in {"accepted", "failed"},
            cause \in {"none", "exit", "retryable", "permanent", "reconciled"}
       DEF JobRecord
  <2>3. r = [first EXCEPT !.recent = b, !.settled = n]
    BY <1>1, <2>1 DEF SettledAs, JobRecord
  <2> HIDE DEF r, first
  <2> QED
    BY ONLY <2>2, <2>3, n \in Nat, b \in BOOLEAN DEF JobRecord
<1>3. /\ r.status = status /\ r.acceptance = jobs[j].acceptance /\ r.creation = jobs[j].creation
      /\ r.attempts = jobs[j].attempts /\ r.admitted = jobs[j].admitted
      /\ r.delivered = jobs[j].delivered /\ r.task = jobs[j].task /\ r.edge = jobs[j].edge
      /\ r.revision = jobs[j].revision
  BY ONLY <1>1 DEF SettledAs, JobRecord
<1> HIDE DEF r
<1>4. Succeeds(j, r)
  BY <1>2, <1>3, RecordTypes DEF Succeeds, JobBound
<1> QED
  BY <1>3, <1>4 DEF r

(* One that leaves the records alone.                                       *)
LEMMA RunMoveTyped ==
  ASSUME TInv, NEW s \in Schedulers, op[s].pc \in Running, NEW pc \in Executing, Goes(s, pc),
         UNCHANGED jobs
  PROVE  TBase' /\ JobsKeep
<1> DEFINE j == op[s].job
<1>1. j \in Jobs /\ jobs[j].creation # "none"
  BY OwnRecord
<1>2. Succeeds(j, jobs[j])
  BY <1>1, RecordTypes DEF Succeeds, JobBound
<1>3. jobs' = [jobs EXCEPT ![j] = jobs[j]]
  BY <1>1, VariableTypes
<1> QED
  BY <1>2, <1>3, RunStepTyped, VariableTypes DEF Goes

LEMMA LoadJobTyped ==
  ASSUME TInv, NEW s \in Schedulers, LoadJob(s)
  PROVE  TBase' /\ JobsKeep
<1>1. op[s].pc \in Running /\ "loaded" \in Executing
  BY DEF LoadJob, At, Running, Executing
<1> QED
  BY <1>1, RunMoveTyped DEF LoadJob

LEMMA PermitTyped ==
  ASSUME TInv, NEW s \in Schedulers, Permit(s)
  PROVE  TBase' /\ JobsKeep
<1>1. op[s].pc \in Running /\ "permitted" \in Executing
  BY DEF Permit, At, Running, Executing
<1> QED
  BY <1>1, RunMoveTyped DEF Permit

LEMMA RepairTyped ==
  ASSUME TInv, NEW s \in Schedulers, Repair(s)
  PROVE  TBase' /\ JobsKeep
<1>1. op[s].pc \in Running /\ "loaded" \in Executing
  BY DEF Repair, At, Running, Executing
<1> QED
  BY <1>1, RunMoveTyped DEF Repair

LEMMA FailBeforeRunTyped ==
  ASSUME TInv, NEW s \in Schedulers, FailBeforeRun(s)
  PROVE  TBase' /\ JobsKeep
<1>1. /\ op[s].pc \in Running /\ "working" \in Executing
      /\ op' = [op EXCEPT ![s].pc = "working"] /\ UNCHANGED <<vault, lock, edits, crashes>>
  BY DEF FailBeforeRun, Goes, Running, Executing
<1>2. op[s].job \in Jobs /\ jobs[op[s].job].creation # "none"
  BY <1>1, OwnRecord
<1>3. Succeeds(op[s].job, SettledAs(jobs[op[s].job], "failed", "retryable"))
  BY <1>2, SettledSucceeds
<1>4. jobs' = [jobs EXCEPT ![op[s].job] = SettledAs(jobs[op[s].job], "failed", "retryable")]
  BY DEF FailBeforeRun
<1> QED
  BY <1>1, <1>3, <1>4, RunStepTyped, VariableTypes

LEMMA AdmitTyped ==
  ASSUME TInv, NEW s \in Schedulers, Admit(s)
  PROVE  TBase' /\ JobsKeep
<1> DEFINE j == op[s].job
<1> DEFINE r == [jobs[j] EXCEPT !.admitted = jobs[j].attempts + 1]
<1>1. /\ op[s].pc \in Running /\ "admitted" \in Executing
      /\ op' = [op EXCEPT ![s].pc = "admitted"] /\ UNCHANGED <<vault, lock, edits, crashes>>
  BY DEF Admit, At, Goes, Running, Executing
<1>2. j \in Jobs /\ jobs[j].creation # "none" /\ jobs[j].status # "absent"
  BY <1>1, OwnRecord
<1>3. jobs[j].attempts + 1 \in 0..MaxTotal
  BY <1>2, OpTypes, RecordTypes, BoundsAssumption DEF Admit, At, Ready, Executing
<1>4. Succeeds(j, r)
  BY <1>2, <1>3, RecordTypes DEF Succeeds, JobRecord, JobBound
<1>5. jobs' = [jobs EXCEPT ![j] = r]
  BY VariableTypes DEF Admit, OwnJob
<1> HIDE DEF r
<1> QED
  BY <1>1, <1>4, <1>5, RunStepTyped, VariableTypes

LEMMA StartWorkerTyped ==
  ASSUME TInv, NEW s \in Schedulers, StartWorker(s)
  PROVE  TBase' /\ JobsKeep
<1> DEFINE j == op[s].job
<1> DEFINE r == [jobs[j] EXCEPT !.status = "running", !.attempts = @ + 1]
<1>1. /\ op[s].pc \in Running /\ "working" \in Executing
      /\ op' = [op EXCEPT ![s].pc = "working"] /\ UNCHANGED <<vault, lock, edits, crashes>>
  BY DEF StartWorker, At, Goes, Running, Executing
<1>2. j \in Jobs /\ jobs[j].creation # "none" /\ jobs[j].status # "absent"
  BY <1>1, OwnRecord
<1>3. jobs[j].attempts + 1 \in 0..MaxTotal /\ jobs[j].attempts + 1 <= jobs[j].admitted
  BY <1>2, OpTypes, RecordTypes, BoundsAssumption DEF StartWorker, At, Ready, Executing
<1>a. jobs[j] \in JobRecord
  BY <1>2, RecordTypes
<1>b. /\ r.status = "running" /\ r.attempts = jobs[j].attempts + 1
      /\ r.creation = jobs[j].creation /\ r.acceptance = jobs[j].acceptance
      /\ r.task = jobs[j].task /\ r.edge = jobs[j].edge /\ r.revision = jobs[j].revision
      /\ r.admitted = jobs[j].admitted /\ r.delivered = jobs[j].delivered
  BY ONLY <1>a DEF JobRecord
<1>c. r \in JobRecord
  BY ONLY <1>a, <1>3 DEF JobRecord
<1>4. Succeeds(j, r)
  <2> HIDE DEF r
  <2> QED  BY <1>2, <1>3, <1>b, <1>c, RecordTypes DEF Succeeds, JobBound
<1>5. jobs' = [jobs EXCEPT ![j] = r]
  BY VariableTypes DEF StartWorker
<1> HIDE DEF r
<1> QED
  BY <1>1, <1>4, <1>5, RunStepTyped, VariableTypes

LEMMA RepairExhaustedTyped ==
  ASSUME TInv, NEW s \in Schedulers, RepairExhausted(s)
  PROVE  TBase' /\ JobsKeep
<1>1. /\ op[s].pc \in Running /\ "working" \in Executing
      /\ op' = op /\ UNCHANGED <<vault, lock, edits, crashes>>
  BY DEF RepairExhausted, At, Running, Executing
<1>2. op[s].job \in Jobs /\ jobs[op[s].job].creation # "none"
  BY <1>1, OwnRecord
<1>3. Succeeds(op[s].job, SettledAs(jobs[op[s].job], "failed", "retryable"))
  BY <1>2, SettledSucceeds
<1>4. jobs' = [jobs EXCEPT ![op[s].job] = SettledAs(jobs[op[s].job], "failed", "retryable")]
  BY DEF RepairExhausted
<1> QED
  BY <1>1, <1>3, <1>4, RunStepTyped, VariableTypes

LEMMA FailTyped ==
  ASSUME TInv, NEW s \in Schedulers, NEW cause \in {"exit", "retryable", "permanent"},
         Fail(s, cause)
  PROVE  TBase' /\ JobsKeep
<1>1. op[s].pc \in Running /\ "working" \in Executing /\ op' = op /\ UNCHANGED <<vault, lock, edits, crashes>>
  BY DEF Fail, At, Running, Executing
<1>2. op[s].job \in Jobs /\ jobs[op[s].job].creation # "none"
  BY <1>1, OwnRecord
<1>3. Succeeds(op[s].job, SettledAs(jobs[op[s].job], "failed", cause))
  BY <1>2, SettledSucceeds
<1>4. jobs' = [jobs EXCEPT ![op[s].job] = SettledAs(jobs[op[s].job], "failed", cause)]
  BY DEF Fail
<1> QED
  BY <1>1, <1>3, <1>4, RunStepTyped, VariableTypes

LEMMA AcceptTyped ==
  ASSUME TInv, NEW s \in Schedulers, Accept(s)
  PROVE  TBase' /\ JobsKeep
<1>1. op[s].pc \in Running /\ "working" \in Executing /\ op' = op /\ UNCHANGED <<vault, lock, edits, crashes>>
  BY DEF Accept, At, Running, Executing
<1>2. op[s].job \in Jobs /\ jobs[op[s].job].creation # "none"
  BY <1>1, OwnRecord
<1>3. Succeeds(op[s].job, SettledAs(jobs[op[s].job], "accepted", "none"))
  BY <1>2, SettledSucceeds
<1>4. jobs' = [jobs EXCEPT ![op[s].job] = SettledAs(jobs[op[s].job], "accepted", "none")]
  BY DEF Accept
<1> QED
  BY <1>1, <1>3, <1>4, RunStepTyped, VariableTypes

LEMMA RejectTyped ==
  ASSUME TInv, NEW s \in Schedulers, Reject(s)
  PROVE  TBase' /\ JobsKeep
<1> DEFINE r == [jobs[op[s].job] EXCEPT !.status = "completion_rejected"]
<1>1. op[s].pc \in Running /\ "working" \in Executing /\ op' = op /\ UNCHANGED <<vault, lock, edits, crashes>>
  BY DEF Reject, At, Running, Executing
<1>2. Succeeds(op[s].job, r)
  BY <1>1, OwnRecord, RecordTypes DEF Succeeds, JobRecord, JobBound
<1>3. jobs' = [jobs EXCEPT ![op[s].job] = r]
  BY VariableTypes DEF Reject
<1> HIDE DEF r
<1> QED
  BY <1>1, <1>2, <1>3, RunStepTyped, VariableTypes

LEMMA PrepareTyped ==
  ASSUME TInv, NEW s \in Schedulers, PrepareAcceptance(s)
  PROVE  TBase' /\ JobsKeep
<1> DEFINE r == [jobs[op[s].job] EXCEPT !.status = "completion_submitted",
                                        !.acceptance = "prepared"]
<1>1. op[s].pc \in Running /\ "working" \in Executing /\ op' = op /\ UNCHANGED <<vault, lock, edits, crashes>>
  BY DEF PrepareAcceptance, At, Running, Executing
<1>a. op[s].job \in Jobs /\ jobs[op[s].job].creation # "none" /\ jobs[op[s].job] \in JobRecord
  BY <1>1, OwnRecord, RecordTypes
<1>b. /\ r \in JobRecord /\ r.status = "completion_submitted" /\ r.acceptance = "prepared"
      /\ r.task = jobs[op[s].job].task /\ r.edge = jobs[op[s].job].edge
      /\ r.revision = jobs[op[s].job].revision /\ r.creation = jobs[op[s].job].creation
      /\ r.admitted = jobs[op[s].job].admitted /\ r.attempts = jobs[op[s].job].attempts
      /\ r.delivered = jobs[op[s].job].delivered
  BY <1>a DEF JobRecord
<1>2. Succeeds(op[s].job, r)
  <2> HIDE DEF r
  <2> QED  BY <1>1, <1>a, <1>b, RecordTypes DEF Succeeds
<1>3. jobs' = [jobs EXCEPT ![op[s].job] = r]
  BY VariableTypes DEF PrepareAcceptance
<1> HIDE DEF r
<1> QED
  BY <1>1, <1>2, <1>3, RunStepTyped, VariableTypes

LEMMA DeliverTyped ==
  ASSUME TInv, NEW s \in Schedulers, Deliver(s)
  PROVE  TBase' /\ JobsKeep
<1> DEFINE j == op[s].job
<1> DEFINE r == [jobs[j] EXCEPT !.acceptance = "committed", !.delivered = TRUE]
<1>1. op[s].pc \in Running /\ "working" \in Executing /\ op' = op /\ UNCHANGED <<lock, edits, crashes>>
      /\ vault' = [vault EXCEPT ![jobs[j].task].state = jobs[j].edge.to]
  BY DEF Deliver, At, OwnJob, Running, Executing
<1>a. j \in Jobs /\ jobs[j] \in JobRecord /\ jobs[j].creation # "none" /\ jobs[j].status # "absent"
  BY <1>1, OwnRecord, RecordTypes
<1>b. /\ r.status = jobs[j].status /\ r.attempts = jobs[j].attempts
      /\ r.creation = jobs[j].creation /\ r.acceptance = "committed" /\ r.delivered
      /\ r.task = jobs[j].task /\ r.edge = jobs[j].edge /\ r.revision = jobs[j].revision
      /\ r.admitted = jobs[j].admitted
  BY ONLY <1>a DEF JobRecord
<1>c. r \in JobRecord
  BY ONLY <1>a DEF JobRecord
<1>2. Succeeds(j, r)
  <2> HIDE DEF r
  <2> QED  BY <1>a, <1>b, <1>c, RecordTypes DEF Succeeds
<1>3. jobs' = [jobs EXCEPT ![j] = r]
  BY VariableTypes DEF Deliver
<1> HIDE DEF r
<1>4. vault' \in Vaults
  BY <1>1, OwnRecord, EdgeTypes, VaultMoved
<1> QED
  BY <1>1, <1>2, <1>3, <1>4, RunStepTyped

LEMMA RunReturnsTyped ==
  ASSUME TInv, NEW s \in Schedulers, RunReturns(s)
  PROVE  TBase' /\ JobsKeep
<1> DEFINE x == Idle(op[s].past)
<1>1. x \in SchedulerState /\ x.pc = "idle"
  BY IdleTyped, IdleKeepsPast
<1> HIDE DEF x
<1>2. op' = [op EXCEPT ![s] = x]
  BY DEF RunReturns, x
<1>3. JobsKeep
  BY NothingKeeps DEF RunReturns
<1>4. Bound(s, x, jobs')
  BY <1>1 DEF Bound, WithJob, Running
<1>5. Stepped(s, x)
  BY <1>1, <1>2, <1>3, <1>4, VariableTypes DEF Stepped, RunReturns, Locked
<1>6. OthersApply(s, x)
  BY <1>1, QuietApply DEF RunReturns, Running
<1> QED
  BY <1>1, <1>5, <1>6, SteppedElsewhere

-----------------------------------------------------------------------------
LEMMA CrashTyped ==
  ASSUME TInv, NEW s \in Schedulers, Crash(s)
  PROVE  TBase' /\ JobsKeep
<1> DEFINE x == [Idle(op[s].past) EXCEPT !.pc = "gone"]
<1>1. x \in SchedulerState /\ x.pc = "gone"
  BY IdleAtTyped, IdleKeepsPast
<1>2. op' = [op EXCEPT ![s] = x]
  BY DEF Crash
<1> HIDE DEF x
<1>3. JobsKeep
  BY NothingKeeps DEF Crash
<1>4. Bound(s, x, jobs')
  BY <1>1 DEF Bound, WithJob, Running
<1>5. crashes' \in 0..MaxCrashes
  BY VariableTypes, BoundsAssumption DEF Crash
<1>6. /\ lock' \in Schedulers \cup {Free}
      /\ \A u \in Schedulers \ {s} : lock = u => lock' = u
      /\ UNCHANGED <<vault, jobs, edits>>
  BY VariableTypes DEF Crash
<1>7. Stepped(s, x)
  BY <1>1, <1>2, <1>3, <1>4, <1>5, <1>6, VariableTypes DEF Stepped, Locked
<1>8. OthersApply(s, x)
  BY <1>1, <1>6, QuietApply DEF Running
<1> QED
  BY <1>1, <1>7, <1>8, SteppedElsewhere

LEMMA RuntimeStartTyped ==
  ASSUME TInv, NEW s \in Schedulers, RuntimeStart(s)
  PROVE  TBase' /\ JobsKeep
<1> DEFINE orphans == {j \in ActiveJobs(Jobs) : Home[jobs[j].task] = Serves[s]}
<1> DEFINE past == Failed(Jobs) \cup orphans
<1> DEFINE x == Idle(past)
<1>1. past \in SUBSET Jobs /\ orphans \subseteq Jobs
  BY DEF Failed, ActiveJobs
<1>a. \A j \in orphans : jobs[j].status # "absent"
  BY DEF ActiveJobs, Active
<1>2. jobs' = [j \in Jobs |-> IF j \in orphans THEN SettledAs(jobs[j], "failed", "reconciled")
                              ELSE jobs[j]]
      /\ op' = [op EXCEPT ![s] = x] /\ UNCHANGED <<vault, lock, edits, crashes>>
  BY DEF RuntimeStart
<1> HIDE DEF orphans, past
<1>3. x \in SchedulerState /\ x.pc = "idle"
  BY <1>1, IdleTyped
<1> HIDE DEF x
<1>b. \A j \in orphans : /\ Succeeds(j, jobs'[j]) /\ jobs'[j].status = "failed"
                         /\ jobs'[j].acceptance = jobs[j].acceptance
                         /\ jobs'[j].admitted = jobs[j].admitted
                         /\ jobs[j].creation # "none"
                         /\ jobs'[j].creation = jobs[j].creation
  <2> SUFFICES ASSUME NEW j \in orphans
               PROVE  /\ Succeeds(j, jobs'[j]) /\ jobs'[j].status = "failed"
                      /\ jobs'[j].acceptance = jobs[j].acceptance
                      /\ jobs'[j].admitted = jobs[j].admitted
                      /\ jobs[j].creation # "none"
                      /\ jobs'[j].creation = jobs[j].creation
    OBVIOUS
  <2>1. j \in Jobs /\ jobs[j].creation # "none"
    BY <1>1, <1>a, RecordTypes DEF JobBound
  <2>2. jobs'[j] = SettledAs(jobs[j], "failed", "reconciled")
    BY <1>2, <2>1
  <2> QED  BY <2>1, <2>2, SettledSucceeds
<1>c. \A j \in Jobs \ orphans : jobs'[j] = jobs[j]
  BY <1>2
<1>4. JobsKeep
  <2>1. jobs' \in [Jobs -> JobRecord]
    BY <1>2, <1>b, <1>c, RecordTypes DEF Succeeds
  <2>2. \A j \in Jobs : JobBound(j)'
    BY <1>b, <1>c, RecordTypes DEF JobBound, Succeeds
  <2> QED  BY <1>b, <1>c, <2>1, <2>2 DEF JobsKeep, Succeeds
<1>5. Bound(s, x, jobs')
  BY <1>3 DEF Bound, WithJob, Running
<1>6. Stepped(s, x)
  BY <1>2, <1>3, <1>4, <1>5, VariableTypes DEF Stepped, Locked
<1>7. OthersApply(s, x)
  <2> SUFFICES ASSUME NEW u \in Schedulers \ {s}, op[u].pc = "apply"
               PROVE  /\ jobs'[op[u].job].status \in {"absent", "pending", "failed"}
                      /\ jobs'[op[u].job].acceptance = "none" /\ jobs'[op[u].job].admitted = 0
    BY <1>3 DEF OthersApply, Running
  <2>1. op[u].job \in Jobs /\ Applying(u)
    BY OpTypes DEF Bound, WithJob, Running
  <2> QED
    BY <1>b, <1>c, <2>1 DEF Applying, Running
<1> QED
  BY <1>3, <1>6, <1>7, SteppedElsewhere

(* Steps outside the processes.                                             *)
LEMMA OutsideTyped ==
  ASSUME TInv, UNCHANGED <<lock, op, crashes>>, vault' \in Vaults, edits' \in 0..MaxEdits,
         UNCHANGED jobs
  PROVE  TBase' /\ JobsKeep
<1>1. TypeOK'
  BY DEF TInv, TBase, TypeOK
<1>2. \A s \in Schedulers : Bound(s, op'[s], jobs') /\ Applying(s)'
  BY DEF TInv, TBase, Applying, Running
<1> QED
  BY <1>1, <1>2, NothingKeeps DEF TInv, TBase, LockHeld, JobBound

LEMMA BackoffEndsTyped ==
  ASSUME TInv, NEW j \in Jobs, BackoffEnds(j)
  PROVE  TBase' /\ JobsKeep
<1> DEFINE r == [jobs[j] EXCEPT !.recent = FALSE]
<1>1. /\ r \in JobRecord /\ r.status = jobs[j].status /\ r.creation = jobs[j].creation
      /\ r.task = jobs[j].task /\ r.edge = jobs[j].edge /\ r.attempts = jobs[j].attempts
      /\ r.admitted = jobs[j].admitted /\ r.delivered = jobs[j].delivered
      /\ r.acceptance = jobs[j].acceptance /\ r.revision = jobs[j].revision
  BY RecordTypes DEF JobRecord
<1>2. jobs' = [jobs EXCEPT ![j] = r] /\ UNCHANGED <<vault, lock, op, edits, crashes>>
  BY VariableTypes DEF BackoffEnds
<1> HIDE DEF r
<1>3. /\ jobs' \in [Jobs -> JobRecord]
      /\ \A k \in Jobs : /\ jobs'[k].status = jobs[k].status /\ jobs'[k].creation = jobs[k].creation
                         /\ jobs'[k].task = jobs[k].task /\ jobs'[k].edge = jobs[k].edge
                         /\ jobs'[k].attempts = jobs[k].attempts
                         /\ jobs'[k].admitted = jobs[k].admitted
                         /\ jobs'[k].delivered = jobs[k].delivered
                         /\ jobs'[k].acceptance = jobs[k].acceptance
                         /\ jobs'[k].revision = jobs[k].revision
  BY <1>1, <1>2, VariableTypes
<1>4. TypeOK' /\ LockHeld'
  BY <1>2, <1>3 DEF TInv, TBase, TypeOK, LockHeld
<1>5. \A k \in Jobs : JobBound(k)'
  BY <1>3, RecordTypes DEF JobBound
<1>6. \A s \in Schedulers : Bound(s, op'[s], jobs')
  <2> SUFFICES ASSUME NEW s \in Schedulers PROVE Bound(s, op[s], jobs')
    BY <1>2
  <2> QED  BY <1>3, OpTypes DEF Bound, WithJob, Running
<1>7. \A s \in Schedulers : Applying(s)'
  <2> SUFFICES ASSUME NEW s \in Schedulers PROVE Applying(s)'
    OBVIOUS
  <2>1. op[s].pc = "apply" => op[s].job \in Jobs
    BY OpTypes DEF Bound, WithJob, Running
  <2> QED  BY <1>2, <1>3, <2>1, OpTypes DEF Applying, Running
<1>8. JobsKeep
  BY <1>3, <1>5 DEF JobsKeep
<1> QED
  BY <1>4, <1>5, <1>6, <1>7, <1>8 DEF TInv, TBase

LEMMA MoveTyped ==
  ASSUME TInv, NEW t \in Tasks, NEW st \in MoveTargets, Move(t, st)
  PROVE  TBase' /\ JobsKeep
<1>1. vault' \in Vaults
  BY VaultMoved, WorkflowAssumption DEF Move
<1>2. edits' \in 0..MaxEdits
  BY VariableTypes, BoundsAssumption DEF Move
<1> QED
  BY <1>1, <1>2, OutsideTyped DEF Move

LEMMA RewriteTyped ==
  ASSUME TInv, NEW t \in Tasks, Rewrite(t)
  PROVE  TBase' /\ JobsKeep
<1>1. vault' \in Vaults
  BY VariableTypes, BoundsAssumption DEF Rewrite, Vaults
<1>2. edits' \in 0..MaxEdits
  BY VariableTypes, BoundsAssumption DEF Rewrite
<1> QED
  BY <1>1, <1>2, OutsideTyped DEF Rewrite

LEMMA TickTyped ==
  ASSUME TInv, NEW s \in Schedulers, Tick(s)
  PROVE  TBase' /\ JobsKeep
  BY LoadTyped, RecoverCreationTyped, RecoverAcceptanceTyped, ListAcceptancesTyped,
     TakeLockTyped, LaneUnresolvedTyped, LaneHeldTyped, LaneOpenTyped, SkipTyped,
     NothingDueTyped, CreateTyped, ApplyCreationTyped, CommitCreationTyped DEF Tick

LEMMA RunTyped ==
  ASSUME TInv, NEW s \in Schedulers, RunJob(s)
  PROVE  TBase' /\ JobsKeep
  BY LoadJobTyped, PermitTyped, FailBeforeRunTyped, AdmitTyped, StartWorkerTyped,
     RepairTyped, RepairExhaustedTyped, RejectTyped, PrepareTyped, DeliverTyped, AcceptTyped, RunReturnsTyped,
     FailTyped DEF RunJob

LEMMA StepBase == TInv /\ [Next]_vars => TBase' /\ JobsKeep
<1> SUFFICES ASSUME TInv, [Next]_vars PROVE TBase' /\ JobsKeep
  OBVIOUS
<1>1. CASE UNCHANGED vars
  BY <1>1, OutsideTyped, VariableTypes DEF vars
<1>2. ASSUME NEW s \in Schedulers, Tick(s) \/ RunJob(s) \/ Crash(s) \/ RuntimeStart(s)
      PROVE  TBase' /\ JobsKeep
  BY <1>2, TickTyped, RunTyped, CrashTyped, RuntimeStartTyped
<1>3. ASSUME NEW j \in Jobs, BackoffEnds(j) PROVE TBase' /\ JobsKeep
  BY <1>3, BackoffEndsTyped
<1>4. ASSUME NEW t \in Tasks, Rewrite(t) \/ \E st \in MoveTargets : Move(t, st)
      PROVE  TBase' /\ JobsKeep
  BY <1>4, RewriteTyped, MoveTyped
<1> QED
  BY <1>1, <1>2, <1>3, <1>4 DEF Next

-----------------------------------------------------------------------------
(* Only an executor, with the admission and the start of its worker,        *)
(* changes the attempts of a job.                                           *)
CountsSame == \A j \in Jobs : /\ jobs'[j].attempts = jobs[j].attempts
                              /\ jobs'[j].admitted = jobs[j].admitted

LEMMA SettledCounts ==
  ASSUME TInv, NEW j \in Jobs, jobs[j].creation # "none",
         NEW status \in {"accepted", "failed"},
         NEW cause \in {"none", "exit", "retryable", "permanent", "reconciled"},
         jobs' = [jobs EXCEPT ![j] = SettledAs(jobs[j], status, cause)]
  PROVE  CountsSame
<1>1. /\ SettledAs(jobs[j], status, cause).attempts = jobs[j].attempts
      /\ SettledAs(jobs[j], status, cause).admitted = jobs[j].admitted
  BY SettledSucceeds
<1>2. \A k \in Jobs : jobs'[k] = IF k = j THEN SettledAs(jobs[j], status, cause) ELSE jobs[k]
  BY VariableTypes
<1> QED
  BY <1>1, <1>2 DEF CountsSame

LEMMA RunCounts ==
  ASSUME TInv, NEW s \in Schedulers, RunJob(s)
  PROVE  CountsSame \/ Admit(s) \/ StartWorker(s)
<1> SUFFICES ASSUME ~ Admit(s), ~ StartWorker(s) PROVE CountsSame
  OBVIOUS
<1>0. CASE UNCHANGED jobs
  BY <1>0 DEF CountsSame
<1>a. ASSUME op[s].pc \in Executing
      PROVE  op[s].job \in Jobs /\ jobs[op[s].job].creation # "none"
  BY <1>a, OwnRecord DEF Executing, Running
<1>1. CASE Reject(s)
  BY <1>a, <1>1, VariableTypes DEF CountsSame, Reject, JobRecord, At, Executing
<1>2. CASE PrepareAcceptance(s)
  BY <1>a, <1>2, VariableTypes DEF CountsSame, PrepareAcceptance, JobRecord, At, Executing
<1>3. CASE Deliver(s)
  BY <1>a, <1>3, VariableTypes DEF CountsSame, Deliver, JobRecord, At, Executing
<1>4. CASE Accept(s)
  <2>1. op[s].pc \in Executing
        /\ jobs' = [jobs EXCEPT ![op[s].job] = SettledAs(jobs[op[s].job], "accepted", "none")]
    BY <1>4 DEF Accept, At, Executing
  <2> QED  BY <1>a, <2>1, SettledCounts
<1>5. ASSUME NEW cause \in {"exit", "retryable", "permanent"}, Fail(s, cause)
      PROVE  CountsSame
  <2>1. op[s].pc \in Executing
        /\ jobs' = [jobs EXCEPT ![op[s].job] = SettledAs(jobs[op[s].job], "failed", cause)]
    BY <1>5 DEF Fail, At, Executing
  <2> QED  BY <1>a, <2>1, SettledCounts
<1>6. CASE FailBeforeRun(s) \/ RepairExhausted(s)
  <2>1. op[s].pc \in Executing
        /\ jobs' = [jobs EXCEPT ![op[s].job] = SettledAs(jobs[op[s].job], "failed", "retryable")]
    BY <1>6 DEF FailBeforeRun, RepairExhausted, At, Executing
  <2> QED  BY <1>a, <2>1, SettledCounts
<1> QED
  BY <1>0, <1>1, <1>2, <1>3, <1>4, <1>5, <1>6
  DEF RunJob, LoadJob, Permit, Repair, RunReturns

LEMMA TickCounts ==
  ASSUME TInv, NEW s \in Schedulers, Tick(s)
  PROVE  CountsSame
<1>1. CASE UNCHANGED jobs
  BY <1>1 DEF CountsSame
<1>2. ASSUME NEW j \in Jobs, RecoverCreation(s, j) PROVE CountsSame
  <2>1. jobs[j].creation # "none"
    BY <1>2, OpTypes DEF RecoverCreation, At, Bound
  <2> QED  BY <1>2, <2>1, RecreatedSucceeds, VariableTypes DEF CountsSame, RecoverCreation
<1>3. ASSUME NEW j \in Jobs, RecoverAcceptance(s, j) PROVE CountsSame
  BY <1>3, VariableTypes DEF CountsSame, RecoverAcceptance, JobRecord
<1>4. ASSUME NEW e \in Transitions, Create(s, e) PROVE CountsSame
  BY <1>4, FreshIsJob, VariableTypes DEF CountsSame, Create, JobRecord
<1>5. CASE ApplyCreation(s)
  <2>1. op[s].job \in Jobs
    BY <1>5, OpTypes DEF ApplyCreation, At, Bound, WithJob
  <2> QED  BY <1>5, <2>1, VariableTypes DEF CountsSame, ApplyCreation, JobRecord
<1>6. CASE CommitCreation(s)
  <2>1. op[s].job \in Jobs
    BY <1>6, OpTypes DEF CommitCreation, At, Bound, WithJob
  <2> QED  BY <1>6, <2>1, VariableTypes DEF CountsSame, CommitCreation, JobRecord
<1> QED
  BY <1>1, <1>2, <1>3, <1>4, <1>5, <1>6
  DEF Tick, LoadContext, ListAcceptances, TakeLock, LaneUnresolved, LaneHeld, LaneOpen, Skip,
      NothingDue

LEMMA OtherCounts ==
  ASSUME TInv, [Next]_vars,
         ~ \E s \in Schedulers : Tick(s) \/ RunJob(s)
  PROVE  CountsSame
<1>1. CASE UNCHANGED jobs
  BY <1>1 DEF CountsSame
<1>2. ASSUME NEW s \in Schedulers, RuntimeStart(s) PROVE CountsSame
  <2>1. ASSUME NEW j \in Jobs, jobs[j].status \in Active
        PROVE  /\ SettledAs(jobs[j], "failed", "reconciled").attempts = jobs[j].attempts
               /\ SettledAs(jobs[j], "failed", "reconciled").admitted = jobs[j].admitted
    <3>1. jobs[j].creation # "none"
      BY <2>1, RecordTypes DEF JobBound, Active
    <3> QED  BY <3>1, SettledSucceeds
  <2> QED  BY <1>2, <2>1 DEF CountsSame, RuntimeStart, ActiveJobs
<1>3. ASSUME NEW j \in Jobs, BackoffEnds(j) PROVE CountsSame
  BY <1>3, VariableTypes DEF CountsSame, BackoffEnds, JobRecord
<1> QED
  BY <1>1, <1>2, <1>3 DEF Next, vars, Crash, Move, Rewrite

(* What a step of process s leaves to the executors, and what it may itself *)
(* go on with.                                                              *)
OthersCount(s) ==
    \A j \in Jobs : \/ jobs'[j].attempts = jobs[j].attempts /\ jobs'[j].admitted = jobs[j].admitted
                    \/ op[s].pc \in Executing /\ j = op[s].job

OthersStay(s) == \A u \in Schedulers \ {s} : op'[u] = op[u]

GoesOn(s) == op'[s].pc \in Executing =>
    /\ op'[s].job = op[s].job
    /\ op[s].pc \in Executing \/ ~ Claimed(op[s].job)
    /\ op'[s].pc \in {"permitted", "admitted"} => jobs'[op[s].job].attempts < MaxTotal
    /\ op'[s].pc = "admitted" => jobs'[op[s].job].admitted = jobs'[op[s].job].attempts + 1

LEMMA ReadyKept ==
  ASSUME TInv, NEW s \in Schedulers, OthersStay(s), OthersCount(s), GoesOn(s)
  PROVE  \A u \in Schedulers : Ready(u)'
<1> USE DEF OthersStay, OthersCount, GoesOn
<1>1. ASSUME NEW u \in Schedulers \ {s}, op[u].pc \in Executing PROVE Ready(u)'
  <2>1. op[u].job \in Jobs /\ Ready(u)
    BY <1>1, OpTypes DEF Bound, WithJob, Executing
  <2>2. op[s].pc \in Executing => op[s].job # op[u].job
    BY <1>1, <2>1 DEF Ready
  <2>3. op'[s].pc \in Executing => op'[s].job # op[u].job
    BY <1>1, <2>2 DEF Claimed
  <2>4. /\ jobs'[op[u].job].attempts = jobs[op[u].job].attempts
        /\ jobs'[op[u].job].admitted = jobs[op[u].job].admitted
    BY <2>1, <2>2
  <2> QED  BY <1>1, <2>1, <2>3, <2>4 DEF Ready
<1>2. ASSUME op'[s].pc \in Executing PROVE Ready(s)'
  <2>1. ASSUME NEW u \in Schedulers \ {s}, op[u].pc \in Executing, op[u].job = op[s].job
        PROVE  FALSE
    BY <1>2, <2>1, OpTypes DEF Ready, Claimed
  <2> QED  BY <1>2, <2>1 DEF Ready
<1>3. \A u \in Schedulers : op'[u].pc \notin Executing => Ready(u)'
  BY DEF Ready
<1> QED
  BY <1>1, <1>2, <1>3

(* A tick leaves its process outside the runs.                              *)
LEMMA TickLeaves ==
  ASSUME TInv, NEW s \in Schedulers, Tick(s)
  PROVE  op'[s].pc \notin Executing
<1>0. op[s] \in SchedulerState /\ op \in [Schedulers -> SchedulerState]
  BY OpTypes, VariableTypes
<1>1. \A past : Idle(past).pc = "idle"
  BY DEF Idle
<1>2. \A past, pc : [Idle(past) EXCEPT !.pc = pc].pc = pc
  BY DEF Idle
<1>3. \A past, j : [Idle(past) EXCEPT !.pc = "run", !.job = j].pc = "run"
  BY DEF Idle
<1>4. /\ EndTick(s) => op'[s].pc = "idle"
      /\ ErrorTick(s) => op'[s].pc \in {"idle", "gone"}
      /\ \A j : HandOut(s, j) => op'[s].pc = "run"
  <2>1. EndTick(s) => op'[s].pc = "idle"
    BY <1>0, <1>1 DEF EndTick
  <2>2. ErrorTick(s) => op'[s].pc \in {"idle", "gone"}
    BY <1>0, <1>2 DEF ErrorTick
  <2>3. ASSUME NEW j, HandOut(s, j) PROVE op'[s].pc = "run"
    BY <1>0, <1>3, <2>3 DEF HandOut
  <2> QED  BY <2>1, <2>2, <2>3
<1>5. CASE EndTick(s) \/ ErrorTick(s) \/ \E j : HandOut(s, j)
  BY <1>4, <1>5 DEF Executing
<1>6. CASE \/ LoadContext(s) \/ ListAcceptances(s) \/ TakeLock(s) \/ LaneOpen(s) \/ Skip(s)
           \/ \E j \in Jobs : RecoverCreation(s, j) \/ RecoverAcceptance(s, j)
  <2>1. CASE Skip(s) \/ \E j \in Jobs : RecoverCreation(s, j) \/ RecoverAcceptance(s, j)
    <3>1. \/ op' = [op EXCEPT ![s].queue = @ \ {First(@)}]
          \/ \E j \in Jobs : op' = [op EXCEPT ![s].todo = @ \ {j}]
      BY <2>1 DEF RecoverCreation, RecoverAcceptance, Skip, NextTask
    <3>2. op'[s].pc = op[s].pc
      BY <1>0, <3>1 DEF SchedulerState
    <3> QED
      BY <2>1, <3>2 DEF RecoverCreation, RecoverAcceptance, Skip, At, Executing
  <2>2. CASE LoadContext(s)
    BY <1>0, <2>2 DEF LoadContext, SchedulerState, Executing
  <2>3. CASE ListAcceptances(s)
    BY <1>0, <2>3 DEF ListAcceptances, SchedulerState, Executing
  <2>4. CASE TakeLock(s) \/ LaneOpen(s)
    BY <1>0, <2>4 DEF TakeLock, LaneOpen, SchedulerState, Executing
  <2> QED  BY <1>6, <2>1, <2>2, <2>3, <2>4
<1>7. CASE \/ op' = [op EXCEPT ![s].pc = "commit"]
           \/ \E j : op' = [op EXCEPT ![s].pc = "apply", ![s].job = j]
  BY <1>0, <1>7 DEF SchedulerState, Executing
<1> QED
  BY <1>5, <1>6, <1>7
  DEF Tick, LaneUnresolved, LaneHeld, NothingDue, Create, ApplyCreation, CommitCreation

LEMMA TickOthers ==
  ASSUME TInv, NEW s \in Schedulers, Tick(s)
  PROVE  OthersStay(s)
  BY VariableTypes
  DEF OthersStay, Tick, LoadContext, RecoverCreation, RecoverAcceptance, ListAcceptances, TakeLock,
      LaneUnresolved, LaneHeld, LaneOpen, Skip, NothingDue, Create, ApplyCreation,
      CommitCreation, EndTick, ErrorTick, HandOut, NextTask

LEMMA TickReady ==
  ASSUME TInv, NEW s \in Schedulers, Tick(s)
  PROVE  \A u \in Schedulers : Ready(u)'
<1>3. OthersCount(s) /\ GoesOn(s)
  BY TickCounts, TickLeaves DEF CountsSame, OthersCount, GoesOn
<1> QED
  BY <1>3, TickOthers, ReadyKept

LEMMA RunOthers ==
  ASSUME TInv, NEW s \in Schedulers, RunJob(s)
  PROVE  OthersStay(s)
  BY VariableTypes
  DEF OthersStay, RunJob, LoadJob, Permit, FailBeforeRun, Admit, StartWorker, Reject,
      PrepareAcceptance, Deliver, Accept, Repair, RepairExhausted, RunReturns, Fail, Goes

LEMMA RunReady ==
  ASSUME TInv, NEW s \in Schedulers, RunJob(s)
  PROVE  \A u \in Schedulers : Ready(u)'
<1>0. op \in [Schedulers -> SchedulerState] /\ Ready(s)
  BY OpTypes, VariableTypes
<1>1. CASE Admit(s)
  <2>1. op[s].pc = "permitted" /\ op' = [op EXCEPT ![s].pc = "admitted"]
    BY <1>1 DEF Admit, Goes, At
  <2>2. op[s].job \in Jobs
    BY <2>1, OwnRecord DEF Running
  <2>3. /\ jobs'[op[s].job].admitted = jobs[op[s].job].attempts + 1
        /\ jobs'[op[s].job].attempts = jobs[op[s].job].attempts
        /\ \A j \in Jobs \ {op[s].job} : jobs'[j] = jobs[j]
    BY <1>1, <2>2, VariableTypes DEF Admit, OwnJob, JobRecord
  <2>4. op'[s].pc = "admitted" /\ op'[s].job = op[s].job
        /\ \A u \in Schedulers \ {s} : op'[u] = op[u]
    BY <1>0, <2>1 DEF SchedulerState
  <2>5. jobs[op[s].job].attempts < MaxTotal
    BY <1>0, <2>1 DEF Ready, Executing
  <2>6. OthersStay(s) /\ OthersCount(s)
    BY <2>1, <2>3, <2>4 DEF OthersStay, OthersCount, Executing
  <2>7. GoesOn(s)
    BY <2>1, <2>3, <2>4, <2>5 DEF GoesOn, Executing
  <2> QED  BY <2>6, <2>7, ReadyKept
<1>2. CASE StartWorker(s)
  <2>1. op[s].pc = "admitted" /\ op' = [op EXCEPT ![s].pc = "working"]
    BY <1>2 DEF StartWorker, Goes, At
  <2>2. op[s].job \in Jobs
    BY <2>1, OwnRecord DEF Running
  <2>3. \A j \in Jobs \ {op[s].job} : jobs'[j] = jobs[j]
    BY <1>2, <2>2, VariableTypes DEF StartWorker
  <2>4. op'[s].pc = "working" /\ op'[s].job = op[s].job
        /\ \A u \in Schedulers \ {s} : op'[u] = op[u]
    BY <1>0, <2>1 DEF SchedulerState
  <2>5. OthersStay(s) /\ OthersCount(s)
    BY <2>1, <2>3, <2>4 DEF OthersStay, OthersCount, Executing
  <2>6. GoesOn(s)
    BY <2>1, <2>4 DEF GoesOn, Executing
  <2> QED  BY <2>5, <2>6, ReadyKept
<1>3. CASE CountsSame /\ ~ Admit(s) /\ ~ StartWorker(s)
  <2>1. OthersStay(s)
    BY RunOthers
  <2>2. GoesOn(s)
    <3> USE DEF GoesOn
    <3>1. CASE op' = op /\ op[s].pc = "working"
      BY <1>0, <3>1 DEF Executing
    <3>2. CASE RunReturns(s)
      BY <1>0, <3>2 DEF RunReturns, Idle, Executing
    <3>3. CASE LoadJob(s) \/ Repair(s)
      BY <1>0, <3>3 DEF LoadJob, Repair, Goes, At, SchedulerState, Executing
    <3>4. CASE FailBeforeRun(s)
      BY <1>0, <3>4 DEF FailBeforeRun, Goes, SchedulerState, Executing
    <3>5. CASE Permit(s)
      <4>1. op[s].pc = "loaded" /\ op' = [op EXCEPT ![s].pc = "permitted"] /\ UNCHANGED jobs
        BY <3>5 DEF Permit, Goes, At
      <4>2. op[s].job \in Jobs /\ jobs[op[s].job].status # "absent"
            /\ Home[jobs[op[s].job].task] = Serves[s]
        BY <4>1, OwnRecord DEF Running
      <4>3. AccountHasRoom(Home[jobs[op[s].job].task], jobs[op[s].job].task,
                           jobs[op[s].job].edge, jobs[op[s].job].revision)
        BY <3>5, <4>2 DEF Permit, HasRoom, OwnJob
      <4>4. jobs[op[s].job].attempts < MaxTotal
        <5>1. jobs[op[s].job].admitted + 1 \in 0..MaxTotal
          BY <4>2, <4>3, RoomInJob
        <5> QED  BY <4>2, <5>1, RecordTypes, BoundsAssumption
      <4> QED  BY <1>0, <4>1, <4>4 DEF SchedulerState, Executing
    <3> QED
      BY <1>3, <3>1, <3>2, <3>3, <3>4, <3>5
      DEF RunJob, Reject, PrepareAcceptance, Deliver, Accept, RepairExhausted, Fail, At
  <2>3. OthersCount(s)
    BY <1>3 DEF OthersCount, CountsSame
  <2> QED  BY <2>1, <2>2, <2>3, ReadyKept
<1> QED
  BY <1>1, <1>2, <1>3, RunCounts

LEMMA OtherReady ==
  ASSUME TInv, [Next]_vars, ~ \E s \in Schedulers : Tick(s) \/ RunJob(s)
  PROVE  \A u \in Schedulers : Ready(u)'
<1>0. CountsSame /\ op \in [Schedulers -> SchedulerState]
  BY OtherCounts, VariableTypes
<1>1. CASE UNCHANGED op
  <2>1. ASSUME NEW u \in Schedulers PROVE Ready(u)'
    <3>1. Ready(u) /\ (op[u].pc \in Executing => op[u].job \in Jobs)
      BY OpTypes DEF Bound, WithJob, Executing
    <3> QED  BY <1>0, <1>1, <3>1 DEF Ready, CountsSame
  <2> QED  BY <2>1
<1>2. ASSUME NEW s \in Schedulers, Crash(s) \/ RuntimeStart(s)
      PROVE  \A u \in Schedulers : Ready(u)'
  <2>1. op'[s].pc \in {"gone", "idle"} /\ \A u \in Schedulers \ {s} : op'[u] = op[u]
    BY <1>0, <1>2 DEF Crash, RuntimeStart, Idle
  <2>2. OthersStay(s) /\ OthersCount(s) /\ GoesOn(s)
    BY <1>0, <2>1 DEF OthersStay, OthersCount, GoesOn, CountsSame, Executing
  <2> QED  BY <2>2, ReadyKept
<1> QED
  BY <1>1, <1>2 DEF Next, vars, BackoffEnds, Move, Rewrite

LEMMA StepTyped == TInv /\ [Next]_vars => TInv' /\ JobsKeep
  BY StepBase, TickReady, RunReady, OtherReady DEF TInv

LEMMA TypedAlways == Spec => []TInv
  BY InitTyped, StepTyped, PTL DEF Spec

(* The vault, the job records and their journals, and where each scheduler  *)
(* process is keep their shape: no job gets more attempts than the limit of *)
(* its transition allows (scheduler.py schedule_one, executor.py            *)
(* _admit_attempt), over any tasks, processes, crashes and edits.           *)
THEOREM Typed == Spec => []TypeOK
<1>1. TInv => TypeOK
  BY DEF TInv, TBase
<1> QED
  BY <1>1, TypedAlways, PTL

-----------------------------------------------------------------------------
(* What nobody overtakes: in a project whose daemon is alone, or that only  *)
(* commands serve, runtime start fails no job that is being executed, and   *)
(* recovery delivers none.  There an executor is where the status of its    *)
(* job says, a prepared acceptance is attended by the executor or waits for *)
(* the next start of the daemon, and a transition has one active job.       *)
Undisturbed(p) ==
    \A d \in Daemons, s \in Schedulers : Serves[d] = p /\ Serves[s] = p => s = d

Begun == {"loaded", "permitted", "admitted"}
ActiveOf(p, j) == jobs[j].status \in Active /\ Home[jobs[j].task] = p

Attended(p, j) ==
    \/ \E s \in Schedulers : op[s].pc = "working" /\ op[s].job = j
    \/ \E d \in Daemons : Serves[d] = p /\ op[d].pc = "gone"

RunsCalm(p) == \A s \in Schedulers : Serves[s] = p /\ op[s].pc \in Begun =>
    OwnJob(s).status \in Active /\ OwnJob(s).acceptance = "none"

JobsCalm(p) == \A j \in Jobs : ActiveOf(p, j) =>
    /\ jobs[j].status # "completion_submitted" => jobs[j].acceptance = "none"
    /\ jobs[j].acceptance # "none" => Attended(p, j)

OneActive(p) == \A j, k \in Jobs :
    /\ ActiveOf(p, j) /\ ActiveOf(p, k)
    /\ jobs[j].task = jobs[k].task /\ jobs[j].edge = jobs[k].edge
    => j = k

Calm(p) == RunsCalm(p) /\ JobsCalm(p) /\ OneActive(p)

(* Steps after which each job is as it was or no longer active.             *)
KeepsOrEnds(p) == \A j \in Jobs :
    \/ jobs'[j].status = jobs[j].status /\ jobs'[j].acceptance = jobs[j].acceptance
    \/ /\ jobs'[j].status \notin Active
       /\ \A s \in Schedulers : Serves[s] = p /\ op[s].pc \in Begun => op[s].job # j

BeginsCalm(p) == \A s \in Schedulers : Serves[s] = p /\ op'[s].pc \in Begun =>
    \/ op[s].pc \in Begun /\ op'[s].job = op[s].job
    \/ /\ jobs'[op'[s].job].status \in Active
       /\ jobs'[op'[s].job].acceptance = "none"

KeepsAttending(p) == \A j \in Jobs :
    /\ jobs'[j].status \in Active /\ jobs'[j].acceptance # "none"
    /\ Home[jobs'[j].task] = p /\ Attended(p, j)
    => Attended(p, j)'

LEMMA ActiveKeeps ==
  ASSUME TInv, JobsKeep, NEW j \in Jobs, jobs[j].status \in Active
  PROVE  /\ jobs[j].creation # "none" /\ jobs[j].status # "absent"
         /\ jobs'[j].task = jobs[j].task /\ jobs'[j].edge = jobs[j].edge
  BY RecordTypes DEF JobBound, JobsKeep, Active

LEMMA BegunJob ==
  ASSUME TInv, NEW s \in Schedulers, op[s].pc \in Executing
  PROVE  /\ op[s].job \in Jobs /\ jobs[op[s].job].creation # "none"
         /\ jobs[op[s].job].status # "absent" /\ Home[jobs[op[s].job].task] = Serves[s]
  BY OwnRecord DEF Executing, Running

LEMMA CalmKept ==
  ASSUME TInv, JobsKeep, NEW p, Calm(p), KeepsOrEnds(p), BeginsCalm(p), KeepsAttending(p)
  PROVE  Calm(p)'
<1>1. RunsCalm(p)'
  <2> SUFFICES ASSUME NEW s \in Schedulers, Serves[s] = p, op'[s].pc \in Begun
               PROVE  /\ jobs'[op'[s].job].status \in Active
                      /\ jobs'[op'[s].job].acceptance = "none"
    BY DEF RunsCalm, OwnJob
  <2>1. CASE op[s].pc \in Begun /\ op'[s].job = op[s].job
    <3>1. op[s].job \in Jobs
      BY <2>1, BegunJob DEF Begun, Executing
    <3>2. jobs[op[s].job].status \in Active /\ jobs[op[s].job].acceptance = "none"
      BY <2>1 DEF Calm, RunsCalm, OwnJob
    <3> QED  BY <2>1, <3>1, <3>2 DEF KeepsOrEnds
  <2> QED  BY <2>1 DEF BeginsCalm
<1>2. ASSUME NEW j \in Jobs, ActiveOf(p, j)'
      PROVE  /\ ActiveOf(p, j) /\ jobs'[j].status = jobs[j].status
             /\ jobs'[j].acceptance = jobs[j].acceptance
             /\ jobs'[j].task = jobs[j].task /\ jobs'[j].edge = jobs[j].edge
  <2>1. jobs'[j].status = jobs[j].status /\ jobs'[j].acceptance = jobs[j].acceptance
    BY <1>2 DEF ActiveOf, KeepsOrEnds
  <2> QED  BY <1>2, <2>1, ActiveKeeps DEF ActiveOf
<1>3. JobsCalm(p)'
  <2> SUFFICES ASSUME NEW j \in Jobs, ActiveOf(p, j)'
               PROVE  /\ jobs'[j].status # "completion_submitted" => jobs'[j].acceptance = "none"
                      /\ jobs'[j].acceptance # "none" => Attended(p, j)'
    BY DEF JobsCalm
  <2>1. /\ ActiveOf(p, j) /\ jobs'[j].status = jobs[j].status
        /\ jobs'[j].acceptance = jobs[j].acceptance
    BY <1>2
  <2>2. /\ jobs[j].status # "completion_submitted" => jobs[j].acceptance = "none"
        /\ jobs[j].acceptance # "none" => Attended(p, j)
    BY <2>1 DEF Calm, JobsCalm
  <2>3. jobs'[j].status \in Active /\ Home[jobs'[j].task] = p
    BY DEF ActiveOf
  <2> QED  BY <2>1, <2>2, <2>3 DEF KeepsAttending
<1>4. OneActive(p)'
  <2> SUFFICES ASSUME NEW j \in Jobs, NEW k \in Jobs, ActiveOf(p, j)', ActiveOf(p, k)',
                      jobs'[j].task = jobs'[k].task, jobs'[j].edge = jobs'[k].edge
               PROVE  j = k
    BY DEF OneActive
  <2> QED  BY <1>2 DEF Calm, OneActive
<1> QED
  BY <1>1, <1>3, <1>4 DEF Calm

(* A process that neither works nor is gone attends to nothing.             *)
LEMMA AttendedElsewhere ==
  ASSUME NEW s \in Schedulers, op[s].pc \notin {"working", "gone"}, OthersStay(s), NEW p
  PROVE  KeepsAttending(p)
  BY DEF KeepsAttending, Attended, OthersStay, Schedulers

LEMMA BeginsNothing ==
  ASSUME NEW s \in Schedulers, op'[s].pc \notin Executing, OthersStay(s), NEW p
  PROVE  BeginsCalm(p)
  BY DEF BeginsCalm, OthersStay, Begun, Executing

(* A job begins to be active.                                               *)
LEMMA CalmBirth ==
  ASSUME TInv, JobsKeep, NEW p, Calm(p), NEW s \in Schedulers,
         op[s].pc \notin {"working", "gone"}, op'[s].pc \notin Executing, OthersStay(s),
         NEW j \in Jobs, jobs[j].creation # "none",
         \A k \in Jobs \ {j} : jobs'[k] = jobs[k], jobs'[j].acceptance = "none",
         \A u \in Schedulers : op[u].pc \in Running => op[u].job # j,
         ActiveJobs(OfTransition(Recorded, jobs[j].task, jobs[j].edge)) = {}
  PROVE  Calm(p)'
<1>0. KeepsAttending(p) /\ BeginsCalm(p)
  BY AttendedElsewhere, BeginsNothing
<1>1. RunsCalm(p)'
  <2> SUFFICES ASSUME NEW u \in Schedulers, Serves[u] = p, op'[u].pc \in Begun
               PROVE  /\ jobs'[op'[u].job].status \in Active
                      /\ jobs'[op'[u].job].acceptance = "none"
    BY DEF RunsCalm, OwnJob
  <2>1. u # s
    BY DEF Begun, Executing
  <2>2. op'[u] = op[u]
    BY <2>1 DEF OthersStay
  <2>3. op[u].job \in Jobs \ {j}
    BY <2>2, BegunJob DEF Begun, Executing, Running
  <2>4. jobs[op[u].job].status \in Active /\ jobs[op[u].job].acceptance = "none"
    BY <2>2 DEF Calm, RunsCalm, OwnJob
  <2> QED  BY <2>2, <2>3, <2>4
<1>2. JobsCalm(p)'
  <2> SUFFICES ASSUME NEW k \in Jobs, ActiveOf(p, k)'
               PROVE  /\ jobs'[k].status # "completion_submitted" => jobs'[k].acceptance = "none"
                      /\ jobs'[k].acceptance # "none" => Attended(p, k)'
    BY DEF JobsCalm
  <2>1. CASE k = j
    BY <2>1
  <2>2. CASE k # j
    <3>1. jobs'[k] = jobs[k] /\ ActiveOf(p, k)
      BY <2>2 DEF ActiveOf
    <3>2. /\ jobs[k].status # "completion_submitted" => jobs[k].acceptance = "none"
          /\ jobs[k].acceptance # "none" => Attended(p, k)
      BY <3>1 DEF Calm, JobsCalm
    <3>3. jobs'[k].status \in Active /\ Home[jobs'[k].task] = p
      BY DEF ActiveOf
    <3> QED  BY <1>0, <3>1, <3>2, <3>3 DEF KeepsAttending
  <2> QED  BY <2>1, <2>2
<1>3. OneActive(p)'
  <2> SUFFICES ASSUME NEW k \in Jobs, NEW l \in Jobs, ActiveOf(p, k)', ActiveOf(p, l)',
                      jobs'[k].task = jobs'[l].task, jobs'[k].edge = jobs'[l].edge
               PROVE  k = l
    BY DEF OneActive
  <2>1. jobs'[j].task = jobs[j].task /\ jobs'[j].edge = jobs[j].edge
    BY DEF JobsKeep
  <2>2. ASSUME NEW i \in Jobs \ {j}, ActiveOf(p, i)',
               jobs'[i].task = jobs'[j].task, jobs'[i].edge = jobs'[j].edge
        PROVE  FALSE
    <3>1. jobs[i].status \in Active /\ jobs[i].task = jobs[j].task /\ jobs[i].edge = jobs[j].edge
      BY <2>1, <2>2 DEF ActiveOf
    <3>2. i \in ActiveJobs(OfTransition(Recorded, jobs[j].task, jobs[j].edge))
      BY <3>1 DEF ActiveJobs, OfTransition, Recorded, Active
    <3> QED  BY <3>2
  <2>3. CASE k # j /\ l # j
    BY <2>3 DEF Calm, OneActive, ActiveOf
  <2> QED  BY <2>2, <2>3
<1> QED
  BY <1>1, <1>2, <1>3 DEF Calm

(* An executor writes the status of its job.                                *)
LEMMA CalmWorks ==
  ASSUME TInv, JobsKeep, NEW p, Calm(p), NEW s \in Schedulers,
         op[s].pc \in Executing, op'[s].pc = "working", op'[s].job = op[s].job, OthersStay(s),
         \A k \in Jobs \ {op[s].job} : jobs'[k] = jobs[k],
         Serves[s] = p /\ jobs'[op[s].job].status \in Active =>
            /\ jobs[op[s].job].status \in Active
            /\ \/ jobs'[op[s].job].status = "completion_submitted"
               \/ jobs'[op[s].job].acceptance = "none"
  PROVE  Calm(p)'
<1> DEFINE own == op[s].job
<1>0. /\ own \in Jobs /\ Home[jobs[own].task] = Serves[s] /\ jobs'[own].task = jobs[own].task
      /\ jobs'[own].edge = jobs[own].edge
  BY BegunJob DEF JobsKeep
<1>a. Serves[s] = p /\ jobs'[own].status \in Active =>
         /\ jobs[own].status \in Active
         /\ \/ jobs'[own].status = "completion_submitted"
            \/ jobs'[own].acceptance = "none"
  OBVIOUS
<1>b. \A k \in Jobs \ {own} : jobs'[k] = jobs[k]
  OBVIOUS
<1>c. \A u \in Schedulers \ {s} : op[u].pc \in Executing => op[u].job # own
  BY OpTypes DEF Ready
<1>d. op[s].job = own /\ op'[s].job = own
  OBVIOUS
<1> HIDE DEF own
<1>1. RunsCalm(p)'
  <2> SUFFICES ASSUME NEW u \in Schedulers, Serves[u] = p, op'[u].pc \in Begun
               PROVE  /\ jobs'[op'[u].job].status \in Active
                      /\ jobs'[op'[u].job].acceptance = "none"
    BY DEF RunsCalm, OwnJob
  <2>1. u # s
    BY DEF Begun
  <2>2. op'[u] = op[u]
    BY <2>1 DEF OthersStay
  <2>3. op[u].job \in Jobs /\ op[u].job # own
    BY <1>c, <2>1, <2>2, BegunJob DEF Begun, Executing
  <2>4. jobs[op[u].job].status \in Active /\ jobs[op[u].job].acceptance = "none"
    BY <2>2 DEF Calm, RunsCalm, OwnJob
  <2> QED  BY <1>b, <2>2, <2>3, <2>4
<1>2. JobsCalm(p)'
  <2> SUFFICES ASSUME NEW k \in Jobs, ActiveOf(p, k)'
               PROVE  /\ jobs'[k].status # "completion_submitted" => jobs'[k].acceptance = "none"
                      /\ jobs'[k].acceptance # "none" => Attended(p, k)'
    BY DEF JobsCalm
  <2>1. CASE k = own
    <3>1. Attended(p, k)'
      BY <1>d, <2>1 DEF Attended
    <3> QED  BY <1>0, <1>a, <2>1, <3>1 DEF ActiveOf
  <2>2. CASE k # own
    <3>1. jobs'[k] = jobs[k] /\ ActiveOf(p, k)
      BY <1>b, <2>2 DEF ActiveOf
    <3>2. /\ jobs[k].status # "completion_submitted" => jobs[k].acceptance = "none"
          /\ jobs[k].acceptance # "none" => Attended(p, k)
      BY <3>1 DEF Calm, JobsCalm
    <3>3. Attended(p, k) => Attended(p, k)'
      BY <1>d, <2>2 DEF Attended, OthersStay, Schedulers, Executing
    <3> QED  BY <3>1, <3>2, <3>3
  <2> QED  BY <2>1, <2>2
<1>3. OneActive(p)'
  <2> SUFFICES ASSUME NEW k \in Jobs, NEW l \in Jobs, ActiveOf(p, k)', ActiveOf(p, l)',
                      jobs'[k].task = jobs'[l].task, jobs'[k].edge = jobs'[l].edge
               PROVE  k = l
    BY DEF OneActive
  <2>1. ASSUME NEW i \in Jobs, ActiveOf(p, i)'
        PROVE  ActiveOf(p, i) /\ jobs'[i].task = jobs[i].task /\ jobs'[i].edge = jobs[i].edge
    BY <1>0, <1>a, <1>b, <2>1 DEF ActiveOf
  <2> QED  BY <2>1 DEF Calm, OneActive
<1> QED
  BY <1>1, <1>2, <1>3 DEF Calm

LEMMA TickCalm ==
  ASSUME TInv, JobsKeep, NEW p, Calm(p), NEW s \in Schedulers, Tick(s)
  PROVE  Calm(p)'
<1>0. /\ op[s].pc \notin {"working", "gone"} /\ op'[s].pc \notin Executing /\ OthersStay(s)
  <2>1. op[s].pc \notin {"working", "gone"}
    BY DEF Tick, LoadContext, RecoverCreation, RecoverAcceptance, ListAcceptances, TakeLock,
       LaneUnresolved, LaneHeld, LaneOpen, Skip, NothingDue, Create, ApplyCreation,
       CommitCreation, At
  <2> QED  BY <2>1, TickLeaves, TickOthers
<1>1. KeepsAttending(p) /\ BeginsCalm(p)
  BY <1>0, AttendedElsewhere, BeginsNothing
<1>2. CASE UNCHANGED jobs
  <2>1. KeepsOrEnds(p)
    BY <1>2 DEF KeepsOrEnds
  <2> QED  BY <1>1, <2>1, CalmKept
<1>3. ASSUME NEW j \in Jobs, RecoverCreation(s, j) PROVE Calm(p)'
  <2>1. jobs[j].creation # "none" /\ jobs' = [jobs EXCEPT ![j] = RecreatedIfFree(j)]
    BY <1>3, OpTypes DEF RecoverCreation, At, Bound
  <2>2. jobs'[j] = RecreatedIfFree(j) /\ \A k \in Jobs \ {j} : jobs'[k] = jobs[k]
    BY <2>1, VariableTypes
  <2>3. RecreatedIfFree(j).acceptance = jobs[j].acceptance
    BY <2>1, RecreatedSucceeds
  <2>4. CASE RecreatedIfFree(j).status = jobs[j].status
    <3>1. KeepsOrEnds(p)
      BY <2>2, <2>3, <2>4 DEF KeepsOrEnds
    <3> QED  BY <1>1, <3>1, CalmKept
  <2>5. CASE RecreatedIfFree(j).status # jobs[j].status
    <3>1. jobs[j].status = "absent"
          /\ ActiveJobs(OfTransition(Recorded, jobs[j].task, jobs[j].edge)) = {}
      BY <2>5, RecordTypes DEF RecreatedIfFree, JobRecord
    <3>2. jobs[j].acceptance = "none"
      BY <3>1, RecordTypes DEF JobBound
    <3>3. \A u \in Schedulers : op[u].pc \in Running => op[u].job # j
      BY <3>1, OwnRecord
    <3> QED  BY <1>0, <2>1, <2>2, <2>3, <3>1, <3>2, <3>3, CalmBirth
  <2> QED  BY <2>4, <2>5
<1>4. ASSUME NEW j \in Jobs, RecoverAcceptance(s, j) PROVE Calm(p)'
  <2>1. jobs[j].acceptance # "none"
    BY <1>4, OpTypes DEF RecoverAcceptance, At, Bound
  <2>2. \A u \in Schedulers : Serves[u] = p /\ op[u].pc \in Begun => op[u].job # j
    BY <2>1 DEF Calm, RunsCalm, OwnJob
  <2>3. \/ UNCHANGED jobs
        \/ jobs'[j].status = "accepted" /\ \A k \in Jobs \ {j} : jobs'[k] = jobs[k]
    BY <1>4, VariableTypes DEF RecoverAcceptance, JobRecord
  <2>4. KeepsOrEnds(p)
    BY <2>2, <2>3 DEF KeepsOrEnds, Active
  <2> QED  BY <1>1, <2>4, CalmKept
<1>5. ASSUME NEW e \in Transitions, Create(s, e) PROVE Calm(p)'
  <2>1. \A j \in Jobs : jobs'[j].status = jobs[j].status /\ jobs'[j].acceptance = jobs[j].acceptance
    BY <1>5, FreshIsJob, VariableTypes DEF Create, JobRecord
  <2>2. KeepsOrEnds(p)
    BY <2>1 DEF KeepsOrEnds
  <2> QED  BY <1>1, <2>2, CalmKept
<1>6. CASE ApplyCreation(s)
  <2>1. /\ op[s].pc = "apply" /\ op[s].job \in Jobs /\ jobs[op[s].job].creation # "none"
        /\ jobs[op[s].job].acceptance = "none"
        /\ \A u \in Schedulers : op[u].pc \in Running => op[u].job # op[s].job
    BY <1>6, OpTypes DEF ApplyCreation, At, Bound, WithJob, Applying
  <2>2. CASE /\ ActiveJobs(OfTransition(Recorded, jobs[op[s].job].task, jobs[op[s].job].edge)) = {}
             /\ jobs' = [jobs EXCEPT ![op[s].job].status = "pending"]
    <3>1. jobs'[op[s].job].acceptance = "none" /\ \A k \in Jobs \ {op[s].job} : jobs'[k] = jobs[k]
      BY <2>1, <2>2, VariableTypes DEF JobRecord
    <3> QED  BY <1>0, <2>1, <2>2, <3>1, CalmBirth
  <2>3. CASE jobs' = [jobs EXCEPT ![op[s].job].creation = "failed"]
    <3>1. KeepsOrEnds(p)
      BY <2>1, <2>3, VariableTypes DEF KeepsOrEnds, JobRecord
    <3> QED  BY <1>1, <3>1, CalmKept
  <2> QED  BY <1>6, <2>2, <2>3 DEF ApplyCreation
<1>7. CASE CommitCreation(s)
  <2>1. op[s].job \in Jobs
    BY <1>7, OpTypes DEF CommitCreation, At, Bound, WithJob
  <2>2. KeepsOrEnds(p)
    BY <1>7, <2>1, VariableTypes DEF KeepsOrEnds, CommitCreation, JobRecord
  <2> QED  BY <1>1, <2>2, CalmKept
<1> QED
  BY <1>2, <1>3, <1>4, <1>5, <1>6, <1>7
  DEF Tick, LoadContext, ListAcceptances, TakeLock, LaneUnresolved, LaneHeld, LaneOpen, Skip,
      NothingDue

(* A step of a run that leaves status and delivery of all jobs alone.       *)
LEMMA SameJobs ==
  ASSUME NEW p, \A j \in Jobs : /\ jobs'[j].status = jobs[j].status
                                /\ jobs'[j].acceptance = jobs[j].acceptance
  PROVE  KeepsOrEnds(p)
  BY DEF KeepsOrEnds

LEMMA LoadJobCalm ==
  ASSUME TInv, JobsKeep, NEW p, Undisturbed(p), Calm(p), NEW s \in Schedulers, LoadJob(s)
  PROVE  Calm(p)'
<1>1. /\ op[s].pc = "run" /\ ~ Claimed(op[s].job) /\ jobs[op[s].job].status \in Active
      /\ op' = [op EXCEPT ![s].pc = "loaded"] /\ UNCHANGED jobs
  BY DEF LoadJob, At, Goes, OwnJob
<1>2. OthersStay(s) /\ op'[s].pc = "loaded" /\ op'[s].job = op[s].job
  BY <1>1, VariableTypes DEF OthersStay, SchedulerState
<1>3. KeepsOrEnds(p) /\ KeepsAttending(p)
  BY <1>1, <1>2, SameJobs, AttendedElsewhere
<1>4. BeginsCalm(p)
  <2>1. ASSUME Serves[s] = p PROVE jobs[op[s].job].acceptance = "none"
    <3>1. op[s].job \in Jobs /\ Home[jobs[op[s].job].task] = p
      BY <1>1, <2>1, OwnRecord DEF Running
    <3>2. ~ Attended(p, op[s].job)
      <4>1. ASSUME NEW u \in Schedulers, op[u].pc = "working", op[u].job = op[s].job PROVE FALSE
        BY <1>1, <4>1 DEF Claimed, Executing
      <4>2. ASSUME NEW d \in Daemons, Serves[d] = p, op[d].pc = "gone" PROVE FALSE
        BY <1>1, <2>1, <4>2 DEF Undisturbed
      <4> QED  BY <4>1, <4>2 DEF Attended
    <3>3. ActiveOf(p, op[s].job)
      BY <1>1, <3>1 DEF ActiveOf
    <3> QED  BY <3>1, <3>2, <3>3 DEF Calm, JobsCalm
  <2> QED  BY <1>1, <1>2, <2>1 DEF BeginsCalm, OthersStay
<1> QED
  BY <1>3, <1>4, CalmKept

LEMMA PermitCalm ==
  ASSUME TInv, JobsKeep, NEW p, Calm(p), NEW s \in Schedulers, Permit(s) \/ Admit(s)
  PROVE  Calm(p)'
<1>1. /\ op[s].pc \in {"loaded", "permitted"}
      /\ \E pc \in {"permitted", "admitted"} : op' = [op EXCEPT ![s].pc = pc]
  BY DEF Permit, Admit, At, Goes
<1>2. OthersStay(s) /\ op'[s].job = op[s].job
  BY <1>1, VariableTypes DEF OthersStay, SchedulerState
<1>3. op[s].job \in Jobs
  BY <1>1, BegunJob DEF Executing
<1>4. \A j \in Jobs : jobs'[j].status = jobs[j].status /\ jobs'[j].acceptance = jobs[j].acceptance
  BY <1>3, VariableTypes DEF Permit, Admit, JobRecord
<1>5. KeepsOrEnds(p) /\ KeepsAttending(p)
  BY <1>1, <1>2, <1>4, SameJobs, AttendedElsewhere
<1>6. BeginsCalm(p)
  BY <1>1, <1>2 DEF BeginsCalm, OthersStay, Begun
<1> QED
  BY <1>5, <1>6, CalmKept

LEMMA RepairCalm ==
  ASSUME TInv, JobsKeep, NEW p, Calm(p), NEW s \in Schedulers, Repair(s)
  PROVE  Calm(p)'
<1>1. /\ op[s].pc = "working" /\ jobs[op[s].job].status = "completion_rejected"
      /\ op' = [op EXCEPT ![s].pc = "loaded"] /\ UNCHANGED jobs
  BY DEF Repair, At, Goes, OwnJob
<1>2. OthersStay(s) /\ op'[s].pc = "loaded" /\ op'[s].job = op[s].job
  BY <1>1, VariableTypes DEF OthersStay, SchedulerState
<1>3. op[s].job \in Jobs /\ Home[jobs[op[s].job].task] = Serves[s]
  BY <1>1, BegunJob DEF Executing
<1>4. Serves[s] = p => jobs[op[s].job].acceptance = "none"
  BY <1>1, <1>3 DEF Calm, JobsCalm, ActiveOf, Active
<1>5. KeepsOrEnds(p)
  BY <1>1, SameJobs
<1>6. BeginsCalm(p)
  BY <1>1, <1>2, <1>4 DEF BeginsCalm, OthersStay, Active
<1>7. KeepsAttending(p)
  <2> SUFFICES ASSUME NEW j \in Jobs, jobs'[j].acceptance # "none", Home[jobs'[j].task] = p,
                      Attended(p, j)
               PROVE  Attended(p, j)'
    BY DEF KeepsAttending
  <2>1. j # op[s].job
    BY <1>1, <1>3, <1>4
  <2> QED  BY <1>1, <1>2, <2>1 DEF Attended, OthersStay, Schedulers
<1> QED
  BY <1>5, <1>6, <1>7, CalmKept

LEMMA RunReturnsCalm ==
  ASSUME TInv, JobsKeep, NEW p, Calm(p), NEW s \in Schedulers, RunReturns(s)
  PROVE  Calm(p)'
<1>1. /\ op[s].pc \in Running /\ UNCHANGED jobs /\ op' = [op EXCEPT ![s] = Idle(op[s].past)]
      /\ op[s].pc = "working" => jobs[op[s].job].status \in {"accepted", "failed"}
  BY DEF RunReturns, At, OwnJob, Running
<1>2. OthersStay(s) /\ op'[s].pc = "idle"
  BY <1>1, VariableTypes DEF OthersStay, Idle
<1>3. KeepsOrEnds(p) /\ BeginsCalm(p)
  BY <1>1, <1>2, SameJobs, BeginsNothing DEF Executing
<1>4. KeepsAttending(p)
  <2> SUFFICES ASSUME NEW j \in Jobs, jobs'[j].status \in Active, Attended(p, j)
               PROVE  Attended(p, j)'
    BY DEF KeepsAttending
  <2>1. op[s].pc = "working" => op[s].job # j
    BY <1>1 DEF Active
  <2> QED  BY <1>1, <1>2, <2>1 DEF Attended, OthersStay, Schedulers, Running
<1> QED
  BY <1>3, <1>4, CalmKept

(* An executor writes the record of its job.                                *)
Writes(s) ==
    \/ FailBeforeRun(s) \/ StartWorker(s) \/ Reject(s) \/ PrepareAcceptance(s)
    \/ Deliver(s) \/ Accept(s) \/ RepairExhausted(s)
    \/ \E cause \in {"exit", "retryable", "permanent"} : Fail(s, cause)

LEMMA WritesOwn ==
  ASSUME TInv, NEW s \in Schedulers, Writes(s)
  PROVE  /\ op[s].pc \in Executing
         /\ op' = [op EXCEPT ![s].pc = "working"] \/ (op' = op /\ op[s].pc = "working")
         /\ op'[s].pc = "working" /\ op'[s].job = op[s].job /\ OthersStay(s)
         /\ \A k \in Jobs \ {op[s].job} : jobs'[k] = jobs[k]
<1> USE DEF Writes
<1>1. op[s].pc \in Executing
  BY DEF FailBeforeRun, StartWorker, Reject, PrepareAcceptance, Deliver, Accept,
     RepairExhausted, Fail, At, Executing
<1>2. op' = [op EXCEPT ![s].pc = "working"] \/ (op' = op /\ op[s].pc = "working")
  <2>1. FailBeforeRun(s) \/ StartWorker(s) => op' = [op EXCEPT ![s].pc = "working"]
    BY DEF FailBeforeRun, StartWorker, Goes
  <2>2. \/ Reject(s) \/ PrepareAcceptance(s) \/ Deliver(s) \/ Accept(s) \/ RepairExhausted(s)
        \/ \E cause \in {"exit", "retryable", "permanent"} : Fail(s, cause)
        => op' = op /\ op[s].pc = "working"
    BY DEF Reject, PrepareAcceptance, Deliver, Accept, RepairExhausted, Fail, At
  <2> QED  BY <2>1, <2>2
<1>3. op'[s].pc = "working" /\ op'[s].job = op[s].job /\ OthersStay(s)
  BY <1>2, VariableTypes DEF OthersStay, SchedulerState
<1>4. \A k \in Jobs \ {op[s].job} : jobs'[k] = jobs[k]
  BY <1>1, BegunJob, VariableTypes
  DEF FailBeforeRun, StartWorker, Reject, PrepareAcceptance, Deliver, Accept,
     RepairExhausted, Fail
<1> QED
  BY <1>1, <1>2, <1>3, <1>4

(* In a calm project no executor brings a job back that has ended.          *)
LEMMA WritesActive ==
  ASSUME TInv, NEW s \in Schedulers, Calm(Serves[s]), Writes(s),
         jobs'[op[s].job].status \in Active
  PROVE  /\ jobs[op[s].job].status \in Active
         /\ \/ jobs'[op[s].job].status = "completion_submitted"
            \/ jobs'[op[s].job].acceptance = "none"
<1> DEFINE j == op[s].job
<1>1. op[s].pc \in Executing
  BY WritesOwn
<1>4. j \in Jobs /\ jobs[j] \in JobRecord /\ Home[jobs[j].task] = Serves[s]
  BY <1>1, BegunJob, RecordTypes
<1>0. jobs[j].status \in Active /\ jobs[j].status # "completion_submitted"
      => jobs[j].acceptance = "none"
  BY <1>4 DEF Calm, JobsCalm, ActiveOf
<1>5. CASE FailBeforeRun(s) \/ Accept(s) \/ RepairExhausted(s)
           \/ \E cause \in {"exit", "retryable", "permanent"} : Fail(s, cause)
  <2>1. jobs'[j].status \in {"accepted", "failed"}
    <3>1. PICK status \in {"accepted", "failed"},
               cause \in {"none", "exit", "retryable", "permanent", "reconciled"} :
                 jobs' = [jobs EXCEPT ![j] = SettledAs(jobs[j], status, cause)]
      BY <1>5 DEF FailBeforeRun, Accept, RepairExhausted, Fail
    <3>2. jobs[j].creation # "none"
      BY <1>1, BegunJob
    <3>3. SettledAs(jobs[j], status, cause).status = status
      BY <1>4, <3>2, SettledSucceeds
    <3> QED  BY <1>4, <3>1, <3>3, VariableTypes
  <2> QED  BY <2>1 DEF Active
<1>6. CASE StartWorker(s)
  <2>1. op[s].pc = "admitted"
    BY <1>6 DEF StartWorker, At
  <2>2. jobs[j].status \in Active /\ jobs[j].acceptance = "none"
    BY <2>1 DEF Calm, RunsCalm, OwnJob, Begun
  <2>3. jobs'[j].acceptance = jobs[j].acceptance
    BY <1>4, <1>6, VariableTypes DEF StartWorker, JobRecord
  <2> QED  BY <2>2, <2>3
<1>7. CASE Reject(s)
  <2>1. jobs[j].status = "running" /\ jobs'[j].acceptance = jobs[j].acceptance
    BY <1>4, <1>7, VariableTypes DEF Reject, OwnJob, JobRecord
  <2> QED  BY <1>0, <2>1 DEF Active
<1>8. CASE PrepareAcceptance(s)
  <2>1. jobs[j].status = "running" /\ jobs'[j].status = "completion_submitted"
    BY <1>4, <1>8, VariableTypes DEF PrepareAcceptance, OwnJob, JobRecord
  <2> QED  BY <2>1 DEF Active
<1>9. CASE Deliver(s)
  <2>1. jobs[j].acceptance = "prepared" /\ jobs'[j].status = jobs[j].status
    BY <1>4, <1>9, VariableTypes DEF Deliver, OwnJob, JobRecord
  <2> QED  BY <1>0, <2>1
<1> QED
  BY <1>5, <1>6, <1>7, <1>8, <1>9 DEF Writes

LEMMA WriteCalm ==
  ASSUME TInv, JobsKeep, NEW p, Calm(p), NEW s \in Schedulers, Writes(s)
  PROVE  Calm(p)'
  BY WritesOwn, WritesActive, CalmWorks

LEMMA RunCalm ==
  ASSUME TInv, JobsKeep, NEW p, Undisturbed(p), Calm(p), NEW s \in Schedulers, RunJob(s)
  PROVE  Calm(p)'
  BY LoadJobCalm, PermitCalm, RepairCalm, RunReturnsCalm, WriteCalm DEF RunJob, Writes

LEMMA OtherCalm ==
  ASSUME TInv, JobsKeep, [Next]_vars, NEW p, Undisturbed(p), Calm(p),
         ~ \E s \in Schedulers : Tick(s) \/ RunJob(s)
  PROVE  Calm(p)'
<1>0. op \in [Schedulers -> SchedulerState]
  BY VariableTypes
<1>1. CASE UNCHANGED op /\ \A j \in Jobs : /\ jobs'[j].status = jobs[j].status
                                           /\ jobs'[j].acceptance = jobs[j].acceptance
  <2>1. KeepsOrEnds(p) /\ KeepsAttending(p) /\ BeginsCalm(p)
    BY <1>1, SameJobs DEF KeepsAttending, Attended, BeginsCalm
  <2> QED  BY <2>1, CalmKept
<1>2. ASSUME NEW s \in Schedulers, Crash(s) PROVE Calm(p)'
  <2>1. s \in Daemons /\ op[s].pc # "gone" /\ op'[s].pc = "gone" /\ OthersStay(s) /\ UNCHANGED jobs
    BY <1>0, <1>2 DEF Crash, At, OthersStay, Idle
  <2>2. KeepsOrEnds(p) /\ BeginsCalm(p)
    BY <2>1, SameJobs, BeginsNothing DEF Executing
  <2>3. KeepsAttending(p)
    <3> SUFFICES ASSUME NEW j \in Jobs, Home[jobs'[j].task] = p, Attended(p, j)
                 PROVE  Attended(p, j)'
      BY DEF KeepsAttending
    <3>1. CASE op[s].pc = "working" /\ op[s].job = j
      <4>1. Serves[s] = p
        BY <2>1, <3>1, BegunJob DEF Executing
      <4> QED  BY <2>1, <4>1 DEF Attended
    <3>2. CASE ~ (op[s].pc = "working" /\ op[s].job = j)
      BY <2>1, <3>2 DEF Attended, OthersStay, Schedulers
    <3> QED  BY <3>1, <3>2
  <2> QED  BY <2>2, <2>3, CalmKept
<1>3. ASSUME NEW s \in Schedulers, RuntimeStart(s) PROVE Calm(p)'
  <2>1. s \in Daemons /\ op[s].pc = "gone" /\ op'[s].pc = "idle" /\ OthersStay(s)
    BY <1>0, <1>3 DEF RuntimeStart, At, OthersStay, Idle
  <2>2. \A j \in Jobs : \/ /\ jobs'[j] = jobs[j]
                           /\ ~ (jobs[j].status \in Active /\ Home[jobs[j].task] = Serves[s])
                        \/ /\ jobs'[j].status \notin Active
                           /\ Home[jobs[j].task] = Serves[s]
    <3>1. ASSUME NEW j \in Jobs, jobs[j].status \in Active
          PROVE  SettledAs(jobs[j], "failed", "reconciled").status = "failed"
      <4>1. jobs[j].creation # "none"
        BY <3>1, RecordTypes DEF JobBound, Active
      <4> QED  BY <4>1, SettledSucceeds
    <3> QED  BY <1>3, <3>1 DEF RuntimeStart, ActiveJobs, Active
  <2>3. ASSUME NEW j \in Jobs, Home[jobs[j].task] = Serves[s],
               NEW u \in Schedulers, Serves[u] = p, op[u].pc \in Begun
        PROVE  op[u].job # j
    <3> SUFFICES ASSUME op[u].job = j PROVE FALSE
      OBVIOUS
    <3>1. Serves[s] = p
      BY <2>3, BegunJob DEF Begun, Executing
    <3> QED  BY <2>1, <2>3, <3>1 DEF Undisturbed, Begun
  <2>4. KeepsOrEnds(p)
    BY <2>2, <2>3 DEF KeepsOrEnds
  <2>5. BeginsCalm(p)
    BY <2>1, BeginsNothing DEF Executing
  <2>6. KeepsAttending(p)
    <3> SUFFICES ASSUME NEW j \in Jobs, jobs'[j].status \in Active, Home[jobs'[j].task] = p,
                        Attended(p, j)
                 PROVE  Attended(p, j)'
      BY DEF KeepsAttending
    <3>1. Serves[s] # p
      BY <2>2
    <3> QED  BY <2>1, <3>1 DEF Attended, OthersStay, Schedulers
  <2> QED  BY <2>4, <2>5, <2>6, CalmKept
<1>4. ASSUME NEW j \in Jobs, BackoffEnds(j) PROVE Calm(p)'
  <2>1. UNCHANGED op /\ \A k \in Jobs : /\ jobs'[k].status = jobs[k].status
                                        /\ jobs'[k].acceptance = jobs[k].acceptance
    BY <1>4, VariableTypes DEF BackoffEnds, JobRecord
  <2> QED  BY <1>1, <2>1
<1> QED
  BY <1>1, <1>2, <1>3, <1>4 DEF Next, vars, Move, Rewrite

LEMMA CalmStep == \A p : Undisturbed(p) => (TInv /\ Calm(p) /\ [Next]_vars => Calm(p)')
<1> SUFFICES ASSUME NEW p, Undisturbed(p), TInv, Calm(p), [Next]_vars PROVE Calm(p)'
  OBVIOUS
<1>1. JobsKeep
  BY StepTyped
<1> QED
  BY <1>1, TickCalm, RunCalm, OtherCalm

LEMMA CalmInit == \A p : Init => Calm(p)
<1> SUFFICES ASSUME NEW p, Init PROVE Calm(p)
  OBVIOUS
<1>1. (\A j \in Jobs : jobs[j].status = "absent") /\ \A s \in Schedulers : op[s].pc = "idle"
  BY DEF Init, NewRecord, Idle
<1> QED
  BY <1>1 DEF Calm, RunsCalm, JobsCalm, OneActive, ActiveOf, Active, Begun

(* All projects that nobody overtakes.                                      *)
CalmInv == \A p \in Projects : Undisturbed(p) => Calm(p)

LEMMA CalmAlways == Spec => [](TInv /\ CalmInv)
<1>1. Init => TInv /\ CalmInv
  BY InitTyped, CalmInit DEF CalmInv
<1>2. TInv /\ CalmInv /\ [Next]_vars => (TInv /\ CalmInv)'
  <2> SUFFICES ASSUME TInv, CalmInv, [Next]_vars PROVE TInv' /\ CalmInv'
    OBVIOUS
  <2>1. CalmInv'
    <3> SUFFICES ASSUME NEW p \in Projects, Undisturbed(p) PROVE Calm(p)'
      BY DEF CalmInv, Undisturbed
    <3> QED  BY CalmStep DEF CalmInv
  <2> QED  BY <2>1, StepTyped
<1> QED
  BY <1>1, <1>2, PTL DEF Spec

-----------------------------------------------------------------------------
(* The executors that have found room for an attempt and not yet admitted   *)
(* it, and those that may be among them.                                    *)
RunsOf(s, t, e, r) ==
    jobs[op[s].job].task = t /\ jobs[op[s].job].edge = e /\ jobs[op[s].job].revision = r

Permits(t, e, r) == {s \in Schedulers : op[s].pc = "permitted" /\ RunsOf(s, t, e, r)}
MayPermit(t, e, r) == {s \in Schedulers : op[s].pc \in Begun /\ RunsOf(s, t, e, r)}

(* Permits are charged beside the attempts.                                 *)
AccountInv ==
    \A t \in Tasks, e \in Transitions, r \in 0..MaxRevision :
        Cardinality(Admitted(t, e, r)) + Cardinality(Permits(t, e, r))
          <= MaxTotal + Cardinality(Overtaken(Home[t]))

LEMMA PermitsFinite ==
  ASSUME NEW t, NEW e, NEW r, NEW p
  PROVE  /\ IsFiniteSet(Permits(t, e, r)) /\ Cardinality(Permits(t, e, r)) \in Nat
         /\ IsFiniteSet(MayPermit(t, e, r)) /\ Cardinality(MayPermit(t, e, r)) \in Nat
         /\ IsFiniteSet(Overtaken(p)) /\ Cardinality(Overtaken(p)) \in Nat
         /\ IsFiniteSet(Permits(t, e, r)') /\ Cardinality(Permits(t, e, r)') \in Nat
<1>1. /\ Permits(t, e, r) \in SUBSET Schedulers /\ MayPermit(t, e, r) \in SUBSET Schedulers
      /\ Overtaken(p) \in SUBSET Schedulers /\ Permits(t, e, r)' \in SUBSET Schedulers
  BY DEF Permits, MayPermit, Overtaken
<1> QED
  BY <1>1, SchedulersAssumption, FS_Subset, FS_CardinalityType

LEMMA AtMostOneMore ==
  ASSUME NEW A, IsFiniteSet(A), NEW b
  PROVE  /\ IsFiniteSet(A \cup {b}) /\ Cardinality(A) \in Nat
         /\ Cardinality(A \cup {b}) \in Nat /\ Cardinality(A \cup {b}) <= Cardinality(A) + 1
<1>1. IsFiniteSet(A \cup {b})
      /\ Cardinality(A \cup {b}) = IF b \in A THEN Cardinality(A) ELSE Cardinality(A) + 1
  BY FS_AddElement
<1>2. Cardinality(A) \in Nat /\ Cardinality(A \cup {b}) \in Nat
  BY <1>1, FS_CardinalityType
<1> QED
  BY <1>1, <1>2

(* Beside a daemon there is one executor more than can be overtaken;        *)
(* without one, a transition has one active job and one executor.           *)
LEMMA FewPermits ==
  ASSUME TInv, CalmInv, NEW t \in Tasks, NEW e, NEW r
  PROVE  Cardinality(MayPermit(t, e, r)) <= Cardinality(Overtaken(Home[t])) + 1
<1> DEFINE p == Home[t]
<1>1. ASSUME NEW s \in MayPermit(t, e, r)
      PROVE  s \in Schedulers /\ op[s].pc \in Executing /\ Serves[s] = p
  BY <1>1, BegunJob DEF MayPermit, RunsOf, Begun, Executing
<1>2. CASE \E d \in Daemons : Serves[d] = p
  <2>1. PICK d \in Daemons : Serves[d] = p
    BY <1>2
  <2>2. MayPermit(t, e, r) \subseteq Overtaken(p) \cup {d}
    BY <1>1, <2>1 DEF Overtaken
  <2>3. /\ IsFiniteSet(Overtaken(p) \cup {d}) /\ Cardinality(Overtaken(p) \cup {d}) \in Nat
        /\ Cardinality(Overtaken(p) \cup {d}) <= Cardinality(Overtaken(p)) + 1
    BY PermitsFinite, AtMostOneMore
  <2>4. Cardinality(MayPermit(t, e, r)) <= Cardinality(Overtaken(p) \cup {d})
    BY <2>2, <2>3, FS_Subset
  <2> QED  BY <2>3, <2>4, PermitsFinite
<1>3. CASE ~ \E d \in Daemons : Serves[d] = p
  <2>1. p \in Projects /\ Undisturbed(p)
    BY <1>3, WiringAssumption DEF Undisturbed
  <2>2. Calm(p)
    BY <2>1 DEF CalmInv
  <2>3. ASSUME NEW s \in MayPermit(t, e, r)
        PROVE  op[s].job \in Jobs /\ ActiveOf(p, op[s].job)
    BY <1>1, <2>2, BegunJob DEF Calm, RunsCalm, OwnJob, MayPermit, ActiveOf
  <2>4. ASSUME NEW s \in MayPermit(t, e, r), NEW u \in MayPermit(t, e, r) PROVE s = u
    <3>1. op[s].job = op[u].job
      BY <2>2, <2>3 DEF Calm, OneActive, MayPermit, RunsOf
    <3> QED  BY <1>1, <3>1, OpTypes DEF Ready
  <2>5. CASE MayPermit(t, e, r) = {}
    BY <2>5, FS_EmptySet, PermitsFinite
  <2>6. CASE MayPermit(t, e, r) # {}
    <3>1. PICK s : MayPermit(t, e, r) = {s}
      BY <2>4, <2>6
    <3>2. Cardinality({s}) = 1
      BY FS_Singleton
    <3>3. Cardinality(MayPermit(t, e, r)) = 1
      BY <3>1, <3>2
    <3> QED  BY <3>3, PermitsFinite
  <2> QED  BY <2>5, <2>6
<1> QED
  BY <1>2, <1>3

(* What has been admitted stays charged to its transition.                  *)
LEMMA AdmittedStays ==
  ASSUME TInv, JobsKeep, NEW t, NEW e, NEW r,
         NEW a \in Admitted(t, e, r)', a[2] \in 1..jobs[a[1]].admitted
  PROVE  a \in Admitted(t, e, r)
<1>1. PICK j \in Jobs : /\ a \in {j} \X (1..jobs'[j].admitted)
                        /\ jobs'[j].status # "absent" /\ jobs'[j].task = t
                        /\ jobs'[j].edge = e /\ jobs'[j].revision = r
  BY DEF Admitted, OfTransition, Recorded
<1>2. a[1] = j /\ a \in {j} \X (1..jobs[j].admitted)
  BY <1>1
<1>3. jobs[j].admitted # 0
  BY <1>2, RecordTypes
<1>4. jobs[j].status # "absent" /\ jobs[j].creation # "none"
  BY <1>3, RecordTypes DEF JobBound
<1>5. jobs[j].task = t /\ jobs[j].edge = e /\ jobs[j].revision = r
  BY <1>1, <1>4 DEF JobsKeep
<1>6. j \in {k \in OfTransition(Recorded, t, e) : jobs[k].revision = r}
  BY <1>4, <1>5 DEF OfTransition, Recorded
<1> QED
  BY <1>2, <1>6 DEF Admitted

LEMMA SameAdmitted ==
  ASSUME TInv, JobsKeep, \A j \in Jobs : jobs'[j].admitted = jobs[j].admitted,
         NEW t, NEW e, NEW r
  PROVE  /\ Cardinality(Admitted(t, e, r)') <= Cardinality(Admitted(t, e, r))
         /\ Cardinality(Admitted(t, e, r)') \in Nat
<1>1. ASSUME NEW a \in Admitted(t, e, r)' PROVE a \in Admitted(t, e, r)
  <2>1. a[2] \in 1..jobs[a[1]].admitted
    BY <1>1 DEF Admitted, OfTransition, Recorded
  <2> QED  BY <1>1, <2>1, AdmittedStays
<1>2. Admitted(t, e, r)' \in SUBSET Admitted(t, e, r)
  BY <1>1
<1> QED
  BY <1>2, AccountFinite, FS_Subset, FS_CardinalityType

(* Which executors have a permit after a step.                              *)
LEMMA PermitsRest ==
  ASSUME TInv, JobsKeep, NEW t, NEW e, NEW r,
         \A s \in Schedulers : op'[s].pc = "permitted" => op'[s] = op[s]
  PROVE  Permits(t, e, r)' \subseteq Permits(t, e, r)
<1> SUFFICES ASSUME NEW s \in Schedulers, op'[s].pc = "permitted",
                    jobs'[op'[s].job].task = t, jobs'[op'[s].job].edge = e,
                    jobs'[op'[s].job].revision = r
             PROVE  /\ op[s].pc = "permitted" /\ jobs[op[s].job].task = t
                    /\ jobs[op[s].job].edge = e /\ jobs[op[s].job].revision = r
  BY DEF Permits, RunsOf
<1>1. op'[s] = op[s]
  OBVIOUS
<1>2. op[s].job \in Jobs /\ jobs[op[s].job].creation # "none"
  BY <1>1, BegunJob DEF Executing
<1> QED
  BY <1>1, <1>2 DEF JobsKeep

LEMMA NoPermit ==
  ASSUME TInv, [Next]_vars, ~ \E s \in Schedulers : Permit(s)
  PROVE  \A s \in Schedulers : op'[s].pc = "permitted" => op'[s] = op[s]
<1>0. op \in [Schedulers -> SchedulerState]
  BY VariableTypes
<1>1. CASE UNCHANGED op
  BY <1>1
<1>2. ASSUME NEW s \in Schedulers, Tick(s)
      PROVE  \A u \in Schedulers : op'[u].pc = "permitted" => op'[u] = op[u]
  BY <1>2, TickLeaves, TickOthers DEF OthersStay, Executing
<1>3. ASSUME NEW s \in Schedulers, RunJob(s)
      PROVE  \A u \in Schedulers : op'[u].pc = "permitted" => op'[u] = op[u]
  <2>1. OthersStay(s)
    BY <1>3, RunOthers
  <2>2. UNCHANGED op \/ op'[s].pc # "permitted"
    <3>1. CASE \/ LoadJob(s) \/ FailBeforeRun(s) \/ Admit(s) \/ StartWorker(s) \/ Repair(s)
      BY <1>0, <3>1 DEF LoadJob, FailBeforeRun, Admit, StartWorker, Repair, Goes, SchedulerState
    <3>2. CASE RunReturns(s)
      BY <1>0, <3>2 DEF RunReturns, Idle
    <3> QED
      BY <1>3, <3>1, <3>2
      DEF RunJob, Reject, PrepareAcceptance, Deliver, Accept, RepairExhausted, Fail
  <2> QED  BY <2>1, <2>2 DEF OthersStay
<1>4. ASSUME NEW s \in Schedulers, Crash(s) \/ RuntimeStart(s)
      PROVE  \A u \in Schedulers : op'[u].pc = "permitted" => op'[u] = op[u]
  BY <1>0, <1>4 DEF Crash, RuntimeStart, Idle
<1> QED
  BY <1>1, <1>2, <1>3, <1>4 DEF Next, vars, BackoffEnds, Move, Rewrite

(* The account is read with room, and what may be permitted with it is few. *)
LEMMA PermitAccount ==
  ASSUME TInv, CalmInv, JobsKeep, AccountInv, NEW s \in Schedulers, Permit(s)
  PROVE  AccountInv'
<1>1. /\ op[s].pc = "loaded" /\ op' = [op EXCEPT ![s].pc = "permitted"] /\ UNCHANGED jobs
      /\ HasRoom(s)
  BY DEF Permit, At, Goes
<1>2. /\ op'[s].pc = "permitted" /\ op'[s].job = op[s].job
      /\ \A u \in Schedulers \ {s} : op'[u] = op[u]
  BY <1>1, VariableTypes DEF SchedulerState
<1> SUFFICES ASSUME NEW t \in Tasks, NEW e \in Transitions, NEW r \in 0..MaxRevision
             PROVE  Cardinality(Admitted(t, e, r)') + Cardinality(Permits(t, e, r)')
                      <= MaxTotal + Cardinality(Overtaken(Home[t]))
  BY DEF AccountInv, Overtaken
<1>3. Admitted(t, e, r)' = Admitted(t, e, r)
  BY <1>1 DEF Admitted, OfTransition, Recorded
<1>4. Cardinality(Admitted(t, e, r)) + Cardinality(Permits(t, e, r))
        <= MaxTotal + Cardinality(Overtaken(Home[t]))
  BY DEF AccountInv
<1>5. CASE RunsOf(s, t, e, r)
  <2>1. Permits(t, e, r)' \subseteq MayPermit(t, e, r)
    BY <1>1, <1>2, <1>5 DEF Permits, MayPermit, RunsOf, Begun
  <2>2. Cardinality(Permits(t, e, r)') <= Cardinality(MayPermit(t, e, r))
    BY <2>1, PermitsFinite, FS_Subset
  <2>3. Cardinality(MayPermit(t, e, r)) <= Cardinality(Overtaken(Home[t])) + 1
    BY FewPermits
  <2>4. Cardinality(Admitted(t, e, r)) < MaxTotal
    <3>1. Home[t] = Serves[s]
      BY <1>1, <1>5, BegunJob DEF RunsOf, Executing
    <3>2. Consumed(Serves[s], t, e, r) < MaxTotal
      BY <1>1, <1>5 DEF HasRoom, OwnJob, RunsOf, AccountHasRoom
    <3>3. /\ Cardinality(Admitted(t, e, r)) <= Consumed(Serves[s], t, e, r)
          /\ Cardinality(Admitted(t, e, r)) \in Nat
      BY <3>1, AdmittedCharged, AccountFinite
    <3>4. Consumed(Serves[s], t, e, r) \in Nat
      BY AccountFinite DEF Consumed, ChargedTo
    <3> QED  BY <3>2, <3>3, <3>4, BoundsAssumption
  <2> QED
    BY <1>3, <2>2, <2>3, <2>4, PermitsFinite, AccountFinite, BoundsAssumption
<1>6. CASE ~ RunsOf(s, t, e, r)
  <2>1. Permits(t, e, r)' \subseteq Permits(t, e, r)
    BY <1>1, <1>2, <1>6 DEF Permits, RunsOf
  <2>2. Cardinality(Permits(t, e, r)') <= Cardinality(Permits(t, e, r))
    BY <2>1, PermitsFinite, FS_Subset
  <2> QED
    BY <1>3, <1>4, <2>2, PermitsFinite, AccountFinite, BoundsAssumption
<1> QED
  BY <1>5, <1>6

(* An admission turns a permit into at most one attempt.                    *)
LEMMA AdmitAccount ==
  ASSUME TInv, JobsKeep, AccountInv, NEW s \in Schedulers, Admit(s)
  PROVE  AccountInv'
<1> DEFINE j == op[s].job
<1>1. /\ op[s].pc = "permitted" /\ op' = [op EXCEPT ![s].pc = "admitted"]
      /\ jobs' = [jobs EXCEPT ![j].admitted = jobs[j].attempts + 1]
  BY DEF Admit, At, Goes, OwnJob
<1>2. op'[s].pc = "admitted" /\ \A u \in Schedulers \ {s} : op'[u] = op[u]
  BY <1>1, VariableTypes DEF SchedulerState
<1>3. j \in Jobs /\ jobs[j].creation # "none"
  BY <1>1, BegunJob DEF Executing
<1>4. /\ \A k \in Jobs \ {j} : jobs'[k] = jobs[k]
      /\ jobs'[j].admitted = jobs[j].attempts + 1
      /\ jobs[j].attempts \in Nat /\ jobs[j].admitted \in Nat
      /\ jobs[j].attempts <= jobs[j].admitted
  BY <1>1, <1>3, RecordTypes, VariableTypes DEF JobRecord
<1> SUFFICES ASSUME NEW t \in Tasks, NEW e \in Transitions, NEW r \in 0..MaxRevision
             PROVE  Cardinality(Admitted(t, e, r)') + Cardinality(Permits(t, e, r)')
                      <= MaxTotal + Cardinality(Overtaken(Home[t]))
  BY DEF AccountInv, Overtaken
<1>d. RunsOf(s, t, e, r) <=>
        jobs[j].task = t /\ jobs[j].edge = e /\ jobs[j].revision = r
  BY DEF RunsOf
<1>5. Cardinality(Admitted(t, e, r)) + Cardinality(Permits(t, e, r))
        <= MaxTotal + Cardinality(Overtaken(Home[t]))
  BY DEF AccountInv
<1>6. Permits(t, e, r)' \subseteq Permits(t, e, r) \ {s}
  <2>1. \A u \in Schedulers : op'[u].pc = "permitted" => op'[u] = op[u] /\ u # s
    BY <1>2
  <2>2. Permits(t, e, r)' \subseteq Permits(t, e, r)
    BY <2>1, PermitsRest
  <2> QED  BY <2>1, <2>2 DEF Permits
<1>7. IsFiniteSet(Permits(t, e, r) \ {s}) /\ Cardinality(Permits(t, e, r) \ {s}) \in Nat
      /\ Cardinality(Permits(t, e, r)') <= Cardinality(Permits(t, e, r) \ {s})
  <2>1. Permits(t, e, r) \ {s} \in SUBSET Permits(t, e, r)
    OBVIOUS
  <2>2. IsFiniteSet(Permits(t, e, r) \ {s}) /\ Cardinality(Permits(t, e, r) \ {s}) \in Nat
    BY <2>1, PermitsFinite, FS_Subset, FS_CardinalityType
  <2> QED  BY <1>6, <2>2, FS_Subset
<1> DEFINE A == Admitted(t, e, r)
<1> DEFINE b == <<j, jobs[j].attempts + 1>>
<1>8. ASSUME NEW a \in Admitted(t, e, r)', a # b PROVE a \in A
  <2>1. PICK k \in Jobs : a \in {k} \X (1..jobs'[k].admitted)
    BY DEF Admitted, OfTransition, Recorded
  <2>2. a = <<k, a[2]>> /\ a[1] = k /\ a[2] \in 1..jobs'[k].admitted
    BY <2>1
  <2>3. a[2] \in 1..jobs[k].admitted
    <3>1. CASE k # j
      BY <1>4, <2>2, <3>1
    <3>2. CASE k = j
      <4>1. a[2] # jobs[j].attempts + 1
        BY <1>8, <2>2, <3>2
      <4> QED  BY <1>4, <2>2, <3>2, <4>1
    <3> QED  BY <3>1, <3>2
  <2> QED  BY <1>8, <2>2, <2>3, AdmittedStays
<1>9. CASE RunsOf(s, t, e, r)
  <2>1. s \in Permits(t, e, r)
    BY <1>1, <1>9 DEF Permits
  <2>2. Cardinality(Permits(t, e, r)) = Cardinality(Permits(t, e, r) \ {s}) + 1
    <3> DEFINE P == Permits(t, e, r)
    <3>1. IsFiniteSet(P) /\ s \in P
      BY <2>1, PermitsFinite
    <3> HIDE DEF P
    <3>2. Cardinality(P \ {s}) = IF s \in P THEN Cardinality(P) - 1 ELSE Cardinality(P)
      BY ONLY <3>1, FS_RemoveElement
    <3>3. Cardinality(P) \in Nat
      BY <3>1, FS_CardinalityType
    <3>4. Cardinality(P) = Cardinality(P \ {s}) + 1
      BY <3>1, <3>2, <3>3
    <3> QED  BY <3>4 DEF P
  <2>3. /\ Cardinality(Admitted(t, e, r)') <= Cardinality(A) + 1
        /\ Cardinality(Admitted(t, e, r)') \in Nat /\ Cardinality(A) \in Nat
    <3>1. IsFiniteSet(A)
      BY AccountFinite
    <3>2. Admitted(t, e, r)' \subseteq A \cup {b}
      BY <1>8
    <3> HIDE DEF A, b
    <3>3. /\ IsFiniteSet(A \cup {b}) /\ Cardinality(A \cup {b}) \in Nat /\ Cardinality(A) \in Nat
          /\ Cardinality(A \cup {b}) <= Cardinality(A) + 1
      BY <3>1, AtMostOneMore
    <3>4. Cardinality(Admitted(t, e, r)') <= Cardinality(A \cup {b})
          /\ IsFiniteSet(Admitted(t, e, r)')
      BY <3>2, <3>3, FS_Subset
    <3>5. Cardinality(Admitted(t, e, r)') \in Nat
      BY <3>4, FS_CardinalityType
    <3> QED  BY <3>3, <3>4, <3>5
  <2>4. Cardinality(Permits(t, e, r)) \in Nat /\ Cardinality(Permits(t, e, r)') \in Nat
        /\ Cardinality(Overtaken(Home[t])) \in Nat
    BY PermitsFinite
  <2> QED
    BY <1>5, <1>7, <2>2, <2>3, <2>4, BoundsAssumption
<1>10. CASE ~ RunsOf(s, t, e, r)
  <2>1. b \notin Admitted(t, e, r)'
    <3> SUFFICES ASSUME b \in Admitted(t, e, r)' PROVE FALSE
      OBVIOUS
    <3>1. jobs'[j].task = t /\ jobs'[j].edge = e /\ jobs'[j].revision = r
      BY DEF Admitted, OfTransition, Recorded
    <3> QED  BY <1>3, <1>d, <1>10, <3>1 DEF JobsKeep
  <2>2. Admitted(t, e, r)' \subseteq A
    BY <1>8, <2>1
  <2>3. /\ Cardinality(Admitted(t, e, r)') <= Cardinality(A)
        /\ Cardinality(Admitted(t, e, r)') \in Nat /\ Cardinality(A) \in Nat
    BY <2>2, AccountFinite, FS_Subset, FS_CardinalityType
  <2>4. Cardinality(Permits(t, e, r) \ {s}) <= Cardinality(Permits(t, e, r))
    BY PermitsFinite, FS_Subset
  <2>5. Cardinality(Permits(t, e, r)) \in Nat /\ Cardinality(Permits(t, e, r)') \in Nat
        /\ Cardinality(Overtaken(Home[t])) \in Nat
    BY PermitsFinite
  <2> QED
    BY <1>5, <1>7, <2>3, <2>4, <2>5, BoundsAssumption
<1> QED
  BY <1>9, <1>10

LEMMA AccountRests ==
  ASSUME TInv, JobsKeep, AccountInv, \A j \in Jobs : jobs'[j].admitted = jobs[j].admitted,
         [Next]_vars, ~ \E s \in Schedulers : Permit(s)
  PROVE  AccountInv'
<1> SUFFICES ASSUME NEW t \in Tasks, NEW e \in Transitions, NEW r \in 0..MaxRevision
             PROVE  Cardinality(Admitted(t, e, r)') + Cardinality(Permits(t, e, r)')
                      <= MaxTotal + Cardinality(Overtaken(Home[t]))
  BY DEF AccountInv, Overtaken
<1>1. Cardinality(Admitted(t, e, r)) + Cardinality(Permits(t, e, r))
        <= MaxTotal + Cardinality(Overtaken(Home[t]))
  BY DEF AccountInv
<1>2. Permits(t, e, r)' \subseteq Permits(t, e, r)
  BY NoPermit, PermitsRest
<1>3. Cardinality(Permits(t, e, r)') <= Cardinality(Permits(t, e, r))
  BY <1>2, PermitsFinite, FS_Subset
<1> QED
  BY <1>1, <1>3, SameAdmitted, PermitsFinite, AccountFinite, BoundsAssumption

LEMMA AccountStep == TInv /\ CalmInv /\ AccountInv /\ [Next]_vars => AccountInv'
<1> SUFFICES ASSUME TInv, CalmInv, AccountInv, [Next]_vars PROVE AccountInv'
  OBVIOUS
<1>1. JobsKeep
  BY StepTyped
<1>2. ASSUME NEW s \in Schedulers, Permit(s) PROVE AccountInv'
  BY <1>1, <1>2, PermitAccount
<1>3. ASSUME NEW s \in Schedulers, Admit(s) PROVE AccountInv'
  BY <1>1, <1>3, AdmitAccount
<1>4. ASSUME ~ (\E s \in Schedulers : Permit(s)), ~ (\E s \in Schedulers : Admit(s))
      PROVE  AccountInv'
  <2>1. CountsSame \/ \E s \in Schedulers : StartWorker(s)
    BY <1>4, RunCounts, TickCounts, OtherCounts
  <2>2. CASE CountsSame
    BY <1>1, <1>4, <2>2, AccountRests DEF CountsSame
  <2>3. ASSUME NEW s \in Schedulers, StartWorker(s) PROVE AccountInv'
    <3>1. \A j \in Jobs : jobs'[j].admitted = jobs[j].admitted
      BY <2>3, VariableTypes DEF StartWorker, JobRecord
    <3> QED  BY <1>1, <1>4, <3>1, AccountRests
  <2> QED  BY <2>1, <2>2, <2>3
<1> QED
  BY <1>2, <1>3, <1>4

LEMMA AccountInit == Init => AccountInv
<1> SUFFICES ASSUME Init, NEW t \in Tasks, NEW e \in Transitions, NEW r \in 0..MaxRevision
             PROVE  Cardinality(Admitted(t, e, r)) + Cardinality(Permits(t, e, r))
                      <= MaxTotal + Cardinality(Overtaken(Home[t]))
  BY DEF AccountInv
<1>1. (\A j \in Jobs : jobs[j].status = "absent") /\ \A s \in Schedulers : op[s].pc = "idle"
  BY DEF Init, NewRecord, Idle
<1>2. Admitted(t, e, r) = {} /\ Permits(t, e, r) = {}
  BY <1>1 DEF Admitted, OfTransition, Recorded, Permits
<1>3. Cardinality({}) = 0
  BY FS_EmptySet
<1> QED
  BY <1>2, <1>3, PermitsFinite, BoundsAssumption

(* No revision of a task gets more worker attempts for a transition than    *)
(* max_total_attempts_per_transition and one for each executor that runtime *)
(* start can overtake between its read of the account and its admission     *)
(* (scheduler.py _total_attempt_exhausted, executor.py run_job and          *)
(* _admit_attempt), over any jobs, repairs, crashes, recovered creations    *)
(* and edits: in a project that only commands serve, or a daemon alone, no  *)
(* more than the limit.                                                     *)
THEOREM AttemptsStayBounded == Spec => []AttemptsBounded
<1>1. AccountInv /\ TInv => AttemptsBounded
  <2> SUFFICES ASSUME AccountInv, TInv,
                      NEW t \in Tasks, NEW e \in Transitions, NEW r \in 0..MaxRevision
               PROVE  Cardinality(Admitted(t, e, r)) <= MaxTotal + Cardinality(Overtaken(Home[t]))
    BY DEF AttemptsBounded
  <2>1. Cardinality(Admitted(t, e, r)) + Cardinality(Permits(t, e, r))
          <= MaxTotal + Cardinality(Overtaken(Home[t]))
    BY DEF AccountInv
  <2> QED  BY <2>1, AccountFinite, PermitsFinite, BoundsAssumption
<1> QED
  BY <1>1, AccountInit, AccountStep, CalmAlways, PTL DEF Spec

-----------------------------------------------------------------------------
(* What a created job rests on.                                             *)
Delivered(d) == \E j \in Jobs : /\ jobs[j].delivered /\ jobs[j].task = d
                                /\ Outcome[jobs[j].edge.to] = "success"

DependenciesInv ==
    \A j \in Jobs : jobs[j].creation # "none" => \A d \in Depends[jobs[j].task] : Delivered(d)

(* Only one action creates a job.                                           *)
NothingCreated == \A j \in Jobs : jobs[j].creation = "none" => jobs'[j].creation = "none"

LEMMA RunCreates ==
  ASSUME TInv, NEW s \in Schedulers, RunJob(s)
  PROVE  NothingCreated
<1>1. CASE UNCHANGED jobs
  BY <1>1 DEF NothingCreated
<1>2. CASE op[s].pc \in Executing
  <2>1. op[s].job \in Jobs /\ jobs[op[s].job].creation # "none"
    BY <1>2, BegunJob
  <2>2. \A k \in Jobs \ {op[s].job} : jobs'[k] = jobs[k]
    BY <2>1, VariableTypes
    DEF RunJob, LoadJob, Permit, Admit, Repair, RunReturns, FailBeforeRun, StartWorker, Reject,
        PrepareAcceptance, Deliver, Accept, RepairExhausted, Fail
  <2> QED  BY <2>1, <2>2 DEF NothingCreated
<1> QED
  BY <1>1, <1>2
  DEF RunJob, LoadJob, Permit, Admit, Repair, RunReturns, FailBeforeRun, StartWorker, Reject,
      PrepareAcceptance, Deliver, Accept, RepairExhausted, Fail, At, Executing

LEMMA TickCreates ==
  ASSUME TInv, NEW s \in Schedulers, Tick(s), ~ \E e \in Transitions : Create(s, e)
  PROVE  NothingCreated
<1> USE DEF NothingCreated
<1>1. CASE UNCHANGED jobs
  BY <1>1
<1>2. ASSUME NEW j \in Jobs, RecoverCreation(s, j) PROVE NothingCreated
  <2>1. jobs[j].creation # "none"
    BY <1>2, OpTypes DEF RecoverCreation, At, Bound
  <2>2. \A k \in Jobs \ {j} : jobs'[k] = jobs[k]
    BY <1>2, VariableTypes DEF RecoverCreation
  <2> QED  BY <2>1, <2>2
<1>3. ASSUME NEW j \in Jobs, RecoverAcceptance(s, j) PROVE NothingCreated
  BY <1>3, VariableTypes DEF RecoverAcceptance, JobRecord
<1>4. CASE ApplyCreation(s) \/ CommitCreation(s)
  <2>1. op[s].job \in Jobs /\ jobs[op[s].job].creation # "none"
    BY <1>4, OpTypes DEF ApplyCreation, CommitCreation, At, Bound, WithJob
  <2>2. \A k \in Jobs \ {op[s].job} : jobs'[k] = jobs[k]
    BY <1>4, <2>1, VariableTypes DEF ApplyCreation, CommitCreation
  <2> QED  BY <2>1, <2>2
<1> QED
  BY <1>1, <1>2, <1>3, <1>4
  DEF Tick, LoadContext, ListAcceptances, TakeLock, LaneUnresolved, LaneHeld, LaneOpen, Skip,
      NothingDue

LEMMA OtherCreates ==
  ASSUME TInv, [Next]_vars, ~ \E s \in Schedulers : Tick(s) \/ RunJob(s)
  PROVE  NothingCreated
<1> USE DEF NothingCreated
<1>1. CASE UNCHANGED jobs
  BY <1>1
<1>2. ASSUME NEW s \in Schedulers, RuntimeStart(s) PROVE NothingCreated
  <2>1. \A j \in Jobs : jobs[j].status \in Active => jobs[j].creation # "none"
    BY RecordTypes DEF JobBound, Active
  <2>2. \A j \in Jobs : jobs[j].status \notin Active => jobs'[j] = jobs[j]
    BY <1>2 DEF RuntimeStart, ActiveJobs
  <2> QED  BY <2>1, <2>2
<1>3. ASSUME NEW j \in Jobs, BackoffEnds(j) PROVE NothingCreated
  BY <1>3, VariableTypes DEF BackoffEnds, JobRecord
<1> QED
  BY <1>1, <1>2, <1>3 DEF Next, vars, Crash, Move, Rewrite

LEMMA DeliveredStays ==
  ASSUME TInv, JobsKeep, NEW d, Delivered(d)
  PROVE  Delivered(d)'
<1>1. PICK j \in Jobs : /\ jobs[j].delivered /\ jobs[j].task = d
                        /\ Outcome[jobs[j].edge.to] = "success"
  BY DEF Delivered
<1>2. jobs[j].creation # "none"
  BY <1>1, RecordTypes DEF JobBound
<1>3. jobs'[j].task = d /\ jobs'[j].edge = jobs[j].edge /\ jobs'[j].delivered
  BY <1>1, <1>2 DEF JobsKeep
<1> QED
  BY <1>1, <1>3 DEF Delivered

(* The creation looks at the dependencies again.                            *)
LEMMA MetIsDelivered ==
  ASSUME TInv, NEW t \in Tasks, DependenciesMet(vault, t), NEW d \in Depends[t]
  PROVE  Delivered(d)
<1>1. Outcome[vault[d].state] = "success" /\ Evidence(vault, d)
  BY DEF DependenciesMet
<1>2. PICK j \in Listed(Home[d]) : /\ jobs[j].task = d /\ jobs[j].status = "accepted"
                                   /\ jobs[j].acceptance = "committed"
                                   /\ jobs[j].edge.to = vault[d].state
  BY <1>1 DEF Evidence
<1>3. j \in Jobs /\ jobs[j].delivered
  BY <1>2, RecordTypes DEF Listed, Recorded, JobBound
<1> QED
  BY <1>1, <1>2, <1>3 DEF Delivered

LEMMA DependenciesStep == TInv /\ DependenciesInv /\ [Next]_vars => DependenciesInv'
<1> SUFFICES ASSUME TInv, DependenciesInv, [Next]_vars,
                    NEW j \in Jobs, jobs'[j].creation # "none",
                    NEW d \in Depends[jobs'[j].task]
             PROVE  Delivered(d)'
  BY DEF DependenciesInv
<1>1. JobsKeep
  BY StepTyped
<1>2. NothingCreated \/ \E s \in Schedulers, e \in Transitions : Create(s, e)
  BY RunCreates, TickCreates, OtherCreates
<1>3. CASE jobs[j].creation # "none"
  BY <1>1, <1>2, <1>3, DeliveredStays DEF JobsKeep, DependenciesInv
<1>4. CASE jobs[j].creation = "none"
  <2>1. PICK s \in Schedulers, e \in Transitions : Create(s, e)
    BY <1>2, <1>4 DEF NothingCreated
  <2> DEFINE t == First(op[s].queue)
  <2> DEFINE k == Min(FreshJobs)
  <2>2. k \in Jobs /\ jobs[k].creation = "none"
    BY <2>1, FreshIsJob DEF Create
  <2>3. t \in Tasks
    BY <2>1, CandidateOf DEF Create, At
  <2>4. jobs' = [jobs EXCEPT ![k].creation = "prepared", ![k].task = t,
                             ![k].edge = e, ![k].revision = vault[t].revision]
        /\ DependenciesMet(vault, t)
    BY <1>4, <2>1 DEF Create
  <2>5. vault[t].revision \in 0..MaxRevision
    BY <2>3, VariableTypes DEF Vaults
  <2> HIDE DEF t, k
  <2>p. Prepares(k, t, e, vault[t].revision)
    BY <2>4 DEF Prepares
  <2>6. jobs'[k].task = t /\ \A l \in Jobs \ {k} : jobs'[l] = jobs[l]
    BY <2>2, <2>3, <2>5, <2>p, FreshKeeps
  <2>7. j = k /\ d \in Depends[t]
    BY <1>4, <2>6
  <2> QED
    BY <1>1, <1>2, <2>3, <2>4, <2>7, MetIsDelivered, DeliveredStays
<1> QED
  BY <1>3, <1>4

LEMMA DependenciesInit == Init => DependenciesInv
  BY DEF Init, DependenciesInv, NewRecord

(* A job exists only for a task whose dependencies have been delivered by   *)
(* an accepted job (scheduler.py _dependency_error, task_manager.py         *)
(* create_execution_job), whatever users move or rewrite between the        *)
(* snapshot of a tick and the creation, and over crashes and recoveries.    *)
THEOREM DependentsWait == Spec => []DependentsAfterDelivery
<1>1. TInv /\ DependenciesInv => DependentsAfterDelivery
  <2> SUFFICES ASSUME TInv, DependenciesInv, NEW j \in Recorded, NEW d \in Tasks,
                      d \in Depends[jobs[j].task]
               PROVE  \E k \in Recorded : /\ jobs[k].task = d /\ jobs[k].delivered
                                          /\ Outcome[jobs[k].edge.to] = "success"
    BY DEF DependentsAfterDelivery
  <2>1. j \in Jobs /\ jobs[j].creation # "none"
    BY RecordTypes DEF Recorded, JobBound
  <2>2. Delivered(d)
    BY <2>1 DEF DependenciesInv
  <2> QED  BY <2>2, RecordTypes DEF Delivered, JobBound, Recorded
<1> QED
  BY <1>1, DependenciesInit, DependenciesStep, TypedAlways, PTL DEF Spec

-----------------------------------------------------------------------------
(* The lane.  A job lives from the preparation of its creation to its end;  *)
(* until it is applied it is coming.  Of a record:                          *)
Coming(r) == r.status = "absent" /\ r.creation = "prepared"
Live(r) == r.status \in Active \/ Coming(r)

OneLive == \A j, k \in Jobs :
    Live(jobs[j]) /\ Live(jobs[k]) /\ Home[jobs[j].task] = Home[jobs[k].task] => j = k

LiveIn(p, js) == {j \in Jobs : Live(js[j]) /\ Home[js[j].task] = p}

(* What a process in state x has seen of the lane.                          *)
Focused(s, x, js) ==
    /\ x.pc = "consider" => LiveIn(Serves[s], js) = {}
    /\ x.pc \in {"apply", "commit"} => LiveIn(Serves[s], js) \subseteq {x.job}
    /\ x.pc = "loading" => \A j \in x.todo : js[j].status = "absent" => Coming(js[j])

(* A process in state x is yet to recover the creation.                     *)
Recovers(x, j) == x.pc \in {"gone", "idle"} \/ (x.pc = "loading" /\ j \in x.todo)

(* A coming job is being applied, or every scheduler of its project will    *)
(* recover it before it schedules anything.                                 *)
Expected(j) == Coming(jobs[j]) =>
    \/ \E u \in Schedulers : op[u].pc = "apply" /\ op[u].job = j
    \/ \A s \in Schedulers : Home[jobs[j].task] = Serves[s] => Recovers(op[s], j)

LaneInv ==
    /\ OneLive
    /\ \A s \in Schedulers : Focused(s, op[s], jobs)
    /\ \A j \in Jobs : Expected(j)

(* A step that begins no job.                                               *)
NoneBegins ==
    \A j \in Jobs : /\ Live(jobs'[j]) => Live(jobs[j])
                    /\ Coming(jobs'[j]) => Coming(jobs[j])
                    /\ Coming(jobs[j]) => jobs'[j].status # "absent" \/ Coming(jobs'[j])

LEMMA SameBegins ==
  ASSUME UNCHANGED jobs
  PROVE  NoneBegins
  BY DEF NoneBegins

LEMMA LiveCreated ==
  ASSUME TInv, NEW j \in Jobs, Live(jobs[j])
  PROVE  jobs[j].creation # "none"
  BY RecordTypes DEF Live, Coming, JobBound, Active

LEMMA LiveShrinks ==
  ASSUME TInv, JobsKeep, NoneBegins
  PROVE  /\ \A p : LiveIn(p, jobs') \subseteq LiveIn(p, jobs)
         /\ \A j \in Jobs : Live(jobs'[j]) => Live(jobs[j]) /\ jobs'[j].task = jobs[j].task
<1>1. \A j \in Jobs : Live(jobs'[j]) => Live(jobs[j]) /\ jobs'[j].task = jobs[j].task
  BY LiveCreated DEF NoneBegins, JobsKeep
<1> QED
  BY <1>1 DEF LiveIn

LEMMA FocusedKept ==
  ASSUME TInv, JobsKeep, NoneBegins, NEW s \in Schedulers, NEW x \in SchedulerState,
         Focused(s, x, jobs)
  PROVE  Focused(s, x, jobs')
<1>1. LiveIn(Serves[s], jobs') \subseteq LiveIn(Serves[s], jobs)
  BY LiveShrinks
<1>2. \A j \in Jobs : jobs'[j].status = "absent" => jobs[j].status = "absent"
  BY DEF JobsKeep
<1>3. x.todo \subseteq Jobs
  BY DEF SchedulerState
<1> QED
  BY <1>1, <1>2, <1>3 DEF Focused, NoneBegins

(* A step of process s to state x that begins no job.                       *)
LEMMA LaneMoves ==
  ASSUME TInv, LaneInv, JobsKeep, NoneBegins, NEW s \in Schedulers, NEW x \in SchedulerState,
         op' = [op EXCEPT ![s] = x], Focused(s, x, jobs'),
         op[s].pc = "apply" => ~ Coming(jobs'[op[s].job]),
         \A j \in Jobs : Coming(jobs'[j]) /\ Home[jobs[j].task] = Serves[s] /\ Recovers(op[s], j)
                            => Recovers(x, j)
  PROVE  LaneInv'
<1>1. op'[s] = x /\ \A u \in Schedulers \ {s} : op'[u] = op[u]
  BY VariableTypes
<1>2. OneLive'
  BY LiveShrinks DEF LaneInv, OneLive
<1>3. ASSUME NEW u \in Schedulers PROVE Focused(u, op'[u], jobs')
  <2>1. CASE u = s
    BY <1>1, <2>1
  <2>2. CASE u # s
    BY <1>1, <2>2, OpTypes, FocusedKept DEF LaneInv
  <2> QED  BY <2>1, <2>2
<1>4. ASSUME NEW j \in Jobs PROVE Expected(j)'
  <2> SUFFICES ASSUME Coming(jobs'[j])
               PROVE  \/ \E u \in Schedulers : op'[u].pc = "apply" /\ op'[u].job = j
                      \/ \A u \in Schedulers : Home[jobs'[j].task] = Serves[u] => Recovers(op'[u], j)
    BY DEF Expected
  <2>1. Coming(jobs[j]) /\ jobs'[j].task = jobs[j].task
    BY LiveShrinks DEF NoneBegins, Live
  <2>2. CASE \E u \in Schedulers : op[u].pc = "apply" /\ op[u].job = j
    BY <1>1, <2>2
  <2>3. CASE \A u \in Schedulers : Home[jobs[j].task] = Serves[u] => Recovers(op[u], j)
    BY <1>1, <2>1, <2>3
  <2> QED  BY <2>1, <2>2, <2>3 DEF LaneInv, Expected
<1> QED
  BY <1>2, <1>3, <1>4 DEF LaneInv

(* The same for a state that has nothing to do with the lane.               *)
LEMMA LaneRests ==
  ASSUME TInv, LaneInv, JobsKeep, NoneBegins, NEW s \in Schedulers, NEW x \in SchedulerState,
         op' = [op EXCEPT ![s] = x], x.pc \in {"gone", "idle"},
         op[s].pc = "apply" => ~ Coming(jobs'[op[s].job])
  PROVE  LaneInv'
<1>1. Focused(s, x, jobs')
  BY DEF Focused
<1>2. \A j \in Jobs : Recovers(x, j)
  BY DEF Recovers
<1> QED
  BY <1>1, <1>2, LaneMoves

LEMMA LaneGoesOn ==
  ASSUME TInv, LaneInv, JobsKeep, NoneBegins, NEW s \in Schedulers, NEW x \in SchedulerState,
         op' = [op EXCEPT ![s] = x], x.pc \in {"recovering", "focus"} \cup Running,
         op[s].pc \notin {"gone", "idle"}, op[s].pc = "loading" => op[s].todo = {},
         op[s].pc = "apply" => ~ Coming(jobs'[op[s].job])
  PROVE  LaneInv'
<1>1. Focused(s, x, jobs')
  BY DEF Focused, Running
<1>2. \A j \in Jobs : ~ Recovers(op[s], j)
  BY DEF Recovers
<1> QED
  BY <1>1, <1>2, LaneMoves

LEMMA LoadLane ==
  ASSUME TInv, LaneInv, NEW s \in Schedulers, LoadContext(s)
  PROVE  LaneInv'
<1> DEFINE todo == {j \in Jobs : jobs[j].creation = "prepared" /\ Home[jobs[j].task] = Serves[s]}
<1> DEFINE x == [op[s] EXCEPT !.pc = "loading", !.todo = todo,
                              !.past = IF s \in Daemons THEN @ ELSE Failed(Jobs)]
<1>1. Failed(Jobs) \subseteq Jobs
  BY DEF Failed
<1>2. x \in SchedulerState /\ x.pc = "loading" /\ x.todo = todo
  BY <1>1, OpTypes DEF SchedulerState
<1>3. op' = [op EXCEPT ![s] = x] /\ UNCHANGED jobs /\ op[s].pc = "idle"
  BY VariableTypes DEF LoadContext, At
<1> HIDE DEF x
<1>4. Focused(s, x, jobs')
  BY <1>2, <1>3 DEF Focused, Coming
<1>5. \A j \in Jobs : Coming(jobs'[j]) /\ Home[jobs[j].task] = Serves[s] => Recovers(x, j)
  BY <1>2, <1>3 DEF Recovers, Coming
<1>6. JobsKeep /\ NoneBegins
  BY <1>3, NothingKeeps, SameBegins
<1> QED
  BY <1>2, <1>3, <1>4, <1>5, <1>6, LaneMoves

(* A coming job is the only live one of its project, so that a recovery     *)
(* creates it.                                                              *)
LEMMA ComingRecreated ==
  ASSUME TInv, LaneInv, NEW j \in Jobs, Coming(jobs[j])
  PROVE  RecreatedIfFree(j).status = "pending"
<1>1. Live(jobs[j]) /\ jobs[j].status \notin Active
  BY DEF Live, Coming, Active
<1>2. ActiveJobs(OfTransition(Recorded, jobs[j].task, jobs[j].edge)) = {}
  <2> SUFFICES ASSUME NEW k \in Jobs, jobs[k].status \in Active, jobs[k].task = jobs[j].task
               PROVE  FALSE
    BY DEF ActiveJobs, OfTransition, Recorded
  <2>1. Live(jobs[k])
    BY DEF Live
  <2> QED  BY <1>1, <2>1 DEF LaneInv, OneLive
<1> QED
  BY <1>2, RecordTypes DEF RecreatedIfFree, Coming, JobRecord

LEMMA RecoverCreationLane ==
  ASSUME TInv, LaneInv, NEW s \in Schedulers, NEW j \in Jobs, RecoverCreation(s, j)
  PROVE  LaneInv'
<1> DEFINE x == [op[s] EXCEPT !.todo = @ \ {j}]
<1>1. op[s].pc = "loading" /\ j \in op[s].todo /\ jobs[j].creation # "none"
  BY OpTypes DEF RecoverCreation, At, Bound
<1>2. x \in SchedulerState /\ x.pc = "loading" /\ x.todo = op[s].todo \ {j}
  BY <1>1, OpTypes DEF SchedulerState
<1>3. op' = [op EXCEPT ![s] = x]
  BY VariableTypes DEF RecoverCreation
<1>4. jobs'[j] = RecreatedIfFree(j) /\ \A k \in Jobs \ {j} : jobs'[k] = jobs[k]
  BY VariableTypes DEF RecoverCreation
<1> HIDE DEF x
<1>5. jobs[j].status = "absent" => Coming(jobs[j])
  BY <1>1 DEF LaneInv, Focused
<1>6. ~ Coming(jobs'[j])
  BY <1>1, <1>4, <1>5, ComingRecreated, RecreatedSucceeds DEF Coming
<1>7. NoneBegins
  <2>1. Live(jobs'[j]) => Live(jobs[j])
    BY <1>1, <1>4, <1>5, <1>6, RecreatedSucceeds DEF Live
  <2>2. Coming(jobs[j]) => jobs'[j].status # "absent"
    BY <1>4, ComingRecreated
  <2> QED  BY <1>4, <1>6, <2>1, <2>2 DEF NoneBegins
<1>8. Focused(s, x, jobs')
  <2>1. \A k \in op[s].todo : jobs[k].status = "absent" => Coming(jobs[k])
    BY <1>1 DEF LaneInv, Focused
  <2>2. x.todo \subseteq Jobs \ {j}
    BY <1>2, OpTypes
  <2> QED  BY <1>2, <1>4, <2>1, <2>2 DEF Focused
<1>9. \A k \in Jobs : Coming(jobs'[k]) /\ Recovers(op[s], k) => Recovers(x, k)
  BY <1>1, <1>2, <1>6 DEF Recovers
<1>10. JobsKeep
  BY RecoverCreationTyped
<1> QED
  BY <1>1, <1>2, <1>3, <1>7, <1>8, <1>9, <1>10, LaneMoves

LEMMA ListAcceptancesLane ==
  ASSUME TInv, LaneInv, NEW s \in Schedulers, ListAcceptances(s)
  PROVE  LaneInv'
<1> DEFINE todo == {j \in Listed(Serves[s]) : /\ jobs[j].acceptance # "none"
                                              /\ jobs[j].status # "accepted"}
<1> DEFINE x == [op[s] EXCEPT !.pc = "recovering", !.todo = todo]
<1>1. todo \subseteq Jobs
  BY DEF Listed, Recorded
<1>2. x \in SchedulerState /\ x.pc = "recovering"
  BY <1>1, OpTypes DEF SchedulerState
<1>3. op' = [op EXCEPT ![s] = x] /\ UNCHANGED jobs /\ op[s].pc = "loading" /\ op[s].todo = {}
  BY VariableTypes DEF ListAcceptances, At
<1> HIDE DEF x
<1> QED
  BY <1>2, <1>3, NothingKeeps, SameBegins, LaneGoesOn

LEMMA RecoverAcceptanceLane ==
  ASSUME TInv, LaneInv, NEW s \in Schedulers, NEW j \in Jobs, RecoverAcceptance(s, j)
  PROVE  LaneInv'
<1> DEFINE x == [op[s] EXCEPT !.todo = @ \ {j}]
<1>1. op[s].pc = "recovering" /\ jobs[j].acceptance # "none"
  BY OpTypes DEF RecoverAcceptance, At, Bound
<1>2. x \in SchedulerState /\ x.pc = "recovering"
  BY <1>1, OpTypes DEF SchedulerState
<1>3. op' = [op EXCEPT ![s] = x]
  BY VariableTypes DEF RecoverAcceptance
<1> HIDE DEF x
<1>4. NoneBegins
  <2>1. ~ Coming(jobs[j])
    BY <1>1, RecordTypes DEF Coming, JobBound
  <2>2. jobs'[j] = jobs[j] \/ jobs'[j].status = "accepted"
    BY VariableTypes DEF RecoverAcceptance, JobRecord
  <2>3. \A k \in Jobs \ {j} : jobs'[k] = jobs[k]
    BY VariableTypes DEF RecoverAcceptance
  <2> QED  BY <2>1, <2>2, <2>3 DEF NoneBegins, Live, Coming, Active
<1>5. JobsKeep
  BY RecoverAcceptanceTyped
<1>6. op[s].pc \notin {"gone", "idle", "loading", "apply"}
  BY <1>1
<1> QED
  BY ONLY <1>2, <1>3, <1>4, <1>5, <1>6, LaneGoesOn, TInv, LaneInv, s \in Schedulers

LEMMA TakeLockLane ==
  ASSUME TInv, LaneInv, NEW s \in Schedulers, TakeLock(s)
  PROVE  LaneInv'
<1> DEFINE x == [op[s] EXCEPT !.pc = "focus", !.view = vault]
<1>1. x \in SchedulerState /\ x.pc = "focus"
  BY OpTypes, VariableTypes DEF SchedulerState
<1>2. op' = [op EXCEPT ![s] = x] /\ UNCHANGED jobs /\ op[s].pc = "recovering"
  BY VariableTypes DEF TakeLock, At
<1> HIDE DEF x
<1>3. JobsKeep /\ NoneBegins
  BY <1>2, NothingKeeps, SameBegins
<1>4. op[s].pc \notin {"gone", "idle", "loading", "apply"}
  BY <1>2
<1> QED
  BY ONLY <1>1, <1>2, <1>3, <1>4, LaneGoesOn, TInv, LaneInv, s \in Schedulers

(* The end of a lock section.                                               *)
LEMMA ReleasedLane ==
  ASSUME TInv, LaneInv, JobsKeep, NoneBegins, NEW s \in Schedulers, op[s].pc \in Locked,
         op[s].pc = "apply" => ~ Coming(jobs'[op[s].job]),
         EndTick(s) \/ ErrorTick(s) \/ \E j \in Jobs : HandOut(s, j)
  PROVE  LaneInv'
<1>1. CASE EndTick(s)
  <2>1. Idle(op[s].past) \in SchedulerState /\ Idle(op[s].past).pc = "idle"
    BY IdleTyped, IdleKeepsPast
  <2> QED  BY <1>1, <2>1, LaneRests DEF EndTick
<1>2. CASE ErrorTick(s)
  <2> DEFINE pc == IF s \in Daemons THEN "gone" ELSE "idle"
  <2> DEFINE x == [Idle(op[s].past) EXCEPT !.pc = pc]
  <2>0. pc \in {"gone", "idle"}
    OBVIOUS
  <2>2. op' = [op EXCEPT ![s] = x]
    BY <1>2 DEF ErrorTick
  <2> HIDE DEF pc
  <2>3. op[s].past \in SUBSET Jobs
    BY IdleKeepsPast
  <2>1. x \in SchedulerState /\ x.pc = pc
    BY ONLY <2>0, <2>3, IdleAtTyped
  <2> HIDE DEF x
  <2> QED  BY <2>0, <2>1, <2>2, LaneRests
<1>3. ASSUME NEW j \in Jobs, HandOut(s, j) PROVE LaneInv'
  <2> DEFINE x == [Idle(op[s].past) EXCEPT !.pc = "run", !.job = j]
  <2>1. x \in SchedulerState /\ x.pc \in Running
    BY IdleWithTyped, IdleKeepsPast DEF Running
  <2>2. op' = [op EXCEPT ![s] = x]
    BY <1>3 DEF HandOut
  <2> HIDE DEF x
  <2>3. op[s].pc \notin {"gone", "idle", "loading"}
    BY DEF Locked
  <2> QED  BY <2>1, <2>2, <2>3, LaneGoesOn
<1> QED
  BY <1>1, <1>2, <1>3

LEMMA LockedEndsLane ==
  ASSUME TInv, LaneInv, NEW s \in Schedulers,
         LaneUnresolved(s) \/ LaneHeld(s) \/ NothingDue(s)
  PROVE  LaneInv'
<1>1. UNCHANGED jobs /\ op[s].pc \in {"focus", "consider"}
  BY DEF LaneUnresolved, LaneHeld, NothingDue, At
<1>2. EndTick(s) \/ ErrorTick(s) \/ \E j \in Jobs : HandOut(s, j)
  BY LaneJobsListed DEF LaneUnresolved, LaneHeld, NothingDue, RepairReady
<1>3. op[s].pc \in Locked /\ op[s].pc # "apply"
  BY <1>1 DEF Locked
<1>4. JobsKeep /\ NoneBegins
  BY <1>1, NothingKeeps, SameBegins
<1> QED
  BY <1>2, <1>3, <1>4, ReleasedLane

(* A lane without jobs has no active job of the project.                    *)
LEMMA LaneClear ==
  ASSUME TInv, NEW p, NEW v, LaneJobs(p, v) = {},
         NEW j \in Jobs, Home[jobs[j].task] = p, jobs[j].status \in Active
  PROVE  FALSE
<1> DEFINE own == {t \in TasksOf(p) : \E k \in ActiveJobs(Listed(p)) : jobs[k].task = t}
<1>1. j \in ActiveJobs(Listed(p))
  BY DEF ActiveJobs, Listed, Recorded, StoreOf, ProjectOf, Active
<1>2. jobs[j].task \in Tasks
  BY RecordTypes DEF JobBound, Active
<1>3. jobs[j].task \in own
  BY <1>1, <1>2 DEF TasksOf
<1>4. own # {} /\ own \subseteq Tasks
  BY <1>3 DEF TasksOf
<1>5. First(own) \in own
  BY <1>4, FirstIsOne
<1>6. {k \in ActiveJobs(Listed(p)) : jobs[k].task = First(own)} # {}
  BY <1>5
<1>7. LaneJobs(p, v) = {k \in ActiveJobs(Listed(p)) : jobs[k].task = First(own)}
  BY <1>4 DEF LaneJobs
<1> QED
  BY <1>6, <1>7

LEMMA LaneOpenLane ==
  ASSUME TInv, LaneInv, NEW s \in Schedulers, LaneOpen(s)
  PROVE  LaneInv'
<1> DEFINE q == LaneTasks(Serves[s], op[s].view)
<1> DEFINE x == [op[s] EXCEPT !.pc = "consider", !.queue = q]
<1>0. q \subseteq Tasks
  BY LaneTasksOwn DEF TasksOf
<1>1. op[s].pc = "focus" /\ UNCHANGED jobs
  BY DEF LaneOpen, At
<1>2. x \in SchedulerState /\ x.pc = "consider"
  BY <1>0, OpTypes DEF SchedulerState
<1>3. op' = [op EXCEPT ![s] = x]
  BY VariableTypes DEF LaneOpen
<1> HIDE DEF x, q
<1>4. ASSUME NEW j \in LiveIn(Serves[s], jobs) PROVE FALSE
  <2>1. j \in Jobs /\ Live(jobs[j]) /\ Home[jobs[j].task] = Serves[s]
    BY DEF LiveIn
  <2>2. CASE jobs[j].status \in Active
    BY <2>1, <2>2, LaneClear DEF LaneOpen
  <2>3. CASE Coming(jobs[j])
    <3>1. CASE \E u \in Schedulers : op[u].pc = "apply" /\ op[u].job = j
      BY <1>1, <3>1, LockedAlone DEF Locked
    <3>2. CASE \A u \in Schedulers : Home[jobs[j].task] = Serves[u] => Recovers(op[u], j)
      BY <1>1, <2>1, <3>2 DEF Recovers
    <3> QED  BY <2>1, <2>3, <3>1, <3>2 DEF LaneInv, Expected
  <2> QED  BY <2>1, <2>2, <2>3 DEF Live
<1>5. Focused(s, x, jobs')
  BY <1>1, <1>2, <1>4 DEF Focused
<1>6. \A j \in Jobs : ~ Recovers(op[s], j)
  BY <1>1 DEF Recovers
<1>7. JobsKeep /\ NoneBegins
  BY <1>1, NothingKeeps, SameBegins
<1> QED
  BY <1>1, <1>2, <1>3, <1>5, <1>6, <1>7, LaneMoves

LEMMA SkipLane ==
  ASSUME TInv, LaneInv, NEW s \in Schedulers, Skip(s)
  PROVE  LaneInv'
<1> DEFINE x == [op[s] EXCEPT !.queue = @ \ {First(@)}]
<1>1. op[s].pc = "consider" /\ UNCHANGED jobs
  BY DEF Skip, At
<1>2. x \in SchedulerState /\ x.pc = "consider"
  BY <1>1, OpTypes DEF SchedulerState
<1>3. op' = [op EXCEPT ![s] = x]
  BY VariableTypes DEF Skip, NextTask
<1> HIDE DEF x
<1>4. Focused(s, x, jobs')
  BY <1>1, <1>2 DEF LaneInv, Focused
<1>5. \A j \in Jobs : ~ Recovers(op[s], j)
  BY <1>1 DEF Recovers
<1>6. JobsKeep /\ NoneBegins
  BY <1>1, NothingKeeps, SameBegins
<1> QED
  BY <1>1, <1>2, <1>3, <1>4, <1>5, <1>6, LaneMoves

(* A step inside the lock section on the job that has the lane.             *)
LEMMA LaneOwn ==
  ASSUME TInv, LaneInv, NEW s \in Schedulers, op[s].pc \in Locked,
         NEW x \in SchedulerState, x.pc \in {"apply", "commit"}, op' = [op EXCEPT ![s] = x],
         NEW j \in Jobs, x.job = j, \A k \in Jobs \ {j} : jobs'[k] = jobs[k],
         LiveIn(Serves[s], jobs) \subseteq {j}, Home[jobs'[j].task] = Serves[s],
         jobs[j].creation # "none" => jobs'[j].status # "absent",
         Coming(jobs'[j]) => x.pc = "apply",
         op[s].pc = "apply" => op[s].job = j
  PROVE  LaneInv'
<1>1. op'[s] = x /\ \A u \in Schedulers \ {s} : op'[u] = op[u]
  BY VariableTypes
<1>2. OneLive'
  <2>1. \A k \in Jobs \ {j} : Live(jobs'[k]) => Live(jobs[k]) /\ Home[jobs'[k].task] # Serves[s]
    BY DEF LiveIn
  <2> QED  BY <2>1 DEF LaneInv, OneLive
<1>3. ASSUME NEW u \in Schedulers PROVE Focused(u, op'[u], jobs')
  <2>1. CASE u = s
    BY <1>1, <2>1 DEF Focused, LiveIn
  <2>2. CASE u # s
    <3>1. op[u].pc \notin Locked /\ Focused(u, op[u], jobs) /\ op[u].todo \subseteq Jobs
      BY <2>2, LockedAlone, OpTypes DEF LaneInv
    <3>2. op[u].pc = "loading" => \A k \in op[u].todo : jobs[k].creation # "none"
      BY OpTypes DEF Bound
    <3> QED  BY <1>1, <2>2, <3>1, <3>2 DEF Focused, Locked
  <2> QED  BY <2>1, <2>2
<1>4. ASSUME NEW k \in Jobs PROVE Expected(k)'
  <2> SUFFICES ASSUME Coming(jobs'[k])
               PROVE  \/ \E u \in Schedulers : op'[u].pc = "apply" /\ op'[u].job = k
                      \/ \A u \in Schedulers : Home[jobs'[k].task] = Serves[u] => Recovers(op'[u], k)
    BY DEF Expected
  <2>1. CASE k = j
    BY <1>1, <2>1
  <2>2. CASE k # j
    <3>1. Coming(jobs[k]) /\ jobs'[k].task = jobs[k].task
      BY <2>2
    <3>2. CASE \E u \in Schedulers : op[u].pc = "apply" /\ op[u].job = k
      BY <1>1, <2>2, <3>2
    <3>3. CASE \A u \in Schedulers : Home[jobs[k].task] = Serves[u] => Recovers(op[u], k)
      <4>1. ~ Recovers(op[s], k)
        BY DEF Recovers, Locked
      <4> QED  BY <1>1, <3>1, <3>3, <4>1
    <3> QED  BY <3>1, <3>2, <3>3 DEF LaneInv, Expected
  <2> QED  BY <2>1, <2>2
<1> QED
  BY <1>2, <1>3, <1>4 DEF LaneInv

LEMMA CreateLane ==
  ASSUME TInv, LaneInv, NEW s \in Schedulers, NEW e \in Transitions, Create(s, e)
  PROVE  LaneInv'
<1> DEFINE t == First(op[s].queue)
<1> DEFINE j == Min(FreshJobs)
<1>1. op[s].pc = "consider" /\ e \in Candidate(s) /\ op[s].pc \in Locked
  BY DEF Create, At, Locked
<1>2. t \in Tasks /\ Home[t] = Serves[s]
  BY <1>1, CandidateOf
<1>3. j \in Jobs /\ jobs[j].creation = "none"
  BY FreshIsJob DEF Create
<1>4. CASE ErrorTick(s) /\ UNCHANGED jobs
  BY <1>1, <1>4, NothingKeeps, SameBegins, ReleasedLane
<1>5. CASE /\ jobs' = [jobs EXCEPT ![j].creation = "prepared", ![j].task = t,
                                   ![j].edge = e, ![j].revision = vault[t].revision]
           /\ op' = [op EXCEPT ![s].pc = "apply", ![s].job = j]
  <2> DEFINE x == [op[s] EXCEPT !.pc = "apply", !.job = j]
  <2>1. vault[t].revision \in 0..MaxRevision
    BY <1>2, VariableTypes DEF Vaults
  <2>2. op' = [op EXCEPT ![s] = x]
    BY <1>5, VariableTypes
  <2> HIDE DEF t, j
  <2>3. x \in SchedulerState /\ x.pc = "apply" /\ x.job = j
    BY <1>3, OpTypes DEF SchedulerState
  <2> HIDE DEF x
  <2>p. Prepares(j, t, e, vault[t].revision)
    BY <1>5 DEF Prepares
  <2>4. jobs'[j].task = t /\ \A k \in Jobs \ {j} : jobs'[k] = jobs[k]
    BY <1>2, <1>3, <2>1, <2>p, FreshKeeps
  <2>5. LiveIn(Serves[s], jobs) \subseteq {j}
    BY <1>1 DEF LaneInv, Focused
  <2>6. Home[jobs'[j].task] = Serves[s] /\ (jobs[j].creation # "none" => jobs'[j].status # "absent")
    BY <1>2, <1>3, <2>4
  <2>7. x.pc \in {"apply", "commit"} /\ (op[s].pc = "apply" => op[s].job = j)
        /\ (Coming(jobs'[j]) => x.pc = "apply")
    BY <1>1, <2>3
  <2> QED
    BY <1>1, <1>3, <2>2, <2>3, <2>4, <2>5, <2>6, <2>7, LaneOwn
<1> QED
  BY <1>4, <1>5 DEF Create

LEMMA ApplyCreationLane ==
  ASSUME TInv, LaneInv, NEW s \in Schedulers, ApplyCreation(s)
  PROVE  LaneInv'
<1> DEFINE j == op[s].job
<1>1. op[s].pc = "apply" /\ op[s].pc \in Locked /\ JobsKeep
  BY ApplyCreationTyped DEF ApplyCreation, At, Locked
<1>2. j \in Jobs /\ jobs[j].creation # "none" /\ Home[jobs[j].task] = Serves[s]
  BY <1>1, OpTypes DEF Bound, WithJob
<1>3. LiveIn(Serves[s], jobs) \subseteq {j}
  BY <1>1 DEF LaneInv, Focused
<1>4. CASE /\ jobs' = [jobs EXCEPT ![j].status = "pending"]
           /\ op' = [op EXCEPT ![s].pc = "commit"]
  <2> DEFINE r == [jobs[j] EXCEPT !.status = "pending"]
  <2> DEFINE x == [op[s] EXCEPT !.pc = "commit"]
  <2>1. jobs' = [jobs EXCEPT ![j] = r] /\ op' = [op EXCEPT ![s] = x]
    BY <1>4, VariableTypes
  <2>2. r.status = "pending" /\ r.task = jobs[j].task
    BY <1>2, RecordTypes DEF JobRecord
  <2>3. x \in SchedulerState /\ x.pc = "commit" /\ x.job = j
    BY OpTypes DEF SchedulerState
  <2> HIDE DEF r, x, j
  <2>4. jobs'[j] = r /\ \A k \in Jobs \ {j} : jobs'[k] = jobs[k]
    BY <1>2, <2>1, VariableTypes
  <2>5. Home[jobs'[j].task] = Serves[s] /\ (jobs[j].creation # "none" => jobs'[j].status # "absent")
    BY <1>2, <2>2, <2>4
  <2>6. x.pc \in {"apply", "commit"} /\ (op[s].pc = "apply" => op[s].job = j)
        /\ (Coming(jobs'[j]) => x.pc = "apply")
    BY <2>2, <2>3, <2>4 DEF Coming, j
  <2> QED
    BY <1>1, <1>2, <1>3, <2>1, <2>3, <2>4, <2>5, <2>6, LaneOwn
<1>5. CASE /\ ActiveJobs(OfTransition(Recorded, jobs[j].task, jobs[j].edge)) # {}
           /\ jobs' = [jobs EXCEPT ![j].creation = "failed"] /\ ErrorTick(s)
  <2> DEFINE r == [jobs[j] EXCEPT !.creation = "failed"]
  <2>1. PICK k \in Jobs : jobs[k].status \in Active /\ jobs[k].task = jobs[j].task
    BY <1>5 DEF ActiveJobs, OfTransition, Recorded
  <2>2. k = j
    BY <1>2, <1>3, <2>1 DEF LiveIn, Live
  <2>3. r.status = jobs[j].status /\ jobs[j].status \in Active
    BY <1>2, <2>1, <2>2, RecordTypes DEF JobRecord
  <2>4. jobs' = [jobs EXCEPT ![j] = r]
    BY <1>5, VariableTypes
  <2> HIDE DEF r, j
  <2>5. jobs'[j] = r /\ \A i \in Jobs \ {j} : jobs'[i] = jobs[i]
    BY <1>2, <2>4, VariableTypes
  <2>6. NoneBegins /\ ~ Coming(jobs'[j])
    BY <2>3, <2>5 DEF NoneBegins, Live, Coming, Active
  <2>7. op[s].pc = "apply" => ~ Coming(jobs'[op[s].job])
    BY <2>6 DEF j
  <2> QED
    BY <1>1, <1>5, <2>6, <2>7, ReleasedLane
<1> QED
  BY <1>4, <1>5 DEF ApplyCreation

LEMMA CommitCreationLane ==
  ASSUME TInv, LaneInv, NEW s \in Schedulers, CommitCreation(s)
  PROVE  LaneInv'
<1> DEFINE j == op[s].job
<1> DEFINE r == [jobs[j] EXCEPT !.creation = "committed"]
<1>1. op[s].pc = "commit" /\ op[s].pc \in Locked /\ HandOut(s, j) /\ JobsKeep
  BY CommitCreationTyped DEF CommitCreation, At, Locked
<1>2. j \in Jobs /\ jobs[j].status # "absent"
  BY <1>1, OpTypes DEF Bound, WithJob
<1>3. jobs' = [jobs EXCEPT ![j] = r]
  BY VariableTypes DEF CommitCreation
<1>4. r.status = jobs[j].status
  BY <1>2, RecordTypes DEF JobRecord
<1> HIDE DEF r, j
<1>5. jobs'[j] = r /\ \A i \in Jobs \ {j} : jobs'[i] = jobs[i]
  BY <1>2, <1>3, VariableTypes
<1>6. NoneBegins
  BY <1>2, <1>4, <1>5 DEF NoneBegins, Live, Coming
<1>7. \E i \in Jobs : HandOut(s, i)
  BY <1>1, <1>2
<1>8. op[s].pc = "apply" => ~ Coming(jobs'[op[s].job])
  BY <1>1
<1> QED
  BY <1>1, <1>6, <1>7, <1>8, ReleasedLane

(* A step of the run of a job in a calm project begins no job.              *)
LEMMA RunBegins ==
  ASSUME TInv, JobsKeep, NEW s \in Schedulers, Calm(Serves[s]), RunJob(s)
  PROVE  NoneBegins
<1>1. CASE UNCHANGED jobs
  BY <1>1, SameBegins
<1>2. CASE Admit(s) \/ Writes(s)
  <2>1. op[s].pc \in Running
    BY <1>2, WritesOwn DEF Admit, At, Running, Executing
  <2>2. op[s].job \in Jobs /\ jobs[op[s].job].status # "absent"
        /\ jobs'[op[s].job].status # "absent"
    BY <2>1, OwnRecord DEF JobsKeep
  <2>3. \A k \in Jobs \ {op[s].job} : jobs'[k] = jobs[k]
    BY <1>2, <2>2, WritesOwn, VariableTypes DEF Admit
  <2>4. jobs'[op[s].job].status \in Active => jobs[op[s].job].status \in Active
    <3>1. CASE Admit(s)
      BY <2>2, <3>1, VariableTypes DEF Admit, JobRecord
    <3> QED  BY <1>2, <3>1, WritesActive
  <2> QED  BY <2>2, <2>3, <2>4 DEF NoneBegins, Live, Coming
<1> QED
  BY <1>1, <1>2 DEF RunJob, LoadJob, Permit, Repair, RunReturns, Writes

LEMMA RunMoves ==
  ASSUME TInv, NEW s \in Schedulers, RunJob(s), ~ RunReturns(s)
  PROVE  /\ op[s].pc \in Running
         /\ \E pc \in Executing : op' = [op EXCEPT ![s] = [op[s] EXCEPT !.pc = pc]]
<1>1. CASE LoadJob(s) \/ Permit(s) \/ Admit(s) \/ Repair(s)
  <2>1. op[s].pc \in Running
    BY <1>1 DEF LoadJob, Permit, Admit, Repair, At, Running
  <2>2. \E pc \in Executing : op' = [op EXCEPT ![s].pc = pc]
    BY <1>1 DEF LoadJob, Permit, Admit, Repair, Goes, Executing
  <2> QED  BY <2>1, <2>2
<1>2. CASE Writes(s)
  <2>1. op[s].pc \in Running
    BY <1>2, WritesOwn DEF Executing, Running
  <2>2. op' = [op EXCEPT ![s].pc = "working"]
    BY <1>2, WritesOwn, VariableTypes DEF SchedulerState
  <2> QED  BY <2>1, <2>2 DEF Executing
<1> QED
  BY <1>1, <1>2 DEF RunJob, Writes

LEMMA RunLane ==
  ASSUME TInv, LaneInv, NEW s \in Schedulers, Calm(Serves[s]), RunJob(s)
  PROVE  LaneInv'
<1>0. JobsKeep /\ NoneBegins
  BY RunTyped, RunBegins
<1>1. CASE RunReturns(s)
  <2>1. Idle(op[s].past) \in SchedulerState /\ Idle(op[s].past).pc = "idle"
    BY IdleTyped, IdleKeepsPast
  <2>2. op' = [op EXCEPT ![s] = Idle(op[s].past)] /\ op[s].pc # "apply"
    BY <1>1 DEF RunReturns, At
  <2> QED  BY <1>0, <2>1, <2>2, LaneRests
<1>2. CASE ~ RunReturns(s)
  <2>1. PICK pc \in Executing : op' = [op EXCEPT ![s] = [op[s] EXCEPT !.pc = pc]]
    BY <1>2, RunMoves
  <2> DEFINE x == [op[s] EXCEPT !.pc = pc]
  <2>2. x \in SchedulerState /\ x.pc \in Running
    BY OpTypes DEF SchedulerState, Executing, Running
  <2>3. op' = [op EXCEPT ![s] = x]
    BY <2>1
  <2> HIDE DEF x
  <2>4. op[s].pc \notin {"gone", "idle", "loading", "apply"}
    BY <1>2, RunMoves DEF Running
  <2> QED  BY <1>0, <2>2, <2>3, <2>4, LaneGoesOn
<1> QED
  BY <1>1, <1>2

(* A project that a daemon serves is served by nothing else; others are     *)
(* served by any number of commands.  Beside a daemon, runtime start fails  *)
(* a job that its executor then starts all the same, and a crash leaves a   *)
(* creation that a process past its recovery knows nothing of.              *)
DaemonAlone == \A d \in Daemons, s \in Schedulers : Serves[s] = Serves[d] => s = d

LEMMA AloneCalm ==
  ASSUME DaemonAlone, CalmInv, NEW s \in Schedulers
  PROVE  Calm(Serves[s])
  BY WiringAssumption DEF DaemonAlone, CalmInv, Undisturbed, Schedulers

LEMMA CrashLane ==
  ASSUME TInv, LaneInv, DaemonAlone, NEW s \in Schedulers, Crash(s)
  PROVE  LaneInv'
<1> DEFINE x == [Idle(op[s].past) EXCEPT !.pc = "gone"]
<1>1. x \in SchedulerState /\ x.pc = "gone"
  BY IdleAtTyped, IdleKeepsPast
<1>2. op' = [op EXCEPT ![s] = x] /\ UNCHANGED jobs
  BY DEF Crash
<1> HIDE DEF x
<1>3. op'[s] = x /\ \A u \in Schedulers \ {s} : op'[u] = op[u]
  BY <1>2, VariableTypes
<1>4. \A u \in Schedulers : Serves[u] = Serves[s] => u = s
  BY DEF DaemonAlone, Crash
<1>5. \A u \in Schedulers : Focused(u, op'[u], jobs')
  BY <1>1, <1>2, <1>3 DEF LaneInv, Focused
<1>6. ASSUME NEW j \in Jobs, Coming(jobs[j])
      PROVE  \/ \E u \in Schedulers : op'[u].pc = "apply" /\ op'[u].job = j
             \/ \A u \in Schedulers : Home[jobs[j].task] = Serves[u] => Recovers(op'[u], j)
  <2>0. Recovers(op'[s], j)
    BY <1>1, <1>3 DEF Recovers
  <2>1. CASE op[s].pc = "apply" /\ op[s].job = j
    <3>1. Home[jobs[j].task] = Serves[s]
      BY <2>1, OpTypes DEF Bound, WithJob
    <3> QED  BY <1>4, <2>0, <3>1
  <2>2. CASE \E u \in Schedulers \ {s} : op[u].pc = "apply" /\ op[u].job = j
    BY <1>3, <2>2
  <2>3. CASE \A u \in Schedulers : Home[jobs[j].task] = Serves[u] => Recovers(op[u], j)
    BY <1>3, <2>0, <2>3
  <2> QED  BY <1>6, <2>1, <2>2, <2>3 DEF LaneInv, Expected
<1>7. \A j \in Jobs : Expected(j)'
  BY <1>2, <1>6 DEF Expected
<1> QED
  BY <1>2, <1>5, <1>7 DEF LaneInv, OneLive

LEMMA RuntimeStartLane ==
  ASSUME TInv, LaneInv, NEW s \in Schedulers, RuntimeStart(s)
  PROVE  LaneInv'
<1> DEFINE orphans == {j \in ActiveJobs(Jobs) : Home[jobs[j].task] = Serves[s]}
<1> DEFINE past == Failed(Jobs) \cup orphans
<1>1. past \in SUBSET Jobs
  BY DEF Failed, ActiveJobs
<1>2. \A j \in orphans : j \in Jobs /\ jobs[j].status \in Active
  BY DEF ActiveJobs
<1>3. jobs' = [j \in Jobs |-> IF j \in orphans THEN SettledAs(jobs[j], "failed", "reconciled")
                              ELSE jobs[j]]
      /\ op' = [op EXCEPT ![s] = Idle(past)] /\ op[s].pc = "gone"
  BY DEF RuntimeStart, At
<1> HIDE DEF orphans, past
<1>4. Idle(past) \in SchedulerState /\ Idle(past).pc = "idle"
  BY <1>1, IdleTyped
<1>5. \A j \in orphans : jobs'[j].status = "failed"
  <2> SUFFICES ASSUME NEW j \in orphans PROVE jobs'[j].status = "failed"
    OBVIOUS
  <2>1. j \in Jobs /\ jobs[j].creation # "none"
    BY <1>2, RecordTypes DEF JobBound, Active
  <2> QED  BY <1>3, <2>1, SettledSucceeds
<1>6. \A j \in Jobs \ orphans : jobs'[j] = jobs[j]
  BY <1>3
<1>7. NoneBegins
  BY <1>2, <1>5, <1>6 DEF NoneBegins, Live, Coming, Active
<1>8. JobsKeep
  BY RuntimeStartTyped
<1> QED
  BY <1>3, <1>4, <1>7, <1>8, LaneRests

LEMMA LaneStill ==
  ASSUME TInv, LaneInv, JobsKeep, UNCHANGED op,
         \A j \in Jobs : jobs'[j].status = jobs[j].status /\ jobs'[j].creation = jobs[j].creation
  PROVE  LaneInv'
<1>1. NoneBegins
  BY DEF NoneBegins, Live, Coming
<1>2. OneLive'
  BY <1>1, LiveShrinks DEF LaneInv, OneLive
<1>3. \A s \in Schedulers : Focused(s, op'[s], jobs')
  BY <1>1, OpTypes, FocusedKept DEF LaneInv
<1>4. ASSUME NEW j \in Jobs PROVE Expected(j)'
  <2>1. Coming(jobs'[j]) => Coming(jobs[j]) /\ jobs'[j].task = jobs[j].task
    BY <1>1, LiveShrinks DEF NoneBegins, Live
  <2> QED  BY <2>1 DEF LaneInv, Expected
<1> QED
  BY <1>2, <1>3, <1>4 DEF LaneInv

LEMMA TickLane ==
  ASSUME TInv, LaneInv, NEW s \in Schedulers, Tick(s)
  PROVE  LaneInv'
  BY LoadLane, RecoverCreationLane, RecoverAcceptanceLane, ListAcceptancesLane, TakeLockLane,
     LockedEndsLane, LaneOpenLane, SkipLane, CreateLane, ApplyCreationLane,
     CommitCreationLane DEF Tick

LEMMA LaneStep ==
  ASSUME DaemonAlone
  PROVE  TInv /\ CalmInv /\ LaneInv /\ [Next]_vars => LaneInv'
<1> SUFFICES ASSUME TInv, CalmInv, LaneInv, [Next]_vars PROVE LaneInv'
  OBVIOUS
<1>0. JobsKeep
  BY StepTyped
<1>1. CASE UNCHANGED vars
  BY <1>0, <1>1, LaneStill DEF vars
<1>2. ASSUME NEW s \in Schedulers, Tick(s) \/ RunJob(s) \/ Crash(s) \/ RuntimeStart(s)
      PROVE  LaneInv'
  BY <1>2, TickLane, RunLane, AloneCalm, CrashLane, RuntimeStartLane
<1>3. ASSUME NEW j \in Jobs, BackoffEnds(j) PROVE LaneInv'
  <2> DEFINE r == [jobs[j] EXCEPT !.recent = FALSE]
  <2>1. r.status = jobs[j].status /\ r.creation = jobs[j].creation
    BY RecordTypes DEF JobRecord
  <2>2. jobs' = [jobs EXCEPT ![j] = r] /\ UNCHANGED op
    BY <1>3, VariableTypes DEF BackoffEnds
  <2> HIDE DEF r
  <2>3. \A k \in Jobs : jobs'[k].status = jobs[k].status /\ jobs'[k].creation = jobs[k].creation
    BY <2>1, <2>2, VariableTypes
  <2> QED  BY <1>0, <2>2, <2>3, LaneStill
<1>4. ASSUME NEW t \in Tasks, Rewrite(t) \/ \E st \in MoveTargets : Move(t, st) PROVE LaneInv'
  BY <1>0, <1>4, LaneStill DEF Rewrite, Move
<1> QED
  BY <1>1, <1>2, <1>3, <1>4 DEF Next

LEMMA LaneInit == Init => LaneInv
<1> SUFFICES ASSUME Init PROVE LaneInv
  OBVIOUS
<1>1. \A j \in Jobs : ~ Live(jobs[j])
  BY DEF Init, NewRecord, Live, Coming, Active
<1>2. \A s \in Schedulers : op[s].pc = "idle"
  BY DEF Init, Idle
<1> QED
  BY <1>1, <1>2 DEF LaneInv, OneLive, Focused, Expected, Live

(* One project per repository: of two projects with one repository neither  *)
(* lists the jobs of the other.                                             *)
OwnRepository == \A p, q \in Projects : Repository[p] = Repository[q] => p = q

(* At most one active job per repository, over any number of daemons and    *)
(* commands that schedule, recover and run, and whatever users edit         *)
(* (scheduler.py _serial_repo_lane_focus), over crashes too: where no       *)
(* second process schedules beside a daemon, and a repository is of one     *)
(* project.                                                                 *)
THEOREM LaneStaysExclusive ==
  ASSUME OwnRepository, DaemonAlone
  PROVE  Spec => []LaneExclusive
<1>1. TInv /\ LaneInv => LaneExclusive
  <2> SUFFICES ASSUME TInv, LaneInv, NEW p \in Projects
               PROVE  Cardinality({j \in ActiveJobs(Jobs) :
                                      Repository[ProjectOf(j)] = Repository[p]}) <= 1
    BY DEF LaneExclusive
  <2> DEFINE lane == {j \in ActiveJobs(Jobs) : Repository[ProjectOf(j)] = Repository[p]}
  <2>1. \A j \in lane : j \in Jobs /\ Live(jobs[j]) /\ Home[jobs[j].task] = p
    <3> SUFFICES ASSUME NEW j \in lane PROVE j \in Jobs /\ Live(jobs[j]) /\ Home[jobs[j].task] = p
      OBVIOUS
    <3>1. j \in Jobs /\ Live(jobs[j]) /\ Repository[Home[jobs[j].task]] = Repository[p]
      BY DEF ActiveJobs, Live, ProjectOf
    <3>2. Home[jobs[j].task] \in Projects
      BY <3>1, LiveCreated, RecordTypes, WiringAssumption DEF JobBound
    <3> QED  BY <3>1, <3>2 DEF OwnRepository
  <2>2. \A j, k \in lane : j = k
    BY <2>1 DEF LaneInv, OneLive
  <2> HIDE DEF lane
  <2>3. CASE lane = {}
    BY <2>3, FS_EmptySet DEF lane
  <2>4. ASSUME NEW j \in lane PROVE Cardinality(lane) <= 1
    <3>1. lane = {j}
      BY <2>2, <2>4
    <3>2. Cardinality(lane) = 1
      BY <3>1, FS_Singleton
    <3> QED  BY <3>2
  <2> QED  BY <2>3, <2>4 DEF lane
<1> QED
  BY <1>1, LaneInit, LaneStep, CalmAlways, PTL DEF Spec

-----------------------------------------------------------------------------
(* The focus of a project.  A job is engaged while it lives, and after that *)
(* while its delivery is to be settled by a recovery; it is left when its   *)
(* executor is gone too.  A task is in hand when it has been started or has *)
(* an engaged job.                                                          *)
Unsettled(r) == r.acceptance # "none" /\ r.status # "accepted"
Engaged(r) == Live(r) \/ Unsettled(r)
Left(j) == Unsettled(jobs[j]) /\ ~ Claimed(j)

InHand(t) == Started(t) \/ \E j \in Jobs : jobs[j].task = t /\ Engaged(jobs[j])

OneEngaged == \A j, k \in Jobs :
    Engaged(jobs[j]) /\ Engaged(jobs[k]) /\ Home[jobs[j].task] = Home[jobs[k].task] => j = k

OneInHand == \A t, u \in Tasks : InHand(t) /\ InHand(u) /\ Home[t] = Home[u] => t = u

(* The card of an engaged job is where the job leaves it, and once it is    *)
(* delivered, where it has been moved to.                                   *)
Fits(r, v) ==
    /\ r.status \in {"pending", "running", "completion_rejected"} => r.acceptance = "none"
    /\ r.status = "accepted" => r.acceptance = "committed"
    /\ Engaged(r) =>
         v[r.task].state = IF r.acceptance = "committed" THEN r.edge.to ELSE r.edge.from

(* An executor leaves its job only with a delivery that is settled.         *)
Held(j) == Claimed(j) /\ Unsettled(jobs[j]) => jobs[j].status = "completion_submitted"

(* What makes a task a started one for the lane of a snapshot v, now or     *)
(* when its engaged job is accepted.                                        *)
MayStart(v, t) ==
    CanGoOn(v, t) /\ \E j \in Jobs : jobs[j].task = t /\ (jobs[j].status = "accepted" \/ Engaged(jobs[j]))

(* What a scheduler of a project knows, stage by stage.  Of the cards of    *)
(* its snapshot only the one of the task in hand has been moved since, and  *)
(* that task could go on then.                                              *)
Stage(s) ==
    /\ op[s].pc \in {"loading", "recovering"} =>
         \A j \in op[s].todo : Home[jobs[j].task] = Serves[s]
    /\ op[s].pc = "recovering" =>
         \A j \in Jobs : Left(j) /\ Home[jobs[j].task] = Serves[s] => j \in op[s].todo
    /\ op[s].pc \in {"focus", "consider", "apply", "commit", "run"} =>
         \A j \in Jobs : Left(j) => Home[jobs[j].task] # Serves[s]
    /\ op[s].pc = "focus" =>
         \A t \in Tasks : Home[t] = Serves[s] /\ InHand(t) =>
            /\ \A u \in Tasks : Home[u] = Serves[s] /\ MayStart(op[s].view, u) => u = t
            /\ CanGoOn(op[s].view, t) \/ op[s].view[t].state = vault[t].state
    /\ op[s].pc = "consider" =>
         /\ \A j \in Jobs : Engaged(jobs[j]) => Home[jobs[j].task] # Serves[s]
         /\ \A t \in Tasks : Home[t] = Serves[s] /\ InHand(t) => op[s].queue \subseteq {t}
    /\ op[s].pc = "apply" => Engaged(jobs[op[s].job])

FocusInv ==
    /\ OneEngaged /\ OneInHand
    /\ \A j \in Jobs : Fits(jobs[j], vault) /\ Held(j)
    /\ \A s \in Schedulers : Stage(s)

(* Jobs are created for transitions that have a worker.                     *)
WorkedOn == \A j \in Jobs : jobs[j].creation # "none" => jobs[j].edge.worker

LEMMA WorkedOnStep == TInv /\ WorkedOn /\ [Next]_vars => WorkedOn'
<1> SUFFICES ASSUME TInv, WorkedOn, [Next]_vars, NEW j \in Jobs, jobs'[j].creation # "none"
             PROVE  jobs'[j].edge.worker
  BY DEF WorkedOn
<1>1. CASE jobs[j].creation # "none"
  BY <1>1, StepTyped DEF JobsKeep, WorkedOn
<1>2. CASE jobs[j].creation = "none"
  <2>1. PICK s \in Schedulers, e \in Transitions : Create(s, e)
    BY <1>2, RunCreates, TickCreates, OtherCreates DEF NothingCreated
  <2> DEFINE t == First(op[s].queue)
  <2> DEFINE k == Min(FreshJobs)
  <2>2. k \in Jobs /\ jobs[k].creation = "none"
    BY <2>1, FreshIsJob DEF Create
  <2>3. t \in Tasks /\ e.worker
    BY <2>1, CandidateOf DEF Create, At, Candidate, Selected, Eligible
  <2>4. jobs' = [jobs EXCEPT ![k].creation = "prepared", ![k].task = t,
                             ![k].edge = e, ![k].revision = vault[t].revision]
    BY <1>2, <2>1 DEF Create
  <2>5. vault[t].revision \in 0..MaxRevision
    BY <2>3, VariableTypes DEF Vaults
  <2> HIDE DEF t, k
  <2>p. Prepares(k, t, e, vault[t].revision)
    BY <2>4 DEF Prepares
  <2>6. \A l \in Jobs \ {k} : jobs'[l] = jobs[l]
    BY <2>2, <2>3, <2>5, <2>p, FreshKeeps
  <2>7. jobs'[k].edge = e
    BY <2>2, <2>4, VariableTypes DEF JobRecord
  <2> QED  BY <1>2, <2>3, <2>6, <2>7
<1> QED
  BY <1>1, <1>2

LEMMA WorkedOnInit == Init => WorkedOn
  BY DEF Init, WorkedOn, NewRecord

LEMMA EngagedCreated ==
  ASSUME TInv, NEW j \in Jobs, Engaged(jobs[j])
  PROVE  jobs[j].creation # "none" /\ jobs[j].task \in Tasks /\ jobs[j].edge \in Transitions
  BY LiveCreated, RecordTypes DEF Engaged, Unsettled, JobBound

LEMMA AcceptedCreated ==
  ASSUME TInv, NEW j \in Jobs, jobs[j].status = "accepted"
  PROVE  jobs[j].creation # "none" /\ jobs[j].task \in Tasks
  BY RecordTypes DEF JobBound

(* An undelivered engaged job is of a task that can go on.                  *)
LEMMA EngagedCanGoOn ==
  ASSUME TInv, WorkedOn, NEW j \in Jobs, Engaged(jobs[j]), Fits(jobs[j], vault),
         jobs[j].acceptance # "committed"
  PROVE  CanGoOn(vault, jobs[j].task)
  BY EngagedCreated DEF WorkedOn, Fits, CanGoOn, Eligible

-----------------------------------------------------------------------------
(* A step of process s writes jobs and cards of its own project only.       *)
Disturbs(s) ==
    /\ \A j \in Jobs : jobs'[j] # jobs[j] =>
         Home[jobs'[j].task] = Serves[s] /\ Fits(jobs'[j], vault')
    /\ \A t \in Tasks : vault'[t].state # vault[t].state => Home[t] = Serves[s]

(* A step that engages no job, accepts none that was not engaged, and moves *)
(* the card of an engaged one only, which could go on where it was.         *)
Continues ==
    /\ \A j \in Jobs : Engaged(jobs'[j]) => Engaged(jobs[j])
    /\ \A j \in Jobs : jobs'[j].status = "accepted" => jobs[j].status = "accepted" \/ Engaged(jobs[j])
    /\ \A t \in Tasks : vault'[t].state # vault[t].state =>
         /\ CanGoOn(vault, t)
         /\ \E j \in Jobs : jobs[j].task = t /\ Engaged(jobs[j]) /\ jobs'[j] # jobs[j]

(* A step of process s leaves no delivery behind that others of its project *)
(* have not yet seen left, nor ends a job whose creation they apply.        *)
LeavesNone == \A j \in Jobs : Left(j)' => Left(j)

Yields(s) ==
    /\ \A j \in Jobs : Held(j)'
    /\ s \notin Daemons =>
         /\ LeavesNone
         /\ \A u \in Schedulers \ {s} : op[u].pc = "apply" => Engaged(jobs'[op[u].job])

LEMMA YieldsQuiet ==
  ASSUME TInv, FocusInv, NEW s \in Schedulers, NEW x, op' = [op EXCEPT ![s] = x], UNCHANGED jobs,
         x.pc \notin Executing,
         op[s].pc \in Executing => ~ Unsettled(jobs[op[s].job])
  PROVE  Yields(s) /\ LeavesNone
<1>1. op'[s] = x /\ \A u \in Schedulers \ {s} : op'[u] = op[u]
  BY VariableTypes
<1>2. \A j \in Jobs : Claimed(j)' => Claimed(j)
  BY <1>1 DEF Claimed
<1>3. \A j \in Jobs : Held(j)'
  BY <1>2 DEF FocusInv, Held
<1>4. LeavesNone
  BY <1>1 DEF LeavesNone, Left, Claimed, At
<1>5. \A u \in Schedulers \ {s} : op[u].pc = "apply" => Engaged(jobs'[op[u].job])
  BY DEF FocusInv, Stage
<1> QED
  BY <1>3, <1>4, <1>5 DEF Yields

(* A step that writes the record of one job, and leaves no other.           *)
LEMMA YieldsOwn ==
  ASSUME TInv, FocusInv, NEW s \in Schedulers, NEW x, op' = [op EXCEPT ![s] = x],
         NEW j \in Jobs, NEW r, jobs' = [jobs EXCEPT ![j] = r],
         op[s].pc \in Executing => x.pc \in Executing /\ op[s].job = j,
         x.pc \in Executing => x.job = j,
         Unsettled(r) =>
            \/ x.pc \in Executing /\ r.status = "completion_submitted"
            \/ x.pc \notin Executing /\ Unsettled(jobs[j]) /\ r.status = jobs[j].status,
         \/ Engaged(jobs[j]) => Engaged(r)
         \/ \A u \in Schedulers \ {s} : op[u].pc = "apply" => op[u].job # j
  PROVE  Yields(s) /\ LeavesNone
<1>1. op'[s] = x /\ \A u \in Schedulers \ {s} : op'[u] = op[u]
  BY VariableTypes
<1>2. jobs'[j] = r /\ \A k \in Jobs \ {j} : jobs'[k] = jobs[k]
  BY VariableTypes
<1>3. \A k \in Jobs \ {j} : Claimed(k)' <=> Claimed(k)
  BY <1>1 DEF Claimed
<1>4. ASSUME x.pc \in Executing PROVE (\A k \in Jobs : Held(k)') /\ LeavesNone
  <2>1. Claimed(j)'
    BY <1>1, <1>4 DEF Claimed
  <2>2. \A k \in Jobs : Held(k)'
    BY <1>2, <1>3, <1>4 DEF FocusInv, Held
  <2>3. LeavesNone
    BY <1>2, <1>3, <2>1 DEF LeavesNone, Left
  <2> QED  BY <2>2, <2>3
<1>5. ASSUME x.pc \notin Executing PROVE (\A k \in Jobs : Held(k)') /\ LeavesNone
  <2>1. Claimed(j)' <=> Claimed(j)
    BY <1>1, <1>5 DEF Claimed
  <2>2. \A k \in Jobs : Held(k)'
    BY <1>2, <1>3, <1>5, <2>1 DEF FocusInv, Held
  <2>3. LeavesNone
    BY <1>2, <1>3, <1>5, <2>1 DEF LeavesNone, Left
  <2> QED  BY <2>2, <2>3
<1>6. ASSUME NEW u \in Schedulers \ {s}, op[u].pc = "apply" PROVE Engaged(jobs'[op[u].job])
  <2>1. op[u].job \in Jobs /\ Engaged(jobs[op[u].job])
    BY <1>6, OpTypes DEF FocusInv, Stage, Bound, WithJob
  <2> QED  BY <1>2, <1>6, <2>1
<1> QED
  BY <1>4, <1>5, <1>6 DEF Yields

LEMMA InHandShrinks ==
  ASSUME TInv, JobsKeep, Continues, NEW t \in Tasks, InHand(t)'
  PROVE  InHand(t)
<1>1. ASSUME NEW j \in Jobs, jobs'[j].task = t, Engaged(jobs'[j]) PROVE InHand(t)
  <2>1. Engaged(jobs[j]) /\ jobs[j].task = t
    BY <1>1, EngagedCreated DEF Continues, JobsKeep
  <2> QED  BY <2>1 DEF InHand
<1>2. ASSUME NEW j \in Jobs, jobs'[j].task = t, jobs'[j].status = "accepted",
             CanGoOn(vault', t)
      PROVE  InHand(t)
  <2>1. CASE vault'[t].state # vault[t].state
    BY <2>1 DEF InHand, Continues
  <2>2. CASE Engaged(jobs[j])
    <3>1. jobs[j].task = t
      BY <1>2, <2>2, EngagedCreated DEF JobsKeep
    <3> QED  BY <2>2, <3>1 DEF InHand
  <2>3. CASE vault'[t].state = vault[t].state /\ jobs[j].status = "accepted"
    <3>1. jobs[j].task = t
      BY <1>2, <2>3, AcceptedCreated DEF JobsKeep
    <3>2. CanGoOn(vault, t)
      BY <1>2, <2>3 DEF CanGoOn
    <3> QED  BY <2>3, <3>1, <3>2 DEF InHand, Started
  <2> QED  BY <1>2, <2>1, <2>2, <2>3 DEF Continues
<1>3. (\E j \in Jobs : jobs'[j].task = t /\ Engaged(jobs'[j]))
      \/ (CanGoOn(vault', t) /\ \E j \in Jobs : jobs'[j].task = t /\ jobs'[j].status = "accepted")
  BY DEF InHand, Started
<1> QED
  BY <1>1, <1>2, <1>3

(* The tasks of other projects are left alone.                              *)
LEMMA InHandElsewhere ==
  ASSUME TInv, JobsKeep, NEW s \in Schedulers, Disturbs(s), NEW t \in Tasks, Home[t] # Serves[s],
         InHand(t)'
  PROVE  InHand(t)
<1>1. \A j \in Jobs : jobs'[j].task = t => jobs'[j] = jobs[j]
  BY DEF Disturbs
<1>2. CanGoOn(vault', t) => CanGoOn(vault, t)
  BY DEF Disturbs, CanGoOn
<1>3. (\E j \in Jobs : jobs'[j].task = t /\ Engaged(jobs'[j]))
      \/ (CanGoOn(vault', t) /\ \E j \in Jobs : jobs'[j].task = t /\ jobs'[j].status = "accepted")
  BY DEF InHand, Started
<1> QED
  BY <1>1, <1>2, <1>3 DEF InHand, Started

(* What a step of process s, which may be of another project, leaves to     *)
(* process u of what it has seen of its project.                            *)
LEMMA SeenElsewhere ==
  ASSUME TInv, JobsKeep, NEW s \in Schedulers, Disturbs(s), NEW u \in Schedulers,
         Continues \/ Serves[u] # Serves[s], NEW v
  PROVE  /\ \A j \in Jobs : Engaged(jobs'[j]) /\ Home[jobs'[j].task] = Serves[u] => Engaged(jobs[j])
         /\ \A t \in Tasks : Home[t] = Serves[u] =>
              /\ InHand(t)' => InHand(t)
              /\ vault'[t].state # vault[t].state => CanGoOn(vault, t)
              /\ (\E j \in Jobs : /\ jobs'[j].task = t
                                  /\ jobs'[j].status = "accepted" \/ Engaged(jobs'[j]))
                 => \E j \in Jobs : /\ jobs[j].task = t
                                    /\ jobs[j].status = "accepted" \/ Engaged(jobs[j])
<1>1. CASE Continues
  <2>1. \A j \in Jobs : jobs'[j].status = "accepted" \/ Engaged(jobs'[j]) =>
          jobs[j].status = "accepted" \/ Engaged(jobs[j])
    BY <1>1 DEF Continues
  <2>2. \A j \in Jobs : jobs[j].status = "accepted" \/ Engaged(jobs[j]) =>
          jobs'[j].task = jobs[j].task
    BY AcceptedCreated, EngagedCreated DEF JobsKeep
  <2>3. \A t \in Tasks : InHand(t)' => InHand(t)
    BY <1>1, InHandShrinks
  <2>4. \A t \in Tasks : vault'[t].state # vault[t].state => CanGoOn(vault, t)
    BY <1>1 DEF Continues
  <2>5. \A j \in Jobs : Engaged(jobs'[j]) => Engaged(jobs[j])
    BY <1>1 DEF Continues
  <2> QED  BY <2>1, <2>2, <2>3, <2>4, <2>5
<1>2. CASE Serves[u] # Serves[s]
  <2>1. \A j \in Jobs : Home[jobs'[j].task] = Serves[u] => jobs'[j] = jobs[j]
    BY <1>2 DEF Disturbs
  <2>2. \A t \in Tasks : Home[t] = Serves[u] =>
          (InHand(t)' => InHand(t)) /\ vault'[t].state = vault[t].state
    BY <1>2, InHandElsewhere DEF Disturbs
  <2> QED  BY <2>1, <2>2
<1> QED
  BY <1>1, <1>2

(* What is left in another project has been left before, too.               *)
LEMMA LeftElsewhere ==
  ASSUME TInv, JobsKeep, DaemonAlone, NEW s \in Schedulers, Disturbs(s), Yields(s),
         NEW u \in Schedulers \ {s}, \A w \in Schedulers \ {s} : op'[w] = op[w],
         NEW j \in Jobs, Left(j)', Home[jobs'[j].task] = Serves[u]
  PROVE  Left(j) /\ Home[jobs[j].task] = Serves[u]
<1>1. CASE Serves[u] # Serves[s]
  <2>1. jobs'[j] = jobs[j]
    BY <1>1 DEF Disturbs
  <2>2. ASSUME NEW w \in Schedulers, op[w].pc \in Executing, op[w].job = j PROVE FALSE
    <3>1. Home[jobs[j].task] = Serves[w]
      BY <2>2, BegunJob
    <3>2. op'[w] = op[w]
      BY <1>1, <2>1, <3>1
    <3> QED  BY <2>2, <3>2 DEF Left, Claimed, At
  <2> QED  BY <2>1, <2>2 DEF Left, Claimed, At
<1>2. CASE Serves[u] = Serves[s]
  <2>1. s \notin Daemons
    BY <1>2 DEF DaemonAlone
  <2>2. Left(j)
    BY <2>1 DEF Yields, LeavesNone
  <2>3. jobs[j].creation # "none"
    BY <2>2, EngagedCreated DEF Left, Engaged
  <2> QED  BY <2>2, <2>3 DEF JobsKeep
<1> QED
  BY <1>1, <1>2

LEMMA StageElsewhere ==
  ASSUME TInv, JobsKeep, DaemonAlone, NEW s \in Schedulers, Disturbs(s), Yields(s),
         \A w \in Schedulers \ {s} : op'[w] = op[w], NEW u \in Schedulers \ {s}, Stage(u),
         op[u].pc \in {"focus", "consider"} => Continues \/ Serves[u] # Serves[s]
  PROVE  Stage(u)'
<1>0. op'[u] = op[u] /\ op[u].todo \subseteq Jobs
  BY OpTypes
<1>1. op[u].pc \in {"loading", "recovering"} =>
        \A j \in op[u].todo : jobs[j].creation # "none" /\ Home[jobs[j].task] = Serves[u]
  BY <1>0, OpTypes, RecordTypes DEF Stage, Bound, JobBound
<1>2. op[u].pc \in {"loading", "recovering"} =>
        \A j \in op[u].todo : Home[jobs'[j].task] = Serves[u]
  BY <1>0, <1>1 DEF JobsKeep
<1>3. \A j \in Jobs : Left(j)' /\ Home[jobs'[j].task] = Serves[u] =>
        Left(j) /\ Home[jobs[j].task] = Serves[u]
  BY LeftElsewhere
<1>4. op[u].pc = "recovering" =>
        \A j \in Jobs : Left(j)' /\ Home[jobs'[j].task] = Serves[u] => j \in op[u].todo
  BY <1>3 DEF Stage
<1>5. op[u].pc \in {"focus", "consider", "apply", "commit", "run"} =>
        \A j \in Jobs : Left(j)' => Home[jobs'[j].task] # Serves[u]
  BY <1>3 DEF Stage
<1>6. ASSUME op[u].pc = "focus", NEW t \in Tasks, Home[t] = Serves[u], InHand(t)'
      PROVE  /\ \A w \in Tasks : Home[w] = Serves[u] /\ MayStart(op[u].view, w)' => w = t
             /\ CanGoOn(op[u].view, t) \/ op[u].view[t].state = vault'[t].state
  <2>1. InHand(t) /\ (vault'[t].state # vault[t].state => CanGoOn(vault, t))
    BY <1>6, SeenElsewhere
  <2>2. \A w \in Tasks : Home[w] = Serves[u] /\ MayStart(op[u].view, w)' => MayStart(op[u].view, w)
    BY <1>0, <1>6, SeenElsewhere DEF MayStart
  <2>3. op[u].view[t].state = vault[t].state /\ CanGoOn(vault, t) => CanGoOn(op[u].view, t)
    BY DEF CanGoOn
  <2> QED  BY <1>6, <2>1, <2>2, <2>3 DEF Stage
<1>7. op[u].pc = "consider" =>
        /\ \A j \in Jobs : Engaged(jobs'[j]) => Home[jobs'[j].task] # Serves[u]
        /\ \A t \in Tasks : Home[t] = Serves[u] /\ InHand(t)' => op[u].queue \subseteq {t}
  <2> SUFFICES ASSUME op[u].pc = "consider"
               PROVE  /\ \A j \in Jobs : Engaged(jobs'[j]) => Home[jobs'[j].task] # Serves[u]
                      /\ \A t \in Tasks : Home[t] = Serves[u] /\ InHand(t)' =>
                           op[u].queue \subseteq {t}
    OBVIOUS
  <2>1. ASSUME NEW j \in Jobs, Engaged(jobs'[j]), Home[jobs'[j].task] = Serves[u] PROVE FALSE
    <3>1. Engaged(jobs[j])
      BY <2>1, SeenElsewhere
    <3>2. Home[jobs[j].task] = Serves[u]
      BY <2>1, <3>1, EngagedCreated DEF JobsKeep
    <3> QED  BY <3>1, <3>2 DEF Stage
  <2>2. \A t \in Tasks : Home[t] = Serves[u] /\ InHand(t)' => InHand(t)
    BY SeenElsewhere
  <2> QED  BY <2>1, <2>2 DEF Stage
<1>8. ASSUME op[u].pc = "apply" PROVE Engaged(jobs'[op[u].job])
  <2>1. op[u].job \in Jobs /\ jobs[op[u].job].creation # "none"
        /\ Home[jobs[op[u].job].task] = Serves[u] /\ Engaged(jobs[op[u].job])
    BY <1>8, OpTypes DEF Stage, Bound, WithJob
  <2>2. CASE Serves[u] # Serves[s]
    <3>1. jobs'[op[u].job] = jobs[op[u].job]
      BY <2>1, <2>2 DEF Disturbs, JobsKeep
    <3> QED  BY <2>1, <3>1
  <2>3. CASE Serves[u] = Serves[s]
    BY <1>8, <2>3 DEF Yields, DaemonAlone
  <2> QED  BY <2>2, <2>3
<1>9. op[u].pc = "focus" =>
        \A t \in Tasks : Home[t] = Serves[u] /\ InHand(t)' =>
           /\ \A w \in Tasks : Home[w] = Serves[u] /\ MayStart(op[u].view, w)' => w = t
           /\ CanGoOn(op[u].view, t) \/ op[u].view[t].state = vault'[t].state
  BY <1>6
<1> QED
  BY <1>0, <1>2, <1>4, <1>5, <1>7, <1>8, <1>9 DEF Stage

(* A step of process s that goes on with what the project has in hand.      *)
LEMMA FocusMoves ==
  ASSUME TInv, FocusInv, JobsKeep, DaemonAlone, NEW s \in Schedulers, NEW x,
         op' = [op EXCEPT ![s] = x], Disturbs(s), Continues, Yields(s), Stage(s)'
  PROVE  FocusInv'
<1>1. \A u \in Schedulers \ {s} : op'[u] = op[u]
  BY VariableTypes
<1>2. \A j \in Jobs : Engaged(jobs'[j]) => Engaged(jobs[j]) /\ jobs'[j].task = jobs[j].task
  BY EngagedCreated DEF Continues, JobsKeep
<1>3. OneEngaged'
  BY <1>2 DEF FocusInv, OneEngaged
<1>4. OneInHand'
  <2> SUFFICES ASSUME NEW t \in Tasks, NEW u \in Tasks, InHand(t)', InHand(u)', Home[t] = Home[u]
               PROVE  t = u
    BY DEF OneInHand
  <2> QED  BY InHandShrinks DEF FocusInv, OneInHand
<1>5. ASSUME NEW j \in Jobs PROVE Fits(jobs'[j], vault')
  <2>1. CASE jobs'[j] # jobs[j]
    BY <2>1 DEF Disturbs
  <2>2. CASE jobs'[j] = jobs[j]
    <3>1. Fits(jobs[j], vault)
      BY DEF FocusInv
    <3>2. ASSUME Engaged(jobs[j]) PROVE vault'[jobs[j].task].state = vault[jobs[j].task].state
      <4>1. jobs[j].task \in Tasks
        BY <3>2, EngagedCreated
      <4>2. ASSUME NEW k \in Jobs, jobs[k].task = jobs[j].task, Engaged(jobs[k]) PROVE k = j
        BY <3>2, <4>2 DEF FocusInv, OneEngaged
      <4> QED  BY <2>2, <4>1, <4>2 DEF Continues
    <3> QED  BY <2>2, <3>1, <3>2 DEF Fits
  <2> QED  BY <2>1, <2>2
<1>6. \A u \in Schedulers : Stage(u)'
  BY <1>1, StageElsewhere DEF FocusInv
<1>7. \A j \in Jobs : Held(j)'
  BY DEF Yields
<1> QED
  BY <1>3, <1>4, <1>5, <1>6, <1>7 DEF FocusInv

LEMMA StageRests ==
  ASSUME NEW s \in Schedulers, op'[s].pc \in {"gone", "idle"} \cup Executing
  PROVE  Stage(s)'
  BY DEF Stage, Executing

(* A step that writes neither a job nor a card.                             *)
LEMMA FocusQuiet ==
  ASSUME TInv, FocusInv, DaemonAlone, NEW s \in Schedulers, NEW x,
         op' = [op EXCEPT ![s] = x], UNCHANGED <<vault, jobs>>, Yields(s), Stage(s)'
  PROVE  FocusInv'
<1>1. Disturbs(s) /\ Continues
  BY DEF Disturbs, Continues
<1>2. JobsKeep
  BY NothingKeeps
<1> QED
  BY <1>1, <1>2, FocusMoves

(* A step that writes the record of one job.                                *)
LEMMA FocusOwn ==
  ASSUME TInv, FocusInv, JobsKeep, DaemonAlone, NEW s \in Schedulers, NEW x,
         op' = [op EXCEPT ![s] = x], UNCHANGED vault,
         NEW j \in Jobs, jobs[j].creation # "none", Home[jobs[j].task] = Serves[s],
         NEW r, jobs' = [jobs EXCEPT ![j] = r], Fits(r, vault),
         Engaged(r) => Engaged(jobs[j]),
         r.status = "accepted" => jobs[j].status = "accepted" \/ Engaged(jobs[j]),
         Yields(s), Stage(s)'
  PROVE  FocusInv'
<1>1. jobs'[j] = r /\ \A k \in Jobs \ {j} : jobs'[k] = jobs[k]
  BY VariableTypes
<1>2. Disturbs(s)
  BY <1>1 DEF Disturbs, JobsKeep
<1>3. Continues
  BY <1>1 DEF Continues
<1> QED
  BY <1>2, <1>3, FocusMoves

LEMMA LoadFocus ==
  ASSUME TInv, FocusInv, DaemonAlone, NEW s \in Schedulers, LoadContext(s)
  PROVE  FocusInv'
<1> DEFINE todo == {j \in Jobs : jobs[j].creation = "prepared" /\ Home[jobs[j].task] = Serves[s]}
<1> DEFINE x == [op[s] EXCEPT !.pc = "loading", !.todo = todo,
                              !.past = IF s \in Daemons THEN @ ELSE Failed(Jobs)]
<1>1. x.pc = "loading" /\ x.todo = todo
  BY OpTypes DEF SchedulerState
<1>2. op' = [op EXCEPT ![s] = x] /\ UNCHANGED <<vault, jobs>> /\ op[s].pc = "idle"
  BY VariableTypes DEF LoadContext, At
<1> HIDE DEF x
<1>3. op'[s] = x
  BY <1>2, VariableTypes
<1>4. Stage(s)'
  BY <1>1, <1>2, <1>3 DEF Stage
<1>5. Yields(s)
  BY <1>1, <1>2, YieldsQuiet DEF Executing
<1> QED
  BY <1>2, <1>4, <1>5, FocusQuiet

LEMMA RecoverCreationFocus ==
  ASSUME TInv, LaneInv, FocusInv, DaemonAlone, NEW s \in Schedulers, NEW j \in Jobs,
         RecoverCreation(s, j)
  PROVE  FocusInv'
<1> DEFINE x == [op[s] EXCEPT !.todo = @ \ {j}]
<1> DEFINE r == RecreatedIfFree(j)
<1>1. op[s].pc = "loading" /\ j \in op[s].todo /\ jobs[j].creation # "none"
  BY OpTypes DEF RecoverCreation, At, Bound
<1>2. x.pc = "loading" /\ x.todo = op[s].todo \ {j}
  BY <1>1, OpTypes DEF SchedulerState
<1>3. op' = [op EXCEPT ![s] = x] /\ jobs' = [jobs EXCEPT ![j] = r] /\ UNCHANGED vault
  BY VariableTypes DEF RecoverCreation
<1>4. jobs[j].status = "absent" => Coming(jobs[j])
  BY <1>1 DEF LaneInv, Focused
<1>5. /\ r.task = jobs[j].task /\ r.edge = jobs[j].edge /\ r.acceptance = jobs[j].acceptance
      /\ \/ jobs[j].status # "absent" /\ r.status = jobs[j].status
         \/ Coming(jobs[j]) /\ r.status = "pending"
  BY <1>1, <1>4, RecreatedSucceeds, ComingRecreated DEF Succeeds
<1> HIDE DEF x, r
<1>6. JobsKeep /\ op'[s] = x
  BY <1>3, RecoverCreationTyped, VariableTypes
<1>7. Fits(jobs[j], vault) /\ JobBound(j)
  BY RecordTypes DEF FocusInv
<1>8. Engaged(r) <=> Engaged(jobs[j])
  BY <1>5 DEF Engaged, Live, Unsettled, Coming, Active
<1>9. r.status = "accepted" => jobs[j].status = "accepted"
  BY <1>5
<1>10. Fits(r, vault)
  BY <1>5, <1>7, <1>8 DEF Fits, JobBound, Coming
<1>11. \A k \in op[s].todo : k \in Jobs /\ jobs[k].creation # "none" /\ Home[jobs[k].task] = Serves[s]
  BY <1>1, OpTypes DEF FocusInv, Stage, Bound
<1>12. Stage(s)'
  BY <1>2, <1>6, <1>11 DEF Stage, JobsKeep
<1>13. Unsettled(r) => Unsettled(jobs[j]) /\ r.status = jobs[j].status
  BY <1>5, <1>7 DEF Unsettled, JobBound, Coming
<1>14. Yields(s)
  BY <1>1, <1>2, <1>3, <1>8, <1>13, YieldsOwn DEF Executing
<1> QED
  BY <1>1, <1>3, <1>6, <1>8, <1>9, <1>10, <1>11, <1>12, <1>14, FocusOwn

LEMMA ListAcceptancesFocus ==
  ASSUME TInv, FocusInv, DaemonAlone, NEW s \in Schedulers, ListAcceptances(s)
  PROVE  FocusInv'
<1> DEFINE todo == {j \in Listed(Serves[s]) : /\ jobs[j].acceptance # "none"
                                              /\ jobs[j].status # "accepted"}
<1> DEFINE x == [op[s] EXCEPT !.pc = "recovering", !.todo = todo]
<1>1. x.pc = "recovering" /\ x.todo = todo
  BY OpTypes DEF SchedulerState
<1>2. op' = [op EXCEPT ![s] = x] /\ UNCHANGED <<vault, jobs>> /\ op[s].pc = "loading"
  BY VariableTypes DEF ListAcceptances, At
<1>3. /\ \A j \in todo : Home[jobs[j].task] = Serves[s]
      /\ \A j \in Jobs : Unsettled(jobs[j]) /\ Home[jobs[j].task] = Serves[s] => j \in todo
  <2>1. \A j \in Jobs : jobs[j].acceptance # "none" => jobs[j].status # "absent"
    BY RecordTypes DEF JobBound
  <2> QED  BY <2>1 DEF Listed, Recorded, StoreOf, ProjectOf, Unsettled
<1> HIDE DEF x, todo
<1>4. op'[s] = x
  BY <1>2, VariableTypes
<1>5. Stage(s)'
  BY <1>1, <1>2, <1>3, <1>4 DEF Stage, Left
<1>6. Yields(s)
  BY <1>1, <1>2, YieldsQuiet DEF Executing
<1> QED
  BY <1>2, <1>5, <1>6, FocusQuiet

(* The delivery may have been settled since it was listed.                  *)
LEMMA RecoverAcceptanceFocus ==
  ASSUME TInv, WorkedOn, FocusInv, DaemonAlone, NEW s \in Schedulers, NEW j \in Jobs,
         RecoverAcceptance(s, j)
  PROVE  FocusInv'
<1> DEFINE x == [op[s] EXCEPT !.todo = @ \ {j}]
<1> DEFINE r == [jobs[j] EXCEPT !.acceptance = "committed", !.delivered = TRUE,
                                !.status = "accepted", !.recent = FALSE, !.settled = Stamp]
<1> DEFINE t == jobs[j].task
<1> DEFINE allowed == IF jobs[j].acceptance = "committed" THEN {jobs[j].edge.to}
                      ELSE {jobs[j].edge.from, jobs[j].edge.to}
<1>1. op[s].pc = "recovering" /\ j \in op[s].todo /\ jobs[j].acceptance # "none"
  BY OpTypes DEF RecoverAcceptance, At, Bound
<1>2. Home[t] = Serves[s] /\ Fits(jobs[j], vault)
  BY <1>1 DEF FocusInv, Stage
<1>3. t \in Tasks /\ jobs[j].creation # "none"
  BY <1>1, RecordTypes DEF JobBound
<1>4. op' = [op EXCEPT ![s] = x]
  BY VariableTypes DEF RecoverAcceptance
<1>5. x.pc = "recovering" /\ x.todo = op[s].todo \ {j}
  BY <1>1, OpTypes DEF SchedulerState
<1>6. r.status = "accepted" /\ r.acceptance = "committed" /\ r.task = t
  BY RecordTypes DEF JobRecord
<1>7. \/ /\ vault[t].state \in allowed
         /\ vault' = [vault EXCEPT ![t].state = jobs[j].edge.to] /\ jobs' = [jobs EXCEPT ![j] = r]
      \/ vault[t].state \notin allowed /\ UNCHANGED <<vault, jobs>>
  BY VariableTypes DEF RecoverAcceptance
<1> HIDE DEF x, r
<1>8. op'[s] = x
  BY <1>4, VariableTypes
<1>9. JobsKeep
  BY RecoverAcceptanceTyped
<1>10. ASSUME jobs'[j].status = "accepted", LeavesNone PROVE Stage(s)'
  <2>1. \A k \in op[s].todo : k \in Jobs /\ jobs[k].creation # "none" /\ Home[jobs[k].task] = Serves[s]
    BY <1>1, OpTypes, RecordTypes DEF FocusInv, Stage, Bound, JobBound
  <2>2. ASSUME NEW k \in Jobs, Left(k)', Home[jobs'[k].task] = Serves[s] PROVE k \in x.todo
    <3>1. Left(k) /\ k # j
      BY <1>10, <2>2 DEF LeavesNone, Left, Unsettled
    <3>2. Home[jobs[k].task] = Serves[s]
      BY <1>9, <2>2, <3>1, EngagedCreated DEF Left, Engaged, JobsKeep
    <3> QED  BY <1>1, <1>5, <3>1, <3>2 DEF FocusInv, Stage
  <2> QED  BY <1>5, <1>8, <1>9, <2>1, <2>2 DEF Stage, JobsKeep
<1>11. CASE UNCHANGED <<vault, jobs>> /\ vault[t].state \notin allowed
  <2>1. jobs[j].status = "accepted"
    BY <1>1, <1>2, <1>11 DEF Fits, Engaged, Unsettled
  <2>2. Yields(s) /\ LeavesNone
    BY <1>1, <1>4, <1>5, <1>11, YieldsQuiet DEF Executing
  <2> QED  BY <1>4, <1>10, <1>11, <2>1, <2>2, FocusQuiet
<1>12. CASE /\ vault[t].state \in allowed
            /\ vault' = [vault EXCEPT ![t].state = jobs[j].edge.to] /\ jobs' = [jobs EXCEPT ![j] = r]
  <2>1. jobs'[j] = r /\ \A k \in Jobs \ {j} : jobs'[k] = jobs[k]
    BY <1>12, VariableTypes
  <2>2. vault'[t].state = jobs[j].edge.to /\ \A u \in Tasks \ {t} : vault'[u].state = vault[u].state
    BY <1>3, <1>12, VariableTypes DEF Vaults
  <2>3. ~ Engaged(r) /\ Fits(r, vault')
    BY <1>6 DEF Engaged, Live, Coming, Active, Unsettled, Fits
  <2>4. Disturbs(s)
    BY <1>2, <1>6, <2>1, <2>2, <2>3 DEF Disturbs
  <2>5. vault'[t].state # vault[t].state =>
          Engaged(jobs[j]) /\ jobs[j].acceptance # "committed" /\ jobs[j].status # "accepted"
    BY <1>1, <1>2, <1>12, <2>2 DEF Fits, Engaged, Unsettled
  <2>6. vault'[t].state # vault[t].state => CanGoOn(vault, t)
    BY <1>2, <2>5, EngagedCanGoOn
  <2>7. jobs[j].status = "accepted" \/ Engaged(jobs[j])
    BY <1>1 DEF Engaged, Unsettled
  <2>8. jobs[j].status # "accepted" => jobs'[j] # jobs[j]
    BY <1>6, <2>1
  <2> HIDE DEF t
  <2>9. Continues
    BY <2>1, <2>2, <2>3, <2>5, <2>6, <2>7, <2>8 DEF Continues, t
  <2>10. \A u \in Schedulers \ {s} : op[u].pc = "apply" => op[u].job # j
    BY <1>1, OpTypes DEF Applying
  <2>11. ~ Unsettled(r)
    BY <1>6 DEF Unsettled
  <2>12. Yields(s) /\ LeavesNone
    BY <1>1, <1>4, <1>5, <1>12, <2>10, <2>11, YieldsOwn DEF Executing
  <2>13. Stage(s)'
    BY <1>6, <1>10, <2>1, <2>12
  <2> QED
    BY <1>4, <1>9, <2>4, <2>9, <2>12, <2>13, FocusMoves
<1> QED
  BY <1>7, <1>11, <1>12

LEMMA TakeLockFocus ==
  ASSUME TInv, FocusInv, DaemonAlone, NEW s \in Schedulers, TakeLock(s)
  PROVE  FocusInv'
<1> DEFINE x == [op[s] EXCEPT !.pc = "focus", !.view = vault]
<1>1. x.pc = "focus" /\ x.view = vault
  BY OpTypes DEF SchedulerState
<1>2. op' = [op EXCEPT ![s] = x] /\ UNCHANGED <<vault, jobs>>
      /\ op[s].pc = "recovering" /\ op[s].todo = {}
  BY VariableTypes DEF TakeLock, At
<1> HIDE DEF x
<1>3. op'[s] = x
  BY <1>2, VariableTypes
<1>4. Yields(s) /\ LeavesNone
  BY <1>1, <1>2, YieldsQuiet DEF Executing
<1>5. \A j \in Jobs : Left(j)' => Home[jobs'[j].task] # Serves[s]
  BY <1>2, <1>4 DEF FocusInv, Stage, LeavesNone
<1>6. \A u \in Tasks : MayStart(vault, u) => InHand(u)
  BY DEF MayStart, InHand, Started
<1>7. \A u \in Tasks : InHand(u)' <=> InHand(u)
  BY <1>2 DEF InHand, Started, CanGoOn
<1>8. \A u \in Tasks : MayStart(vault, u)' <=> MayStart(vault, u)
  BY <1>2 DEF MayStart
<1>9. \A t \in Tasks : Home[t] = Serves[s] /\ InHand(t)' =>
         /\ \A u \in Tasks : Home[u] = Serves[s] /\ MayStart(vault, u)' => u = t
         /\ vault[t].state = vault'[t].state
  BY <1>2, <1>6, <1>7, <1>8 DEF FocusInv, OneInHand
<1>10. Stage(s)'
  BY <1>1, <1>2, <1>3, <1>5, <1>9 DEF Stage
<1> QED
  BY <1>2, <1>4, <1>10, FocusQuiet

LEMMA ReleasedFocus ==
  ASSUME TInv, FocusInv, DaemonAlone, NEW s \in Schedulers, op[s].pc \in Locked,
         EndTick(s) \/ ErrorTick(s), UNCHANGED <<vault, jobs>>
  PROVE  FocusInv'
<1>0. op[s].pc \notin Executing
  BY DEF Locked, Executing
<1>1. CASE EndTick(s)
  <2>1. op' = [op EXCEPT ![s] = Idle(op[s].past)] /\ Idle(op[s].past).pc = "idle"
    BY <1>1, IdleTyped, IdleKeepsPast DEF EndTick
  <2>2. Stage(s)'
    BY <2>1, StageRests, VariableTypes
  <2>3. Yields(s)
    BY <1>0, <2>1, YieldsQuiet DEF Executing
  <2> QED  BY <2>1, <2>2, <2>3, FocusQuiet
<1>2. CASE ErrorTick(s)
  <2> DEFINE pc == IF s \in Daemons THEN "gone" ELSE "idle"
  <2> DEFINE x == [Idle(op[s].past) EXCEPT !.pc = pc]
  <2>0. pc \in {"gone", "idle"}
    OBVIOUS
  <2>1. op' = [op EXCEPT ![s] = x]
    BY <1>2 DEF ErrorTick
  <2> HIDE DEF pc
  <2>2. x.pc = pc
    BY <2>0, IdleAtTyped, IdleKeepsPast
  <2> HIDE DEF x
  <2>3. Stage(s)'
    BY <2>0, <2>1, <2>2, StageRests, VariableTypes
  <2>4. Yields(s)
    BY <1>0, <2>0, <2>1, <2>2, YieldsQuiet DEF Executing
  <2> QED  BY <2>1, <2>3, <2>4, FocusQuiet
<1> QED
  BY <1>1, <1>2

LEMMA LockedEndsFocus ==
  ASSUME TInv, FocusInv, DaemonAlone, NEW s \in Schedulers,
         LaneUnresolved(s) \/ LaneHeld(s) \/ NothingDue(s)
  PROVE  FocusInv'
<1>1. UNCHANGED <<vault, jobs>> /\ op[s].pc \in {"focus", "consider"}
  BY DEF LaneUnresolved, LaneHeld, NothingDue, At
<1>2. CASE EndTick(s) \/ ErrorTick(s)
  BY <1>1, <1>2, ReleasedFocus DEF Locked
<1>3. ASSUME NEW j \in Jobs, HandOut(s, j) PROVE FocusInv'
  <2> DEFINE x == [Idle(op[s].past) EXCEPT !.pc = "run", !.job = j]
  <2>1. x.pc = "run" /\ x.job = j
    BY IdleWithTyped, IdleKeepsPast
  <2>2. op' = [op EXCEPT ![s] = x]
    BY <1>3 DEF HandOut
  <2> HIDE DEF x
  <2>3. op'[s] = x
    BY <2>2, VariableTypes
  <2>4. Yields(s) /\ LeavesNone
    BY <1>1, <2>1, <2>2, YieldsQuiet DEF Executing
  <2>5. \A k \in Jobs : Left(k)' => Home[jobs'[k].task] # Serves[s]
    BY <1>1, <2>4 DEF FocusInv, Stage, LeavesNone
  <2>6. Stage(s)'
    BY <1>1, <2>1, <2>3, <2>5 DEF Stage
  <2> QED  BY <1>1, <2>2, <2>4, <2>6, FocusQuiet
<1> QED
  BY <1>2, <1>3, LaneJobsListed DEF LaneUnresolved, LaneHeld, NothingDue, RepairReady

(* A lane without jobs leaves the tasks that have been started, and there   *)
(* is one at most; it has been started in the snapshot, too, and it alone.  *)
LEMMA LaneOpenFocus ==
  ASSUME TInv, LaneInv, FocusInv, DaemonAlone, NEW s \in Schedulers, LaneOpen(s)
  PROVE  FocusInv'
<1> DEFINE p == Serves[s]
<1> DEFINE started == {t \in TasksOf(p) :
                          /\ CanGoOn(op[s].view, t)
                          /\ \E j \in Listed(p) : jobs[j].task = t /\ jobs[j].status = "accepted"}
<1> DEFINE q == LaneTasks(p, op[s].view)
<1> DEFINE x == [op[s] EXCEPT !.pc = "consider", !.queue = q]
<1>1. op[s].pc = "focus" /\ UNCHANGED <<vault, jobs>>
  BY DEF LaneOpen, At
<1>2. x.pc = "consider" /\ x.queue = q
  BY OpTypes DEF SchedulerState
<1>3. op' = [op EXCEPT ![s] = x]
  BY VariableTypes DEF LaneOpen
<1>4. q = IF started = {} THEN TasksOf(p) ELSE {First(started)}
  BY DEF LaneTasks
<1> HIDE DEF x, q
<1>5. op'[s] = x
  BY <1>3, VariableTypes
<1>6. LiveIn(p, jobs) = {}
  BY <1>1, <1>2, <1>5, LaneOpenLane DEF LaneInv, Focused
<1>7. ASSUME NEW j \in Jobs, Unsettled(jobs[j]), Home[jobs[j].task] = p PROVE FALSE
  <2>1. Claimed(j)
    BY <1>1, <1>7 DEF FocusInv, Stage, Left
  <2>2. jobs[j].status = "completion_submitted"
    BY <1>7, <2>1 DEF FocusInv, Held
  <2> QED  BY <1>6, <1>7, <2>2 DEF LiveIn, Live, Active
<1>8. \A j \in Jobs : Engaged(jobs[j]) => Home[jobs[j].task] # p
  BY <1>6, <1>7 DEF Engaged, LiveIn
<1>9. \A t \in started : t \in Tasks /\ Home[t] = p /\ MayStart(op[s].view, t)
  BY DEF TasksOf, Listed, Recorded, MayStart
<1>10. ASSUME NEW t \in Tasks, Home[t] = p, InHand(t) PROVE q \subseteq {t}
  <2>1. Started(t)
    BY <1>8, <1>10 DEF InHand
  <2>2. CanGoOn(op[s].view, t)
    <3>1. CanGoOn(op[s].view, t) \/ op[s].view[t].state = vault[t].state
      BY <1>1, <1>10 DEF FocusInv, Stage
    <3> QED  BY <2>1, <3>1 DEF Started, CanGoOn
  <2>3. \E j \in Listed(p) : jobs[j].task = t /\ jobs[j].status = "accepted"
    BY <1>10, <2>1 DEF Started, Listed, Recorded, StoreOf, ProjectOf
  <2>4. t \in started
    BY <1>10, <2>2, <2>3 DEF TasksOf
  <2> HIDE DEF started
  <2>5. started # {} /\ started \subseteq Tasks
    BY <1>9, <2>4
  <2>6. First(started) \in started
    BY <2>5, FirstIsOne
  <2>7. First(started) = t
    BY <1>1, <1>9, <1>10, <2>6 DEF FocusInv, Stage
  <2> QED  BY <1>4, <2>5, <2>7
<1>11. \A t \in Tasks : InHand(t)' <=> InHand(t)
  BY <1>1 DEF InHand, Started, CanGoOn
<1> HIDE DEF started
<1>12. Yields(s) /\ LeavesNone
  BY <1>1, <1>2, <1>3, YieldsQuiet DEF Executing
<1>13. \A j \in Jobs : Left(j)' => Home[jobs'[j].task] # p
  BY <1>1, <1>7, <1>12 DEF LeavesNone, Left
<1> HIDE DEF p
<1>14. Stage(s)'
  BY <1>1, <1>2, <1>5, <1>8, <1>10, <1>11, <1>13 DEF Stage, p
<1> QED
  BY <1>1, <1>3, <1>12, <1>14, FocusQuiet

LEMMA SkipFocus ==
  ASSUME TInv, FocusInv, DaemonAlone, NEW s \in Schedulers, Skip(s)
  PROVE  FocusInv'
<1> DEFINE x == [op[s] EXCEPT !.queue = @ \ {First(@)}]
<1>1. op[s].pc = "consider" /\ UNCHANGED <<vault, jobs>>
  BY DEF Skip, At
<1>2. x.pc = "consider" /\ x.view = op[s].view /\ x.queue \subseteq op[s].queue
  BY <1>1, OpTypes DEF SchedulerState
<1>3. op' = [op EXCEPT ![s] = x]
  BY VariableTypes DEF Skip, NextTask
<1> HIDE DEF x
<1>4. op'[s] = x
  BY <1>3, VariableTypes
<1>5. \A t \in Tasks : InHand(t)' <=> InHand(t)
  BY <1>1 DEF InHand, Started, CanGoOn
<1>6. Yields(s) /\ LeavesNone
  BY <1>1, <1>2, <1>3, YieldsQuiet DEF Executing
<1>7. Stage(s)
  BY DEF FocusInv
<1>8. Stage(s)'
  BY <1>1, <1>2, <1>4, <1>5, <1>6, <1>7 DEF Stage, LeavesNone
<1> QED
  BY <1>1, <1>3, <1>6, <1>8, FocusQuiet

(* A job is created for the task in hand, or there was none.                *)
LEMMA CreateFocus ==
  ASSUME TInv, LaneInv, FocusInv, DaemonAlone, NEW s \in Schedulers, NEW e \in Transitions,
         Create(s, e)
  PROVE  FocusInv'
<1> DEFINE t == First(op[s].queue)
<1> DEFINE j == Min(FreshJobs)
<1>1. op[s].pc = "consider" /\ op[s].pc \in Locked /\ e \in Candidate(s) /\ UNCHANGED vault
  BY DEF Create, At, Locked
<1>2. t \in Tasks /\ Home[t] = Serves[s] /\ t \in op[s].queue
  BY <1>1, CandidateOf
<1>3. j \in Jobs /\ jobs[j].creation = "none"
  BY FreshIsJob DEF Create
<1>4. CASE ErrorTick(s) /\ UNCHANGED jobs
  BY <1>1, <1>4, ReleasedFocus
<1>5. CASE /\ vault[t].state = e.from
           /\ jobs' = [jobs EXCEPT ![j].creation = "prepared", ![j].task = t,
                                   ![j].edge = e, ![j].revision = vault[t].revision]
           /\ op' = [op EXCEPT ![s].pc = "apply", ![s].job = j]
  <2> DEFINE x == [op[s] EXCEPT !.pc = "apply", !.job = j]
  <2>1. vault[t].revision \in 0..MaxRevision
    BY <1>2, VariableTypes DEF Vaults
  <2>2. op' = [op EXCEPT ![s] = x]
    BY <1>5, VariableTypes
  <2> HIDE DEF t, j
  <2>3. x.pc = "apply" /\ x.job = j
    BY <1>3, OpTypes DEF SchedulerState
  <2> HIDE DEF x
  <2>p. Prepares(j, t, e, vault[t].revision)
    BY <1>5 DEF Prepares
  <2>a. JobsKeep /\ jobs'[j].creation = "prepared" /\ jobs'[j].task = t
        /\ jobs'[j].status = "absent" /\ jobs'[j].acceptance = "none"
    BY <1>2, <1>3, <2>1, <2>p, FreshKeeps
  <2>b. jobs'[j].edge = e
    BY <1>2, <1>3, <2>1, <2>p, FreshKeeps
  <2>c. \A k \in Jobs \ {j} : jobs'[k] = jobs[k]
    BY <1>2, <1>3, <2>1, <2>p, FreshKeeps
  <2>4. jobs' = [jobs EXCEPT ![j] = jobs'[j]]
    BY <1>3, <2>a, <2>c, VariableTypes DEF JobsKeep
  <2>5. op'[s] = x /\ \A u \in Schedulers \ {s} : op'[u] = op[u]
    BY <2>2, VariableTypes
  <2>6. \A k \in Jobs : Engaged(jobs[k]) => Home[jobs[k].task] # Serves[s]
    BY <1>1 DEF FocusInv, Stage
  <2>7. Fits(jobs'[j], vault') /\ Engaged(jobs'[j]) /\ ~ Unsettled(jobs'[j])
    BY <1>1, <1>5, <2>a, <2>b, <2>c DEF Fits, Engaged, Live, Coming, Unsettled
  <2>8. Disturbs(s)
    BY <1>1, <1>2, <2>a, <2>b, <2>c, <2>7 DEF Disturbs
  <2>9. OneEngaged'
    <3> SUFFICES ASSUME NEW k \in Jobs, NEW i \in Jobs, Engaged(jobs'[k]), Engaged(jobs'[i]),
                        Home[jobs'[k].task] = Home[jobs'[i].task]
                 PROVE  k = i
      BY DEF OneEngaged
    <3> QED  BY <1>2, <2>a, <2>b, <2>c, <2>6 DEF FocusInv, OneEngaged
  <2>10. ASSUME NEW u \in Tasks, Home[u] = Serves[s], InHand(u)' PROVE u = t
    <3>1. CASE InHand(u)
      BY <1>1, <1>2, <2>10, <3>1 DEF FocusInv, Stage
    <3>2. CASE ~ InHand(u)
      <4>1. CanGoOn(vault', u) <=> CanGoOn(vault, u)
        BY <1>1
      <4>2. ASSUME u # t, NEW k \in Jobs, jobs'[k].task = u PROVE jobs'[k] = jobs[k]
        BY <2>a, <2>b, <2>c, <4>2
      <4>3. (\E k \in Jobs : jobs'[k].task = u /\ Engaged(jobs'[k]))
            \/ (CanGoOn(vault', u) /\ \E k \in Jobs : jobs'[k].task = u /\ jobs'[k].status = "accepted")
        BY <2>10 DEF InHand, Started
      <4> QED  BY <3>2, <4>1, <4>2, <4>3 DEF InHand, Started
    <3> QED  BY <3>1, <3>2
  <2>11. OneInHand'
    <3> SUFFICES ASSUME NEW u \in Tasks, NEW w \in Tasks, InHand(u)', InHand(w)', Home[u] = Home[w]
                 PROVE  u = w
      BY DEF OneInHand
    <3>1. CASE Home[u] = Serves[s]
      BY <2>10, <3>1
    <3>2. CASE Home[u] # Serves[s]
      BY <2>a, <2>b, <2>c, <2>8, <3>2, InHandElsewhere DEF FocusInv, OneInHand
    <3> QED  BY <3>1, <3>2
  <2>12. \A k \in Jobs : Fits(jobs'[k], vault')
    BY <1>1, <2>a, <2>b, <2>c, <2>7 DEF FocusInv
  <2>13. Yields(s) /\ LeavesNone
    <3> DEFINE r == jobs'[j]
    <3>1. jobs' = [jobs EXCEPT ![j] = r] /\ Engaged(r) /\ ~ Unsettled(r)
      BY <2>4, <2>7
    <3> HIDE DEF r
    <3> QED  BY <1>1, <1>3, <2>2, <2>3, <3>1, YieldsOwn DEF Executing
  <2>14. \A k \in Jobs : Unsettled(jobs'[k]) => Home[jobs'[k].task] # Serves[s]
    BY <2>c, <2>6, <2>7 DEF Engaged
  <2>15. Stage(s)'
    BY <2>3, <2>5, <2>7, <2>14 DEF Stage, Left
  <2>16. ASSUME NEW u \in Schedulers \ {s} PROVE Stage(u)'
    <3>1. op[u].pc \notin {"focus", "consider"}
      BY <1>1, LockedAlone DEF Locked
    <3> QED  BY <2>a, <2>5, <2>8, <2>13, <3>1, StageElsewhere DEF FocusInv
  <2> QED
    BY <2>9, <2>11, <2>12, <2>13, <2>15, <2>16 DEF FocusInv, Yields
<1> QED
  BY <1>4, <1>5 DEF Create

(* The job may have been created already, by a recovery.                    *)
LEMMA ApplyCreationFocus ==
  ASSUME TInv, FocusInv, DaemonAlone, NEW s \in Schedulers, ApplyCreation(s)
  PROVE  FocusInv'
<1> DEFINE j == op[s].job
<1>1. op[s].pc = "apply" /\ JobsKeep /\ UNCHANGED vault
  BY ApplyCreationTyped DEF ApplyCreation, At
<1>2. j \in Jobs /\ jobs[j].creation # "none" /\ Home[jobs[j].task] = Serves[s]
      /\ jobs[j].acceptance = "none"
  BY <1>1, OpTypes DEF Bound, WithJob, Applying
<1>3. Engaged(jobs[j]) /\ Live(jobs[j]) /\ Fits(jobs[j], vault)
  BY <1>1, <1>2 DEF FocusInv, Stage, Engaged, Unsettled
<1>4. \A k \in Jobs : Left(k) => Home[jobs[k].task] # Serves[s]
  BY <1>1 DEF FocusInv, Stage
<1>5. CASE /\ jobs' = [jobs EXCEPT ![j].status = "pending"]
           /\ op' = [op EXCEPT ![s].pc = "commit"]
  <2> DEFINE r == [jobs[j] EXCEPT !.status = "pending"]
  <2> DEFINE x == [op[s] EXCEPT !.pc = "commit"]
  <2>1. jobs' = [jobs EXCEPT ![j] = r] /\ op' = [op EXCEPT ![s] = x]
    BY <1>5, VariableTypes
  <2>2. /\ r.status = "pending" /\ r.task = jobs[j].task /\ r.edge = jobs[j].edge
        /\ r.acceptance = "none"
    BY <1>2, RecordTypes DEF JobRecord
  <2>3. x.pc = "commit" /\ x.job = j
    BY OpTypes DEF SchedulerState
  <2> HIDE DEF r, x, j
  <2>4. jobs'[j] = r /\ op'[s] = x
    BY <1>2, <2>1, VariableTypes
  <2>5. Fits(r, vault) /\ Engaged(r) /\ ~ Unsettled(r)
    BY <1>2, <1>3, <2>2 DEF Fits, Engaged, Live, Active, Unsettled
  <2>6. Yields(s) /\ LeavesNone
    BY <1>1, <1>2, <2>1, <2>3, <2>5, YieldsOwn DEF Executing
  <2>7. ASSUME NEW k \in Jobs, Left(k)' PROVE Home[jobs'[k].task] # Serves[s]
    BY <1>1, <1>4, <2>6, <2>7, EngagedCreated DEF LeavesNone, Left, Engaged, JobsKeep
  <2>8. Stage(s)'
    BY <2>3, <2>4, <2>7 DEF Stage
  <2>9. r.status # "accepted"
    BY <2>2
  <2> QED
    BY <1>1, <1>2, <1>3, <2>1, <2>5, <2>6, <2>8, <2>9, FocusOwn
<1>6. CASE /\ ActiveJobs(OfTransition(Recorded, jobs[j].task, jobs[j].edge)) # {}
           /\ jobs' = [jobs EXCEPT ![j].creation = "failed"] /\ ErrorTick(s)
  <2> DEFINE r == [jobs[j] EXCEPT !.creation = "failed"]
  <2> DEFINE pc == IF s \in Daemons THEN "gone" ELSE "idle"
  <2> DEFINE x == [Idle(op[s].past) EXCEPT !.pc = pc]
  <2>0. pc \in {"gone", "idle"}
    OBVIOUS
  <2>1. PICK k \in Jobs : jobs[k].status \in Active /\ jobs[k].task = jobs[j].task
    BY <1>6 DEF ActiveJobs, OfTransition, Recorded
  <2>2. k = j
    BY <1>2, <1>3, <2>1 DEF FocusInv, OneEngaged, Engaged, Live
  <2>3. jobs' = [jobs EXCEPT ![j] = r] /\ op' = [op EXCEPT ![s] = x]
    BY <1>6, VariableTypes DEF ErrorTick
  <2>4. /\ r.status = jobs[j].status /\ r.task = jobs[j].task /\ r.edge = jobs[j].edge
        /\ r.acceptance = "none" /\ r.status \in Active
    BY <1>2, <2>1, <2>2, RecordTypes DEF JobRecord
  <2> HIDE DEF pc
  <2>5. x.pc = pc
    BY <2>0, IdleAtTyped, IdleKeepsPast
  <2> HIDE DEF r, x, j
  <2>6. Fits(r, vault) /\ Engaged(r) /\ ~ Unsettled(r) /\ r.status # "accepted"
    BY <1>2, <1>3, <2>4 DEF Fits, Engaged, Live, Active, Unsettled
  <2>7. Yields(s)
    BY <1>1, <1>2, <2>0, <2>3, <2>5, <2>6, YieldsOwn DEF Executing
  <2>8. Stage(s)'
    BY <2>0, <2>3, <2>5, StageRests, VariableTypes
  <2> QED
    BY <1>1, <1>2, <1>3, <2>3, <2>6, <2>7, <2>8, FocusOwn
<1> QED
  BY <1>5, <1>6 DEF ApplyCreation

LEMMA CommitCreationFocus ==
  ASSUME TInv, FocusInv, DaemonAlone, NEW s \in Schedulers, CommitCreation(s)
  PROVE  FocusInv'
<1> DEFINE j == op[s].job
<1> DEFINE r == [jobs[j] EXCEPT !.creation = "committed"]
<1> DEFINE x == [Idle(op[s].past) EXCEPT !.pc = "run", !.job = j]
<1>1. op[s].pc = "commit" /\ JobsKeep /\ UNCHANGED vault
  BY CommitCreationTyped DEF CommitCreation, At
<1>2. j \in Jobs /\ jobs[j].creation # "none" /\ Home[jobs[j].task] = Serves[s]
      /\ jobs[j].status # "absent"
  BY <1>1, OpTypes DEF Bound, WithJob
<1>3. Fits(jobs[j], vault) /\ \A k \in Jobs : Left(k) => Home[jobs[k].task] # Serves[s]
  BY <1>1, <1>2 DEF FocusInv, Stage
<1>4. jobs' = [jobs EXCEPT ![j] = r] /\ op' = [op EXCEPT ![s] = x]
  BY VariableTypes DEF CommitCreation, HandOut
<1>5. /\ r.status = jobs[j].status /\ r.task = jobs[j].task /\ r.edge = jobs[j].edge
      /\ r.acceptance = jobs[j].acceptance
  BY <1>2, RecordTypes DEF JobRecord
<1>6. x.pc = "run" /\ x.job = j
  BY <1>2, IdleWithTyped, IdleKeepsPast
<1> HIDE DEF j, r, x
<1>7. jobs'[j] = r /\ op'[s] = x
  BY <1>2, <1>4, VariableTypes
<1>8. (Engaged(r) <=> Engaged(jobs[j])) /\ (Unsettled(r) <=> Unsettled(jobs[j]))
  BY <1>2, <1>5 DEF Engaged, Live, Coming, Unsettled
<1>9. Fits(r, vault)
  BY <1>3, <1>5, <1>8 DEF Fits
<1>10. Yields(s) /\ LeavesNone
  <2>1. op[s].pc \notin Executing /\ x.pc \notin Executing
    BY <1>1, <1>6 DEF Executing
  <2>2. Unsettled(r) => Unsettled(jobs[j]) /\ r.status = jobs[j].status
    BY <1>5, <1>8
  <2>3. Engaged(jobs[j]) => Engaged(r)
    BY <1>8
  <2>4. j \in Jobs
    BY <1>2
  <2> QED
    BY ONLY TInv, FocusInv, s \in Schedulers, <1>4, <2>1, <2>2, <2>3, <2>4, YieldsOwn
<1>11. ASSUME NEW k \in Jobs, Left(k)' PROVE Home[jobs'[k].task] # Serves[s]
  BY <1>1, <1>3, <1>10, <1>11, EngagedCreated DEF LeavesNone, Left, Engaged, JobsKeep
<1>12. Stage(s)'
  BY <1>6, <1>7, <1>11 DEF Stage
<1> QED
  BY <1>1, <1>2, <1>4, <1>5, <1>8, <1>9, <1>10, <1>12, FocusOwn

(* A step of the run of a job.                                              *)
LEMMA RunStepFocus ==
  ASSUME TInv, FocusInv, JobsKeep, DaemonAlone, NEW s \in Schedulers, op[s].pc \in Running,
         NEW x, op' = [op EXCEPT ![s] = x], x.pc \in Executing, x.job = op[s].job,
         UNCHANGED vault,
         NEW r, jobs' = [jobs EXCEPT ![op[s].job] = r], Fits(r, vault),
         Engaged(r) => Engaged(jobs[op[s].job]),
         r.status = "accepted" => Engaged(jobs[op[s].job]),
         Unsettled(r) => r.status = "completion_submitted"
  PROVE  FocusInv'
<1>1. op[s].job \in Jobs /\ jobs[op[s].job].creation # "none"
      /\ Home[jobs[op[s].job].task] = Serves[s]
  BY OwnRecord
<1>2. op'[s] = x
  BY VariableTypes
<1>3. Stage(s)'
  BY <1>2, StageRests
<1>4. \A u \in Schedulers \ {s} : op[u].pc = "apply" => op[u].job # op[s].job
  BY RunApart
<1>5. Yields(s)
  BY <1>1, <1>2, <1>4, YieldsOwn
<1> QED
  BY <1>1, <1>3, <1>5, FocusOwn

LEMMA WorkingOn ==
  ASSUME TInv, NEW s \in Schedulers, Writes(s)
  PROVE  \E x : op' = [op EXCEPT ![s] = x] /\ x.pc \in Executing /\ x.job = op[s].job
<1> DEFINE x == op'[s]
<1>1. op' = [op EXCEPT ![s] = x] /\ x.pc \in Executing /\ x.job = op[s].job
  BY WritesOwn, VariableTypes DEF Executing
<1> QED
  BY <1>1

(* An executor on its way to a worker.                                      *)
LEMMA BegunFocus ==
  ASSUME TInv, FocusInv, JobsKeep, DaemonAlone, NEW s \in Schedulers, RunsCalm(Serves[s])',
         LoadJob(s) \/ Permit(s) \/ Admit(s) \/ Repair(s)
  PROVE  FocusInv'
<1> DEFINE j == op[s].job
<1> DEFINE r == jobs'[j]
<1>1. op[s].pc \in Running /\ UNCHANGED vault
  BY DEF LoadJob, Permit, Admit, Repair, At, Goes, Running
<1>2. PICK pc \in Begun : op' = [op EXCEPT ![s].pc = pc]
  BY DEF LoadJob, Permit, Admit, Repair, Goes, Begun
<1> DEFINE x == [op[s] EXCEPT !.pc = pc]
<1>3. op' = [op EXCEPT ![s] = x] /\ x.pc = pc /\ x.job = j
  BY <1>2, OpTypes, VariableTypes DEF SchedulerState
<1>4. j \in Jobs /\ jobs[j].creation # "none"
  BY <1>1, OwnRecord
<1>5. /\ r.status = jobs[j].status /\ r.acceptance = jobs[j].acceptance
      /\ jobs' = [jobs EXCEPT ![j] = r]
  BY <1>4, VariableTypes DEF LoadJob, Permit, Admit, Repair, JobRecord
<1>6. r.task = jobs[j].task /\ r.edge = jobs[j].edge
  BY <1>4 DEF JobsKeep
<1> HIDE DEF x
<1>7. op'[s] = x
  BY <1>3, VariableTypes
<1>8. r.status \in Active /\ r.acceptance = "none"
  BY <1>2, <1>3, <1>7 DEF RunsCalm, OwnJob
<1>9. Fits(jobs[j], vault)
  BY <1>4 DEF FocusInv
<1> HIDE DEF j, r
<1>10. Engaged(jobs[j]) /\ ~ Unsettled(r) /\ r.status # "accepted"
  BY <1>5, <1>8 DEF Engaged, Live, Unsettled, Active
<1>11. Fits(r, vault)
  BY <1>5, <1>6, <1>8, <1>9, <1>10 DEF Fits, Active
<1>12. x.pc \in Executing
  BY <1>3 DEF Begun, Executing
<1> QED
  BY <1>1, <1>3, <1>5, <1>10, <1>11, <1>12, RunStepFocus DEF j

(* Its end before a worker, and the start of one.                           *)
LEMMA StartFocus ==
  ASSUME TInv, FocusInv, JobsKeep, DaemonAlone, NEW s \in Schedulers, RunsCalm(Serves[s]),
         FailBeforeRun(s) \/ StartWorker(s)
  PROVE  FocusInv'
<1> DEFINE j == op[s].job
<1> DEFINE r == [jobs[j] EXCEPT !.status = "running", !.attempts = @ + 1]
<1> DEFINE f == SettledAs(jobs[j], "failed", "retryable")
<1>1. op[s].pc \in Begun /\ op[s].pc \in Running /\ UNCHANGED vault
  BY DEF FailBeforeRun, StartWorker, Goes, At, Begun, Running
<1>2. j \in Jobs /\ jobs[j].creation # "none" /\ Home[jobs[j].task] = Serves[s]
  BY <1>1, OwnRecord
<1>3. jobs[j].status \in Active /\ jobs[j].acceptance = "none" /\ Fits(jobs[j], vault)
  BY <1>1, <1>2 DEF FocusInv, RunsCalm, OwnJob
<1>4. Engaged(jobs[j])
  BY <1>3 DEF Engaged, Live
<1>5. jobs' = [jobs EXCEPT ![j] = r] \/ jobs' = [jobs EXCEPT ![j] = f]
  BY VariableTypes DEF FailBeforeRun, StartWorker
<1>6. /\ r.status = "running" /\ r.task = jobs[j].task /\ r.edge = jobs[j].edge
      /\ r.acceptance = "none"
  BY <1>2, <1>3, RecordTypes DEF JobRecord
<1>7. f.status = "failed" /\ f.acceptance = "none"
  BY <1>2, <1>3, SettledSucceeds
<1> HIDE DEF r, f
<1>8. Fits(r, vault) /\ r.status # "accepted" /\ ~ Unsettled(r)
  BY <1>3, <1>4, <1>6 DEF Fits, Unsettled
<1>9. Fits(f, vault) /\ ~ Engaged(f) /\ f.status # "accepted" /\ ~ Unsettled(f)
  BY <1>7 DEF Fits, Engaged, Live, Coming, Active, Unsettled
<1>10. PICK x : op' = [op EXCEPT ![s] = x] /\ x.pc \in Executing /\ x.job = j
  BY WorkingOn DEF Writes
<1>11. CASE jobs' = [jobs EXCEPT ![j] = r]
  BY <1>1, <1>4, <1>8, <1>10, <1>11, RunStepFocus
<1>12. CASE jobs' = [jobs EXCEPT ![j] = f]
  BY <1>1, <1>9, <1>10, <1>12, RunStepFocus
<1> QED
  BY <1>5, <1>11, <1>12

(* The end of an attempt, or the beginning of a delivery.                   *)
LEMMA RunningFocus ==
  ASSUME TInv, FocusInv, JobsKeep, DaemonAlone, NEW s \in Schedulers, op[s].pc = "working",
         jobs[op[s].job].status \in {"running", "completion_rejected"}, op' = op, UNCHANGED vault,
         NEW r, jobs' = [jobs EXCEPT ![op[s].job] = r],
         r.task = jobs[op[s].job].task, r.edge = jobs[op[s].job].edge,
         \/ r.status \in {"failed", "completion_rejected"} /\ r.acceptance = jobs[op[s].job].acceptance
         \/ r.status = "completion_submitted" /\ r.acceptance = "prepared"
  PROVE  FocusInv'
<1>1. op[s].job \in Jobs /\ op[s].pc \in Running
  BY OwnRecord DEF Running
<1>2. Fits(jobs[op[s].job], vault) /\ Engaged(jobs[op[s].job])
      /\ jobs[op[s].job].acceptance = "none"
  BY <1>1 DEF FocusInv, Engaged, Live, Active, Fits
<1>3. Fits(r, vault)
  BY <1>2 DEF Fits
<1>4. r.status # "accepted" /\ (Unsettled(r) => r.status = "completion_submitted")
  BY <1>2 DEF Unsettled
<1>5. op' = [op EXCEPT ![s] = op[s]] /\ op[s].pc \in Executing
  BY VariableTypes DEF Executing
<1> QED
  BY <1>1, <1>2, <1>3, <1>4, <1>5, RunStepFocus

LEMMA DeliverFocus ==
  ASSUME TInv, WorkedOn, FocusInv, DaemonAlone, NEW s \in Schedulers, Deliver(s)
  PROVE  FocusInv'
<1> DEFINE j == op[s].job
<1> DEFINE t == jobs[j].task
<1> DEFINE r == [jobs[j] EXCEPT !.acceptance = "committed", !.delivered = TRUE]
<1>1. op[s].pc = "working" /\ op' = op /\ jobs[j].acceptance = "prepared" /\ JobsKeep
  BY DeliverTyped DEF Deliver, At, OwnJob
<1>2. j \in Jobs /\ t \in Tasks /\ Home[t] = Serves[s] /\ jobs[j].edge \in Transitions
  BY <1>1, OwnRecord DEF Running
<1>3. Fits(jobs[j], vault) /\ Held(j)
  BY <1>2 DEF FocusInv
<1>4. Engaged(jobs[j]) /\ Unsettled(jobs[j])
  BY <1>1, <1>3 DEF Fits, Engaged, Unsettled
<1>5. Claimed(j)
  BY <1>1 DEF Claimed, Executing
<1>6. jobs[j].status = "completion_submitted"
  BY <1>3, <1>4, <1>5 DEF Held
<1>7. CanGoOn(vault, t)
  BY <1>1, <1>2, <1>3, <1>4, EngagedCanGoOn
<1>8. jobs' = [jobs EXCEPT ![j] = r] /\ vault' = [vault EXCEPT ![t].state = jobs[j].edge.to]
  BY VariableTypes DEF Deliver, OwnJob
<1>9. /\ r.status = jobs[j].status /\ r.task = t /\ r.edge = jobs[j].edge
      /\ r.acceptance = "committed"
  BY <1>2, RecordTypes DEF JobRecord
<1>10. op' = [op EXCEPT ![s] = op[s]]
  BY <1>1, VariableTypes
<1>11. \A u \in Schedulers \ {s} : op[u].pc = "apply" => op[u].job # j
  BY <1>1, RunApart DEF Running
<1>12. Yields(s)
  <2> HIDE DEF r
  <2> QED  BY <1>1, <1>2, <1>6, <1>8, <1>9, <1>10, <1>11, YieldsOwn DEF Executing
<1> HIDE DEF r, j, t
<1>13. jobs'[j] = r /\ \A k \in Jobs \ {j} : jobs'[k] = jobs[k]
  BY <1>2, <1>8, VariableTypes
<1>14. vault'[t].state = jobs[j].edge.to /\ \A u \in Tasks \ {t} : vault'[u].state = vault[u].state
  BY <1>2, <1>8, VariableTypes DEF Vaults
<1>15. Fits(r, vault')
  BY <1>1, <1>3, <1>9, <1>14 DEF Fits
<1>16. Disturbs(s)
  BY <1>2, <1>9, <1>13, <1>14, <1>15 DEF Disturbs
<1>17. jobs'[j] # jobs[j] /\ jobs[j].task = t
  BY <1>1, <1>9, <1>13 DEF t
<1>18. Continues
  BY <1>2, <1>4, <1>7, <1>9, <1>13, <1>14, <1>17 DEF Continues
<1>19. Stage(s)'
  BY <1>1, StageRests DEF Executing
<1> QED
  BY <1>1, <1>10, <1>12, <1>16, <1>18, <1>19, FocusMoves

LEMMA RunFocus ==
  ASSUME TInv, WorkedOn, FocusInv, DaemonAlone, NEW s \in Schedulers, Calm(Serves[s]),
         Calm(Serves[s])', RunJob(s)
  PROVE  FocusInv'
<1>0. JobsKeep
  BY RunTyped
<1>1. CASE RunReturns(s)
  <2>1. Idle(op[s].past).pc = "idle"
    BY IdleTyped, IdleKeepsPast
  <2>2. op' = [op EXCEPT ![s] = Idle(op[s].past)] /\ UNCHANGED <<vault, jobs>>
    BY <1>1 DEF RunReturns
  <2>3. Stage(s)'
    BY <2>1, <2>2, StageRests, VariableTypes
  <2>4. ASSUME op[s].pc \in Executing, Unsettled(jobs[op[s].job]) PROVE FALSE
    <3>1. op[s].job \in Jobs /\ Claimed(op[s].job)
      BY <2>4, BegunJob DEF Claimed
    <3>2. jobs[op[s].job].status = "completion_submitted"
      BY <2>4, <3>1 DEF FocusInv, Held
    <3>3. op[s].pc = "working"
      BY <2>4 DEF Calm, RunsCalm, OwnJob, Unsettled, Begun, Executing
    <3> QED  BY <1>1, <3>2, <3>3 DEF RunReturns, At, OwnJob
  <2>5. Yields(s)
    BY <2>1, <2>2, <2>4, YieldsQuiet DEF Executing
  <2> QED  BY <2>2, <2>3, <2>5, FocusQuiet
<1>2. CASE LoadJob(s) \/ Permit(s) \/ Admit(s) \/ Repair(s)
  BY <1>0, <1>2, BegunFocus DEF Calm
<1>8. CASE FailBeforeRun(s) \/ StartWorker(s)
  BY <1>0, <1>8, StartFocus DEF Calm
<1>9. CASE RepairExhausted(s)
  <2> DEFINE r == SettledAs(jobs[op[s].job], "failed", "retryable")
  <2>1. op[s].pc = "working" /\ jobs[op[s].job].status = "completion_rejected"
        /\ op' = op /\ UNCHANGED vault
    BY <1>9 DEF RepairExhausted, At, OwnJob
  <2>2. jobs' = [jobs EXCEPT ![op[s].job] = r]
    BY <1>9, VariableTypes DEF RepairExhausted
  <2>3. /\ r.status = "failed" /\ r.acceptance = jobs[op[s].job].acceptance
        /\ r.task = jobs[op[s].job].task /\ r.edge = jobs[op[s].job].edge
    BY <2>1, OwnRecord, SettledSucceeds DEF Succeeds, Running
  <2> HIDE DEF r
  <2> QED  BY <1>0, <2>1, <2>2, <2>3, RunningFocus
<1>3. ASSUME NEW cause \in {"exit", "retryable", "permanent"}, Fail(s, cause) PROVE FocusInv'
  <2> DEFINE r == SettledAs(jobs[op[s].job], "failed", cause)
  <2>1. op[s].pc = "working" /\ jobs[op[s].job].status = "running" /\ op' = op /\ UNCHANGED vault
    BY <1>3 DEF Fail, At, OwnJob
  <2>2. jobs' = [jobs EXCEPT ![op[s].job] = r]
    BY <1>3, VariableTypes DEF Fail
  <2>3. /\ r.status = "failed" /\ r.acceptance = jobs[op[s].job].acceptance
        /\ r.task = jobs[op[s].job].task /\ r.edge = jobs[op[s].job].edge
    BY <2>1, OwnRecord, SettledSucceeds DEF Succeeds, Running
  <2> HIDE DEF r
  <2> QED  BY <1>0, <2>1, <2>2, <2>3, RunningFocus
<1>4. CASE Reject(s)
  <2> DEFINE r == [jobs[op[s].job] EXCEPT !.status = "completion_rejected"]
  <2>1. op[s].pc = "working" /\ jobs[op[s].job].status = "running" /\ op' = op /\ UNCHANGED vault
    BY <1>4 DEF Reject, At, OwnJob
  <2>2. jobs' = [jobs EXCEPT ![op[s].job] = r]
    BY <1>4, VariableTypes DEF Reject
  <2>3. /\ r.status = "completion_rejected" /\ r.acceptance = jobs[op[s].job].acceptance
        /\ r.task = jobs[op[s].job].task /\ r.edge = jobs[op[s].job].edge
    BY <2>1, OwnRecord, RecordTypes DEF JobRecord, Running
  <2> HIDE DEF r
  <2> QED  BY <1>0, <2>1, <2>2, <2>3, RunningFocus
<1>5. CASE PrepareAcceptance(s)
  <2> DEFINE r == [jobs[op[s].job] EXCEPT !.status = "completion_submitted",
                                          !.acceptance = "prepared"]
  <2>1. op[s].pc = "working" /\ jobs[op[s].job].status = "running" /\ op' = op /\ UNCHANGED vault
    BY <1>5 DEF PrepareAcceptance, At, OwnJob
  <2>2. jobs' = [jobs EXCEPT ![op[s].job] = r]
    BY <1>5, VariableTypes DEF PrepareAcceptance
  <2>3. /\ r.status = "completion_submitted" /\ r.acceptance = "prepared"
        /\ r.task = jobs[op[s].job].task /\ r.edge = jobs[op[s].job].edge
    BY <2>1, OwnRecord, RecordTypes DEF JobRecord, Running
  <2> HIDE DEF r
  <2> QED  BY <1>0, <2>1, <2>2, <2>3, RunningFocus
<1>6. CASE Deliver(s)
  BY <1>6, DeliverFocus
<1>7. CASE Accept(s)
  <2> DEFINE r == SettledAs(jobs[op[s].job], "accepted", "none")
  <2>1. op[s].pc = "working" /\ op' = op /\ UNCHANGED vault
        /\ jobs[op[s].job].status = "completion_submitted"
        /\ jobs[op[s].job].acceptance = "committed"
    BY <1>7 DEF Accept, At, OwnJob
  <2>2. jobs' = [jobs EXCEPT ![op[s].job] = r]
    BY <1>7, VariableTypes DEF Accept
  <2>3. r.status = "accepted" /\ r.acceptance = "committed"
    BY <2>1, OwnRecord, SettledSucceeds DEF Running
  <2> HIDE DEF r
  <2>4. Engaged(jobs[op[s].job])
    BY <2>1 DEF Engaged, Live, Active
  <2>5. Fits(r, vault) /\ ~ Unsettled(r)
    BY <2>3 DEF Fits, Engaged, Live, Coming, Active, Unsettled
  <2>6. op' = [op EXCEPT ![s] = op[s]] /\ op[s].pc \in Executing /\ op[s].pc \in Running
    BY <2>1, VariableTypes DEF Executing, Running
  <2> QED  BY <1>0, <2>1, <2>2, <2>4, <2>5, <2>6, RunStepFocus
<1> QED
  BY <1>1, <1>2, <1>3, <1>4, <1>5, <1>6, <1>7, <1>8, <1>9 DEF RunJob

(* A daemon leaves what it has claimed; it is alone.                        *)
LEMMA CrashFocus ==
  ASSUME TInv, FocusInv, DaemonAlone, NEW s \in Schedulers, Crash(s)
  PROVE  FocusInv'
<1> DEFINE x == [Idle(op[s].past) EXCEPT !.pc = "gone"]
<1>1. x.pc = "gone"
  BY IdleAtTyped, IdleKeepsPast
<1>2. op' = [op EXCEPT ![s] = x] /\ UNCHANGED <<vault, jobs>> /\ s \in Daemons
  BY DEF Crash
<1> HIDE DEF x
<1>3. op'[s] = x /\ \A u \in Schedulers \ {s} : op'[u] = op[u]
  BY <1>2, VariableTypes
<1>4. Stage(s)'
  BY <1>1, <1>3, StageRests
<1>5. \A j \in Jobs : Claimed(j)' => Claimed(j)
  BY <1>1, <1>3 DEF Claimed, Executing
<1>6. Yields(s)
  BY <1>2, <1>5 DEF Yields, FocusInv, Held
<1> QED
  BY <1>2, <1>4, <1>6, FocusQuiet

LEMMA RuntimeStartFocus ==
  ASSUME TInv, FocusInv, DaemonAlone, NEW s \in Schedulers, RuntimeStart(s)
  PROVE  FocusInv'
<1> DEFINE orphans == {j \in ActiveJobs(Jobs) : Home[jobs[j].task] = Serves[s]}
<1> DEFINE past == Failed(Jobs) \cup orphans
<1>1. past \in SUBSET Jobs
  BY DEF Failed, ActiveJobs
<1>2. \A j \in orphans : j \in Jobs /\ jobs[j].status \in Active /\ Home[jobs[j].task] = Serves[s]
  BY DEF ActiveJobs
<1>3. /\ jobs' = [j \in Jobs |-> IF j \in orphans THEN SettledAs(jobs[j], "failed", "reconciled")
                                 ELSE jobs[j]]
      /\ op' = [op EXCEPT ![s] = Idle(past)] /\ UNCHANGED vault /\ s \in Daemons
  BY DEF RuntimeStart
<1> HIDE DEF orphans, past
<1>4. op'[s].pc = "idle" /\ \A u \in Schedulers \ {s} : op'[u] = op[u]
  BY <1>1, <1>3, IdleTyped, VariableTypes
<1>5. Stage(s)'
  BY <1>4, StageRests
<1>6. JobsKeep
  BY RuntimeStartTyped
<1>7. \A j \in Jobs \ orphans : jobs'[j] = jobs[j]
  BY <1>3
<1>8. ASSUME NEW j \in orphans
      PROVE  /\ jobs'[j].status = "failed" /\ jobs'[j].acceptance = jobs[j].acceptance
             /\ jobs'[j].task = jobs[j].task /\ jobs'[j].edge = jobs[j].edge
  <2>1. j \in Jobs /\ jobs[j].creation # "none"
    BY <1>2, RecordTypes DEF JobBound, Active
  <2>2. jobs'[j] = SettledAs(jobs[j], "failed", "reconciled")
    BY <1>3, <2>1
  <2> QED  BY <2>1, <2>2, SettledSucceeds DEF Succeeds
<1>9. ASSUME NEW j \in orphans
      PROVE  Engaged(jobs[j]) /\ Fits(jobs'[j], vault') /\ jobs'[j].status # "accepted"
             /\ Home[jobs'[j].task] = Serves[s]
  <2>1. Engaged(jobs[j]) /\ Fits(jobs[j], vault)
    BY <1>2 DEF Engaged, Live, FocusInv
  <2> QED  BY <1>2, <1>3, <1>8, <2>1 DEF Fits
<1>10. Disturbs(s)
  BY <1>3, <1>7, <1>9 DEF Disturbs
<1>11. Continues
  BY <1>3, <1>7, <1>9 DEF Continues
<1>12. ASSUME NEW j \in Jobs, Claimed(j)' PROVE j \notin orphans /\ Claimed(j)
  <2>1. PICK w \in Schedulers \ {s} : op[w].pc \in Executing /\ op[w].job = j
    BY <1>4, <1>12 DEF Claimed, Executing
  <2>2. Home[jobs[j].task] = Serves[w] /\ Serves[w] # Serves[s]
    BY <1>3, <2>1, BegunJob DEF DaemonAlone
  <2> QED  BY <1>2, <2>1, <2>2 DEF Claimed, Executing
<1>13. \A j \in Jobs : Held(j)'
  BY <1>7, <1>12 DEF FocusInv, Held
<1>14. Yields(s)
  BY <1>3, <1>13 DEF Yields
<1> QED
  BY <1>3, <1>5, <1>6, <1>10, <1>11, <1>14, FocusMoves

LEMMA FocusStill ==
  ASSUME TInv, FocusInv, JobsKeep, UNCHANGED op,
         \A t \in Tasks : vault'[t].state = vault[t].state,
         \A j \in Jobs : /\ jobs'[j].status = jobs[j].status
                         /\ jobs'[j].creation = jobs[j].creation
                         /\ jobs'[j].acceptance = jobs[j].acceptance
                         /\ jobs'[j].task = jobs[j].task /\ jobs'[j].edge = jobs[j].edge
  PROVE  FocusInv'
<1>1. \A j \in Jobs : /\ Engaged(jobs'[j]) <=> Engaged(jobs[j])
                      /\ Left(j)' <=> Left(j)
                      /\ Unsettled(jobs'[j]) <=> Unsettled(jobs[j])
                      /\ Claimed(j)' <=> Claimed(j)
  BY DEF Engaged, Live, Coming, Unsettled, Left, Claimed, At
<1>2. \A t \in Tasks : InHand(t)' <=> InHand(t)
  <2> SUFFICES ASSUME NEW t \in Tasks PROVE InHand(t)' <=> InHand(t)
    OBVIOUS
  <2>1. CanGoOn(vault, t)' <=> CanGoOn(vault, t)
    BY DEF CanGoOn
  <2>2. Started(t)' <=> Started(t)
    BY <2>1 DEF Started
  <2> QED  BY <1>1, <2>2 DEF InHand
<1>3. OneEngaged' /\ OneInHand'
  BY <1>1, <1>2 DEF FocusInv, OneEngaged, OneInHand
<1>4. ASSUME NEW j \in Jobs PROVE Fits(jobs'[j], vault') /\ Held(j)'
  <2>1. Fits(jobs[j], vault) /\ Held(j)
    BY DEF FocusInv
  <2>2. Engaged(jobs[j]) => vault'[jobs[j].task].state = vault[jobs[j].task].state
    BY EngagedCreated
  <2> QED  BY <1>1, <2>1, <2>2 DEF Fits, Held
<1>5. ASSUME NEW s \in Schedulers PROVE Stage(s)'
  <2>1. Stage(s) /\ op[s].todo \subseteq Jobs /\ (op[s].pc \in WithJob => op[s].job \in Jobs)
    BY OpTypes DEF FocusInv, Bound
  <2>2. \A t \in Tasks : MayStart(op[s].view, t)' <=> MayStart(op[s].view, t)
    BY <1>1 DEF MayStart
  <2> QED  BY <1>1, <1>2, <2>1, <2>2 DEF Stage, WithJob
<1> QED
  BY <1>3, <1>4, <1>5 DEF FocusInv

LEMMA TickFocus ==
  ASSUME TInv, LaneInv, WorkedOn, FocusInv, DaemonAlone, NEW s \in Schedulers, Tick(s)
  PROVE  FocusInv'
  BY LoadFocus, RecoverCreationFocus, RecoverAcceptanceFocus, ListAcceptancesFocus,
     TakeLockFocus, LockedEndsFocus, LaneOpenFocus, SkipFocus, CreateFocus,
     ApplyCreationFocus, CommitCreationFocus DEF Tick

NoMoves == MaxEdits = 0 \/ MoveTargets = {}

LEMMA FocusStep ==
  ASSUME DaemonAlone, NoMoves
  PROVE  TInv /\ CalmInv /\ LaneInv /\ WorkedOn /\ FocusInv /\ [Next]_vars => FocusInv'
<1> SUFFICES ASSUME TInv, CalmInv, LaneInv, WorkedOn, FocusInv, [Next]_vars PROVE FocusInv'
  OBVIOUS
<1>0. JobsKeep
  BY StepTyped
<1>1. CASE UNCHANGED vars
  BY <1>0, <1>1, FocusStill DEF vars
<1>2. ASSUME NEW s \in Schedulers, Tick(s) \/ RunJob(s) \/ Crash(s) \/ RuntimeStart(s)
      PROVE  FocusInv'
  <2>1. Undisturbed(Serves[s]) /\ Calm(Serves[s])
    BY AloneCalm DEF DaemonAlone, Undisturbed, Schedulers
  <2>2. Calm(Serves[s])'
    BY <2>1, CalmStep
  <2> QED  BY <1>2, <2>1, <2>2, TickFocus, RunFocus, CrashFocus, RuntimeStartFocus
<1>3. ASSUME NEW j \in Jobs, BackoffEnds(j) PROVE FocusInv'
  <2> DEFINE r == [jobs[j] EXCEPT !.recent = FALSE]
  <2>1. /\ r.status = jobs[j].status /\ r.creation = jobs[j].creation
        /\ r.acceptance = jobs[j].acceptance /\ r.task = jobs[j].task /\ r.edge = jobs[j].edge
    BY RecordTypes DEF JobRecord
  <2>2. jobs' = [jobs EXCEPT ![j] = r] /\ UNCHANGED <<vault, op>>
    BY <1>3, VariableTypes DEF BackoffEnds
  <2> HIDE DEF r
  <2>3. jobs'[j] = r /\ \A k \in Jobs \ {j} : jobs'[k] = jobs[k]
    BY <2>2, VariableTypes
  <2> QED  BY <1>0, <2>1, <2>2, <2>3, FocusStill
<1>4. ASSUME NEW t \in Tasks, Rewrite(t) PROVE FocusInv'
  <2>1. \A u \in Tasks : vault'[u].state = vault[u].state
    BY <1>4, VariableTypes DEF Rewrite, Vaults
  <2>2. UNCHANGED <<jobs, op>>
    BY <1>4 DEF Rewrite
  <2> QED  BY <1>0, <2>1, <2>2, FocusStill
<1>5. ASSUME NEW t \in Tasks, NEW st \in MoveTargets, Move(t, st) PROVE FALSE
  <2>1. edits \in 0..MaxEdits /\ edits < MaxEdits
    BY <1>5, VariableTypes DEF Move
  <2>2. MaxEdits # 0
    BY <2>1
  <2> QED  BY <2>2 DEF NoMoves
<1> QED
  BY <1>1, <1>2, <1>3, <1>4, <1>5 DEF Next

LEMMA FocusInit == Init => FocusInv
<1> SUFFICES ASSUME Init PROVE FocusInv
  OBVIOUS
<1>1. \A j \in Jobs : /\ jobs[j].status = "absent" /\ ~ Engaged(jobs[j])
                    /\ ~ Unsettled(jobs[j])
  BY DEF Init, NewRecord, Engaged, Live, Coming, Active, Unsettled
<1>2. \A t \in Tasks : ~ InHand(t)
  BY <1>1 DEF InHand, Started
<1>3. \A s \in Schedulers : Stage(s)
  BY DEF Init, Idle, Stage
<1>4. \A j \in Jobs : Fits(jobs[j], vault) /\ Held(j)
  BY <1>1 DEF Fits, Held
<1> QED
  BY <1>1, <1>2, <1>3, <1>4 DEF FocusInv, OneEngaged, OneInHand

(* A project does not begin a second task before the one it has begun is at *)
(* its end, over failures, concurrent commands, crashes at any point,       *)
(* recovered creations and deliveries, and rewritten tasks (scheduler.py    *)
(* _serial_repo_lane_focus): where a project is served by a daemon alone or *)
(* by any number of commands, and users move no cards.                      *)
THEOREM OneTaskAtATime ==
  ASSUME DaemonAlone, NoMoves
  PROVE  Spec => []OneTaskInProgress
<1>1. TInv /\ FocusInv => OneTaskInProgress
  <2> SUFFICES ASSUME FocusInv, NEW p \in Projects
               PROVE  Cardinality({t \in Tasks : Home[t] = p /\ Started(t)}) <= 1
    BY DEF OneTaskInProgress
  <2> DEFINE begun == {t \in Tasks : Home[t] = p /\ Started(t)}
  <2>1. \A t, u \in begun : t = u
    BY DEF FocusInv, OneInHand, InHand
  <2> HIDE DEF begun
  <2>2. CASE begun = {}
    BY <2>2, FS_EmptySet DEF begun
  <2>3. ASSUME NEW t \in begun PROVE Cardinality(begun) <= 1
    <3>1. begun = {t}
      BY <2>1, <2>3
    <3>2. Cardinality(begun) = 1
      BY <3>1, FS_Singleton
    <3> QED  BY <3>2
  <2> QED  BY <2>2, <2>3 DEF begun
<1>3. TInv /\ CalmInv /\ LaneInv /\ [Next]_vars => LaneInv'
  BY LaneStep
<1>4. TInv /\ CalmInv /\ WorkedOn /\ LaneInv /\ FocusInv /\ [Next]_vars => FocusInv'
  BY FocusStep
<1> QED
  BY <1>1, <1>3, <1>4, LaneInit, FocusInit, WorkedOnInit, WorkedOnStep, CalmAlways, PTL DEF Spec
=============================================================================
