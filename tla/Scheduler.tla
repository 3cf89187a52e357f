----------------------------- MODULE Scheduler -----------------------------
(***************************************************************************)
(* runtime/scheduler.py over several tasks, transitions and projects: the   *)
(* serial repository lane, dependencies and their acceptance evidence, the  *)
(* retry rules, the journaled creation of a job, and the recovery of both   *)
(* kinds of journals at every context load (cli/main.py).                   *)
(*                                                                          *)
(* The life of a job between start and end is kept to what the scheduler    *)
(* reads of it; JobRuntime and AcceptanceTransaction have it in detail.     *)
(* The serial mode of the lane is modelled, which is the default.  Tasks    *)
(* have one type, and the order of the board stays.                         *)
(***************************************************************************)
EXTENDS Integers, FiniteSets, FiniteSetsExt

CONSTANTS
    Projects, Tasks, States,
    Home,         \* task -> its project
    Repository,   \* project -> its repository identity
    Board,        \* task -> its place on the board
    Depends,      \* task -> the tasks it depends on
    Transitions,  \* [from, to, worker, default]: worker tells whether it has one
    Outcome,      \* state -> declared terminal outcome
    FirstState,
    Daemons, Commands,  \* `jobs daemon` and `jobs run-one` processes
    Serves,       \* daemon or command -> its project
    Jobs,         \* 1..n, ids in the order they are reserved
    MaxTotal,     \* max_total_attempts_per_transition
    MaxFailed,    \* max_failed_attempts_per_transition, 0 when off
    LeaseBusy,    \* whether resources may be found busy, or a task unreadable
    MoveTargets,  \* states users move a card to
    MaxEdits, MaxCrashes, MaxRevision  \* bounds

Schedulers == Daemons \cup Commands

ASSUME BoardAssumption ==
    /\ Board \in [Tasks -> Nat]
    /\ \A t, u \in Tasks : Board[t] = Board[u] => t = u
ASSUME JobsAssumption == IsFiniteSet(Jobs) /\ Jobs = 1..Cardinality(Jobs)
ASSUME SchedulersAssumption == IsFiniteSet(Schedulers)
ASSUME WorkflowAssumption ==
    /\ Transitions \subseteq
         [from : States, to : States, worker : BOOLEAN, default : BOOLEAN]
    /\ Outcome \in [States -> {"none", "success", "failure", "cancelled"}]
    /\ FirstState \in States /\ MoveTargets \subseteq States
ASSUME WiringAssumption ==
    /\ Home \in [Tasks -> Projects] /\ Serves \in [Schedulers -> Projects]
    /\ Depends \in [Tasks -> SUBSET Tasks] /\ DOMAIN Repository = Projects
ASSUME BoundsAssumption ==
    /\ {MaxFailed, MaxEdits, MaxCrashes, MaxRevision} \subseteq Nat
    /\ MaxTotal \in Nat \ {0}
    /\ LeaseBusy \in BOOLEAN

VARIABLES
    vault,    \* task -> its state and semantic revision
    jobs,     \* job -> its record and its journals
    lock,     \* holder of app_state/jobs/.scheduler.lock
    op,       \* scheduler process -> where it is and what it has read
    edits, crashes

vars == <<vault, jobs, lock, op, edits, crashes>>

NoTask == "no task"
NoEdge == [from |-> "none", to |-> "none", worker |-> FALSE, default |-> FALSE]
NoJob == 0
Free == "free"

ASSUME LockAssumption == Free \notin Schedulers

Vaults == [Tasks -> [state : States, revision : 0..MaxRevision]]

(* creation is the status of the journal that creates the job, acceptance    *)
(* that of the latest journal that delivers it, delivered whether one of     *)
(* them was ever committed; admitted are its attempt records, attempts the   *)
(* starts counted with the status; settled orders the jobs by updated_at,    *)
(* recent tells that the backoff after a failure is not over.                *)
JobRecord ==
    [status     : {"absent", "pending", "running", "completion_submitted",
                   "completion_rejected", "accepted", "failed"},
     creation   : {"none", "prepared", "committed", "failed"},
     acceptance : {"none", "prepared", "committed"},
     delivered  : BOOLEAN,
     task       : Tasks \cup {NoTask},
     edge       : Transitions \cup {NoEdge},
     revision   : 0..MaxRevision,
     admitted   : 0..MaxTotal,
     attempts   : 0..MaxTotal,
     cause      : {"none", "exit", "retryable", "permanent", "reconciled"},
     recent     : BOOLEAN,
     settled    : Nat]

NewRecord ==
    [status |-> "absent", creation |-> "none", acceptance |-> "none",
     delivered |-> FALSE, task |-> NoTask, edge |-> NoEdge, revision |-> 0,
     admitted |-> 0, attempts |-> 0, cause |-> "none", recent |-> FALSE, settled |-> 0]

(* A scheduler process: the journals its context load has listed (todo), the *)
(* jobs that failed before its session (past), the project snapshot of its   *)
(* tick (view), the tasks still to consider (queue), and its job.            *)
Idle(past) == [pc |-> "idle", todo |-> {}, past |-> past, view |-> <<>>,
               queue |-> {}, job |-> NoJob]

SchedulerState ==
    [pc    : {"gone", "idle", "loading", "recovering", "focus", "consider", "apply",
              "commit", "run", "loaded", "permitted", "admitted", "working"},
     todo  : SUBSET Jobs,
     past  : SUBSET Jobs,
     view  : Vaults \cup {<<>>},
     queue : SUBSET Tasks,
     job   : Jobs \cup {NoJob}]

TypeOK ==
    /\ vault \in Vaults
    /\ jobs \in [Jobs -> JobRecord]
    /\ lock \in Schedulers \cup {Free}
    /\ op \in [Schedulers -> SchedulerState]
    /\ edits \in 0..MaxEdits /\ crashes \in 0..MaxCrashes

Init ==
    /\ vault = [t \in Tasks |-> [state |-> FirstState, revision |-> 0]]
    /\ jobs = [j \in Jobs |-> NewRecord]
    /\ lock = Free
    /\ op = [s \in Schedulers |-> Idle({})]
    /\ edits = 0 /\ crashes = 0

At(s, pc) == op[s].pc = pc

-----------------------------------------------------------------------------
(* What a scheduler reads.  FileExecutionJobStore.list ranges over one       *)
(* directory, app_state/jobs/<project>, and the journals are in the project, *)
(* so that nothing of another project is ever listed.                        *)
StoreOf(p) == p
Recorded == {j \in Jobs : jobs[j].status # "absent"}
ProjectOf(j) == Home[jobs[j].task]
Listed(p) == {j \in Recorded : StoreOf(ProjectOf(j)) = StoreOf(p)}

Active == {"pending", "running", "completion_submitted", "completion_rejected"}
ActiveJobs(js) == {j \in js : jobs[j].status \in Active}
OfTransition(js, t, e) == {j \in js : jobs[j].task = t /\ jobs[j].edge = e}
Failed(js) == {j \in js : jobs[j].status = "failed"}
RepairReady(js) == {j \in js : jobs[j].status = "completion_rejected"}

(* select_scheduler_transition: the transitions with a worker that leave a   *)
(* state, or their single default.                                           *)
Eligible(st) == {e \in Transitions : e.from = st /\ e.worker}
Selected(st) ==
    LET defaults == {e \in Eligible(st) : e.default}
    IN  IF Cardinality(Eligible(st)) = 1 THEN Eligible(st)
        ELSE IF Cardinality(defaults) = 1 THEN defaults ELSE {}

(* accepted_task_evidence: an accepted job whose delivery is committed, for  *)
(* the revision and the state the task has now.                              *)
Evidence(v, d) ==
    \E j \in Listed(Home[d]) :
        /\ jobs[j].task = d /\ jobs[j].status = "accepted"
        /\ jobs[j].acceptance = "committed"
        /\ jobs[j].revision = v[d].revision
        /\ jobs[j].edge.to = v[d].state

(* Mutant: the state of the card alone.                                      *)
DependenciesMetByBoard(v, t) == \A d \in Depends[t] : Outcome[v[d].state] = "success"

(* _dependency_error: each dependency has reached, by an acceptance, a state *)
(* that no transition leaves and that is declared a success.                 *)
DependenciesMet(v, t) ==
    \A d \in Depends[t] :
        /\ ~ \E e \in Transitions : e.from = v[d].state
        /\ Outcome[v[d].state] = "success"
        /\ Evidence(v, d)

(* count_consumed_attempts: a job without attempt records that has left      *)
(* pending is charged one attempt, whatever revision it was for.             *)
Charged(j, r) ==
    IF jobs[j].admitted > 0 THEN IF jobs[j].revision = r THEN 1..jobs[j].admitted ELSE {}
    ELSE IF jobs[j].status = "pending" THEN {} ELSE {1}

Consumed(p, t, e, r) ==
    Cardinality(UNION {{j} \X Charged(j, r) : j \in OfTransition(Listed(p), t, e)})

(* Mutant: one more.                                                         *)
AccountHasRoomLoose(p, t, e, r) == Consumed(p, t, e, r) <= MaxTotal

AccountHasRoom(p, t, e, r) == Consumed(p, t, e, r) < MaxTotal

(* _retry_blocked_by_cause: the latest failed job of this revision that had  *)
(* an attempt was classified as not retryable.                               *)
BlockedByCause(p, t, e, r) ==
    LET candidates == {j \in Failed(OfTransition(Listed(p), t, e)) :
                          jobs[j].admitted > 0 /\ jobs[j].revision = r}
    IN  \E j \in candidates :
          /\ \A k \in candidates : jobs[k].settled <= jobs[j].settled
          /\ jobs[j].cause = "permanent"

(* The failed-attempt limit and the backoff look at the failures of the      *)
(* runtime session; a worker's unexpected exit waits for no backoff.         *)
MayRetry(p, t, e, past) ==
    LET failures == Failed(OfTransition(Listed(p), t, e)) \ past
    IN  /\ MaxFailed > 0 => Cardinality(failures) < MaxFailed
        /\ \A j \in failures : jobs[j].recent => jobs[j].cause = "exit"

TasksOf(p) == {t \in Tasks : Home[t] = p}
First(ts) == CHOOSE t \in ts : \A u \in ts : Board[t] <= Board[u]
CanGoOn(v, t) == Eligible(v[t].state) # {}

(* Mutant: a job that has only been created does not hold the lane.          *)
LaneJobsStarted(p, v) == {j \in ActiveJobs(Listed(p)) : jobs[j].status # "pending"}

(* The jobs that hold the lane: the active ones of the first task in board   *)
(* order that has some, else those of other projects in the store that work  *)
(* on the same repository.                                                   *)
LaneJobs(p, v) ==
    LET own == {t \in TasksOf(p) : \E j \in ActiveJobs(Listed(p)) : jobs[j].task = t}
        external == {j \in ActiveJobs(Listed(p)) :
                        ProjectOf(j) # p /\ Repository[ProjectOf(j)] = Repository[p]}
    IN  IF own # {} THEN {j \in ActiveJobs(Listed(p)) : jobs[j].task = First(own)}
        ELSE IF \E t \in TasksOf(p) : CanGoOn(v, t) THEN external ELSE {}

(* Mutant: a task that has been started does not keep the lane.              *)
LaneTasksAny(p, v) == TasksOf(p)

(* A task with an accepted job that can go on keeps the lane.                *)
LaneTasks(p, v) ==
    LET started == {t \in TasksOf(p) :
                       /\ CanGoOn(v, t)
                       /\ \E j \in Listed(p) : jobs[j].task = t /\ jobs[j].status = "accepted"}
    IN  IF started = {} THEN TasksOf(p) ELSE {First(started)}

(* _unresolved_acceptance_journal.                                           *)
Unresolved(p) == \E j \in Listed(p) : jobs[j].acceptance = "prepared"

-----------------------------------------------------------------------------
(* The end of a tick.  On an error a daemon exits, and so does the command.  *)
(* Mutant: a tick that creates nothing keeps the lock.                       *)
EndTickLocked(s) == op' = [op EXCEPT ![s] = Idle(op[s].past)] /\ UNCHANGED lock

EndTick(s) ==
    /\ op' = [op EXCEPT ![s] = Idle(op[s].past)]
    /\ lock' = Free

ErrorTick(s) ==
    /\ op' = [op EXCEPT ![s] = [Idle(op[s].past) EXCEPT !.pc = IF s \in Daemons THEN "gone" ELSE "idle"]]
    /\ lock' = Free

HandOut(s, j) ==
    /\ op' = [op EXCEPT ![s] = [Idle(op[s].past) EXCEPT !.pc = "run", !.job = j]]
    /\ lock' = Free

(* Every tick begins with a context load, which lists the prepared creation  *)
(* journals, recovers them one after the other, and then does the same for   *)
(* the acceptances; the session of a command begins now.                     *)
LoadContext(s) ==
    /\ At(s, "idle")
    /\ op' = [op EXCEPT
         ![s].pc = "loading",
         ![s].todo = {j \in Jobs : jobs[j].creation = "prepared" /\ Home[jobs[j].task] = Serves[s]},
         ![s].past = IF s \in Daemons THEN @ ELSE Failed(Jobs)]
    /\ UNCHANGED <<vault, jobs, lock, edits, crashes>>

(* The record is created unless it exists or an active job of its transition *)
(* does; no condition of the admission is looked at again.                   *)
RecreatedIfFree(j) ==
    IF jobs[j].status # "absent" THEN [jobs[j] EXCEPT !.creation = "committed"]
    ELSE IF ActiveJobs(OfTransition(Recorded, jobs[j].task, jobs[j].edge)) # {} THEN jobs[j]
    ELSE [jobs[j] EXCEPT !.creation = "committed", !.status = "pending"]

RecoverCreation(s, j) ==
    /\ At(s, "loading") /\ j \in op[s].todo
    /\ jobs' = [jobs EXCEPT ![j] = RecreatedIfFree(j)]
    /\ op' = [op EXCEPT ![s].todo = @ \ {j}]
    /\ UNCHANGED <<vault, lock, edits, crashes>>

ListAcceptances(s) ==
    /\ At(s, "loading") /\ op[s].todo = {}
    /\ op' = [op EXCEPT
         ![s].pc = "recovering",
         ![s].todo = {j \in Listed(Serves[s]) : /\ jobs[j].acceptance # "none"
                                               /\ jobs[j].status # "accepted"}]
    /\ UNCHANGED <<vault, jobs, lock, edits, crashes>>

Stamp == 1 + Cardinality({j \in Jobs : jobs[j].settled > 0})

(* recover_completion_transactions: unless a user has moved the task, the    *)
(* delivery is completed and the job settled; a committed delivery is        *)
(* settled only while the task is where it was moved to.                     *)
RecoverAcceptance(s, j) ==
    /\ At(s, "recovering") /\ j \in op[s].todo
    /\ LET t == jobs[j].task
           e == jobs[j].edge
           allowed == IF jobs[j].acceptance = "committed" THEN {e.to} ELSE {e.from, e.to}
       IN  IF vault[t].state \in allowed
           THEN /\ vault' = [vault EXCEPT ![t].state = e.to]
                /\ jobs' = [jobs EXCEPT ![j].acceptance = "committed", ![j].delivered = TRUE,
                                        ![j].status = "accepted",
                                        ![j].recent = FALSE, ![j].settled = Stamp]
           ELSE UNCHANGED <<vault, jobs>>
    /\ op' = [op EXCEPT ![s].todo = @ \ {j}]
    /\ UNCHANGED <<lock, edits, crashes>>

(* schedule_one takes the lock and reads the vault once for the tick.        *)
TakeLock(s) ==
    /\ At(s, "recovering") /\ op[s].todo = {}
    /\ lock = Free
    /\ lock' = s
    /\ op' = [op EXCEPT ![s].pc = "focus", ![s].view = vault]
    /\ UNCHANGED <<vault, jobs, edits, crashes>>

(* _serial_repo_lane_focus.                                                  *)
LaneUnresolved(s) ==
    /\ At(s, "focus") /\ Unresolved(Serves[s])
    /\ ErrorTick(s)
    /\ UNCHANGED <<vault, jobs, edits, crashes>>

LaneHeld(s) ==
    /\ At(s, "focus") /\ ~ Unresolved(Serves[s])
    /\ LET held == LaneJobs(Serves[s], op[s].view)
       IN  /\ held # {}
           /\ IF RepairReady(held) = {} THEN EndTick(s)
              ELSE \E j \in RepairReady(held) : HandOut(s, j)
    /\ UNCHANGED <<vault, jobs, edits, crashes>>

LaneOpen(s) ==
    /\ At(s, "focus") /\ ~ Unresolved(Serves[s])
    /\ LaneJobs(Serves[s], op[s].view) = {}
    /\ op' = [op EXCEPT ![s].pc = "consider", ![s].queue = LaneTasks(Serves[s], op[s].view)]
    /\ UNCHANGED <<vault, jobs, lock, edits, crashes>>

(* The loop over the tasks: what it read of the vault is from the snapshot,  *)
(* what it reads of the jobs is read at each task.                           *)
Admissible(s, t, e) ==
    LET p == Serves[s]
        r == op[s].view[t].revision
    IN  /\ ActiveJobs(OfTransition(Listed(p), t, e)) = {}
        /\ ~ BlockedByCause(p, t, e, r)
        /\ AccountHasRoom(p, t, e, r)
        /\ MayRetry(p, t, e, op[s].past)

Candidate(s) ==
    LET t == First(op[s].queue)
    IN  IF op[s].queue # {} /\ DependenciesMet(op[s].view, t)
        THEN {e \in Selected(op[s].view[t].state) : Admissible(s, t, e)} ELSE {}

(* The job that is created next: ids are ULIDs, reserved in order.           *)
FreshJobs == {j \in Jobs : jobs[j].creation = "none"}

NextTask(s) == op' = [op EXCEPT ![s].queue = @ \ {First(@)}] /\ UNCHANGED lock

Skip(s) ==
    /\ At(s, "consider") /\ op[s].queue # {}
    /\ Candidate(s) = {} \/ LeaseBusy \/ FreshJobs = {}
    /\ NextTask(s)
    /\ UNCHANGED <<vault, jobs, edits, crashes>>

NothingDue(s) ==
    /\ At(s, "consider") /\ op[s].queue = {}
    /\ EndTick(s)
    /\ UNCHANGED <<vault, jobs, edits, crashes>>

(* TaskManager.create_execution_job reads the vault again, repeats the       *)
(* checks of state and dependencies and freezes the task's revision; then    *)
(* the creation journal is prepared.                                         *)
Create(s, e) ==
    /\ At(s, "consider") /\ e \in Candidate(s) /\ FreshJobs # {}
    /\ LET t == First(op[s].queue)
           j == Min(FreshJobs)
       IN  IF vault[t].state = e.from /\ DependenciesMet(vault, t)
           THEN /\ jobs' = [jobs EXCEPT ![j].creation = "prepared", ![j].task = t,
                                        ![j].edge = e, ![j].revision = vault[t].revision]
                /\ op' = [op EXCEPT ![s].pc = "apply", ![s].job = j]
                /\ UNCHANGED lock
           ELSE ErrorTick(s) /\ UNCHANGED jobs
    /\ UNCHANGED <<vault, edits, crashes>>

(* FileExecutionJobStore.create, as the effect of the creation journal.      *)
ApplyCreation(s) ==
    /\ At(s, "apply")
    /\ LET j == op[s].job
       IN  IF ActiveJobs(OfTransition(Recorded, jobs[j].task, jobs[j].edge)) = {}
           THEN /\ jobs' = [jobs EXCEPT ![j].status = "pending"]
                /\ op' = [op EXCEPT ![s].pc = "commit"]
                /\ UNCHANGED lock
           ELSE /\ jobs' = [jobs EXCEPT ![j].creation = "failed"]
                /\ ErrorTick(s)
    /\ UNCHANGED <<vault, edits, crashes>>

CommitCreation(s) ==
    /\ At(s, "commit")
    /\ jobs' = [jobs EXCEPT ![op[s].job].creation = "committed"]
    /\ HandOut(s, op[s].job)
    /\ UNCHANGED <<vault, edits, crashes>>

-----------------------------------------------------------------------------
(* run_job, as far as the scheduler sees it: an executor holds the execution *)
(* lock of its job from the read of its status on.  What it goes by it has   *)
(* read before: runtime start may have failed the job meanwhile.             *)
OwnJob(s) == jobs[op[s].job]
Executing == {"loaded", "permitted", "admitted", "working"}

Claimed(j) == \E s \in Schedulers : op[s].pc \in Executing /\ op[s].job = j

SettledAs(record, status, cause) ==
    [record EXCEPT !.status = status, !.cause = cause, !.recent = cause # "none",
                   !.settled = Stamp]

Goes(s, pc) == op' = [op EXCEPT ![s].pc = pc] /\ UNCHANGED <<vault, lock, edits, crashes>>

LoadJob(s) ==
    /\ At(s, "run") /\ ~ Claimed(op[s].job) /\ OwnJob(s).status \in Active
    /\ Goes(s, "loaded")
    /\ UNCHANGED jobs

HasRoom(s) ==
    AccountHasRoom(Serves[s], OwnJob(s).task, OwnJob(s).edge, OwnJob(s).revision)

Permit(s) ==
    /\ At(s, "loaded") /\ HasRoom(s)
    /\ Goes(s, "permitted")
    /\ UNCHANGED jobs

(* The account is spent, or the workspace or the prompt cannot be prepared.  *)
FailBeforeRun(s) ==
    /\ op[s].pc \in {"loaded", "permitted", "admitted"}
    /\ jobs' = [jobs EXCEPT ![op[s].job] = SettledAs(@, "failed", "retryable")]
    /\ Goes(s, "working")

(* The record has the number after the attempts that were counted.           *)
Admit(s) ==
    /\ At(s, "permitted")
    /\ jobs' = [jobs EXCEPT ![op[s].job].admitted = OwnJob(s).attempts + 1]
    /\ Goes(s, "admitted")

(* update_status looks at nothing.                                           *)
StartWorker(s) ==
    /\ At(s, "admitted")
    /\ jobs' = [jobs EXCEPT ![op[s].job].status = "running", ![op[s].job].attempts = @ + 1]
    /\ Goes(s, "working")

Fail(s, cause) ==
    /\ At(s, "working") /\ OwnJob(s).status = "running"
    /\ jobs' = [jobs EXCEPT ![op[s].job] = SettledAs(@, "failed", cause)]
    /\ UNCHANGED <<vault, lock, op, edits, crashes>>

Reject(s) ==
    /\ At(s, "working") /\ OwnJob(s).status = "running"
    /\ jobs' = [jobs EXCEPT ![op[s].job].status = "completion_rejected"]
    /\ UNCHANGED <<vault, lock, op, edits, crashes>>

PrepareAcceptance(s) ==
    /\ At(s, "working") /\ OwnJob(s).status = "running"
    /\ jobs' = [jobs EXCEPT ![op[s].job].status = "completion_submitted",
                            ![op[s].job].acceptance = "prepared"]
    /\ UNCHANGED <<vault, lock, op, edits, crashes>>

(* The move does not look at the state it moves from.                        *)
Deliver(s) ==
    /\ At(s, "working") /\ OwnJob(s).acceptance = "prepared"
    /\ vault' = [vault EXCEPT ![OwnJob(s).task].state = OwnJob(s).edge.to]
    /\ jobs' = [jobs EXCEPT ![op[s].job].acceptance = "committed",
                            ![op[s].job].delivered = TRUE]
    /\ UNCHANGED <<lock, op, edits, crashes>>

Accept(s) ==
    /\ At(s, "working") /\ OwnJob(s).status = "completion_submitted"
    /\ OwnJob(s).acceptance = "committed"
    /\ jobs' = [jobs EXCEPT ![op[s].job] = SettledAs(@, "accepted", "none")]
    /\ UNCHANGED <<vault, lock, op, edits, crashes>>

(* A rejected job is run again in place while its account has room.          *)
Repair(s) ==
    /\ At(s, "working") /\ OwnJob(s).status = "completion_rejected" /\ HasRoom(s)
    /\ Goes(s, "loaded")
    /\ UNCHANGED jobs

RepairExhausted(s) ==
    /\ At(s, "working") /\ OwnJob(s).status = "completion_rejected" /\ ~ HasRoom(s)
    /\ jobs' = [jobs EXCEPT ![op[s].job] = SettledAs(@, "failed", "retryable")]
    /\ UNCHANGED <<vault, lock, op, edits, crashes>>

(* Also a run that is refused: its job is over before it has begun, another  *)
(* process is at it, its task cannot be read or its resources are busy; the  *)
(* job stays as it is.                                                       *)
RunReturns(s) ==
    /\ \/ At(s, "working") /\ OwnJob(s).status \in {"accepted", "failed"}
       \/ At(s, "run") /\ OwnJob(s).status \in {"accepted", "failed"}
       \/ At(s, "run") /\ Claimed(op[s].job)
       \/ LeaseBusy /\ op[s].pc \in {"loaded", "permitted"}
    /\ op' = [op EXCEPT ![s] = Idle(op[s].past)]
    /\ UNCHANGED <<vault, jobs, lock, edits, crashes>>

-----------------------------------------------------------------------------
(* The daemon's process dies; its flock is released.                         *)
Crash(s) ==
    /\ s \in Daemons /\ ~ At(s, "gone")
    /\ crashes < MaxCrashes
    /\ crashes' = crashes + 1
    /\ op' = [op EXCEPT ![s] = [Idle(op[s].past) EXCEPT !.pc = "gone"]]
    /\ lock' = IF lock = s THEN Free ELSE lock
    /\ UNCHANGED <<vault, jobs, edits>>

(* runtime start fails the active jobs of the project and begins a session;  *)
(* it recovers no journal, which the daemon's first context load does.       *)
RuntimeStart(s) ==
    /\ s \in Daemons /\ At(s, "gone")
    /\ LET orphans == {j \in ActiveJobs(Jobs) : Home[jobs[j].task] = Serves[s]}
       IN  /\ jobs' = [j \in Jobs |-> IF j \in orphans THEN SettledAs(jobs[j], "failed", "reconciled")
                                      ELSE jobs[j]]
           /\ op' = [op EXCEPT ![s] = Idle(Failed(Jobs) \cup orphans)]
    /\ UNCHANGED <<vault, lock, edits, crashes>>

BackoffEnds(j) ==
    /\ jobs[j].recent
    /\ jobs' = [jobs EXCEPT ![j].recent = FALSE]
    /\ UNCHANGED <<vault, lock, op, edits, crashes>>

(* Users move cards and rewrite tasks.                                       *)
Move(t, st) ==
    /\ edits < MaxEdits /\ vault[t].state # st
    /\ vault' = [vault EXCEPT ![t].state = st]
    /\ edits' = edits + 1
    /\ UNCHANGED <<jobs, lock, op, crashes>>

Rewrite(t) ==
    /\ edits < MaxEdits /\ vault[t].revision < MaxRevision
    /\ vault' = [vault EXCEPT ![t].revision = @ + 1]
    /\ edits' = edits + 1
    /\ UNCHANGED <<jobs, lock, op, crashes>>

Tick(s) ==
    \/ LoadContext(s)
    \/ \E j \in Jobs : RecoverCreation(s, j) \/ RecoverAcceptance(s, j)
    \/ ListAcceptances(s)
    \/ TakeLock(s) \/ LaneUnresolved(s) \/ LaneHeld(s) \/ LaneOpen(s)
    \/ Skip(s) \/ NothingDue(s)
    \/ \E e \in Transitions : Create(s, e)
    \/ ApplyCreation(s) \/ CommitCreation(s)

RunJob(s) ==
    \/ LoadJob(s) \/ Permit(s) \/ FailBeforeRun(s) \/ Admit(s) \/ StartWorker(s)
    \/ Reject(s) \/ PrepareAcceptance(s) \/ Deliver(s) \/ Accept(s)
    \/ Repair(s) \/ RepairExhausted(s) \/ RunReturns(s)
    \/ \E cause \in {"exit", "retryable", "permanent"} : Fail(s, cause)

Next ==
    \/ \E s \in Schedulers : Tick(s) \/ RunJob(s) \/ Crash(s) \/ RuntimeStart(s)
    \/ \E j \in Jobs : BackoffEnds(j)
    \/ \E t \in Tasks : Rewrite(t) \/ \E st \in MoveTargets : Move(t, st)

Spec == Init /\ [][Next]_vars

(* Processes that are up go on, a run ends at the latest at its time-out,    *)
(* and time passes.                                                          *)
Fairness ==
    /\ \A s \in Schedulers : WF_vars(Tick(s)) /\ WF_vars(RunJob(s))
    /\ \A j \in Jobs : WF_vars(BackoffEnds(j))

FairSpec == Spec /\ Fairness

-----------------------------------------------------------------------------
(* One integration lane: at most one active job per repository, whoever      *)
(* schedules, whatever fails and whatever users move                         *)
(* (reliability-05-delivery-plan.md: "One integration lane and no            *)
(* overlapping acceptance").  It needs projects that share no repository,    *)
(* and no scheduler beside the daemon that runtime start begins.             *)
LaneExclusive ==
    \A p \in Projects :
        Cardinality({j \in ActiveJobs(Jobs) : Repository[ProjectOf(j)] = Repository[p]}) <= 1

Started(t) ==
    CanGoOn(vault, t) /\ \E j \in Jobs : jobs[j].task = t /\ jobs[j].status = "accepted"

(* A project does not begin a second task before the one it has begun is at  *)
(* its end (scheduler.py _serial_repo_lane_focus), also over failures,       *)
(* crashes and recovered deliveries, as long as users move no cards.         *)
OneTaskInProgress ==
    \A p \in Projects : Cardinality({t \in Tasks : Home[t] = p /\ Started(t)}) <= 1

Admitted(t, e, r) ==
    UNION {{j} \X (1..jobs[j].admitted) :
           j \in {k \in OfTransition(Recorded, t, e) : jobs[k].revision = r}}

(* The executors that runtime start can overtake: those beside a daemon.     *)
Overtaken(p) ==
    {s \in Schedulers : /\ Serves[s] = p
                        /\ \E d \in Daemons : d # s /\ Serves[d] = p}

(* No revision of a task gets more worker attempts for a transition than     *)
(* max_total_attempts_per_transition, over fresh jobs, repairs, sessions and *)
(* recovered creations (scheduler.py _total_attempt_exhausted); but an       *)
(* executor that has read the account may still admit one attempt after      *)
(* runtime start has failed its job and others have begun new ones.          *)
AttemptsBounded ==
    \A t \in Tasks, e \in Transitions, r \in 0..MaxRevision :
        Cardinality(Admitted(t, e, r)) <= MaxTotal + Cardinality(Overtaken(Home[t]))

(* A job exists only for a task whose dependencies have been delivered: a    *)
(* card that was only moved releases no dependent, neither in the tick nor   *)
(* between the snapshot and the creation (scheduler.py _dependency_error,    *)
(* task_manager.py create_execution_job).                                    *)
DependentsAfterDelivery ==
    \A j \in Recorded, d \in Tasks :
        d \in Depends[jobs[j].task] =>
            \E k \in Recorded : /\ jobs[k].task = d /\ jobs[k].delivered
                               /\ Outcome[jobs[k].edge.to] = "success"

Due(t, e) ==
    /\ e \in Selected(vault[t].state)
    /\ DependenciesMet(vault, t)
    /\ AccountHasRoom(Home[t], t, e, vault[t].revision)
    /\ ~ BlockedByCause(Home[t], t, e, vault[t].revision)
    /\ FreshJobs # {}

(* What keeps a due task waiting: the daemon is down, a started task keeps   *)
(* the lane and can itself not go on, or nobody runs the job in the lane.    *)
Withheld(t) ==
    \/ \E s \in Daemons : Serves[s] = Home[t] /\ At(s, "gone")
    \/ \E u \in Tasks \ {t} : Started(u) /\ \A e \in Transitions : ~ Due(u, e)
    \/ \E j \in Jobs : jobs[j].status = "pending" /\ \A s \in Schedulers : op[s].job # j

(* A task that is due does not stay so for ever: it is worked on until it is *)
(* accepted or its attempts are used up (scheduler.py schedule_one), however *)
(* its attempts fail.  It holds for failures of the session without a limit  *)
(* (MaxFailed = 0).                                                          *)
DueIsWorkedOn ==
    \A t \in Tasks, e \in Transitions : Due(t, e) ~> (~ Due(t, e) \/ Withheld(t))
=============================================================================
