----------------------------- MODULE JobRuntime -----------------------------
(***************************************************************************)
(* The job runtime: scheduler daemons and `jobs run` commands               *)
(* (JobExecutor), the completion endpoint each executor opens for its job   *)
(* and the context loads of every command (CompletionService), over the     *)
(* shared job store; with the scheduler's admission (runtime/scheduler.py), *)
(* the operator commands and the reconciliation of runtime start and stop   *)
(* (cli/main.py), and processes that die.                                   *)
(***************************************************************************)
EXTENDS JobExecutor, CompletionService

CONSTANTS
    OperatorSets,  \* statuses the operator commands may write: fail, cancel, restart
    WorkerMayQuit  \* whether a worker may end (killed, timed out) before its reply

ASSUME OperatorAssumption == OperatorSets \subseteq {"failed", "cancelled", "pending"}
ASSUME QuitAssumption == WorkerMayQuit \in BOOLEAN

VARIABLES
    host  \* thread -> the executor whose endpoint runs it

vars == <<jobs, exec, claim, alive, launches, task, journal, publisher, thread,
          loader, told, crashes, host>>

TypeOK ==
    /\ JobsTypeOK
    /\ ExecutorTypeOK
    /\ ServiceTypeOK
    /\ host \in [Threads -> Executors \cup {NoExecutor}]

Init ==
    /\ JobsInit
    /\ ExecutorInit
    /\ ServiceInit
    /\ host = [t \in Threads |-> NoExecutor]

-----------------------------------------------------------------------------
(* schedule_one, under the scheduler lock: an active job is handed out      *)
(* again only when it is ready for repair; otherwise a new job is created   *)
(* for the task, if it is still to be done and the account has room.  The   *)
(* creation checks for an active job again, under the job store's lock.     *)
NoSchedulerDeciding == \A d \in Daemons : ~ On(d, "creating")

ScheduleRepair(d, j) ==
    /\ On(d, "idle") /\ NoSchedulerDeciding
    /\ Status(j) = "completion_rejected" /\ jobs[j].repair_ready
    /\ exec' = [exec EXCEPT ![d] = [IdleExecutor EXCEPT !.pc = "handed", !.job = j]]
    /\ UNCHANGED <<jobs, claim, alive, launches, host>>
    /\ UNCHANGED serviceVars

ScheduleDecide(d, j) ==
    /\ On(d, "idle") /\ NoSchedulerDeciding
    /\ task = "todo"
    /\ FindActive = {}
    /\ WithinBudget
    /\ Status(j) = "absent"
    /\ exec' = [exec EXCEPT ![d] = [IdleExecutor EXCEPT !.pc = "creating", !.job = j]]
    /\ UNCHANGED <<jobs, claim, alive, launches, host>>
    /\ UNCHANGED serviceVars

ScheduleCreate(d) ==
    /\ On(d, "creating")
    /\ \/ /\ CreateJob(JobOf(d))
          /\ exec' = [exec EXCEPT ![d].pc = "handed"]
       \/ /\ FindActive # {}
          /\ exec' = [exec EXCEPT ![d] = IdleExecutor]
          /\ UNCHANGED jobs
    /\ UNCHANGED <<claim, alive, launches, host>>
    /\ UNCHANGED serviceVars

(* The threads of an endpoint live as long as its process.                  *)
EndpointDies(e) ==
    /\ thread' = [t \in Threads |-> IF host[t] = e THEN NoThreadState ELSE thread[t]]
    /\ publisher' = IF publisher \in Threads /\ host[publisher] = e THEN NoThread ELSE publisher
    /\ host' = [t \in Threads |-> IF host[t] = e THEN NoExecutor ELSE host[t]]

(* The worker waits for the replies to what it has posted, unless it is     *)
(* stopped by its monitor.                                                  *)
WorkerFree(e) == WorkerMayQuit \/ \A t \in Threads : host[t] # e

(* A `jobs run` command exits when its run returns; a daemon goes on.       *)
RunJob(e) ==
    /\ RunStep(e) \/ \E j \in Jobs : Claim(e, j)
    /\ On(e, "working") => WorkerFree(e)
    /\ IF e \notin Daemons /\ exec'[e].pc = "idle"
       THEN EndpointDies(e)
       ELSE UNCHANGED <<thread, publisher, host>>
    /\ UNCHANGED <<task, journal, loader, told, crashes>>

-----------------------------------------------------------------------------
(* A worker posts to the endpoint of the executor that launched it.         *)
Post(t, j, s) ==
    /\ j \in alive
    /\ \E e \in Executors :
         /\ JobOf(e) = j /\ On(e, "working")
         /\ Receive(t, j, s)
         /\ host' = [host EXCEPT ![t] = IF thread'[t].pc = "idle" THEN @ ELSE e]
    /\ UNCHANGED executorVars

Serve(t) ==
    /\ ThreadStep(t)
    /\ host' = [host EXCEPT ![t] = IF thread'[t].pc = "idle" THEN NoExecutor ELSE @]
    /\ UNCHANGED executorVars

LoadContext(r) == LoaderStep(r) /\ UNCHANGED host /\ UNCHANGED executorVars

-----------------------------------------------------------------------------
(* jobs fail, cancel and restart write the status of any job.               *)
Operate(j, s) ==
    /\ Status(j) # "absent"
    /\ UpdateStatus(j, s)
    /\ UNCHANGED host
    /\ UNCHANGED executorVars
    /\ UNCHANGED serviceVars

(* The process of an executor dies with the threads of its endpoint.        *)
Crash(e) ==
    /\ crashes < MaxCrashes
    /\ exec[e].pc \notin {"down", "idle"}
    /\ ExecutorDies(e, IF e \in Daemons THEN "down" ELSE "idle")
    /\ EndpointDies(e)
    /\ crashes' = crashes + 1
    /\ UNCHANGED <<jobs, alive, launches, task, journal, loader, told>>

(* Mutant: a status the record does not know.                               *)
ReconciledInterrupted(job) ==
    IF job.status \in Active
    THEN [job EXCEPT !.status = "interrupted", !.records = Settled(@)]
    ELSE job

(* _reconcile_active_runtime_jobs: every active job is failed and its       *)
(* interrupted attempts are ended.                                          *)
Reconciled(job) ==
    IF job.status \in Active
    THEN [job EXCEPT !.status = "failed", !.records = Settled(@)]
    ELSE job

RuntimeStart(d) ==
    /\ d \in Daemons /\ On(d, "down")
    /\ jobs' = [j \in Jobs |-> Reconciled(jobs[j])]
    /\ exec' = [exec EXCEPT ![d] = IdleExecutor]
    /\ UNCHANGED <<claim, alive, launches, host>>
    /\ UNCHANGED serviceVars

(* runtime stop ends the daemon first and also removes the containers of    *)
(* the jobs it fails.                                                       *)
RuntimeStop(d) ==
    /\ crashes < MaxCrashes
    /\ d \in Daemons /\ ~ On(d, "down")
    /\ ExecutorDies(d, "down")
    /\ EndpointDies(d)
    /\ jobs' = [j \in Jobs |-> Reconciled(jobs[j])]
    /\ alive' = {j \in alive : Status(j) \notin Active}
    /\ crashes' = crashes + 1
    /\ UNCHANGED <<launches, task, journal, loader, told>>

Next ==
    \/ \E d \in Daemons : \/ \E j \in Jobs : ScheduleRepair(d, j) \/ ScheduleDecide(d, j)
                          \/ ScheduleCreate(d)
                          \/ RuntimeStart(d) \/ RuntimeStop(d)
    \/ \E e \in Executors : RunJob(e) \/ Crash(e)
    \/ \E t \in Threads : Serve(t) \/ \E j \in Jobs, s \in Submissions : Post(t, j, s)
    \/ \E r \in Recoverers : LoadContext(r)
    \/ \E j \in Jobs, s \in OperatorSets : Operate(j, s)
    \/ \E j \in Jobs : OrphanEnds(j) /\ UNCHANGED host /\ UNCHANGED serviceVars

Spec == Init /\ [][Next]_vars

(* Every process and every thread goes on, the daemon hands out what it may *)
(* hand out, and a worker ends at the latest at its timeout.                *)
Fairness ==
    /\ \A e \in Executors : WF_vars(RunJob(e))
    /\ \A d \in Daemons :
         /\ WF_vars(ScheduleCreate(d))
         /\ \A j \in Jobs : WF_vars(ScheduleRepair(d, j))
    /\ \A t \in Threads : WF_vars(Serve(t))
    /\ \A r \in Recoverers : WF_vars(LoadContext(r))

FairSpec == Spec /\ Fairness

-----------------------------------------------------------------------------
(* No more worker containers are started for the task revision and          *)
(* transition than max_total_attempts_per_transition, however the attempts  *)
(* are spread over jobs, repairs, crashes and restarts (executor.py budget  *)
(* checks, scheduler.py _total_attempt_exhausted).                          *)
LaunchBudget == launches <= MaxTotal

(* Every container start has an attempt record of its own: no number is     *)
(* used for two starts, and no crash forgets one (executor.py               *)
(* _admit_attempt before run_worker).                                       *)
LaunchesCounted ==
    launches <= Cardinality({a \in Jobs \X Numbers : a[2] \in AdmittedNumbers(a[1])})

(* A task and transition never have two active jobs (jobs.py create,        *)
(* find_active).                                                            *)
AtMostOneActive == \A j, k \in FindActive : j = k

(* A task and transition never have two worker containers running: execution*)
(* lock, active-job check and reconciliation together.                      *)
OneWorker == Cardinality(alive) <= 1

Committed(j) == {s \in Submissions : journal[j][s].status = "committed"}

(* A job that says accepted has had its effects applied: some acceptance    *)
(* journal of it is committed and the task has moved, whoever wrote the     *)
(* status last (completion.py submit and recovery).                         *)
AcceptedIsDelivered ==
    \A j \in Jobs : Status(j) = "accepted" => task = "done" /\ Committed(j) # {}

(* The transition is accepted once: at most one acceptance journal of all   *)
(* jobs and submissions is ever committed (reliability-05-delivery-plan.md: *)
(* "one committed acceptance record").                                      *)
CommittedOnce ==
    \A j, k \in Jobs : \A s \in Committed(j), u \in Committed(k) : j = k /\ s = u

(* An accepted job stays accepted: reliability-01-execution-plan.md, "An    *)
(* accepted completion wins over a late exit/failure notification."         *)
AcceptedStands ==
    [][\A j \in Jobs : Status(j) = "accepted" => Status(j)' = "accepted"]_vars

(* A job that is over does not become active again: no late completion      *)
(* resurrects it (test_completion.py, completion of a job already failed).  *)
TerminalStands ==
    [][\A j \in Jobs : Status(j) \in Terminal => Status(j)' \in Terminal]_vars

(* A recorded answer to a submission is never lost or changed (completion.py*)
(* _record_submission: whole-map writes of copies read earlier).            *)
AnswersStand ==
    [][\A j \in Jobs, s \in Submissions :
          jobs[j].answers[s] # "none" => jobs'[j].answers[s] = jobs[j].answers[s]]_vars

(* The same submission is never told accepted by one reply and rejected by  *)
(* another (reliability-03-task-quality-plan.md: "Replayed accepted         *)
(* submissions must return the existing result.").                          *)
OneVerdict == \A j \in Jobs, s \in Submissions : ~ {"accepted", "rejected"} \subseteq told[j][s]

(* The two ways in which a run leaves its job active and nobody is bound to *)
(* take it up: it returns before it has settled anything, or it writes back *)
(* a status that it read for its evidence and that was no longer failed.    *)
LeftActive ==
    \E e \in Executors :
        \/ On(e, "refused")
        \/ On(e, "evidence_write") /\ exec[e].saw \in Active

(* Every job that is handed to a worker is settled in the end: while no run *)
(* leaves a job in one of those ways, no active job stays active for ever   *)
(* (executor.py _run_claimed, _fail_worker; a verdict that comes late).     *)
ActiveSettles ==
    [](~ LeftActive) => \A j \in Jobs : Status(j) \in Active ~> Status(j) \notin Active

(* What was prepared to be accepted is accepted in the end: interrupted or  *)
(* failed half-way, the next context loads roll the journal forward.        *)
AcceptanceCompletes ==
    \A j \in Jobs, s \in Submissions :
        journal[j][s].status = "prepared" ~> Status(j) = "accepted"
=============================================================================
