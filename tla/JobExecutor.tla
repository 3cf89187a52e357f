----------------------------- MODULE JobExecutor -----------------------------
(***************************************************************************)
(* runtime/executor.py: an executor claims a job by a non-blocking flock,  *)
(* admits an attempt against the durable account, launches the worker      *)
(* container, waits for it and settles job and attempt.  Daemons are the   *)
(* executors of scheduler daemons, which run only the job the scheduler    *)
(* hands them; any other executor is a `jobs run` command.                 *)
(*                                                                         *)
(* A step ends where the executor has read the job record and will act on  *)
(* the copy, or has written it.                                            *)
(***************************************************************************)
EXTENDS JobStore

CONSTANTS
    Executors,
    Daemons,       \* the executors that belong to a scheduler daemon
    MaxTotal,      \* max_total_attempts_per_transition
    LeaseBusy,     \* whether a resource of the worker may be busy
    RunFails,      \* whether preparing, launching or logging may raise
    NoExecutor, NoTarget

ASSUME DaemonsAssumption == Daemons \subseteq Executors
ASSUME MaxTotalAssumption == MaxTotal \in Nat \ {0} /\ MaxTotal <= MaxNumber
ASSUME RunSwitchAssumption == LeaseBusy \in BOOLEAN /\ RunFails \in BOOLEAN
ASSUME ExecutorSentinelAssumption == NoExecutor \notin Executors /\ NoTarget \notin Jobs

VARIABLES
    exec,      \* executor -> what it is doing
    claim,     \* job -> the executor that holds its execution lock
    alive,     \* jobs whose worker container is running
    launches   \* worker containers launched so far

executorVars == <<exec, claim, alive, launches>>

ExecutorPcs == {"idle", "creating", "handed", "loading", "budget", "bound", "leasing",
                "admitting", "marking", "environment", "launching", "working",
                "waiting", "reading", "failing", "fail_write", "broken", "evidence",
                "evidence_write", "refused", "finishing", "down"}

(* The claim is held from loading to finishing; the completion endpoint is  *)
(* up while the worker may use it.                                          *)
Claiming == ExecutorPcs \ {"idle", "creating", "handed", "down"}

IdleExecutor == [pc |-> "idle", job |-> NoTarget, number |-> 0, repair |-> FALSE,
                 repairs |-> 0, saw |-> "absent", owed |-> {}]

ExecutorState ==
    [pc      : ExecutorPcs,
     job     : Jobs \cup {NoTarget},
     number  : 0..MaxNumber,    \* the attempt it admits or runs
     repair  : BOOLEAN,         \* repair_mode
     repairs : Nat,             \* repair_attempts of the copy it read
     saw     : Statuses,        \* status it will write back with the evidence
     owed    : SUBSET Numbers]  \* attempts it will settle at the end

ExecutorTypeOK ==
    /\ exec \in [Executors -> ExecutorState]
    /\ claim \in [Jobs -> Executors \cup {NoExecutor}]
    /\ alive \subseteq Jobs
    /\ launches \in Nat

ExecutorInit ==
    /\ exec = [e \in Executors |-> IdleExecutor]
    /\ claim = [j \in Jobs |-> NoExecutor]
    /\ alive = {}
    /\ launches = 0

-----------------------------------------------------------------------------
On(e, pc) == exec[e].pc = pc
Move(e, from, to) == On(e, from) /\ exec' = [exec EXCEPT ![e].pc = to]
JobOf(e) == exec[e].job

(* Mutant: off by one.                                                      *)
WithinBudgetLoose == ConsumedAttempts <= MaxTotal

WithinBudget == ConsumedAttempts < MaxTotal

(* run: take the execution lock, or return when another executor has it.    *)
Claim(e, j) ==
    /\ \/ e \in Daemons /\ On(e, "handed") /\ JobOf(e) = j
       \/ e \notin Daemons /\ On(e, "idle") /\ Status(j) # "absent"
    /\ claim[j] = NoExecutor
    /\ claim' = [claim EXCEPT ![j] = e]
    /\ exec' = [exec EXCEPT ![e] = [IdleExecutor EXCEPT !.pc = "loading", !.job = j]]
    /\ UNCHANGED <<jobs, alive, launches>>

ClaimRefused(e) ==
    /\ On(e, "handed")
    /\ claim[JobOf(e)] # NoExecutor
    /\ exec' = [exec EXCEPT ![e] = IdleExecutor]
    /\ UNCHANGED <<jobs, claim, alive, launches>>

LoadTerminal(e) ==
    /\ Move(e, "loading", "finishing")
    /\ Status(JobOf(e)) \in Terminal
    /\ UNCHANGED <<jobs, claim, alive, launches>>

Load(e) ==
    LET job == jobs[JobOf(e)]
    IN  /\ On(e, "loading")
        /\ job.status \notin Terminal
        /\ exec' = [exec EXCEPT
              ![e].pc = "budget",
              ![e].number = IF job.attempts < MaxNumber THEN job.attempts + 1 ELSE MaxNumber,
              ![e].repair = (job.status = "completion_rejected" /\ job.repair_ready),
              ![e].repairs = job.repairs]
        /\ UNCHANGED <<jobs, claim, alive, launches>>

(* The frozen transition is not in the workflow, or the task cannot be read:*)
(* run returns and the job keeps its status.                                *)
LoadRefused(e) ==
    /\ Move(e, "loading", "refused")
    /\ Status(JobOf(e)) \notin Terminal
    /\ UNCHANGED <<jobs, claim, alive, launches>>

CheckBudget(e) ==
    /\ On(e, "budget")
    /\ exec' = [exec EXCEPT ![e].pc = IF WithinBudget THEN "leasing" ELSE "bound"]
    /\ UNCHANGED <<jobs, claim, alive, launches>>

(* resource.busy: run returns and the job keeps its status.                 *)
LeaseRefused(e) ==
    /\ LeaseBusy
    /\ Move(e, "leasing", "refused")
    /\ UNCHANGED <<jobs, claim, alive, launches>>

Leased(e) ==
    /\ Move(e, "leasing", "admitting")
    /\ UNCHANGED <<jobs, claim, alive, launches>>

(* _admit_attempt: the admission is durable before anything is launched.    *)
AdmitAttempt(e) ==
    /\ On(e, "admitting")
    /\ RecordAttempt(JobOf(e), exec[e].number, "admitted")
    /\ exec' = [exec EXCEPT ![e].pc = "marking", ![e].owed = @ \cup {exec[e].number}]
    /\ UNCHANGED <<claim, alive, launches>>

(* Mutant: the attempts counter is not advanced.                            *)
MarkRunningUncounted(e) ==
    /\ Move(e, "marking", "environment")
    /\ jobs' = [jobs EXCEPT
          ![JobOf(e)].status = "running",
          ![JobOf(e)].repair_ready = IF exec[e].repair THEN FALSE ELSE @,
          ![JobOf(e)].repairs = IF exec[e].repair THEN exec[e].repairs + 1 ELSE @]
    /\ UNCHANGED <<claim, alive, launches>>

(* The status becomes running whatever it is by now.                        *)
MarkRunning(e) ==
    LET j == JobOf(e)
    IN  /\ Move(e, "marking", "environment")
        /\ jobs' = [jobs EXCEPT
              ![j].status = "running",
              ![j].attempts = IF @ < MaxNumber THEN @ + 1 ELSE @,
              ![j].repair_ready = IF exec[e].repair THEN FALSE ELSE @,
              ![j].repairs = IF exec[e].repair THEN exec[e].repairs + 1 ELSE @]
        /\ UNCHANGED <<claim, alive, launches>>

(* A job with a frozen contract saves its verification environment, which   *)
(* writes the status running once more.                                     *)
SaveEnvironment(e) ==
    /\ Move(e, "environment", "launching")
    /\ UpdateStatus(JobOf(e), "running") \/ UNCHANGED jobs
    /\ UNCHANGED <<claim, alive, launches>>

(* The container carries the job's name: while an orphan of the same job is *)
(* still running, docker refuses and the run has failed.                    *)
Launch(e) ==
    LET j == JobOf(e)
    IN  /\ On(e, "launching")
        /\ RecordAttempt(j, exec[e].number, "running")
        /\ IF j \in alive
           THEN /\ exec' = [exec EXCEPT ![e].pc = "reading"]
                /\ UNCHANGED <<alive, launches>>
           ELSE /\ exec' = [exec EXCEPT ![e].pc = "working"]
                /\ alive' = alive \cup {j}
                /\ launches' = launches + 1
        /\ UNCHANGED claim

(* The container ends; only after a successful run does the executor wait   *)
(* for the completion to settle.                                            *)
WorkerEnds(e) ==
    /\ On(e, "working")
    /\ \E next \in {"waiting", "reading"} :
         /\ next = "waiting" => JobOf(e) \in alive
         /\ exec' = [exec EXCEPT ![e].pc = next]
    /\ alive' = alive \ {JobOf(e)}
    /\ UNCHANGED <<jobs, claim, launches>>

(* The wait ends when the status is no longer completion_submitted, or at   *)
(* its deadline.                                                            *)
WaitEnds(e) ==
    /\ Move(e, "waiting", "reading")
    /\ UNCHANGED <<jobs, claim, alive, launches>>

(* The status after the run decides: a rejected job that may be repaired    *)
(* runs again under the same claim, and one that has failed has its evidence*)
(* preserved.                                                               *)
ReadOutcome(e) ==
    LET job == jobs[JobOf(e)]
        next == IF job.status = "accepted" THEN "finishing"
                ELSE IF job.status \in Terminal THEN "evidence"
                ELSE IF job.status # "completion_rejected" THEN "failing"
                ELSE IF ~ job.repair_ready THEN "finishing"
                ELSE IF WithinBudget THEN "loading" ELSE "bound"
    IN  /\ Move(e, "reading", next)
        /\ UNCHANGED <<jobs, claim, alive, launches>>

(* Mutant: a job still running is taken for one with a completion in flight.*)
FailWorkerReadLenient(e) ==
    /\ On(e, "failing")
    /\ exec' = [exec EXCEPT ![e].pc =
          IF Status(JobOf(e)) \in Terminal \cup {"completion_submitted", "running"}
          THEN "finishing" ELSE "fail_write"]
    /\ UNCHANGED <<jobs, claim, alive, launches>>

(* _fail_worker reads the status again and then writes failed.              *)
FailWorkerRead(e) ==
    /\ On(e, "failing")
    /\ exec' = [exec EXCEPT ![e].pc =
          IF Status(JobOf(e)) \in Terminal \cup {"completion_submitted"}
          THEN "finishing" ELSE "fail_write"]
    /\ UNCHANGED <<jobs, claim, alive, launches>>

(* _fail_before_run, the executor's exception handler and                   *)
(* _fail_at_total_attempt_bound write failed without a look at the record.  *)
Breaks(e) ==
    /\ RunFails
    /\ exec[e].pc \in {"leasing", "admitting", "marking", "environment", "launching", "reading",
                      "evidence"}
    /\ exec' = [exec EXCEPT ![e].pc = "broken"]
    /\ UNCHANGED <<jobs, claim, alive, launches>>

WriteFailed(e) ==
    /\ exec[e].pc \in {"fail_write", "broken", "bound"}
    /\ UpdateStatus(JobOf(e), "failed")
    /\ exec' = [exec EXCEPT ![e].pc = IF On(e, "fail_write") THEN "evidence" ELSE "finishing"]
    /\ UNCHANGED <<claim, alive, launches>>

(* _preserve_failure_evidence reads the record after the evidence is in the *)
(* workspace, and writes back the status it has read, whatever it is by     *)
(* then; without a workspace it writes nothing.                             *)
EvidenceRead(e) ==
    /\ On(e, "evidence")
    /\ exec' = [exec EXCEPT ![e].pc = "evidence_write", ![e].saw = Status(JobOf(e))]
    /\ UNCHANGED <<jobs, claim, alive, launches>>

EvidenceSkipped(e) ==
    /\ Move(e, "evidence", "finishing")
    /\ UNCHANGED <<jobs, claim, alive, launches>>

EvidenceWrite(e) ==
    /\ On(e, "evidence_write")
    /\ UpdateStatus(JobOf(e), exec[e].saw)
    /\ exec' = [exec EXCEPT ![e].pc = "finishing", ![e].saw = "absent"]
    /\ UNCHANGED <<claim, alive, launches>>

(* finally: the admitted attempts are ended and the claim is dropped.       *)
Finish(e) ==
    LET j == JobOf(e)
    IN  /\ exec[e].pc \in {"finishing", "refused"}
        /\ jobs' = [jobs EXCEPT ![j].records =
              [n \in Numbers |-> IF n \in exec[e].owed THEN "ended" ELSE @[n]]]
        /\ claim' = [claim EXCEPT ![j] = NoExecutor]
        /\ exec' = [exec EXCEPT ![e] = IdleExecutor]
        /\ UNCHANGED <<alive, launches>>

RunStep(e) ==
    \/ ClaimRefused(e)
    \/ LoadTerminal(e) \/ LoadRefused(e) \/ Load(e) \/ CheckBudget(e) \/ LeaseRefused(e) \/ Leased(e)
    \/ AdmitAttempt(e) \/ MarkRunning(e) \/ SaveEnvironment(e) \/ Launch(e)
    \/ WorkerEnds(e) \/ WaitEnds(e) \/ ReadOutcome(e)
    \/ FailWorkerRead(e) \/ Breaks(e) \/ WriteFailed(e)
    \/ EvidenceRead(e) \/ EvidenceSkipped(e) \/ EvidenceWrite(e) \/ Finish(e)

(* The process of an executor dies: the kernel drops its lock, its worker   *)
(* container goes on.                                                       *)
ExecutorDies(e, pc) ==
    /\ exec' = [exec EXCEPT ![e] = [IdleExecutor EXCEPT !.pc = pc]]
    /\ claim' = [j \in Jobs |-> IF claim[j] = e THEN NoExecutor ELSE claim[j]]

OrphanEnds(j) ==
    /\ j \in alive
    /\ \A e \in Executors : ~ (JobOf(e) = j /\ On(e, "working"))
    /\ alive' = alive \ {j}
    /\ UNCHANGED <<jobs, exec, claim, launches>>
=============================================================================
