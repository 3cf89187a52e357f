------------------------------ MODULE JobStore ------------------------------
(***************************************************************************)
(* The execution-job records of runtime/jobs.py and the operations on them *)
(* that the executor, the completion service, the scheduler and the CLI    *)
(* share.  Every operation below holds the store's lock for its whole      *)
(* read-modify-write, so it is one step; a caller that reads a record and  *)
(* writes it back later is two steps, and is written so in its module.     *)
(*                                                                         *)
(* All Jobs belong to one (project, task, transition) and to one semantic  *)
(* revision of the task: what find_active and the attempt account select.  *)
(* The status stale is left out: nothing under src writes it.              *)
(***************************************************************************)
EXTENDS Integers, FiniteSets

CONSTANTS
    Jobs,         \* execution job ids
    Submissions,  \* completion submission ids
    MaxNumber     \* bound: attempt numbers are 1..MaxNumber

ASSUME JobsAssumption == IsFiniteSet(Jobs)
ASSUME MaxNumberAssumption == MaxNumber \in Nat \ {0}

VARIABLE jobs  \* job id -> its record

Statuses == {"absent", "pending", "running", "completion_submitted",
             "completion_rejected", "accepted", "failed", "cancelled"}

(* ACTIVE_JOB_STATUSES of jobs.py and TERMINAL_JOB_STATUSES of executor.py  *)
(* and completion.py.                                                       *)
Active == {"pending", "running", "completion_submitted", "completion_rejected"}
Terminal == {"accepted", "failed", "cancelled"}

Numbers == 1..MaxNumber
AttemptStatuses == {"none", "admitted", "running", "ended"}
Answers == {"none", "accepted", "rejected"}

NoAnswers == [s \in Submissions |-> "none"]

(* A job record: its status, the attempts counter, the versioned attempt    *)
(* records by number, the repair fields and the answered submissions        *)
(* ("completion_submissions") of its metadata.                              *)
JobRecord == [status       : Statuses,
              attempts     : 0..MaxNumber,
              records      : [Numbers -> AttemptStatuses],
              repair_ready : BOOLEAN,
              repairs      : Nat,
              answers      : [Submissions -> Answers]]

NewRecord == [status       |-> "absent",
              attempts     |-> 0,
              records      |-> [n \in Numbers |-> "none"],
              repair_ready |-> FALSE,
              repairs      |-> 0,
              answers      |-> NoAnswers]

JobsTypeOK == jobs \in [Jobs -> JobRecord]

JobsInit == jobs = [j \in Jobs |-> NewRecord]

-----------------------------------------------------------------------------
Status(j) == jobs[j].status

(* Mutant: a pending job is not counted as active.                          *)
FindActiveStarted == {j \in Jobs : Status(j) \in Active \ {"pending"}}

FindActive == {j \in Jobs : Status(j) \in Active}

(* create: refused while the task and transition have an active job.        *)
CreateJob(j) ==
    /\ Status(j) = "absent"
    /\ FindActive = {}
    /\ jobs' = [jobs EXCEPT ![j].status = "pending"]

(* update_status looks at nothing but the record's existence: any status    *)
(* may follow any other.                                                    *)
UpdateStatus(j, s) == jobs' = [jobs EXCEPT ![j].status = s]

(* record_attempt upserts by attempt id, which is the job and the number.   *)
RecordAttempt(j, n, st) == jobs' = [jobs EXCEPT ![j].records[n] = st]

(* Mutant: only the attempts that are not over are counted.                 *)
OpenNumbers(j) == {n \in Numbers : jobs[j].records[n] \in {"admitted", "running"}}

AdmittedNumbers(j) == {n \in Numbers : jobs[j].records[n] # "none"}

(* settle_interrupted_attempts, for a record already taken.                 *)
Settled(records) ==
    [n \in Numbers |-> IF records[n] \in {"admitted", "running"} THEN "ended" ELSE records[n]]

(* The attempts a job is charged with: those it has a record of.  A job that*)
(* left pending without any record is charged by its attempts counter, with *)
(* at least one.                                                            *)
Charged(j) ==
    IF AdmittedNumbers(j) # {} THEN AdmittedNumbers(j)
    ELSE IF Status(j) \in {"absent", "pending"} THEN {}
    ELSE {n \in Numbers : n = 1 \/ n <= jobs[j].attempts}

(* count_consumed_attempts, over all jobs.                                  *)
ConsumedAttempts == Cardinality({a \in Jobs \X Numbers : a[2] \in Charged(a[1])})
=============================================================================
