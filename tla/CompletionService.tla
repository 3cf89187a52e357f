-------------------------- MODULE CompletionService --------------------------
(***************************************************************************)
(* The completion service of runtime/completion.py: handler threads of the *)
(* (threading) HTTP endpoint or of the CLI run submit() for a job, and     *)
(* every context load runs recover_completion_transactions.                *)
(*                                                                         *)
(* A step ends where another process can interfere: a job record that is   *)
(* read and written back later, the publication lock, the journal, the     *)
(* effects.  What a candidate contains is abstracted to the verdict; the   *)
(* effects of an acceptance are abstracted to the move of the task, which  *)
(* is the last of them.                                                    *)
(***************************************************************************)
EXTENDS JobStore

CONSTANTS
    Threads,          \* threads that run submit()
    Recoverers,       \* processes that load a project context
    MaxRepairs,       \* max_repair_attempts
    VerifierRaises,   \* whether the verification may raise an exception
    EffectsFail,      \* whether an effect of an acceptance may fail
    ConcurrentLoads,  \* whether a context is loaded while a thread is in submit()
    MaxCrashes,       \* bound on the number of process crashes
    NoThread, NoJob, NoSubmission

ASSUME MaxRepairsAssumption == MaxRepairs \in Nat
ASSUME MaxCrashesAssumption == MaxCrashes \in Nat
ASSUME SwitchAssumption ==
    VerifierRaises \in BOOLEAN /\ EffectsFail \in BOOLEAN /\ ConcurrentLoads \in BOOLEAN
ASSUME SentinelAssumption ==
    NoThread \notin Threads /\ NoJob \notin Jobs /\ NoSubmission \notin Submissions

VARIABLES
    task,       \* state of the task the jobs work on
    journal,    \* acceptance journal of a job's submission: status and saved answers
    publisher,  \* the thread that holds the publication lock, or NoThread
    thread,     \* thread -> what it is doing
    loader,     \* recoverer -> what it is doing
    told,       \* final verdicts the service has replied, per job and submission
    crashes

serviceVars == <<task, journal, publisher, thread, loader, told, crashes>>

JournalStatuses == {"none", "prepared", "committed", "failed"}

ThreadPcs == {"idle", "marking", "capturing", "capture_write", "capture_reject",
              "verifying", "verify_write", "rejecting", "reject_write",
              "publishing", "applying", "committing", "failing", "accepting"}

NoThreadState == [pc |-> "idle", job |-> NoJob, sub |-> NoSubmission, saw |-> "absent",
                  answers |-> NoAnswers, repairs |-> 0, verdict |-> "none"]

NoLoaderState == [pc |-> "idle", job |-> NoJob, sub |-> NoSubmission]

JournalRecord == [status : JournalStatuses, answers : [Submissions -> Answers]]

ThreadState ==
    [pc      : ThreadPcs,
     job     : Jobs \cup {NoJob},
     sub     : Submissions \cup {NoSubmission},
     saw     : Statuses,                   \* status read, to be written back
     answers : [Submissions -> Answers],   \* answers of the copy it works on
     repairs : Nat,
     verdict : {"none", "pass", "fail", "raise"}]

LoaderState == [pc  : {"idle", "applying", "committing", "settling"},
                job : Jobs \cup {NoJob},
                sub : Submissions \cup {NoSubmission}]

ServiceTypeOK ==
    /\ task \in {"todo", "done"}
    /\ journal \in [Jobs -> [Submissions -> JournalRecord]]
    /\ publisher \in Threads \cup {NoThread}
    /\ thread \in [Threads -> ThreadState]
    /\ loader \in [Recoverers -> LoaderState]
    /\ told \in [Jobs -> [Submissions -> SUBSET {"accepted", "rejected"}]]
    /\ crashes \in 0..MaxCrashes

ServiceInit ==
    /\ task = "todo"
    /\ journal = [j \in Jobs |-> [s \in Submissions |->
                    [status |-> "none", answers |-> NoAnswers]]]
    /\ publisher = NoThread
    /\ thread = [t \in Threads |-> NoThreadState]
    /\ loader = [r \in Recoverers |-> NoLoaderState]
    /\ told = [j \in Jobs |-> [s \in Submissions |-> {}]]
    /\ crashes = 0

-----------------------------------------------------------------------------
At(t, pc) == thread[t].pc = pc
Goto(t, pc) == thread' = [thread EXCEPT ![t].pc = pc]
Done(t) == thread' = [thread EXCEPT ![t] = NoThreadState]
Tells(j, s, answer) == told' = [told EXCEPT ![j][s] = @ \cup {answer}]
JournalSet(j, s, st) == journal' = [journal EXCEPT ![j][s].status = st]

NoThreadActive == \A t \in Threads : At(t, "idle")
NoLoaderActive == \A r \in Recoverers : loader[r].pc = "idle"

(* submit up to the first write: the record is read once and every early    *)
(* return is decided on that copy.  A recorded answer is replayed.          *)
ReplayAnswer(t, j, s) ==
    /\ jobs[j].answers[s] # "none"
    /\ Tells(j, s, jobs[j].answers[s])
    /\ UNCHANGED thread

RepeatAccepted(t, j, s) ==
    /\ jobs[j].answers[s] = "none"
    /\ Status(j) = "accepted"
    /\ Tells(j, s, "accepted")
    /\ UNCHANGED thread

(* Mutant: an accepted job takes a further submission.                      *)
BeginReopens(t, j, s) ==
    /\ jobs[j].answers[s] = "none"
    /\ Status(j) \in {"pending", "running", "completion_rejected", "accepted"}
    /\ thread' = [thread EXCEPT ![t] = [NoThreadState EXCEPT
                    !.pc = "marking", !.job = j, !.sub = s, !.answers = jobs[j].answers]]
    /\ UNCHANGED told

(* Mutant: a submission already answered is validated again.                *)
BeginAgain(t, j, s) ==
    /\ Status(j) \in {"pending", "running", "completion_rejected"}
    /\ thread' = [thread EXCEPT ![t] = [NoThreadState EXCEPT
                    !.pc = "marking", !.job = j, !.sub = s, !.answers = jobs[j].answers]]
    /\ UNCHANGED told

(* completion.in_progress and completion.job_terminal change nothing and    *)
(* are no verdict on the submission; they are the disabled cases of this.   *)
Begin(t, j, s) ==
    /\ jobs[j].answers[s] = "none"
    /\ Status(j) \in {"pending", "running", "completion_rejected"}
    /\ thread' = [thread EXCEPT ![t] = [NoThreadState EXCEPT
                    !.pc = "marking", !.job = j, !.sub = s, !.answers = jobs[j].answers]]
    /\ UNCHANGED told

Receive(t, j, s) ==
    /\ At(t, "idle")
    /\ ConcurrentLoads \/ NoLoaderActive
    /\ ReplayAnswer(t, j, s) \/ RepeatAccepted(t, j, s) \/ Begin(t, j, s)
    /\ UNCHANGED <<jobs, task, journal, publisher, loader, crashes>>

MarkSubmitted(t) ==
    /\ At(t, "marking")
    /\ UpdateStatus(thread[t].job, "completion_submitted")
    /\ Goto(t, "capturing")
    /\ UNCHANGED <<task, journal, publisher, loader, told, crashes>>

(* _capture_completion_candidate: the status is read after the copy and     *)
(* written back with the candidate's identity.                              *)
CaptureRead(t) ==
    /\ At(t, "capturing")
    /\ thread' = [thread EXCEPT ![t].pc = "capture_write",
                                ![t].saw = Status(thread[t].job)]
    /\ UNCHANGED <<jobs, task, journal, publisher, loader, told, crashes>>

CaptureWrite(t) ==
    /\ At(t, "capture_write")
    /\ UpdateStatus(thread[t].job, thread[t].saw)
    /\ thread' = [thread EXCEPT ![t].pc = "verifying", ![t].saw = "absent"]
    /\ UNCHANGED <<task, journal, publisher, loader, told, crashes>>

(* The capture failed: _reject_candidate_capture reads the answers and      *)
(* writes its rejection over whatever status the job has by then.           *)
CaptureFails(t) ==
    /\ At(t, "capturing")
    /\ thread' = [thread EXCEPT ![t].pc = "capture_reject",
                                ![t].answers = jobs[thread[t].job].answers]
    /\ UNCHANGED <<jobs, task, journal, publisher, loader, told, crashes>>

RejectCapture(t) ==
    LET j == thread[t].job
        s == thread[t].sub
    IN  /\ At(t, "capture_reject")
        /\ jobs' = [jobs EXCEPT
                      ![j].status = "completion_rejected",
                      ![j].repair_ready = TRUE,
                      ![j].answers = [thread[t].answers EXCEPT ![s] = "rejected"]]
        /\ Tells(j, s, "rejected")
        /\ Done(t)
        /\ UNCHANGED <<task, journal, publisher, loader, crashes>>

(* The verifier's verdict; _record_validation_finished reads the status and *)
(* writes it back with the report.                                          *)
Verify(t) ==
    /\ At(t, "verifying")
    /\ \E verdict \in {"pass", "fail"} \cup (IF VerifierRaises THEN {"raise"} ELSE {}) :
         thread' = [thread EXCEPT ![t].pc = "verify_write",
                                  ![t].saw = Status(thread[t].job),
                                  ![t].verdict = verdict]
    /\ UNCHANGED <<jobs, task, journal, publisher, loader, told, crashes>>

(* A raised exception ends the thread after that write; a passing candidate *)
(* may still be turned down (shadowed artifacts, moved target, derivation). *)
RecordVerdict(t) ==
    /\ At(t, "verify_write")
    /\ UpdateStatus(thread[t].job, thread[t].saw)
    /\ \/ thread[t].verdict = "raise" /\ Done(t)
       \/ /\ thread[t].verdict \in {"pass", "fail"}
          /\ thread' = [thread EXCEPT ![t].pc = "rejecting", ![t].saw = "absent",
                                      ![t].answers = NoAnswers]
       \/ /\ thread[t].verdict = "pass"
          /\ thread' = [thread EXCEPT ![t].pc = "publishing", ![t].saw = "absent"]
    /\ UNCHANGED <<task, journal, publisher, loader, told, crashes>>

(* _reject_completion: a terminal job is left alone, anything else is       *)
(* overwritten after plan_repair has decided on the copy.                   *)
IgnoreRejection(t) ==
    /\ At(t, "rejecting")
    /\ Status(thread[t].job) \in Terminal
    /\ Done(t)
    /\ UNCHANGED <<jobs, task, journal, publisher, loader, told, crashes>>

RejectRead(t) ==
    LET j == thread[t].job
    IN  /\ At(t, "rejecting")
        /\ Status(j) \notin Terminal
        /\ thread' = [thread EXCEPT ![t].pc = "reject_write",
                                    ![t].answers = jobs[j].answers,
                                    ![t].repairs = jobs[j].repairs]
        /\ UNCHANGED <<jobs, task, journal, publisher, loader, told, crashes>>

(* Mutant: the rejection replaces the answers instead of extending them.    *)
RejectWriteForgets(t) ==
    LET j == thread[t].job
        s == thread[t].sub
    IN  /\ At(t, "reject_write")
        /\ \E correctable \in BOOLEAN :
             LET eligible == correctable /\ thread[t].repairs < MaxRepairs
             IN  jobs' = [jobs EXCEPT
                            ![j].status = IF eligible THEN "completion_rejected" ELSE "failed",
                            ![j].repair_ready = eligible,
                            ![j].answers = [NoAnswers EXCEPT ![s] = "rejected"]]
        /\ Tells(j, s, "rejected")
        /\ Done(t)
        /\ UNCHANGED <<task, journal, publisher, loader, crashes>>

(* plan_repair: never for a baseline or environment failure, and at most    *)
(* MaxRepairs times.                                                        *)
RejectWrite(t) ==
    LET j == thread[t].job
        s == thread[t].sub
    IN  /\ At(t, "reject_write")
        /\ \E correctable \in BOOLEAN :
             LET eligible == correctable /\ thread[t].repairs < MaxRepairs
             IN  jobs' = [jobs EXCEPT
                            ![j].status = IF eligible THEN "completion_rejected" ELSE "failed",
                            ![j].repair_ready = eligible,
                            ![j].answers = [thread[t].answers EXCEPT ![s] = "rejected"]]
        /\ Tells(j, s, "rejected")
        /\ Done(t)
        /\ UNCHANGED <<task, journal, publisher, loader, crashes>>

-----------------------------------------------------------------------------
(* The acceptance, under the publication lock: FileTransactionRuntime.apply *)
(* with the journal of this job and submission.                             *)
Prepare(t) ==
    LET j == thread[t].job
        s == thread[t].sub
    IN  /\ At(t, "publishing")
        /\ publisher = NoThread
        /\ publisher' = t
        /\ journal' = [journal EXCEPT ![j][s] =
              [status |-> "prepared", answers |-> [thread[t].answers EXCEPT ![s] = "accepted"]]]
        /\ Goto(t, "applying")
        /\ UNCHANGED <<jobs, task, loader, told, crashes>>

ApplyEffects(t) ==
    /\ At(t, "applying")
    /\ task' = "done"
    /\ Goto(t, "committing")
    /\ UNCHANGED <<jobs, journal, publisher, loader, told, crashes>>

(* An effect, the final validation or the event append fails: the journal   *)
(* is failed; compensation does not move the task back.                     *)
ApplyFails(t) ==
    /\ EffectsFail
    /\ At(t, "applying") \/ At(t, "committing")
    /\ JournalSet(thread[t].job, thread[t].sub, "failed")
    /\ publisher' = NoThread
    /\ Goto(t, "failing")
    /\ UNCHANGED <<jobs, task, loader, told, crashes>>

CommitJournal(t) ==
    /\ At(t, "committing")
    /\ JournalSet(thread[t].job, thread[t].sub, "committed")
    /\ publisher' = NoThread
    /\ Goto(t, "accepting")
    /\ UNCHANGED <<jobs, task, loader, told, crashes>>

MarkFailed(t) ==
    /\ At(t, "failing")
    /\ UpdateStatus(thread[t].job, "failed")
    /\ Done(t)
    /\ UNCHANGED <<task, journal, publisher, loader, told, crashes>>

(* The answers written with the acceptance extend the copy read at the      *)
(* beginning of submit.                                                     *)
MarkAccepted(t) ==
    LET j == thread[t].job
        s == thread[t].sub
    IN  /\ At(t, "accepting")
        /\ jobs' = [jobs EXCEPT
                      ![j].status = "accepted",
                      ![j].answers = [thread[t].answers EXCEPT ![s] = "accepted"]]
        /\ Tells(j, s, "accepted")
        /\ Done(t)
        /\ UNCHANGED <<task, journal, publisher, loader, crashes>>

-----------------------------------------------------------------------------
(* Mutant: any journal is taken for a committed one.                        *)
RecoverPickTrusting(r, j, s) ==
    /\ loader[r].pc = "idle"
    /\ ConcurrentLoads \/ NoThreadActive
    /\ journal[j][s].status # "none"
    /\ Status(j) # "accepted"
    /\ loader' = [loader EXCEPT ![r] = [pc |-> "settling", job |-> j, sub |-> s]]
    /\ UNCHANGED <<jobs, task, journal, publisher, thread, told, crashes>>

(* Mutant: journals that were not committed are skipped.                    *)
RecoverPickCommitted(r, j, s) ==
    /\ loader[r].pc = "idle"
    /\ ConcurrentLoads \/ NoThreadActive
    /\ journal[j][s].status = "committed"
    /\ task = "done" /\ Status(j) # "accepted"
    /\ loader' = [loader EXCEPT ![r] = [pc |-> "settling", job |-> j, sub |-> s]]
    /\ UNCHANGED <<jobs, task, journal, publisher, thread, told, crashes>>

(* recover_completion_transactions, for one journal.  Every journal is      *)
(* visited, the failed ones too; an intervening change of the user's files  *)
(* or the task leaves the journal as it is, which is not to take the step.  *)
RecoverPick(r, j, s) ==
    /\ loader[r].pc = "idle"
    /\ ConcurrentLoads \/ NoThreadActive
    /\ journal[j][s].status # "none"
    /\ \/ journal[j][s].status # "committed"
       \/ task = "done" /\ Status(j) # "accepted"
    /\ loader' = [loader EXCEPT ![r] =
          [pc  |-> IF journal[j][s].status = "committed" THEN "settling" ELSE "applying",
           job |-> j, sub |-> s]]
    /\ UNCHANGED <<jobs, task, journal, publisher, thread, told, crashes>>

RecoverApply(r) ==
    /\ loader[r].pc = "applying"
    /\ task' = "done"
    /\ loader' = [loader EXCEPT ![r].pc = "committing"]
    /\ UNCHANGED <<jobs, journal, publisher, thread, told, crashes>>

RecoverCommit(r) ==
    /\ loader[r].pc = "committing"
    /\ JournalSet(loader[r].job, loader[r].sub, "committed")
    /\ loader' = [loader EXCEPT ![r].pc = "settling"]
    /\ UNCHANGED <<jobs, task, publisher, thread, told, crashes>>

(* _settle_recovered_acceptance: any status but accepted becomes accepted,  *)
(* with the metadata saved in the journal.                                  *)
RecoverSettle(r) ==
    LET j == loader[r].job
        s == loader[r].sub
    IN  /\ loader[r].pc = "settling"
        /\ jobs' = IF Status(j) = "accepted" THEN jobs
                   ELSE [jobs EXCEPT ![j].status = "accepted",
                                     ![j].answers = journal[j][s].answers]
        /\ loader' = [loader EXCEPT ![r] = NoLoaderState]
        /\ UNCHANGED <<task, journal, publisher, thread, told, crashes>>

(* A process that loads a context dies.                                     *)
CrashLoader(r) ==
    /\ crashes < MaxCrashes
    /\ loader[r].pc # "idle"
    /\ crashes' = crashes + 1
    /\ loader' = [loader EXCEPT ![r] = NoLoaderState]
    /\ UNCHANGED <<jobs, task, journal, publisher, thread, told>>

ThreadStep(t) ==
    \/ MarkSubmitted(t)
    \/ CaptureRead(t) \/ CaptureWrite(t) \/ CaptureFails(t) \/ RejectCapture(t)
    \/ Verify(t) \/ RecordVerdict(t)
    \/ IgnoreRejection(t) \/ RejectRead(t) \/ RejectWrite(t)
    \/ Prepare(t) \/ ApplyEffects(t) \/ ApplyFails(t) \/ CommitJournal(t)
    \/ MarkFailed(t) \/ MarkAccepted(t)

LoaderStep(r) ==
    \/ \E j \in Jobs, s \in Submissions : RecoverPick(r, j, s)
    \/ RecoverApply(r) \/ RecoverCommit(r) \/ RecoverSettle(r)
    \/ CrashLoader(r)
=============================================================================
