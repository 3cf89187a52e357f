---------------------------- MODULE WorkerSession ----------------------------
(***************************************************************************)
(* A worker while it runs: its credential at the model proxy, the requests *)
(* it has there, the observer that watches it, and what its end is taken   *)
(* for.  runtime/model_proxy.py, runtime/observability.py,                 *)
(* runtime/failures.py and the part of runtime/executor.py around          *)
(* _run_worker_monitored.                                                  *)
(*                                                                         *)
(* Four parties share a job: the executor's run, which may call itself for *)
(* a repair; the observer's thread; the proxy, a process of its own; and   *)
(* commands (jobs fail, cancel, runtime start and stop), which settle a    *)
(* job without asking the other three.  A worker that is killed by its     *)
(* time-out lives on: only the docker client is killed.                    *)
(***************************************************************************)
EXTENDS Integers, Sequences, SequencesExt

CONSTANTS
    Jobs,
    Requests,        \* requests the proxy may be serving at one time
    Proxies,
    Home,            \* the proxy of the resource the worker requires
    Served,          \* proxies the proxy process has an adapter for
    ProxyKind,       \* proxy -> "local", "openai" or "subscription"
    Outcomes,        \* how a container may end: [rc, log]
    EvidenceKept,    \* the proxy has a log root and logs bodies; failures are classified by it
    ExternalProbe,   \* an injected liveness probe; by default the thread is probed
    Lifetime,        \* time-out of an attempt
    MaxAttempts, MaxClock, MaxCrashes

Kinds == {"local", "openai", "subscription"}
Signatures == {"none", "doom_loop", "timed_out", "missing_tool", "denied", "context_length"}

ASSUME JobsAssumption == Jobs # {}
ASSUME ProxiesAssumption == Home \in Proxies /\ Served \subseteq Proxies
ASSUME KindAssumption == ProxyKind \in [Proxies -> Kinds]
ASSUME OutcomesAssumption == Outcomes \subseteq [rc : Nat, log : Signatures]
ASSUME ProbeAssumption == ExternalProbe \in BOOLEAN /\ EvidenceKept \in BOOLEAN
ASSUME BoundsAssumption ==
    /\ Lifetime \in Nat \ {0} /\ MaxAttempts \in Nat \ {0}
    /\ MaxClock \in Nat /\ MaxCrashes \in Nat

VARIABLES
    clock,
    status,     \* job -> status of its record
    attempts,   \* job -> attempts admitted
    failure,    \* job -> the failure written to its record
    leases,     \* jobs that hold the resource
    sessions,   \* session files
    run,        \* job -> the executor's run
    handler,    \* jobs with a completion in submit
    worker,     \* job -> attempt its container was started for, 0: no container
    box,        \* job -> result_box of the run
    obs,        \* job -> the observer's thread
    exited,     \* jobs whose exit event is set
    command,    \* job -> how far a command has settled it, its attempts up to which, and
                \* (a ghost) whether a run has taken the lease again after that
    req,        \* requests at the proxy
    serving,    \* the proxy process is up
    rejected,   \* job -> first rejection logged for it
    upstream,   \* job -> attempt with the first provider error in its transcript, or 0
    crashes,
    cut         \* ghost: attempts whose own run has ended them

recordVars == <<status, attempts, failure>>
accessVars == <<leases, sessions>>
workerVars == <<handler, worker, box, obs, exited>>
proxyVars == <<req, serving, rejected, upstream>>
miscVars == <<clock, command, crashes, cut>>
vars == <<recordVars, accessVars, run, workerVars, proxyVars, miscVars>>

(* "repair" is completion_rejected with repair_ready; "failed" stands for   *)
(* stale and cancelled, too.                                                *)
Statuses == {"pending", "running", "submitted", "rejected", "repair", "accepted", "failed"}
Terminal == {"accepted", "failed"}

RunPcs == {"idle", "loading", "leasing", "prepared", "admitted", "issued", "supervising", "joining",
           "reading", "bound", "fail_read", "fail_write", "stopping", "evidence_read",
           "evidence_write", "raising", "releasing", "revoking"}
Reasons == {"session_expired", "wrong_proxy", "lost_lease", "unknown_proxy"}
Codes == {"session.expired", "proxy.wrong", "lease.lost", "proxy.unknown",
          "provider.upstream", "tool.doom_loop", "worker.timeout", "worker.environment",
          "worker.permission", "worker.context", "unclassified"}

NoFailure == [code |-> "unclassified", of |-> 0]
NoRejection == [reason |-> "none", attempt |-> 0]
NoResult == [rc |-> -1, log |-> "none"]
Raised == [rc |-> -2, log |-> "none"]
Conflict == [rc |-> 125, log |-> "none"]   \* docker: the container's name is in use
NoCommand == [pc |-> "none", upto |-> 0, again |-> FALSE]
IdleRun == [pc |-> "idle", open |-> << >>, why |-> "end", saw |-> "pending", cause |-> NoFailure,
            deadline |-> 0]
NoRequest(j) == [pc |-> "free", job |-> j, attempt |-> 0, proxy |-> Home, late |-> "no"]

Sessions == [job : Jobs, attempt : 1..MaxAttempts, proxy : Proxies, expires : Nat]
Failures == [code : Codes, of : 0..MaxAttempts]
Rejections == [reason : Reasons \cup {"none"}, attempt : 0..MaxAttempts]
Calls == Seq(0..MaxAttempts)
Runs == [pc : RunPcs, open : Calls, saw : Statuses, why : {"exit", "end", "seen"},
         cause : Failures, deadline : Nat]
Commands == [pc : {"none", "marked", "released", "done"}, upto : 0..MaxAttempts, again : BOOLEAN]
ProxyRequests == [pc : {"free", "looked", "streaming"}, job : Jobs, attempt : 0..MaxAttempts,
                  proxy : Proxies, late : {"no", "ended", "commanded"}]

TypeOK ==
    /\ clock \in 0..MaxClock /\ crashes \in 0..MaxCrashes /\ serving \in BOOLEAN
    /\ status \in [Jobs -> Statuses]
    /\ attempts \in [Jobs -> 0..MaxAttempts]
    /\ failure \in [Jobs -> Failures]
    /\ leases \subseteq Jobs /\ sessions \subseteq Sessions
    /\ run \in [Jobs -> Runs]
    /\ handler \subseteq Jobs /\ exited \subseteq Jobs
    /\ worker \in [Jobs -> 0..MaxAttempts]
    /\ box \in [Jobs -> Outcomes \cup {NoResult, Raised, Conflict}]
    /\ obs \in [Jobs -> {"off", "watching", "dead", "notify", "done"}]
    /\ command \in [Jobs -> Commands]
    /\ req \in [Requests -> ProxyRequests]
    /\ rejected \in [Jobs -> Rejections]
    /\ upstream \in [Jobs -> 0..MaxAttempts]
    /\ cut \subseteq Jobs \X (1..MaxAttempts)

Init ==
    /\ clock = 0 /\ crashes = 0 /\ serving = FALSE
    /\ status = [j \in Jobs |-> "pending"]
    /\ attempts = [j \in Jobs |-> 0]
    /\ failure = [j \in Jobs |-> NoFailure]
    /\ leases = {} /\ sessions = {} /\ handler = {} /\ exited = {} /\ cut = {}
    /\ run = [j \in Jobs |-> IdleRun]
    /\ worker = [j \in Jobs |-> 0] /\ box = [j \in Jobs |-> NoResult]
    /\ obs = [j \in Jobs |-> "off"] /\ command = [j \in Jobs |-> NoCommand]
    /\ req = [r \in Requests |-> NoRequest(CHOOSE j \in Jobs : TRUE)]
    /\ rejected = [j \in Jobs |-> NoRejection] /\ upstream = [j \in Jobs |-> 0]

-----------------------------------------------------------------------------
(* Sessions.                                                               *)

(* Mutant: expiry is not looked at.                                         *)
ExpiredNever(s) == FALSE

Expired(s) == clock >= s.expires

NewSession(j) ==
    [job |-> j, attempt |-> attempts[j], proxy |-> Home, expires |-> run[j].deadline]

(* A subscription proxy is mounted into the container and has no session.   *)
SessionsFor(j) == IF ProxyKind[Home] = "subscription" THEN {} ELSE {NewSession(j)}

(* revoke_attempt; revoke_job when the run ended before it admitted one.    *)
WithoutAttempt(j, n) ==
    {s \in sessions : s.job # j \/ (n # 0 /\ s.attempt # n)}

WithoutJob(j) == {s \in sessions : s.job # j}

(* Whether a request of the job's worker could still reach the backend.     *)
CanCall(j) == j \in leases /\ \E s \in sessions : s.job = j /\ ~ Expired(s)

-----------------------------------------------------------------------------
(* classify_worker_failure: rejections logged for the job, then provider   *)
(* errors in its transcripts, then the worker's tools, then its exit code  *)
(* and log.  The first match decides, and the evidence of the proxy is     *)
(* that of the job, whatever attempt it was logged for.  "of" records the  *)
(* attempt.                                                                *)
CodeOfReason(reason) ==
    CASE reason = "session_expired" -> "session.expired"
      [] reason = "lost_lease"      -> "lease.lost"
      [] reason = "wrong_proxy"     -> "proxy.wrong"
      [] reason = "unknown_proxy"   -> "proxy.unknown"

CodeOfEnd(result) ==
    CASE result.log = "doom_loop"                          -> "tool.doom_loop"
      [] result.rc = 124 \/ result.log = "timed_out"       -> "worker.timeout"
      [] result.rc = 127 \/ result.log = "missing_tool"    -> "worker.environment"
      [] result.log = "denied"                             -> "worker.permission"
      [] result.log = "context_length"                     -> "worker.context"
      [] OTHER                                             -> "unclassified"

Classify(j, result) ==
    CASE rejected[j] # NoRejection ->
           [code |-> CodeOfReason(rejected[j].reason), of |-> rejected[j].attempt]
      [] rejected[j] = NoRejection /\ upstream[j] # 0 ->
           [code |-> "provider.upstream", of |-> upstream[j]]
      [] OTHER -> [code |-> CodeOfEnd(result), of |-> attempts[j]]

(* What the table of rejections and the signatures say of a retry.          *)
Retryable(code) ==
    code \notin {"lease.lost", "proxy.wrong", "proxy.unknown", "tool.doom_loop",
                 "worker.environment", "worker.permission"}

-----------------------------------------------------------------------------
(* The executor's run.  open holds the attempts of the calls of            *)
(* _run_claimed that are not yet in their finally, 0 for one that has not   *)
(* admitted an attempt.                                                    *)
At(j, pc) == run[j].pc = pc
Go(j, pc) == run' = [run EXCEPT ![j].pc = pc]
Own(j) == worker[j] # 0 /\ worker[j] = attempts[j]

SetStatus(j, s) == status' = [status EXCEPT ![j] = s]

(* The job is handed out by the daemon or named in jobs run.  runtime start *)
(* has started the proxy before.                                            *)
TakeRun(j) ==
    /\ At(j, "idle")
    /\ serving
    /\ status[j] \notin Terminal
    /\ Go(j, "loading")
    /\ UNCHANGED <<recordVars, accessVars, workerVars, proxyVars, miscVars>>

(* What a call does that returns before its try block.                      *)
Back(j) == IF run[j].open = << >> THEN "idle" ELSE "releasing"

Load(j) ==
    /\ At(j, "loading")
    /\ Go(j, IF status[j] \in Terminal THEN Back(j) ELSE "leasing")
    /\ UNCHANGED <<recordVars, accessVars, workerVars, proxyVars, miscVars>>

(* _fail_at_total_attempt_bound, before a call takes its lease or after a   *)
(* rejection whose repair the account does not allow.                       *)
BudgetSpent(j) ==
    /\ (At(j, "leasing") /\ attempts[j] = MaxAttempts) \/ At(j, "bound")
    /\ SetStatus(j, "failed")
    /\ Go(j, Back(j))
    /\ UNCHANGED <<attempts, failure, accessVars, workerVars, proxyVars, miscVars>>

(* try_acquire finds the resource with another worker: the call returns.    *)
LeaseBusy(j) ==
    /\ At(j, "leasing")
    /\ j \notin leases
    /\ Go(j, Back(j))
    /\ UNCHANGED <<recordVars, accessVars, workerVars, proxyVars, miscVars>>

(* The ghost of a lease taken after a command has released the job's.       *)
TakenAgain(j) ==
    command' = [command EXCEPT ![j].again = @ \/ command[j].pc \in {"released", "done"}]

(* Mutant: the budget is not asked for.                                     *)
TakeLeaseUnbounded(j) ==
    /\ At(j, "leasing")
    /\ leases' = leases \cup {j}
    /\ run' = [run EXCEPT ![j] = [@ EXCEPT !.pc = "prepared", !.open = Append(run[j].open, 0)]]
    /\ TakenAgain(j)
    /\ UNCHANGED <<recordVars, sessions, workerVars, proxyVars, clock, crashes, cut>>

TakeLease(j) ==
    /\ At(j, "leasing")
    /\ attempts[j] < MaxAttempts
    /\ leases' = leases \cup {j}
    /\ run' = [run EXCEPT ![j] = [@ EXCEPT !.pc = "prepared", !.open = Append(run[j].open, 0)]]
    /\ TakenAgain(j)
    /\ UNCHANGED <<recordVars, sessions, workerVars, proxyVars, clock, crashes, cut>>

(* _admit_attempt and the status running, with the attempt's deadline.      *)
Admit(j) ==
    /\ At(j, "prepared")
    /\ clock + Lifetime <= MaxClock
    /\ attempts' = [attempts EXCEPT ![j] = @ + 1]
    /\ SetStatus(j, "running")
    /\ run' = [run EXCEPT ![j] = [@ EXCEPT !.pc = "admitted", !.deadline = clock + Lifetime,
                                           !.open = Append(Front(run[j].open), attempts[j] + 1)]]
    /\ UNCHANGED <<failure, accessVars, workerVars, proxyVars, miscVars>>

(* Mutant: the session of an earlier attempt is used again.                 *)
IssueSessionOnce(j) ==
    /\ At(j, "admitted")
    /\ sessions' = IF \E s \in sessions : s.job = j THEN sessions ELSE SessionsFor(j)
    /\ Go(j, "issued")
    /\ UNCHANGED <<recordVars, leases, workerVars, proxyVars, miscVars>>

IssueSession(j) ==
    /\ At(j, "admitted")
    /\ sessions' = sessions \cup SessionsFor(j)
    /\ Go(j, "issued")
    /\ UNCHANGED <<recordVars, leases, workerVars, proxyVars, miscVars>>

(* _run_worker_monitored registers the observer and starts the thread.      *)
Launch(j) ==
    /\ At(j, "issued")
    /\ Go(j, "supervising")
    /\ obs' = [obs EXCEPT ![j] = "watching"]
    /\ exited' = exited \ {j}
    /\ IF worker[j] = 0
       THEN /\ worker' = [worker EXCEPT ![j] = attempts[j]]
            /\ box' = [box EXCEPT ![j] = NoResult]
       ELSE /\ box' = [box EXCEPT ![j] = Conflict]
            /\ UNCHANGED worker
    /\ UNCHANGED <<recordVars, accessVars, handler, proxyVars, miscVars>>

(* The thread of the run: the container ends, the client is killed at the   *)
(* time-out and the container is not, or starting it raises.                *)
WorkerReturns(j) ==
    /\ run[j].pc \in {"supervising", "joining"}
    /\ box[j] = NoResult
    /\ \E o \in Outcomes \cup {Raised} :
         /\ box' = [box EXCEPT ![j] = o]
         /\ worker' = [worker EXCEPT ![j] = IF o.rc = 124 THEN @ ELSE 0]
    /\ UNCHANGED <<recordVars, accessVars, run, handler, obs, exited, proxyVars, miscVars>>

(* The container is gone and the docker client does not return.             *)
WorkerVanishes(j) ==
    /\ At(j, "supervising") /\ Own(j) /\ box[j] = NoResult
    /\ worker' = [worker EXCEPT ![j] = 0]
    /\ UNCHANGED <<recordVars, accessVars, run, handler, box, obs, exited, proxyVars, miscVars>>

(* The monitor's loop: the exit event is looked at before the thread.       *)
SeeExit(j) ==
    /\ At(j, "supervising")
    /\ j \in exited
    /\ run' = [run EXCEPT ![j] = [@ EXCEPT !.pc = "fail_read", !.why = "exit",
                                           !.cause = Classify(j, NoResult)]]
    /\ UNCHANGED <<recordVars, accessVars, workerVars, proxyVars, miscVars>>

(* The loop is left and the observer unregistered.  Without a result the    *)
(* run returns; an exception fails the job; a result is read further once   *)
(* the wait for the completion is over, at its deadline at the latest.      *)
LeaveLoop(j) ==
    /\ \/ At(j, "supervising") /\ j \notin exited /\ box[j] # NoResult
       \/ At(j, "joining")
    /\ obs' = [obs EXCEPT ![j] = "off"]
    /\ exited' = exited \ {j}
    /\ Go(j, CASE box[j] = Raised   -> "raising"
               [] box[j] = NoResult -> "releasing"
               [] OTHER             -> "reading")
    /\ UNCHANGED <<recordVars, accessVars, handler, worker, box, proxyVars, miscVars>>

(* The status after the run.  A repair runs in the same call.               *)
ReadOutcome(j) ==
    /\ At(j, "reading")
    /\ run' = [run EXCEPT ![j] = [@ EXCEPT
          !.pc = CASE status[j] \in {"accepted", "rejected"} -> "releasing"
                      [] status[j] = "repair" ->
                           IF attempts[j] < MaxAttempts THEN "loading" ELSE "bound"
                      [] status[j] = "failed"                   -> "evidence_read"
                      [] OTHER                                  -> "fail_read",
          !.why = IF status[j] = "failed" THEN "seen" ELSE "end",
          !.cause = IF status[j] \in {"pending", "running", "submitted"}
                       THEN Classify(j, box[j]) ELSE NoFailure]]
    /\ UNCHANGED <<recordVars, accessVars, workerVars, proxyVars, miscVars>>

AfterFailure(j) == IF run[j].why = "exit" THEN "joining" ELSE "releasing"

(* _fail_worker.                                                            *)
FailRead(j) ==
    /\ At(j, "fail_read")
    /\ Go(j, IF status[j] \in Terminal \cup {"submitted"} THEN AfterFailure(j) ELSE "fail_write")
    /\ UNCHANGED <<recordVars, accessVars, workerVars, proxyVars, miscVars>>

FailWrite(j) ==
    /\ At(j, "fail_write")
    /\ SetStatus(j, "failed")
    /\ failure' = [failure EXCEPT ![j] = run[j].cause]
    /\ run' = [run EXCEPT ![j] = [@ EXCEPT
          !.pc = IF run[j].why = "exit" THEN "stopping" ELSE "evidence_read",
          !.cause = NoFailure]]
    /\ UNCHANGED <<attempts, accessVars, workerVars, proxyVars, miscVars>>

(* _stop_worker is best effort.                                             *)
StopWorker(j) ==
    /\ At(j, "stopping")
    /\ worker' \in {worker, [worker EXCEPT ![j] = 0]}
    /\ Go(j, "evidence_read")
    /\ UNCHANGED <<recordVars, accessVars, handler, box, obs, exited, proxyVars, miscVars>>

(* _preserve_failure_evidence writes back the status it has read.           *)
ReadForEvidence(j) ==
    /\ At(j, "evidence_read")
    /\ run' = [run EXCEPT ![j] = [@ EXCEPT !.pc = "evidence_write", !.saw = status[j]]]
    /\ UNCHANGED <<recordVars, accessVars, workerVars, proxyVars, miscVars>>

WriteEvidence(j) ==
    /\ At(j, "evidence_write")
    /\ SetStatus(j, run[j].saw)
    /\ leases' = IF run[j].why = "seen" THEN leases ELSE leases \ {j}
    /\ run' = [run EXCEPT ![j] = [@ EXCEPT !.pc = AfterFailure(j), !.saw = "pending"]]
    /\ UNCHANGED <<attempts, failure, sessions, workerVars, proxyVars, miscVars>>

(* An exception inside the try block, or a return through _fail_before_run, *)
(* fails the job, whatever its status has become.                           *)
Breaks(j) ==
    /\ run[j].pc \in {"prepared", "admitted", "issued", "reading", "raising"}
    /\ SetStatus(j, "failed")
    /\ Go(j, "releasing")
    /\ UNCHANGED <<attempts, failure, accessVars, workerVars, proxyVars, miscVars>>

(* finally, of the innermost call first; its local variables are gone.      *)
ReleaseLease(j) ==
    /\ At(j, "releasing")
    /\ leases' = leases \ {j}
    /\ run' = [run EXCEPT ![j] = [IdleRun EXCEPT !.pc = "revoking", !.open = run[j].open]]
    /\ box' = [box EXCEPT ![j] = NoResult]
    /\ UNCHANGED <<recordVars, sessions, handler, worker, obs, exited, proxyVars, miscVars>>

Revoke(j) ==
    LET n == Last(run[j].open)
    IN  /\ At(j, "revoking")
        /\ sessions' = WithoutAttempt(j, n)
        /\ cut' = IF n = 0 THEN cut ELSE cut \cup {<<j, n>>}
        /\ run' = [run EXCEPT ![j] =
              IF Len(run[j].open) = 1 THEN IdleRun
              ELSE [@ EXCEPT !.pc = "releasing", !.open = Front(run[j].open)]]
        /\ UNCHANGED <<recordVars, leases, workerVars, proxyVars, clock, command, crashes>>

RunStep(j) ==
    \/ Load(j) \/ BudgetSpent(j) \/ LeaseBusy(j) \/ TakeLease(j) \/ Admit(j) \/ IssueSession(j)
    \/ Launch(j) \/ SeeExit(j) \/ LeaveLoop(j) \/ ReadOutcome(j) \/ FailRead(j)
    \/ FailWrite(j) \/ StopWorker(j) \/ ReadForEvidence(j) \/ WriteEvidence(j)
    \/ Breaks(j) \/ ReleaseLease(j) \/ Revoke(j)

-----------------------------------------------------------------------------
(* The observer's thread.  By default it asks whether the run's own thread   *)
(* lives, and every command of the program leaves it at that: it then never  *)
(* reports an end the run does not know.  A probe of the container, which    *)
(* the executor's constructor takes, adds the reports, and no other step     *)
(* looks at the observer.  It holds its lock over a check, so that a check   *)
(* that has begun is finished after unregister; what it then reports goes to *)
(* a run that has ended.                                                    *)
ProbeAlive(j) == IF ExternalProbe THEN Own(j) ELSE box[j] = NoResult

ObserverProbes(j) ==
    /\ obs[j] = "watching"
    /\ ~ ProbeAlive(j)
    /\ obs' = [obs EXCEPT ![j] = "dead"]
    /\ UNCHANGED <<recordVars, accessVars, run, handler, worker, box, exited, proxyVars, miscVars>>

ObserverReads(j) ==
    /\ obs[j] = "dead"
    /\ obs' = [obs EXCEPT ![j] = CASE status[j] \in Terminal     -> "done"
                                   [] status[j] = "submitted" -> "watching"
                                   [] OTHER                   -> "notify"]
    /\ UNCHANGED <<recordVars, accessVars, run, handler, worker, box, exited, proxyVars, miscVars>>

(* on_exited: a run that has a result is left to the run.                   *)
ObserverNotifies(j) ==
    /\ obs[j] = "notify"
    /\ obs' = [obs EXCEPT ![j] = "done"]
    /\ exited' = IF box[j] = NoResult THEN exited \cup {j} ELSE exited
    /\ UNCHANGED <<recordVars, accessVars, run, handler, worker, box, proxyVars, miscVars>>

ObserverStep(j) == ObserverProbes(j) \/ ObserverReads(j) \/ ObserverNotifies(j)

-----------------------------------------------------------------------------
(* The completion of the worker: submit marks the job, and gives a verdict  *)
(* later, in a thread of the executor's process.                            *)
Submit(j) ==
    /\ At(j, "supervising") /\ Own(j)
    /\ status[j] \in {"running", "repair"}
    /\ SetStatus(j, "submitted")
    /\ handler' = handler \cup {j}
    /\ UNCHANGED <<attempts, failure, accessVars, run, worker, box, obs, exited,
                   proxyVars, miscVars>>

Verdict(j) ==
    /\ j \in handler
    /\ \E s \in {"accepted", "rejected", "repair"} : SetStatus(j, s)
    /\ handler' = handler \ {j}
    /\ UNCHANGED <<attempts, failure, accessVars, run, worker, box, obs, exited,
                   proxyVars, miscVars>>

-----------------------------------------------------------------------------
(* The proxy.                                                              *)
Free(r) == req' = [req EXCEPT ![r] = NoRequest(req[r].job)]

(* _log_rejection appends; only the first line of a job is ever used.       *)
LogRejection(j, reason, n) ==
    rejected' = [rejected EXCEPT ![j] =
        IF EvidenceKept /\ @ = NoRejection THEN [reason |-> reason, attempt |-> n] ELSE @]

(* check_backend_readiness of one proxy: home says whether the directory of *)
(* a subscription is there, key whether the API key can be had, answer      *)
(* whether GET /models answers with 2xx.                                    *)
BackendReady(p, home, key, answer) ==
    CASE ProxyKind[p] = "subscription" -> home
      [] ProxyKind[p] = "openai"       -> key /\ answer
      [] OTHER                         -> answer

(* model-proxy serve starts only when every backend is ready.               *)
ServeStarts ==
    /\ ~ serving
    /\ \E home, key, answer \in BOOLEAN : \A p \in Proxies : BackendReady(p, home, key, answer)
    /\ serving' = TRUE
    /\ UNCHANGED <<recordVars, accessVars, run, workerVars, req, rejected, upstream, miscVars>>

(* Whether an attempt has been settled already: by the end of its own run,  *)
(* or by a command that has done all its writes.                            *)
Late(j, n) ==
    CASE <<j, n>> \in cut -> "ended"
      [] <<j, n>> \notin cut /\ command[j].pc = "done" /\ n <= command[j].upto -> "commanded"
      [] OTHER -> "no"

(* forward looks the token up, without the store's lock.  An expired session *)
(* is deleted on its first use.  An unknown one leaves no trace that names   *)
(* a job, and nothing changes.                                              *)
Arrive(r, j, p) ==
    /\ serving
    /\ req[r].pc = "free"
    /\ worker[j] # 0
    /\ \E s \in sessions :
         /\ s.job = j /\ s.attempt = worker[j]
         /\ IF Expired(s)
            THEN /\ sessions' = sessions \ {s}
                 /\ LogRejection(j, "session_expired", s.attempt)
                 /\ UNCHANGED req
            ELSE /\ req' = [req EXCEPT ![r] =
                       [pc |-> "looked", job |-> j, attempt |-> s.attempt, proxy |-> p,
                        late |-> Late(j, s.attempt)]]
                 /\ UNCHANGED <<sessions, rejected>>
    /\ UNCHANGED <<recordVars, leases, run, workerVars, serving, upstream, miscVars>>

(* Mutant: the lease is not asked for.                                      *)
RefusalNoLease(q) ==
    CASE q.proxy # Home      -> "wrong_proxy"
      [] q.proxy \notin Served -> "unknown_proxy"
      [] OTHER               -> "none"

Refusal(q) ==
    CASE q.proxy # Home         -> "wrong_proxy"
      [] q.job \notin leases    -> "lost_lease"
      [] q.proxy \notin Served  -> "unknown_proxy"
      [] OTHER                  -> "none"

Refuse(r) ==
    /\ req[r].pc = "looked"
    /\ Refusal(req[r]) # "none"
    /\ LogRejection(req[r].job, Refusal(req[r]), req[r].attempt)
    /\ Free(r)
    /\ UNCHANGED <<recordVars, accessVars, run, workerVars, serving, upstream, miscVars>>

Forward(r) ==
    /\ req[r].pc = "looked"
    /\ Refusal(req[r]) = "none"
    /\ req' = [req EXCEPT ![r].pc = "streaming"]
    /\ UNCHANGED <<recordVars, accessVars, run, workerVars, serving, rejected, upstream, miscVars>>

(* The backend's answer, its error or, when it cannot be reached, a 502; the *)
(* transcript is written when the last chunk has been sent.                 *)
Answer(r) ==
    LET q == req[r]
    IN  /\ q.pc = "streaming"
        /\ \E error \in {FALSE, EvidenceKept} :
             upstream' = [upstream EXCEPT ![q.job] = IF error /\ @ = 0 THEN q.attempt ELSE @]
        /\ Free(r)
        /\ UNCHANGED <<recordVars, accessVars, run, workerVars, serving, rejected, miscVars>>

-----------------------------------------------------------------------------
(* jobs fail and cancel, runtime start and stop: the record, then the lease, *)
(* then the sessions.  runtime stop removes the container first.  One such   *)
(* command per job.                                                         *)
CommandMarks(j) ==
    /\ command[j].pc = "none"
    /\ status[j] # "failed"
    /\ SetStatus(j, "failed")
    /\ worker' \in {worker, [worker EXCEPT ![j] = 0]}
    /\ command' = [command EXCEPT ![j] = [@ EXCEPT !.pc = "marked", !.upto = attempts[j]]]
    /\ UNCHANGED <<attempts, failure, accessVars, run, handler, box, obs, exited,
                   proxyVars, clock, crashes, cut>>

CommandReleases(j) ==
    /\ command[j].pc = "marked"
    /\ leases' = leases \ {j}
    /\ command' = [command EXCEPT ![j].pc = "released"]
    /\ UNCHANGED <<recordVars, sessions, run, workerVars, proxyVars, clock, crashes, cut>>

CommandRevokes(j) ==
    /\ command[j].pc = "released"
    /\ sessions' = WithoutJob(j)
    /\ command' = [command EXCEPT ![j].pc = "done"]
    /\ UNCHANGED <<recordVars, leases, run, workerVars, proxyVars, clock, crashes, cut>>

(* A context load frees the leases of jobs it does not count as active; a    *)
(* completion under validation is not.                                      *)
Reclaim ==
    /\ leases' = {j \in leases : status[j] \in {"pending", "running", "rejected", "repair"}}
    /\ UNCHANGED <<recordVars, sessions, run, workerVars, proxyVars, miscVars>>

(* A container that no run supervises ends by itself.                       *)
OrphanEnds(j) ==
    /\ worker[j] # 0
    /\ ~ (run[j].pc \in {"supervising", "joining"} /\ Own(j) /\ box[j] = NoResult)
    /\ worker' = [worker EXCEPT ![j] = 0]
    /\ UNCHANGED <<recordVars, accessVars, run, handler, box, obs, exited, proxyVars, miscVars>>

(* The daemon dies with the run, the observer and the thread in submit.     *)
Crash(j) ==
    /\ crashes < MaxCrashes
    /\ ~ At(j, "idle")
    /\ crashes' = crashes + 1
    /\ run' = [run EXCEPT ![j] = IdleRun]
    /\ handler' = handler \ {j}
    /\ obs' = [obs EXCEPT ![j] = "off"]
    /\ exited' = exited \ {j}
    /\ box' = [box EXCEPT ![j] = NoResult]
    /\ UNCHANGED <<recordVars, accessVars, worker, proxyVars, clock, command, cut>>

Tick ==
    /\ clock < MaxClock
    /\ clock' = clock + 1
    /\ UNCHANGED <<recordVars, accessVars, run, workerVars, proxyVars, command, crashes, cut>>

Next ==
    \/ \E j \in Jobs :
         \/ TakeRun(j) \/ RunStep(j) \/ WorkerReturns(j) \/ WorkerVanishes(j) \/ OrphanEnds(j)
         \/ ObserverStep(j) \/ Submit(j) \/ Verdict(j) \/ Crash(j)
         \/ CommandMarks(j) \/ CommandReleases(j) \/ CommandRevokes(j)
         \/ \E r \in Requests, p \in Proxies : Arrive(r, j, p)
    \/ \E r \in Requests : Refuse(r) \/ Forward(r) \/ Answer(r)
    \/ ServeStarts \/ Reclaim \/ Tick

(* Threads and commands run on, a verdict is reached, time passes.  Nothing  *)
(* is assumed of the docker client, the worker, the proxy or context loads.  *)
Fairness ==
    /\ WF_vars(Tick)
    /\ \A j \in Jobs :
         /\ WF_vars(RunStep(j)) /\ WF_vars(ObserverStep(j)) /\ WF_vars(Verdict(j))
         /\ WF_vars(CommandReleases(j) \/ CommandRevokes(j))

Spec == Init /\ [][Next]_vars /\ Fairness

-----------------------------------------------------------------------------
(* A request that comes in after its attempt has been settled reaches the   *)
(* backend no more, although the worker may live on: the end of the run has  *)
(* revoked the attempt's session for good, whatever the other runs of the    *)
(* job issue and revoke; and after a command, which may revoke before the    *)
(* session is issued, the missing lease stops it, until a run of the job     *)
(* takes the lease again.                                                   *)
SettledAttemptCutOff ==
    \A r \in Requests : req[r].pc = "streaming" =>
        /\ req[r].late # "ended"
        /\ req[r].late = "commanded" => command[req[r].job].again

(* A supervised worker keeps a usable credential up to the deadline of its  *)
(* attempt, whatever earlier calls of the run revoke: the session does not   *)
(* run out first, and only a command takes it away.                         *)
CredentialOutlivesAttempt ==
    \A j \in Jobs :
        (/\ At(j, "supervising") /\ Own(j) /\ ProxyKind[Home] # "subscription"
         /\ clock < run[j].deadline /\ command[j].pc = "none")
        => \E s \in sessions : s.job = j /\ s.attempt = attempts[j] /\ ~ Expired(s)

(* The access of a job's worker to the backend ends after the job has,      *)
(* also when the daemon dies between the two and nobody revokes the session. *)
AccessEnds ==
    \A j \in Jobs :
        status[j] \in Terminal ~> (~ CanCall(j) \/ status[j] \notin Terminal)

(* A failure that keeps the scheduler from a retry has its cause in the      *)
(* attempt that failed.  The code does not keep this: the evidence of the    *)
(* proxy is that of the job, and its first line decides.                     *)
BlockingCauseIsOfThisAttempt ==
    \A j \in Jobs : ~ Retryable(failure[j].code) => failure[j].of = attempts[j]
=============================================================================
