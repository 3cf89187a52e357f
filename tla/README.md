# open-tulid: a TLA+ development of the job runtime

open-tulid drives coding agents through the states of tasks that live in a
Markdown vault.  A workflow file says which states and transitions there are.
A scheduler daemon finds a task transition that is due, an executor runs an
agent for it in a container with a credential for a model backend, the agent
hands in its work over HTTP, and a completion service seals the candidate,
verifies it and applies it to repository and vault as one journaled acceptance.
Everything the processes share is files: job records, journals, leases,
sessions, locks, the board and the notes.  This directory models that runtime.

Paths below are relative to `src/open_tulid/` unless they begin with `docs/`,
`tests/`, `workflow_engine/` or `README.md`.

## 1. Inventory

| component | state it keeps | operations | talks to |
| --- | --- | --- | --- |
| resource leases, `runtime/resources.py` | `<root>/<resource>/leases/<job>.json`, the flock `.lock` | `try_acquire`, `admit`, `release_job`, `release_inactive_reservations` | scheduler and executor (calls), every context load (reclaim) |
| job store, `runtime/jobs.py`, and attempt account, `runtime/attempts.py` | one JSON record per job: status, attempts, attempt records, repair fields, answered submissions; a store lock; one execution lock per job | `create`, `update_status`, `record_attempt`, `settle_interrupted_attempts`, `find_active`, `count_consumed_attempts` | everybody, as shared state |
| executor, `runtime/executor.py`, `runtime/repairs.py` | its copy of the job, the claim, the worker container, the completion endpoint | `run`: claim, budget, lease, admission, launch, wait, `_fail_worker`, repair loop, settlement | job store, leases, sessions, observer, containers, completion service |
| model proxy, `runtime/model_proxy.py` | session files, transcripts, logged rejections | issue, check of a request, forward, expire, revoke | executor (issue), commands (revoke), leases (check) |
| observability, `runtime/observability.py` | one registration per running job | register, probe, notify once, unregister | executor's result box and exit event |
| failure classification, `runtime/failures.py` | none: reads what the proxy logged | `classify_worker_failure`, retryable codes | executor, scheduler |
| baseline and workspaces, `runtime/repository_facts.py`, `workspaces.py`, `baseline.py`, `planning_inputs.py` | the frozen contract of a job, its snapshot, its workspace | source selection, manifest, snapshot, prepare, refresh of the selection | task manager (creation), executor (launch), all that compare trees |
| candidate, `runtime/candidate.py` | the stored copy and its record | `capture_candidate`, seal, compare with the baseline | completion; the worker's workspace, which goes on changing |
| verifier and contracts, `runtime/verifier.py`, `verification_runtime.py`, `execution_contracts.py`, `standard_contracts.py` | verification copy, report | the frozen commands in order, stop rules, verdict | completion |
| completion service, `runtime/completion.py`, `completion_http.py` | threads in `submit`, publication lock, acceptance journals, the vault's task | `submit`, rejection, plan, check of the target, acceptance, `recover_completion_transactions` | job store, transaction runtime, verifier, repository |
| transaction runtime, `runtime/transactions.py`, `runtime/events.py` | journals, event log, and what the effects write: repository, artifacts, vault | `apply`: prepare, effects, validation, commit or compensation | completion, scheduler, task manager |
| scheduler, `runtime/scheduler.py` | scheduler lock, backoff evidence, creation journals | `schedule_one`, repair hand-out, `recover_job_creation_transactions` | leases, job store |
| daemon and commands, `cli/main.py` | pid file, process | `jobs daemon/run/fail/cancel/restart`, `runtime start/stop`, `transition`, context loads | all of the above |
| task manager, `runtime/task_manager.py`, `acceptance.py` | the task's Markdown file | `request_transition`, `create_execution_job`, acceptance evidence | transactions, vault, the workflow definition |
| workflow language, `workflow_engine/` | none | load, validate a document | compiler |
| workflow compiler and registry, `workflow/` | a cache of the last result | registries, checks, compilation to a definition | scheduler, task manager, adapter |
| vault, `adapters/obsidian.py`, `vault/` | board files, notes | load, move, repair, create a task | task manager, completion, `vault validate --fix`; users in Obsidian |
| prompts, validation implementations, images, configuration, display | none of their own over time | rendering, single checks, I/O | executor, verifier |

**What is hard.**  Executors, handler threads, context loads and operator
commands read a record, decide and write it back; `update_status` looks at
nothing but the record's existence, so whatever was written in between is
overwritten.  Any process may be killed between two file operations while its
worker container goes on, and a worker killed by its time-out goes on too: only
the docker client is.  A completion may arrive when its job has already failed.
A worker writes to its workspace while the workspace is copied; the user edits,
commits and reconfigures the repository at any time, and moves cards and edits
the workflow file while moves decided by it are under way.  An acceptance is
several effects with a journal around them.  The limit on worker starts has to
hold over jobs, repairs, crashes and restarts.

**What makes the components correct.**

* leases: no resource oversubscribed; leases of a job all or none; what a crash
  leaves is freed again.
* attempts: worker starts bounded; every start has a durable record.
* jobs: one active job per task and transition; final statuses are final.
* sessions: an attempt that is settled is cut off from the backend, one that is
  supervised keeps its credential; access ends with the job, whoever died.
* candidate: one state of the workspace, whatever the worker writes meanwhile.
* delivery: what is delivered is what was verified, by every command frozen
  with the job; nothing the user changed under the job is overwritten.
* completion: one acceptance; what says accepted was delivered; a prepared
  acceptance is completed; a submission has one verdict, and it is kept.
* acceptance: committed at most once and with every effect in place; nothing a
  user changed is overwritten; recovery ends, in an acceptance or a conflict.
* scheduler: one active job per repository; a started task is brought to its
  end before another begins; a dependent waits for a delivery, not for a card;
  a bounded number of attempts per revision; no task that is due is forgotten.
* workflow: a file means one thing to every layer that reads it: what the
  loader and the compiler let through is what the file says.
* board: a move, once written, is read back as the state it was made to; a task
  reaches success by hand only after its work was accepted.

`PROJECT.json` lists the hazards one by one, each at its line.

## 2. Modules

```
LeaseTable
  (implemented by)
ResourceLeases ------ MCResourceLeases          JobStore
      |                                        /        \
ResourceLeasesProofs                   JobExecutor   CompletionService
                                               \        /
                                               JobRuntime --- MCJobRuntime
                                                    |
                                             JobRuntimeProofs
                                                    |
                                             JobWaitingProofs

AcceptanceLedger <-- AcceptanceTransaction --- MCAcceptanceTransaction
  (implemented by)            |
                  AcceptanceTransactionProofs

Scheduler --- MCScheduler            WorkerSession --- MCWorkerSession
    |                                      |
SchedulerProofs                     WorkerSessionProofs

SourceSelection <- JobInputs <- CandidateCapture <- CandidateVerification
                                                           ^
                                     MCDelivery -------> Delivery <- DeliveryProofs

WorkflowDocument <- WorkflowDefinition <- ObsidianBoard <- TaskMoves --- MCTaskMoves
                                                               |
                                                        TaskMovesProofs
```

An arrow or a line downwards is `EXTENDS`.  Three chains are composed from the
bottom up: `JobRuntime` (records, executor and completion of the jobs of one
transition), `Delivery` (the content of one job from its creation to its
integration) and `TaskMoves` (a workflow file from its text to the moves on the
board).

**`ResourceLeases`** models `runtime/resources.py` together with the callers
that give its operations a meaning: the scheduler's admission, the executor's
acquisition and release, and the reclaim at every context load.  `leases` is
the set of lease files as pairs `<<resource, job>>`; `holder` is the flock;
`op[p]` is the operation a process is in.  Lease files are written and unlinked
one step each, since a process killed in between leaves exactly those files.
`Scan` lists the active jobs *before* `StartReclaim` takes the lock, as
`_runtime_project_context` does.  `status` refines the record's status where it
matters to a lease (see the comment in the module).

**`LeaseTable`** is what the lease store promises, without files, processes and
a lock: `Grant` gives a job everything it needs in one step, where there is room
for all of it; `Free` takes everything from any set of jobs; and a crash may tear
a job that held nothing or all, within its needs and the capacities.
`ResourceLeases` implements it with `table <- Granted`: what a lock section is
writing counts as granted from the start of the section, what it is removing as
free from its start.

**`JobStore`** holds the records, `jobs`, and the store's operations.  All
`Jobs` belong to one project, task, transition and semantic revision: this is
the set over which `find_active` and the account range.  Each operation holds
the store's lock for its whole read-modify-write and is one step; a caller that
reads and writes back later is two steps in its own module.

**`JobExecutor`** is `JobExecutor.run`.  `exec[e].pc` names the place between
two accesses to shared state, the other fields are what the code keeps in local
variables (the attempt number, whether it runs a repair, the copied repair
counter, the status it will write back with the evidence of a failure, the
attempts it will settle).  `claim` is the execution flock, `alive`
the running containers, `launches` a ghost that counts container starts.

**`CompletionService`** is `submit` and the recovery.  A thread's record holds
what `submit` keeps between reading the job and writing it: the status it
`saw`, the `answers` it will extend, the repair counter.  `journal` is the
acceptance journal per job and submission; `told` is a ghost that collects the
verdicts replied.  `task` is the task's state in the vault, moved by the last
effect.  `loader` is a context load in `recover_completion_transactions`.

**`JobRuntime`** composes them.  It adds the scheduler's decision and creation
under the scheduler lock, `jobs run`, `fail`, `cancel`, `restart`, `runtime
start` and `stop`, processes that die, and `host`, the executor whose endpoint
runs a thread (so that a thread dies with its process).

**`AcceptanceTransaction`** takes the one step `ApplyEffects` of
`CompletionService` apart: `FileTransactionRuntime.apply` with the effects,
compensation and final validation of `completion.py`, the writes of the vault
adapter, and `recover_completion_transactions`.  `at[i]` is what effect `i`
finds where it is to write: the recorded state before, half of two files, the
intended state, the same with the links beside it changed by a user, or something
a user has made of it.  `Plan` is the list of
effects as `submit` orders it.  Two agents apply effects, `submit` and
`recovery`; `agent[a]` is the place in the code and the effect it is at.
Faults are crashes and failing effects, appends, commits and compensations.

**`AcceptanceLedger`** is what an acceptance promises, in five actions: until
it is closed anything may be in place, it is closed once and only when
everything is, afterwards only users change what was delivered, and the job is
told accepted only after that.  `AcceptanceTransaction` instantiates it as
`Ledger`, with the items in place as a function of `at` and `published`, and
`DeliversAtomically` is its specification.

**`Scheduler`** widens the view from one transition of one task to a board: a
tick of `jobs daemon` or `jobs run-one` from the context load to the job it
hands out.  `vault` is the state and semantic revision of each task, `jobs` the
records with the journals of their creation and delivery, `lock` the scheduler
flock, `op[s]` the place of a process in its tick with what it has read: the
journals it is to recover (`todo`), the failures that are older than its
session (`past`), the snapshot of the vault (`view`), the tasks still to
consider (`queue`).  The board gives each task a place, and the code's loops in
board order take the task with the first place (`First`).  Decisions on a task use
`view` for the vault and `jobs` as they are; `Create` is
`TaskManager.create_execution_job`, which reads the vault again, and the prepare
of the creation journal; the record and the commit are steps of their own, so that
a process may die between them.  Of a run it keeps what the scheduler can see,
under the job's execution lock (`Claimed`): the read of the status, the look at
the account (`Permit`), the admission and the write of `running` (`Admit`,
`StartWorker`, which look at nothing), a failure before the worker starts or after
it with its cause, a rejection with the repair in place while the account has
room, and the three steps of a delivery.

**`WorkerSession`** is the time in which a worker runs, which `JobExecutor` has
as one state.  Four parties act on one job: the executor's `run`, whose `open`
holds the nested calls of `_run_claimed` that have not reached their `finally`
(a repair is a call inside a call); the observer's thread; the proxy, a process
of its own that serves a request in three steps (look at the session, forward,
answer); and commands, which settle a job in three writes (status, lease,
session) without asking the other three.  `sessions` are the session files with
their expiry on `clock`, `box` is `result_box`, `exited` the exit event.
`Classify` is `classify_worker_failure`: it reads what the proxy has logged for
the job.  Three ghosts say when an attempt is over: `cut` has the attempts their
own run has ended, `command[j].again` says whether a run has taken the lease
since a command released it, and the `late` of a request which of the two ends,
if any, its attempt had met when the request looked at its session.

**`SourceSelection`** is the rule by which `repository_facts.py` decides which
files of a tree are source (tracked, or neither ignored nor a cache), with
`Manifest`, the view of a tree under a selection, and `Refresh`, the rule applied
to a tree other than the one it was frozen for.  **`JobInputs`** adds the user
(edits, commits, `contract.yaml`) and what a job freezes when it is created, in
the scans the code makes one after the other, and the workspace made at launch.
**`CandidateCapture`** is `capture_candidate`: scan, copy file by file, scan,
record, scan, with a worker that writes in between.  **`CandidateVerification`**
copies the candidate by the rules of `verification_runtime.py` and runs the
frozen commands, which may write to the copy.  A call of git may fail wherever git
is asked (`outages`): when the rule of a tree is discovered, HEAD is read or the
tree is compared with it.  **`Delivery`** plans deletes and
promotions, checks the target, applies them one by one (`plan` has what is left of
each; deletes go first, both in the order of the paths), commits and takes the
last look.  A tree maps the paths to contents; `repo`, `ws`, `storage` and
`copy` are the four trees a job has.

**`WorkflowDocument`** is the loader and the validation of `workflow_engine`: a
document is its statements, each with the nodes the grammar rows are matched
against.  **`WorkflowDefinition`** is the compiler, the registries and the
adapter's configuration: `Usable` are the documents that pass, `Definitions` what
is made of them.  **`ObsidianBoard`** is the adapter: what a board shows under a
definition, whether the vault loads, what a move writes.  **`TaskMoves`** has the
four programs that move tasks: `tulid transition`, the daemon's acceptance,
recovery and `vault validate --fix`, each working to its end by the definition
it has loaded, while users move cards and rewrite the workflow file.

The module comments say which lines each operation stands for in words;
`PROJECT.json` has the line ranges.  Operators commented "Mutant" are wrong
versions of the definition that follows them, used to see that each property
can fail; no specification uses them.

### What is abstracted

* A candidate's content is its verdict: `pass`, `fail` or an exception.
  `pass` may still be turned down (shadowed artifact, moved target).
* In `CompletionService` the effects of an acceptance are one step, the move of
  the task; the order prepare, effects, commit, status is kept, and
  compensation does not undo it.  `AcceptanceTransaction` has them one by one.
* In `AcceptanceTransaction`: contents are one of the four values of `at`; the
  events are one item; artifacts did not exist before; a user who restores
  exactly what was there before cannot be told from an effect not yet applied
  and is left out, and so are edits in the moments an agent is putting effects
  in place (recovery looks for conflicts once, before it begins).  The write of
  the `failed` status does not fail; recovery treats `prepared` and `failed`
  alike.
* `Scheduler` has the serial mode only (the default), one type of task, a board
  whose order stays, one action for a user's move and one for a rewrite that
  changes the semantic revision.  The check that the repository has not moved
  since a dependency's delivery and contracts that do not compile are left out:
  both only withhold a task, or end the daemon as any error of a tick does.  A
  delivery that fails is in `AcceptanceTransaction`, a record that is
  overwritten in `JobRuntime`; in `Scheduler` deliveries succeed.
  Five things are one step each: the mark `completion_submitted` with the
  prepare of the journal, the effects of a delivery with their commit, the
  reconciliation of all jobs by `runtime start`, which happens while no daemon of
  the project is up, the read of a rejected job with the account before its
  repair, and a failure that a run settles with the look at the status before it
  (`JobExecutor` has the last two apart).  The context load inside `run_job` is
  the one of the tick.
* Whether a resource is busy is a choice (`LeaseBusy`) in `JobExecutor` and
  `Scheduler`, where it stands also for a task that cannot be read; how it becomes
  busy is `ResourceLeases`.
* A write of one JSON file is atomic (`_atomic_write_json` renames).
* In `JobExecutor` whether the task can be read and the workflow has the job's
  transition is a choice (`LoadRefused`), and so is whether a failed worker has
  left a workspace to keep evidence in (`EvidenceSkipped`).
* In `WorkerSession` logs are given as the signature found in them; HTTP and the
  backends' adapters are left out; the completion service is the two steps
  `Submit` and `Verdict`, and recovery is left to `JobRuntime`.
* In the chain of `Delivery` a content is the author and the number of a write,
  so that no two writes give the same bytes (a file that changes and changes back
  between two scans is left out); modes are part of the content; paths under
  `.git` and `.open-tulid` are no paths; a later `.gitignore` ignores nothing
  that the first one ignores.  Journal, crashes and records are in
  `AcceptanceTransaction` and `JobRuntime`.
* In the chain of `TaskMoves` YAML syntax, source positions and the order and
  wording of diagnostics are left out (every diagnostic refuses the file); the
  lines within a column too; notes and boards parse.  A move is two steps, the
  read of the vault with the write of the note, and the write of the board: the
  note decides nothing later.  The fixer is one step.  Of an acceptance the move
  is kept.
* Job ids, submissions, resources are model values.
* Prompts, logs, evidence, environment rendering and display are left out.

## 3. Runs

TLC, all with the configuration of the same row.  Deadlock is not an error in
any of them: jobs end, budgets run out, and the bounded crashes are used up.

| run | configuration | what it shows |
| --- | --- | --- |
| `leases` | `ResourceLeases.cfg` | two processes and two jobs compete for a resource of capacity 1, a crash anywhere: capacity, all-or-none, reclaim; the files implement the lease table |
| `runtime_crash` | `JobRuntimeCrash.cfg` | one daemon, whatever fails, one crash or stop and restart anywhere: budget of worker starts, durable records, accepted means delivered, prepared acceptances complete |
| `runtime_waiting` | `JobRuntimeWaiting.cfg` | a daemon, `jobs run` and concurrent context loads: one active job, one acceptance, statuses and answers that stand |
| `runtime_settles` | `JobRuntimeSettles.cfg` | under fairness, whatever fails and while an operator cancels jobs, an active job is settled, unless a run returns without settling it, and the budget holds |
| `worker_session` | `WorkerSession.cfg` | two attempts with a repair, one crash and a command anywhere, under fairness: a settled attempt is cut off, a supervised one keeps its credential, access ends |
| `delivery` | `Delivery.cfg` | one job, with a worker that writes while its submission is sealed and a user who edits the source, commits or configures anywhere: candidates are snapshots, what is delivered was verified, a code change spares what the user changed under it, when git answered at the freeze |
| `acceptance` | `Acceptance.cfg` | seven effects, three faults and two user edits anywhere: the acceptance implements the ledger, keeps what users changed but for the links beside an artifact taken back, and recovery converges |
| `scheduler` | `Scheduler.cfg` | two tasks through implementation and review, failures, rejections and one crash and restart anywhere: one active job in the repository, one task in progress, what is due is worked on |
| `scheduler_lane` | `SchedulerLane.cfg` | two `jobs run-one` commands while users move cards and rewrite tasks: dependents only after a delivery, attempts bounded per revision |
| `task_moves` | `TaskMoves.cfg` | operator, daemon and recovery move a task under nine workflow files: no success by hand without an acceptance, a move is read back as it was made |
| `late_failure` | `JobRuntimeLateFailure.cfg` | *violated*: an accepted job is overwritten with failed |
| `planning_reverts` | `DeliveryPlanning.cfg` | *violated*: a planning job is integrated over what the user has changed |

**Bounds.**  Two jobs are what the account, the successor of a failed job and a
lease contest need; `runtime_waiting` has three, so that a third job can start
after two have ended.  Two submissions let a repair
submit anew and an old one be repeated.  `MaxNumber` bounds attempt numbers at
the budget `MaxTotal`, which no attempt can pass while `LaunchBudget` holds.
One thread is what one worker drives at a time; one crash puts a process's
death at every point of every operation (`MaxCrashes`); one recoverer because
context loads only differ in when they come.  Budgets are 2 and 3 so that "at
the limit" and "below" both occur.

`worker_session` has one job, since sessions and requests of two jobs meet only
in the lease table, which is `ResourceLeases`; two attempts give an old session
beside a new one, in a repair and in a run after a crash.  A run that takes the
lease again after a command has settled two attempts needs a third: with
`MaxAttempts = 3` and without the temporal properties, which are then out of
TLC's reach, `SettledAttemptCutOff` holds too and needs its second conjunct
(item 23 of section 4); the theorem of section 5 is for every number.  One tick
of the clock (`MaxClock`, `Lifetime`) lets a session run out at any place; one
request is in any of its three steps while everything else happens.  A container
ends by its time-out, or starting it raises; one that ends by itself is the
first with `OrphanEnds` as its next step, since without kept evidence the exit
code decides nothing but the code of the failure.

`delivery` has five paths, one of each sort the rules tell apart: the
`.gitignore`, an artifact, a cache, an ignored local file and a source file that
is also a lock file.  Two writes of the worker let it change two files, or one
twice, between any two scans; one user edit comes at any point, and a commit of
it, of the tracked source file (`UserPaths`); one call of git fails, any of them
(`MaxWrites`, `MaxEdits`, `MaxOutages`).  There is one submission
(`MaxSubmissions`): a rejected one whose repair submits again starts the same
scans on the same workspace, and with two and without an outage the same
properties hold.  The theorems have any number of each.

`acceptance` has a plan with every kind of effect once, in the code's order;
three faults let a submission fail, its compensation fail and a recovery fail
after it, and two edits let a user change something before and after a recovery.

In `scheduler` three jobs are enough for one of two tasks to be accepted, go on
or fail, with the other waiting, and two attempts let a rejected job be repaired
and a repair be refused.  In `scheduler_lane` two edits let a user make a card look
finished and take it back, and two jobs let a task be worked on in two revisions;
the two commands are interchangeable (`MCCommandSymmetry`; there is no liveness in
that run).

`task_moves` has two tasks, so that a whole-board rewrite can meet the move of
another card: the transitions are those of the first, and the second is a note of
a type without transitions, whose card only the user drags.  One board has a
column for each of three states; two transactions (`MaxJournals`) and one trouble
(`MaxTroubles`: a failing write, a death, or an edit by the user) happen at any
point.  The nine files are one that is valid, three edits of it that are accepted
and change what a move in flight means (columns change places; a column and an
outcome go; columns are numbers), and five that a layer has to refuse.

The operator's `restart` is an action of `JobRuntime` that the listed
configurations do not enable: with crashes it makes the instance too large,
without them `ActiveSettles` has no meaning for a job that is restarted again
and again.

**Conditions of the passing runs.**  They are the conditions under which the
code keeps the property; section 4 shows what happens without them.

* `leases`: the run has no property about workers at work; see item 1.
* `runtime_crash` has one executor and no context load while a thread is in
  `submit` (`ConcurrentLoads = FALSE`): with more, two executors may read the
  account with one attempt left and both start (`executor.py:362` reads, the
  admission comes later), so `LaunchBudget` fails by one.  Its workers wait for
  their replies (`WorkerMayQuit = FALSE`), for the size of the instance only:
  workers that quit are in `runtime_settles`, and the theorems of section 5 about
  these properties have them.
* `runtime_waiting` has workers that wait for the reply to each post
  (`WorkerMayQuit = FALSE`) and no crash; it has no exception in the verifier
  either, which the theorems of section 5 do without.  When a
  worker is killed by its time-out while its post is served, the run
  `late_failure` applies, and items 2 to 4 of the next section.  With two
  threads for one submission `OneVerdict` fails: both pass the in-progress check
  at `completion.py:180` before either has written `completion_submitted`.
* `runtime_settles` has busy resources, tasks that cannot be read and evidence
  that is written back, and `ActiveSettles` says of them what it can: while no run
  leaves its job active in one of the two ways of `LeftActive` (items 33 and 34 of
  the next section), every active job is settled.  The run leaves out crashes: a
  crashed daemon waits for an operator's `runtime start`.  It also leaves out
  exceptions of the verification (item 6).
* `worker_session` has an observer that probes the worker's container
  (`ExternalProbe = TRUE`).  The interface allows that and the program does not do
  it (item 22): its own probe tells of a run that has ended, which the run knows.
  The behaviours of the program are among those of the run, and no property says
  that a vanished worker is noticed.  The proxy has no log root
  (`EvidenceKept = FALSE`; item 21).
* `delivery`: contents do not return (section 2), so a worker that puts back in
  the middle of a copy what it has changed is not seen; no path is dropped from
  the verification copy (`Dropped = {}`; item 15), and no tracked file lies under
  an ignored name (item 20).  `EarlierEditsKept` speaks of code changes, of jobs
  that were frozen while git answered (item 36), and of edits made before the
  comparison with the target (items 14, 16).  The theorems about
  these properties carry the same conditions in their statements (section 5).
* `acceptance`: `UserWorkKept` excepts the links beside an artifact at the moment
  it is taken back (item 35).  The run has `Concurrent = FALSE`, no recovery while
  `submit` applies, and `TornEffects = FALSE`, no fault that leaves the first of
  an effect's two files without the second (items 7 and 8 drop one condition
  each).
* `scheduler` has no user edits: a user who moves a card between the tick's
  snapshot and the creation makes the creation an error, on which the daemon
  exits (item 12), and a user may start any number of tasks.  The limit on failed
  attempts is off, since it stops a task for the rest of the session.
  `DueIsWorkedOn` excepts the three cases of `Withheld`: the daemon is down, or
  items 10 and 11.  With any of the three left out TLC finds it violated.
  `LaneExclusive` needs a daemon without a command beside it: `runtime start` may
  fail the job of a command, which then goes on (item 32), and a second project of
  the repository is not seen at all (item 13).
* `scheduler_lane` has commands and no daemon, so that there is no crash and no
  `runtime start`; `AttemptsBounded` allows one attempt more for each executor that
  a `runtime start` beside it can overtake (`Overtaken`, item 32), and here there
  is none.
* `task_moves`: `WrittenIsReadBack` speaks of files that give columns as strings
  (item 29) and of a board that is what the move makes of the one it has read: a
  user who moves a card meanwhile may leave it with two (item 26).

**Fairness.**  `Fairness` in `JobRuntime` is weak fairness of each executor's
run, each handler thread, each context load and the daemon's hand-out of repair
jobs: they are processes and threads the operating system keeps scheduling, no
step of theirs waits for ever (a worker ends at its time-out, the wait for a
completion has a deadline, the publication lock is held for one `apply`).
`AcceptanceTransaction` assumes the same of the thread in `submit` and of
context loads, `Scheduler` of each process's tick and run and of the end of a
backoff (time passes).  Nothing is assumed of the worker, the operator, users,
crashes, or `runtime start`.
`AcceptanceCompletes` relies on context loads that go on and find no
intervening edit by the user (an edit makes recovery leave the journal alone);
the daemon loads its context at every tick.  In `ResourceLeases`, a lock
section runs on (weak fairness) and a process that loads its context gets the
flock some time (strong fairness of `Scan` and `StartReclaim`, since the lock
is free again and again).  In `WorkerSession` the run, the observer's thread, the
verdict and a command that has begun run on, and time passes; nothing is assumed
of the docker client, the worker, the proxy or context loads, so that
`AccessEnds` rests on the expiry.  The
chains of `Delivery` and `TaskMoves` have safety properties only: what they leave
unfinished is taken up by recovery, which is in `AcceptanceTransaction`.

## 4. Disagreements with the documents

Two have a run that TLC finds violated, with the quotation in `PROJECT.json`:
`late_failure` and `planning_reverts`.  Most of the others are reached by
changing one constant or one property of a configuration, as told; those marked
*read* were met in the code while modelling and no property is about them.

*Leases, jobs, acceptance, scheduling.*

1. *Two workers on a resource of capacity 1* (`WorkersWithinCapacity` in
   `ResourceLeases.cfg`).  A context load does not count `completion_submitted` as
   active and frees the lease of a job whose worker still waits for its verdict.
   With `Submitters = {}` the same property fails for a second reason: the active
   jobs are listed before the lease lock is taken, and a job admitted in between
   loses its lease.
2. *Accepted, then failed* (`late_failure`).  `_fail_worker` reads the status,
   then writes `failed`; an acceptance in between is overwritten.
3. *Failed, then active* (`TerminalStands` in `JobRuntimeLateFailure.cfg`).
   `submit` writes `completion_submitted` over a status that has become final
   since its read (`completion.py:272`); compare
   `test_late_rejected_completion_does_not_resurrect_failed_job`.
4. *A worker beside an orphan* (`OneWorker` in `JobRuntimeCrash.cfg`).  `runtime
   start` fails the jobs of a dead daemon without a look at their containers
   (`docs/reliability-01-execution-plan.md:78` asks for it).
5. *Two acceptances* (`CommittedOnce` in `JobRuntimeLateFailure.cfg`).  A late
   acceptance of a failed job and that of its successor both commit, when the
   transition changes no repository file (the move of the task does not check the
   state it moves from).
6. *A job that never settles* (`ActiveSettles` in `JobRuntimeSettles.cfg` with
   `VerifierRaises = TRUE`).  An exception of the
   verification ends the thread; the job stays `completion_submitted`, the
   executor leaves it to the completion service, and later posts are refused as
   in progress.
7. *A recovery that never ends* (`RecoveryConverges` in `Acceptance.cfg`
   with `TornEffects = TRUE`).  `create_task` writes the note and then the board.
   A process that dies in between leaves a note without a card, for which `_load`
   refuses the whole vault; recovery takes that error for a user's change and
   leaves the journal alone, at every load.
8. *An incomplete acceptance* (`DeliversAtomically` in `Acceptance.cfg` with
   `Concurrent = TRUE`).  Nothing keeps a context load from recovering a journal
   that a thread is applying.  It takes a copied artifact as applied although its
   link is not written, completes the rest and commits; or `submit` meets the task
   that recovery has created, fails, and removes an artifact that recovery then
   commits without.  With `TornEffects = TRUE` a single process violates the same
   property: after a crash or an error between the copy and the link, recovery
   never writes the link.
9. *A repeated section* (read).  `_recovery_effect_applied` knows
   no `link_derived_tasks`, so each recovery that gets there appends another
   "Derived tasks" section to the parent's note.
10. *A task that cannot go on keeps the lane* (`DueIsWorkedOn` without the
   second disjunct of `Withheld`).  A task with an accepted job and a further
   transition keeps the lane although its attempts are used up or its failure
   is not retryable; no other task of the project is scheduled.  Compare
   `test_scheduler_does_not_pin_serial_lane_on_retry_limited_job`, which has it
   for a task without an accepted job.
11. *A job nobody runs* (`DueIsWorkedOn` without the third).  After a crash
   between the prepare of a creation and its record, `runtime start` finds no
   job to settle; the next context load creates it, pending; it holds the lane,
   and the daemon hands out new jobs and rejected ones only.
12. *The daemon exits on an error of a tick* (`cli/main.py:757`), also when the
   error is that a user moved the card meanwhile.  The state is consistent; an
   operator has to start the runtime again.
13. *One lane per project* (`LaneExclusive` with two projects of one repository,
   `MCTwoProjects` and `MCServesTwo`).  The scheduler lists the jobs of
   `app_state/jobs/<project>`, so the part that looks for jobs of other
   projects on the same repository never sees one.

*Candidates and their delivery.*

14. *A planning job takes the user's work back* (`planning_reverts`).  It has no
   contract, so `_check_integration_target` passes it (`completion.py:1244`), and
   its candidate, taken without a baseline, promotes every file of the
   workspace: what the user changed meanwhile is overwritten.
15. *Delivered without verification* (`DeliveredIsVerified` in `Delivery.cfg`
   with `Indexed = {ign, src, cache}`, `Present = {ign, local, src, cache}`,
   `Dropped = {cache}` and `WorkerPaths = {cache, src}`).  The verification copy
   leaves out files under names like `node_modules` even where they are tracked
   (`verification_runtime.py:110`), the candidate has them
   (`repository_facts.py:416`): the checks run without a file that is delivered.
16. *Edits during the publication* (`EarlierEditsKept` with `foreign` gathered
   until the job is settled).  The target is compared before the publication lock
   is taken and outside it (`completion.py:439`, `:450`); no effect compares what
   it overwrites with the hash recorded in the plan.
17. *A local file overwritten* (read).  A candidate that changes `.gitignore` so
   that a file is no longer ignored and adds that file is promoted over the
   user's ignored file of the same name, which no comparison has seen.
18. *A loosened `.gitignore`* (read).  Local files the new rules no longer ignore
   appear in the last look, which fails with `integrated_manifest_mismatch` when
   everything has been applied and committed.
19. *A failed delivery stays* (read).  Files applied and the commit are not taken
   back when a later step of the delivery fails.  A git that needs more than its
   time-out turns the comparison of HEAD and of a dirty tree off.

20. *A tracked file under an ignored name* (`EarlierEditsKept` in `Delivery.cfg`
   with `Indexed = Present = {ign, cache, src}`, `UserPaths = {cache}` and two
   edits).  The user deletes a tracked file under a name like `build`, commits
   the deletion and puts another file there.  The comparison with the target
   selects anew: the file is untracked now, and ignored, so it is not met, and
   when git does not answer in time for the branch either
   (`repository_facts.py:845`), the delivery overwrites it.

*Workers and their sessions.*

21. *The cause of another attempt* (`BlockingCauseIsOfThisAttempt` in
   `WorkerSession.cfg` with `EvidenceKept = TRUE`).  `failures.py` looks for
   rejections and provider errors of the *job* (`failures.py:163`, `:198`).  The
   next attempt is charged with what was logged for an earlier one, and when
   that is a code without retry, the job is not tried again.
22. *An observer that probes itself* (read).  The default probe is whether the
   run's own thread lives.  That thread waits for the docker client, so a
   vanished container is noticed at the time-out only, although the interface
   allows a probe of the container.
23. *A session issued after the command* (`SettledAttemptCutOff` without
   `again`, three attempts).  A command settles an attempt that a run has just
   admitted: it writes `failed`, releases the lease and revokes the job's
   sessions; then the run issues the session of that attempt.  When a late verdict
   has made the job active again and the daemon dies, the next run takes the lease
   and the old container, which nobody has stopped, is served with the old session
   until that expires.  The plan (`docs/reliability-01-execution-plan.md:27`):
   "revoke the old credential when that process is settled".
24. *Smaller ones* (read).  A time-out kills the docker client and not the
   container, which goes on after its job has failed.  While a request streams,
   its lease may be reclaimed or released and the slot taken by another job.  A
   command that settles a job while its run starts is overwritten with
   `running`; a late verdict overwrites a commanded failure while the docker
   client hangs.  A worker that vanishes when its repair is due has its job
   failed.  The
   code `session.unknown` cannot occur: a request with an unknown token is logged
   without a job, and evidence is looked up by job.

*The board and the workflow.*

25. *Recovery replays a move by hand* (`UserMovesKept` in `TaskMoves.cfg`).  It
   iterates over every journal, the failed and the operator's among them
   (`completion.py:2142`); a manual journal says not where the task was, so
   nothing is a conflict (`completion.py:2402`), and a card the user has moved
   since is moved again.  The docstring (`completion.py:2134`): "any intervening
   user change blocks the journal".
26. *A lost move* (in `TaskMoves`, without a property).  `move_task` writes the
   whole board it has read, under no lock (`obsidian.py:227`): a move made
   meanwhile is undone; a card that the user has meanwhile put on another board
   has two, and no command loads the project any more (`WrittenIsReadBack` for
   any board that is as the move has left *its file*).  When a new card was
   written meanwhile, the note is left without one and the vault does not load
   (read).
27. *Moves that do not look* (read).  `submit` moves the task from whatever state
   it is in; `move_task` does not look at the state before; the compensation of
   an operator's move puts the card back wherever it is by then.
28. *One bad card stops a project* (read).  A card or a column the adapter cannot
   place makes every load fail.  A state without a column compiles, and each
   move to it fails for ever.  A mapping that lacks a key ends every command with
   a `KeyError`.
29. *Two states in one column* (`WrittenIsReadBack` without its condition on
   strings).  The compiler skips mappings whose values are no strings
   (`compiler.py:290`), the adapter reads them with `str()`: two states may be
   given one column, and a move to the second is read back as the first.  Their
   states are not looked up either: the fixer may write a state into a note that
   the workflow does not have (`TypeOK` counts the states of such mappings in).
30. *The definition of the request* (read).  The success guard uses the workflow
   of the moment of the request; a recovery under an edited file is not checked
   again.  The cached compilation (`workflow/runtime.py:30`) does not notice
   changes of `agents/*.md`.

*A daemon and commands on one project.*

31. *A second task begun* (`OneTaskInProgress` in `Scheduler.cfg` with commands
   beside the daemon).  A context load recovers the journals before the scheduler's
   lock is taken, and under it only prepared and failed journals are looked for
   (`scheduler.py:597`).  With `c1` in `Commands` the daemon dies after a delivery
   and before its settlement, a start fails that job, and the command, which has
   recovered before, sees neither an active job nor a started task and begins the
   other one; the next recovery accepts the first.  With a second command no crash is
   needed (`MaxCrashes = 0`, two jobs, `MaxTotal = 1`): one command delivers, the
   daemon exits on the journal it finds under the lock, `runtime start` fails the
   job under delivery, and the other command goes on as before.
32. *A run that was overtaken* (`LaneExclusive` in `Scheduler.cfg` with `c1` in
   `Commands`).  The executor reads the status (`executor.py:321`) and the account
   (`:363`), admits (`:449`) and writes `running` (`:458`) without another look.
   When the daemon has died, `runtime start` fails the job of a command in between
   and frees the lane, the daemon creates the next one, and then the first is
   written `running` beside it.  For the same reason the account is exceeded by one
   (`AttemptsBounded` without `Overtaken`): the command has found room for its
   attempt before it was failed, the daemon's new job is admitted too.

*What a failing step leaves behind.*

33. *A run that returns without a mark* (`ActiveSettles` without the first
   disjunct of `LeftActive`).  When the task cannot be read or the workflow has no
   such transition (`executor.py:345`, `:352`), and when a resource is busy
   (`:383`), `run` returns an error and the job keeps its status.  The daemon hands
   out new jobs and rejected ones, so that a pending job stays pending, and holds
   its transition and the lane.
34. *A verdict undone by evidence* (`ActiveSettles` without the second disjunct).
   After it has failed a job, `_preserve_failure_evidence` reads the status again
   and writes back what it has read (`executor.py:1301`).  A worker that quit has a
   submission in the service, which makes the job `completion_submitted`; the
   verdict `completion_rejected` or `failed` comes between the read and the write,
   and is overwritten.  Nobody has the submission in hand any more.
35. *Links taken back* (`UserWorkKept` without `TakenBack`).  The compensation of a
   promoted artifact compares its bytes, and then writes the task's
   `artifact_links` back to the recorded ones whatever they are
   (`completion.py:1155`); what a user has made of the links since the delivery is
   lost.  `docs/reliability-05-delivery-plan.md`, 5E: "An intervening user change
   must block compensation rather than be overwritten by a backup."
36. *Frozen without git* (`EarlierEditsKept` without its condition on the
   selection, in `Delivery.cfg` with `Present = {ign, src}`, `UserPaths = {local}`,
   `WorkerPaths = {local, src}`).  When `rev-parse` needs more than its ten seconds
   at the freeze, a checkout is taken for a tree without `.git`
   (`repository_facts.py:575`, `:591`) and what `.gitignore` ignores is source.  The
   user then creates an ignored file and the worker one of the same name; the
   comparison with the target asks git again, leaves the file out and finds no
   drift, and the publication writes over it.

## 5. Proofs

Each theorem holds for every value of the constants under the assumptions its
modules declare, and every proof is checked to its leaves.  Each inductive
invariant was checked by TLC on an instance before it was proved.

### Leases

`ResourceLeasesProofs` proves, for every set of resources, jobs and processes,
every capacity and any number of crashes:

* `Typed`: `Spec => []TypeOK`;
* `CapacitySafe`: `Spec => []CapacityRespected`;
* `NoPartialLeases`: `Spec => []AllOrNothing`;
* `ImplementsTable`: `Spec => GrantsAreWhole`, the refinement of `LeaseTable`.

Assumptions: those `ResourceLeases` declares (capacities are naturals, `Jobs` is
finite, the sentinels are outside their sets, `MaxCrashes` is a natural).

`CapacityRespected` is not inductive: a process that is writing has checked the
capacity some steps ago.  The inductive invariant `IInv` adds *LockDiscipline*
(whoever writes, creates or releases holds the flock, so at most one process
does) and *Room*: for the process that is writing, each resource it has still
to write holds less than its capacity.  `StartWriting` establishes *Room* from
the check of all resources, `WriteLease` keeps it since it adds one lease of one
resource and takes that resource off the list, and every other step only
shrinks the set of leases.  Two lemmas carry the cardinalities:
`ShrinkingKeepsRoom` and `GrowingWithinCapacity`.

`AllOrNothing` speaks of the moments at which nobody holds the lock.
`WholeInv` says what is true inside a section too: a job holds only what it
needs (*OnlyNeeds*), a writer has written exactly what is off its list
(*WrittenSoFar*), and a job whose leases are a part of its needs is the one of a
process in a section (*Whole*).  A crash breaks *Whole*, and nothing else does,
so the invariant ends at the first crash, as the property does.

`ImplementsTable` does not end there.  It stands on `IInv` and on `NeedsInv`
(*OnlyNeeds* and *WrittenSoFar*, which crashes keep), and goes by what a step does
to a lock section: its start is a `Grant` (`WritingGrants`: *Room* for every
resource of the job is what the check has found, and `HeldBy` and `ToWrite`
together are the job's needs) or a `Free` (`RemovingFrees`: a reclaim frees all
the jobs it does not keep); its steps and its end change nothing that the table
shows (`WritingFollows`, `RemovingFollows`, `SectionEnds`), and neither does any
step outside (`QuietStep`).  A death drops what the section had still to write and
brings back what it had still to remove (`DeathTears`): the jobs whose row
changes are those of the section, they held all or nothing in the table, and
`CapacityRespected`, which counts files, bounds what is left.

### Acceptance

`AcceptanceTransactionProofs` proves, for every plan, any number of faults and
any number of user edits, under `Undisturbed` (no concurrent recovery, no torn
writes: the two conditions of the run `acceptance`):

* `AcceptanceTyped`: `Spec => []TypeOK`;
* `AcceptanceDelivers`: `Spec => DeliversAtomically`, the refinement of
  `AcceptanceLedger`;
* `UserWorkSafe`: `Spec => UserWorkKept`, whose one exception (`TakenBack`) is the
  links beside an artifact that a failing submission takes back (35 in section 4).

Assumptions: `Plan` is a sequence of the known kinds with the files before the
commit, and the bounds are naturals.

`DeliversAtomically` needs to know, at the commit, that every effect is in
place, although `_validate_final_state` looks at the files and the move only.
The inductive invariant says what each place in the code has achieved
(*Progress*: all effects before the present one are as intended), that nothing
is as a user made it while an agent delivers (*Untouched*: recovery has looked,
and `submit` starts from what it recorded), which journal goes with which place
(*Journalled*), that half an effect belongs to the agent that is writing it
(*Whole*, so that the vault can be read by everyone else and links are not left
out), that one agent works at a time (*Alone*), and that accepted means
committed (*AcceptedClosed*).  `OneAtWork` reduces the invariant to what it says
of the agent that moves; `Leaves` and `AbortsKeepIInv` treat all the ways to
give up at once.  The step simulation then has four cases: steps before the
commit are `Work`, the commit is `Close`, a settlement is `TellAccepted`, a
failed job is `TellFailed`.

### Jobs and their runtime

`JobRuntimeProofs` proves, for any jobs, submissions, threads, context loads,
limits, and with every switch (failing effects, raising verifiers, busy leases,
crashes, operator commands, workers that quit):

* `Typed`: `Spec => []TypeOK`;
* `WithinLaunchBudget`: `OneExecutor` implies `Spec => []LaunchBudget`;
* `LaunchesAccountedFor`: `OneExecutor` implies `Spec => []LaunchesCounted`;
* `AcceptedMeansDelivered`: `ConcurrentLoads = FALSE` implies
  `Spec /\ []InTurn => []AcceptedIsDelivered`.

`JobWaitingProofs` proves, for any number of executors, daemons, threads and
context loads, concurrent ones too, but under `Orderly` (no crash, no operator
command, no failing effect or run, no worker that quits: the conditions of
`runtime_waiting`), of `Spec /\ []InTurn`:

* `OneJobActive` (`AtMostOneActive`), `OneAcceptance` (`CommittedOnce`),
  `RepliesAgree` (`OneVerdict`), `OvertakenIsDelivered` (`AcceptedIsDelivered`);
* `AcceptanceStands` (`AcceptedStands`), `OverStaysOver` (`TerminalStands`),
  `AnswersKept` (`AnswersStand`).

Assumptions: those the four modules declare (`Jobs` is finite, the limit on
attempts is at least one and attempt numbers go up to it, the sentinels are
outside their sets).  The conditions in the statements are those of the runs:
`OneExecutor` because two executors may read the account before either admits
(section 3), `InTurn` (a job has one submission in `submit` at a time) because two
posts may both pass the in-progress check, `ConcurrentLoads` because of item 8.
A worker that does what `prompts.py:911` asks for ("Submit completion exactly
once") keeps `InTurn`, and so does one that posts again after each reply.  The
service itself does not enforce it.

*The budget.*  `launches` cannot be compared with the account directly: a record
is written before the launch, the counter of the job in between, and a job that
is reconciled, failed or accepted meanwhile loses neither.  `BudgetInv` counts an
attempt as *spent* when its job's counter has passed its number.  Starts are at
most the spent attempts, since each passes through `MarkRunning`; what is spent
is recorded (`Spent \subseteq Recorded`), since `_admit_attempt` comes first;
the records are what `count_consumed_attempts` counts, up to a job that left
`pending` without one.  Between the check and the admission
(*ExecutorWithinBudget*) the account has room for the number that the executor
has computed from the counter, and nobody else writes counters or records when
there is one executor.  The lemmas on `AccountKept` say once why none of the
service's, operator's and reconciliation's writes touch the account.

*Accepted means delivered.*  A thread that is in `submit` may write back a status
it has read some steps ago, at two places.  `AcceptanceInv` says that this status
is never `accepted` and that its job is not accepted while it is at work
(*ThreadOpen*), which is where a recovery inside `submit` would do harm; and
that whoever is about to write `accepted`, thread or recovery, has moved the task
and committed the journal (*ThreadDelivers*, *LoaderDelivers*).  Crashes end
threads, reconciliations and operators never write `accepted`: these are the
steps of `AcceptanceQuiet`.  An executor does, when it keeps the evidence of a run
that has failed: it writes back the status it has read, and that may be `accepted`.
*RestoresDelivered* says that it is then of a delivered job.  The job stays one as
long as no worker of it is at work that could post again (`DeliveredStays`), and
there is none by *ClaimsHeld*: the lock of a job belongs to the executor that runs
it.

*Waiting workers.*  The invariant `WInv` says who may write a job at all.  The
lock belongs to the executor that runs it (*Claimed*), and a thread of a job has
an executor that waits for its worker (*Hosted*), so the writes of executors
and threads never meet (`HeldAlone`); up to its journal a thread finds the job as
it has left it (*Submitting*); after it the job is given what the journal says,
by the thread or by a recovery that overtakes it (*Accepting*, *Settles*).
There is one journal of all jobs, its job is accepted or its thread at work, and
no other job is active (*Owned*, *Alone*); a scheduler creates only where nothing
is active or prepared, and a status that an executor writes back is still the job's
(*Holding*).  A step is then one of four kinds, each with a
lemma: an executor or scheduler steers (`SteersService`), a thread goes on
before its journal (`SubmitsOrder`), prepares it (`PrepareOrder`), or a journal
progresses (`ProgressesOrder`).  The same lemmas give the three action
properties: what stands in a record (*Stands*) no step takes away.

### Workers and their sessions

`WorkerSessionProofs` proves, for every set of jobs and requests, any number of
attempts, repairs and crashes and any lifetime of a session:

* `Typed`: `Spec => []TypeOK`;
* `SettledIsCutOff`: `Spec => []SettledAttemptCutOff`;
* `CredentialSafe`: `Spec => []CredentialOutlivesAttempt`.

Assumptions: those `WorkerSession` declares (there is a job, the job's own proxy is
one of the proxies and each has a kind, an outcome is a return code and a log, a
session lasts a while, the bounds are naturals).

The run of a job is a stack of calls, so that already the type invariant needs
to know how they nest (*OpenCalls*): an enclosing call has admitted an earlier
attempt than those inside it, and only the innermost one may not have admitted
one.  `SettledAttemptCutOff` then rests on what is known of an attempt that is
over, `CutInv`: an attempt that its own run has ended was admitted and belongs to
no open call (*EndedAttempts*); no session is left of it (*SessionsOfOpen*); a job
that a command has settled has its lease again only because a run took it
(*TakenAgainOnly*); and a request that comes late comes after a command, and is
forwarded only when a run has taken the lease since (*LateOnly*).  The lemma
`Writers` says once which variable which step may change, and makes the cases of
the other invariants short.  `CredentialOutlivesAttempt` needs *Supplied*: from
the session's issue to the end of the supervision the latest attempt has a
session, which runs out only after the deadline.

### The delivery of a candidate

`DeliveryProofs` proves, for every set of paths in every order, any rules and
policies, any number of writes, edits, commits and submissions:

* `Typed`: `Spec => []TypeOK`;
* `DeliveredAsVerified`: `Spec => [](NothingDropped => DeliveredIsVerified)`;
* `EditsKept`: `Spec /\ []TrackedStandsOut => EarlierEditsKept`;
* `SealedAsItStood`: `Spec /\ [][RestoresNothing]_vars => []SealedIsSnapshot`.

Assumptions: those of the chain (the order lists each path once, what is dropped
is a cache and `.gitignore` is not, the policies are sequences within the bound,
the bounds are naturals).  The three conditions are those of section 3, and no
weaker one will do: `NothingDropped` (no tracked file has a name that the
verification copy leaves out) fails in item 15, `TrackedStandsOut` (no tracked
file lies under an ignored name) in item 20, and a worker that gives a file the
content it had before (`RestoresNothing` excludes it) can make two equal scans of
a workspace that was never like that in between.

*Delivered as verified.*  What a command writes is its own: such a content is in
the verification copy only (*Unchecked*) and never becomes one of the candidate's
again, so that when the source measured after the commands equals the candidate,
each command has found the candidate's files where it looked (*RanOnCopy*,
*VerdictStands*).  What remains is that the copy is of the files that are
delivered: stored is only what the selection of the candidate selects, and when
`.gitignore` is stored as it was first, that selection has the layer of rules
that the first one has (*StoredByRule*), so that a selection refreshed on the
copy is the candidate's.  After the verdict neither candidate nor contract
change (*AcceptedAsStored*), and the last look has compared every path.

*Edits kept.*  *ForeignDiffers*: what the user has changed since the job began
and the job has not looked at is a source file that differs from the frozen
baseline.  *RulesLoosen*, said of a job that was frozen by the rule of a checkout:
the user's and the worker's later rules ignore no more than the first ones did, so
what was source is selected when the target is compared, the difference is met,
and the publication does not begin.  A later outage of git only adds files to the
comparison, since then everything is source (`ByRule`: a frozen selection is that
of a checkout or that of a tree without git).  A job that was frozen while git did
not answer is left out by `EarlierEditsKept` itself (`contract.sel.git`), because
of item 36.

*Sealed as it stood.*  `history` has the states the workspace was in.  *OneState*
follows one of them through the scans: of the files that are scanned before the
copy each is in the tree of some moment as it was read; a file that is otherwise
in that tree has changed since and, as contents do not return, will be read
differently by the last scan.  When the scans agree, no file has, and the sealed
candidate is that tree.

### Moves on the board

`TaskMovesProofs` proves, for every set of workflow files, registries, tasks,
columns, any number of transactions, failing writes, deaths and edits:

* `SuccessIsVerified`: `Spec => []VerifiedBeforeSuccess`;
* `Typed`: `Spec => []TypeOK`;
* `ReadBack`: `Spec => []WrittenIsReadBack`.

Assumptions: those of the chain (the registries build, the first file is usable
and maps its first state, there are finitely many columns, the sentinels are no
ids and no columns, mappings are a list, the bounds are naturals), and
`DocumentAssumption`, which ties the two ways a document is given: a worker that
has the type of a string in the file is a string.

`VerifiedBeforeSuccess` compares what the operator did with what the *file* says,
so the weight is in the lemma `ReadAsItStands`: if a file passes loader, validation
and compiler, a transition it gives to a worker has a worker in the definition, and
a state it declares a success is one there.  It needs that the loader refuses a
value of another type under a key it knows (`Fits`), and that identifiers are
unique, since the compiler keeps the last of two statements of one name.  With it, the
guard of `Requests` gives the acceptance that `VerifiedBeforeSuccess` asks for.
`IInv` adds that journals are a sequence of records.  All other steps either
prepare a journal that is not an operator's, or are of the shape `Keeps`: a
status changes and `accepted` only grows; the lemma `KeepsIInv` treats these at
once.

`WrittenIsReadBack` needs of the file that a state has one place and a place one
state (`OnePlaceOneState`, which is what `_validate_storage_refs` checks where the
columns are strings), and of the board that was read that each task has one card
on it (`OneCard`).  Then the board that the move makes of it has one card of each
task too, and the one of the task is at the place of its new state
(`MoveIsReadBack`).  *AsRead* carries the check that `move_task` has made from the
read of the vault to the validation, past edits of the board, of the workflow file
and the steps of the other programs; `AgentMoves` treats the steps of one of them
at once.  That the adapter takes the first mapping that matches needs a least
element of a set of indices (`HasFirst`), from the well-foundedness of `<`.

### The scheduler

`SchedulerProofs` proves the safety properties of `Scheduler` for any tasks,
dependencies, transitions, projects, daemons and commands, from the named
assumptions of the module (`WorkflowAssumption`, `WiringAssumption`,
`BoardAssumption`: no two tasks share a place on the board; `JobsAssumption`: job
ids are numbers, reserved in order; `SchedulersAssumption`: there are finitely many
daemons and commands; `BoundsAssumption`; `LockAssumption`).

| theorem | of | under |
| --- | --- | --- |
| `Typed` | `TypeOK` | nothing else |
| `AttemptsStayBounded` | `AttemptsBounded` | nothing else |
| `DependentsWait` | `DependentsAfterDelivery` | nothing else |
| `LaneStaysExclusive` | `LaneExclusive` | `OwnRepository`; `DaemonAlone` |
| `OneTaskAtATime` | `OneTaskInProgress` | `DaemonAlone`; `NoMoves` |

The inductive invariant under all of them is `TInv`: `TypeOK`; who is inside the
lock section has the lock (`LockHeld`); a job has a task and a transition from the
prepare of its creation on, and an absent one has neither attempts nor a delivery
(`JobBound`); the job a process has in hand was created, is of its project, and
exists unless its creation is still being applied (`Bound`); a job whose creation
is being applied has not been started by anyone, though a recovery may have created
it already and a runtime start failed it (`Applying`); and an executor is the only
one of its job, has found the job's own counter below the limit when it may admit,
and once it has admitted, its record is the next of the job (`Ready`).  `JobsKeep`
goes with each step: a job never changes its task, transition or revision once it
has them, nor becomes absent again.  `Stepped` gathers what a step of one process
must be, so that the proof of an action only looks at the state that its process
moves to.

*AttemptsBounded* is not inductive: an executor reads the account (`Permit`), and
charges it some steps later (`Admit`).  `AccountInv` counts the two together: the
attempts that are `Admitted` and the `Permits`, the executors that have found room
and not yet admitted, are at most the limit and one for each executor that can be
`Overtaken`, that is, that runs beside a daemon.  `Permit` has seen `ChargedTo`,
what `count_consumed_attempts` charges, below the limit, it contains what is
admitted (`AdmittedCharged`), and one more attempt of the job fits (`RoomInJob`);
`Admit` trades a permit for an attempt (`AdmitAccount`).  So what has to be known at
`Permit` is how many others have one (`PermitAccount`): beside a daemon none but the
overtaken ones and itself, and in a project that nobody overtakes none at all
(`FewPermits`).  The last part is `Calm`: where no runtime start comes between, an
executor is where the status of its job says (*RunsCalm*), a prepared acceptance is
attended to (*JobsCalm*), and a transition has one active job (*OneActive*), which
has one executor (`Ready`).  `CalmInv` is inductive over `TInv` for each project
by itself. The sets are finite (`AccountFinite`, `PermitsFinite`).  Without the
term for the overtaken ones the bound is false (32 in section 4).

*DependentsAfterDelivery* follows from `DependenciesInv`: each dependency of a task
that a job was created for has an accepted job with a committed delivery into a
success.  `Create` reads this of the vault a second time (`MetIsDelivered`), and a
job that has delivered never loses that again (`DeliveredStays`).

*LaneExclusive* needs the time between the prepare of a creation and the record.  A
job is `Live` from the first to its end, and `Coming` until it has a record.
`LaneInv` says that a project has one live job at most (`OneLive`); that who
considers tasks has seen no live job and whose job is in creation has no other beside
it (`Focused`); and that a coming job is being applied, or *every* scheduler of its
project has the recovery of that journal before it (`Expected`).  The last part is
where `DaemonAlone` comes from.  A crash in the middle of a creation leaves a coming
job, and a second scheduler of the same project that has listed the journals before
the crash goes on without it: it may create another job, and the next recovery then
finds the transition taken only if it is the same one (`RecreatedIfFree`).  Without
a crash, a runtime start may fail the job of a command that has read its status and
then writes `running` over the failure, beside the next job of the lane (32 in
section 4); where the daemon is alone the project is calm (`AloneCalm`), so an
executor that starts a worker has an active job.  `DaemonAlone` is that a project
that a daemon serves has no `jobs run-one` beside it, while another may have any
number of commands at the same time (a command that dies is not modelled).
`OwnRepository` asks for one project per repository (13 in section 4).

*OneTaskInProgress* speaks of started tasks only, which is not inductive: a second
task starts when its job is accepted, long after it was chosen.  `FocusInv` counts a
task as `InHand` when it is started or has an `Engaged` job, one that lives or whose
delivery is still to be settled, and says that a project has one task in hand
(`OneInHand`) and one engaged job (`OneEngaged`); that the card of an engaged job is
at the state the job leaves or, once delivered, at the one it enters (`Fits`), so
that a recovery always finds the card where it expects it; that an executor leaves its
job with a settled delivery only (`Held`); and what a scheduler knows at each stage of
its tick (`Stage`).  With several commands at work a scheduler's snapshot is old when
it decides, and the settlement of a delivery may be another's, so `Stage` speaks of
what does not change meanwhile: what is `Left`, a delivery without settlement or
executor, is in the list of a recovery that has begun, and from the lock on there is
none; of the tasks that the snapshot holds able to go on, only the one in hand can be
started (`MayStart`), and the card of any other task in hand is where the snapshot has
it; and while tasks are considered nothing of the project is engaged and the queue is
the task in hand if there is one.  Only `Create` brings a task in hand
(`CreateFocus`), and the queue says which; every other step keeps to what is in hand
(`Continues`) and to its own project (`Disturbs`), and leaves to the other processes of
the project what they rely on (`Yields`, `FocusMoves`).  The invariant stands on
`LaneInv` and on `WorkedOn` (jobs are of transitions with a worker).

`NoMoves` is that users move no card (they may rewrite tasks).  `DaemonAlone` is
needed, with crashes and without (item 31 in section 4): what a second scheduler has
recovered before it takes the lock is old when it decides.

### Only model-checked

Every safety invariant of the passing runs has a theorem, under the conditions that
the theorem names.  Liveness (`RecoveryConverges`, `AcceptanceCompletes`, `ActiveSettles`,
`LeakedLeasesReclaimed`, `DueIsWorkedOn`, `AccessEnds`) is out of the proof system's
reach.

## 6. Not modelled, and what comes next

Not modelled:

* the text of prompts, contexts, task contracts and reports: rendered from what
  a job has frozen (`JobInputs` has the freezing), without state of its own;
* the parsing of notes, boards, artifacts and of `contract.yaml`: a parser's
  result is a constant or a choice in the models, or the file is refused;
* the single validations of `workflow/implementations.py`;
* YAML syntax and the JSON schema that editors use;
* HTTP, the adapters of model backends, transcripts, docker's arguments, the
  building of images;
* loading of the configuration, installation, project setup, display commands;
* the text of the derived-task plan and the files it names (the kinds of effect are in
  `AcceptanceTransaction`).

In this order:

1. The parallel mode of the lane in `Scheduler`, and derived tasks, with the
   dependency on a repository that must not have moved.
2. The parts of `completion.py` between the verdict and the plan: existing task
   ids, artifact collisions, the limits on what a completion may carry.
3. Two jobs in the chain of `Delivery`, under the publication lock.

Abstract specifications worth stating: an attempt account (`launches` against
admitted records) that `JobRuntime` implements; the lane as a lock that
`Scheduler` implements; a delivery that replaces one verified tree by another in
one step, for `Delivery`.
