--------------------------- MODULE ResourceLeases ---------------------------
(***************************************************************************)
(* The file-backed resource leases of runtime/resources.py, shared by the  *)
(* runtimes of every configured project.                                   *)
(*                                                                         *)
(* A lease is a file <root>/<resource>/leases/<job>.json.  Every operation *)
(* holds the exclusive flock of <root>/.lock, so two operations never      *)
(* overlap; inside one, the lease files are still written and unlinked one *)
(* by one, so a process killed half-way leaves part of its work behind     *)
(* while the kernel drops its lock.  Jobs move through the statuses of     *)
(* their records; a context load (cli/main.py, run by every command and at *)
(* every tick of a scheduler daemon) reads the active jobs first, outside  *)
(* the lock, and releases the leases of all others afterwards.             *)
(***************************************************************************)
EXTENDS Integers, FiniteSets

CONSTANTS
    Resources,   \* the named model resources
    Jobs,        \* execution job ids
    Procs,       \* processes that use the lease store
    Capacity,    \* resource -> number of leases it grants; 0 when the resource
                 \* is not configured, which _has_capacity refuses as well
    Needs,       \* job -> the resources its worker requires
    Submitters,  \* jobs whose worker reaches the point of submitting completion
    MaxCrashes,  \* bound on the number of process crashes
    NoProc, NoJob

ASSUME CapacityAssumption == Capacity \in [Resources -> Nat]
ASSUME NeedsAssumption == Needs \in [Jobs -> SUBSET Resources]
ASSUME FiniteAssumption == IsFiniteSet(Jobs)
ASSUME SentinelAssumption == NoProc \notin Procs /\ NoJob \notin Jobs
ASSUME CrashAssumption == MaxCrashes \in Nat

VARIABLES
    leases,    \* the lease files, as pairs <<resource, job>>
    status,    \* job -> status of its record, "absent" before it is written
    creating,  \* jobs whose creation journal is prepared and not committed
    holder,    \* the process that holds the flock, or NoProc
    op,        \* process -> the operation it is in
    crashes

vars == <<leases, status, creating, holder, op, crashes>>

(* The statuses of the job records, refined where the lease matters:        *)
(* "starting" is a pending or rejected record whose executor has passed its *)
(* lease check, "abandoned" a completion_submitted record whose worker has  *)
(* exited, "settled" any terminal status.                                   *)
Statuses == {"absent", "pending", "starting", "running", "completion_submitted",
             "abandoned", "completion_rejected", "settled"}

(* What FileExecutionJobStore.create refuses to overwrite.                  *)
CreateRefuses == Statuses \ {"absent", "settled"}

(* The statuses _active_runtime_job_ids counts as active: a record that     *)
(* says completion_submitted is not one of them.                            *)
ReclaimKeeps == {"pending", "starting", "running", "completion_rejected"}

(* The statuses in which the job's worker container is running.             *)
WorkerRuns == {"running", "completion_submitted"}

Lease == Resources \X Jobs

Idle == [pc |-> "idle", kind |-> "none", job |-> NoJob, todo |-> {}, keep |-> {}]

TypeOK ==
    /\ leases \subseteq Lease
    /\ status \in [Jobs -> Statuses]
    /\ creating \subseteq Jobs
    /\ holder \in Procs \cup {NoProc}
    /\ op \in [Procs ->
                [pc   : {"idle", "writing", "creating", "committing", "releasing", "scanned", "reclaiming"},
                 kind : {"none", "acquire", "admit"},
                 job  : Jobs \cup {NoJob},
                 todo : SUBSET Resources,
                 keep : SUBSET Jobs]]
    /\ crashes \in 0..MaxCrashes

-----------------------------------------------------------------------------
Holders(r) == {j \in Jobs : <<r, j>> \in leases}
HeldBy(j) == {r \in Resources : <<r, j>> \in leases}
JobHolds(j) == Needs[j] \subseteq HeldBy(j)

(* Mutant: off by one.                                                      *)
HasCapacityLoose(r) == Cardinality(Holders(r)) <= Capacity[r]

HasCapacity(r) == Cardinality(Holders(r)) < Capacity[r]

Locks(p) == holder = NoProc /\ holder' = p
Unlocks(p) == holder = p /\ holder' = NoProc
Returns(p) == op' = [op EXCEPT ![p] = Idle]

Init ==
    /\ leases = {}
    /\ status = [j \in Jobs |-> "absent"]
    /\ creating = {}
    /\ holder = NoProc
    /\ op = [p \in Procs |-> Idle]
    /\ crashes = 0

-----------------------------------------------------------------------------
(* try_acquire and admit share their first half: all resources must have    *)
(* room before the first lease file is written; otherwise the call returns  *)
(* busy and changes nothing.                                                *)
StartWriting(p, j, kind) ==
    /\ op[p] = Idle
    /\ Locks(p)
    /\ \A r \in Needs[j] : HasCapacity(r)
    /\ op' = [op EXCEPT ![p] = [Idle EXCEPT !.pc = "writing", !.kind = kind,
                                            !.job = j, !.todo = Needs[j]]]
    /\ UNCHANGED <<leases, status, creating, crashes>>

(* The executor acquires for a job that does not hold its resources yet.    *)
TryAcquire(p, j) ==
    /\ status[j] \in {"pending", "completion_rejected"}
    /\ ~ JobHolds(j)
    /\ StartWriting(p, j, "acquire")

(* The scheduler admits a new job: lease and job record under one lock.     *)
Admit(p, j) ==
    /\ status[j] = "absent"
    /\ j \notin creating
    /\ StartWriting(p, j, "admit")

(* Mutant: the path of a lease has its parts swapped.                       *)
WriteLeaseSwapped(p) ==
    /\ op[p].pc = "writing"
    /\ \E r \in op[p].todo :
         /\ leases' = leases \cup {<<op[p].job, r>>}
         /\ op' = [op EXCEPT ![p].todo = @ \ {r}]
    /\ UNCHANGED <<status, creating, holder, crashes>>

WriteLease(p) ==
    /\ op[p].pc = "writing"
    /\ \E r \in op[p].todo :
         /\ leases' = leases \cup {<<r, op[p].job>>}
         /\ op' = [op EXCEPT ![p].todo = @ \ {r}]
    /\ UNCHANGED <<status, creating, holder, crashes>>

WritesDone(p) == op[p].pc = "writing" /\ op[p].todo = {}

AcquireDone(p) ==
    /\ WritesDone(p) /\ op[p].kind = "acquire"
    /\ status' = [status EXCEPT ![op[p].job] =
                    IF @ \in {"pending", "completion_rejected"} THEN "starting" ELSE @]
    /\ Unlocks(p)
    /\ Returns(p)
    /\ UNCHANGED <<leases, creating, crashes>>

(* commit() prepares the creation journal, writes the job record unless an  *)
(* active one exists (a context load may have recovered the journal         *)
(* meanwhile), and commits the journal.                                     *)
AdmitPrepares(p) ==
    /\ WritesDone(p) /\ op[p].kind = "admit"
    /\ creating' = creating \cup {op[p].job}
    /\ op' = [op EXCEPT ![p].pc = "creating"]
    /\ UNCHANGED <<leases, status, holder, crashes>>

AdmitCreates(p) ==
    /\ op[p].pc = "creating"
    /\ status[op[p].job] \notin CreateRefuses
    /\ status' = [status EXCEPT ![op[p].job] = "pending"]
    /\ op' = [op EXCEPT ![p].pc = "committing"]
    /\ UNCHANGED <<leases, creating, holder, crashes>>

AdmitCommits(p) ==
    /\ op[p].pc = "committing"
    /\ creating' = creating \ {op[p].job}
    /\ Unlocks(p)
    /\ Returns(p)
    /\ UNCHANGED <<leases, status, crashes>>

(* commit() raised or was refused: the journal is failed and the leases of  *)
(* the job are released before the lock is.                                 *)
AdmitFails(p) ==
    /\ \/ WritesDone(p) /\ op[p].kind = "admit"
       \/ op[p].pc \in {"creating", "committing"}
    /\ creating' = creating \ {op[p].job}
    /\ op' = [op EXCEPT ![p].pc = "releasing"]
    /\ UNCHANGED <<leases, status, holder, crashes>>

(* release_job: the executor's finally, once the worker is not running.     *)
Release(p, j) ==
    /\ op[p] = Idle
    /\ status[j] \in {"settled", "abandoned", "completion_rejected"}
    /\ HeldBy(j) # {}
    /\ Locks(p)
    /\ op' = [op EXCEPT ![p] = [Idle EXCEPT !.pc = "releasing", !.job = j]]
    /\ UNCHANGED <<leases, status, creating, crashes>>

Unlink(p) ==
    /\ op[p].pc = "releasing"
    /\ \E r \in HeldBy(op[p].job) : leases' = leases \ {<<r, op[p].job>>}
    /\ UNCHANGED <<status, creating, holder, op, crashes>>

(* Mutant: the release stops after a part of the files.                     *)
ReleaseEarly(p) ==
    /\ op[p].pc = "releasing"
    /\ Unlocks(p)
    /\ Returns(p)
    /\ UNCHANGED <<leases, status, creating, crashes>>

ReleaseDone(p) ==
    /\ op[p].pc = "releasing"
    /\ HeldBy(op[p].job) = {}
    /\ Unlocks(p)
    /\ Returns(p)
    /\ UNCHANGED <<leases, status, creating, crashes>>

-----------------------------------------------------------------------------
(* A context load, step one: recover the prepared job creations and list    *)
(* the active jobs, without the lease lock.                                 *)
Scan(p) ==
    /\ op[p] = Idle
    /\ LET recovered == [j \in Jobs |->
               IF j \in creating /\ status[j] = "absent" THEN "pending" ELSE status[j]]
       IN  /\ status' = recovered
           /\ op' = [op EXCEPT ![p] = [Idle EXCEPT !.pc = "scanned",
                        !.keep = {j \in Jobs : recovered[j] \in ReclaimKeeps}]]
    /\ creating' = {}
    /\ UNCHANGED <<leases, holder, crashes>>

(* Step two: release_inactive_reservations with that list, under the lock.  *)
StartReclaim(p) ==
    /\ op[p].pc = "scanned"
    /\ Locks(p)
    /\ op' = [op EXCEPT ![p].pc = "reclaiming"]
    /\ UNCHANGED <<leases, status, creating, crashes>>

(* Mutant: only the leases of jobs without a record are inactive.           *)
Recordless(p) == {l \in leases : l[2] \notin op[p].keep /\ status[l[2]] = "absent"}

Inactive(p) == {l \in leases : l[2] \notin op[p].keep}

UnlinkInactive(p) ==
    /\ op[p].pc = "reclaiming"
    /\ \E l \in Inactive(p) : leases' = leases \ {l}
    /\ UNCHANGED <<status, creating, holder, op, crashes>>

(* Mutant: only the first file that is inactive is removed.                 *)
ReclaimFirst(p) ==
    /\ op[p].pc = "reclaiming"
    /\ Unlocks(p)
    /\ Returns(p)
    /\ UNCHANGED <<leases, status, creating, crashes>>

ReclaimDone(p) ==
    /\ op[p].pc = "reclaiming"
    /\ Inactive(p) = {}
    /\ Unlocks(p)
    /\ Returns(p)
    /\ UNCHANGED <<leases, status, creating, crashes>>

-----------------------------------------------------------------------------
(* The job record as executor and completion service move it.  A worker is  *)
(* started after the lease check, not together with it.                     *)
Moves(j, from, to) ==
    /\ status[j] \in from
    /\ status' = [status EXCEPT ![j] = to]
    /\ UNCHANGED <<leases, creating, holder, op, crashes>>

PassLeaseCheck(j) ==
    /\ JobHolds(j) /\ holder = NoProc
    /\ Moves(j, {"pending", "completion_rejected"}, "starting")

StartWorker(j) == Moves(j, {"starting"}, "running")

SubmitCompletion(j) ==
    /\ j \in Submitters
    /\ Moves(j, {"running"}, "completion_submitted")

(* The executor gave up waiting for the verdict; its worker is gone.        *)
WorkerExits(j) == Moves(j, {"completion_submitted"}, "abandoned")

RejectCompletion(j) == Moves(j, {"completion_submitted", "abandoned"}, "completion_rejected")

Settle(j) == Moves(j, CreateRefuses, "settled")

(* A process dies anywhere; the kernel drops its flock, its files stay.     *)
Crash(p) ==
    /\ crashes < MaxCrashes
    /\ op[p] # Idle
    /\ crashes' = crashes + 1
    /\ holder' = IF holder = p THEN NoProc ELSE holder
    /\ Returns(p)
    /\ UNCHANGED <<leases, status, creating>>

StoreStep(p) ==
    \/ \E j \in Jobs : TryAcquire(p, j) \/ Admit(p, j) \/ Release(p, j)
    \/ WriteLease(p) \/ AcquireDone(p)
    \/ AdmitPrepares(p) \/ AdmitCreates(p) \/ AdmitCommits(p) \/ AdmitFails(p)
    \/ Unlink(p) \/ ReleaseDone(p)
    \/ Scan(p) \/ StartReclaim(p) \/ UnlinkInactive(p) \/ ReclaimDone(p)

JobStep(j) ==
    \/ PassLeaseCheck(j) \/ StartWorker(j)
    \/ SubmitCompletion(j) \/ WorkerExits(j) \/ RejectCompletion(j)
    \/ Settle(j)

Next ==
    \/ \E p \in Procs : StoreStep(p) \/ Crash(p)
    \/ \E j \in Jobs : JobStep(j)

Spec == Init /\ [][Next]_vars

(* A lock section runs to its end unless its process dies, and every        *)
(* process that loads its context keeps doing so (the daemon's loop).  The  *)
(* flock is granted again and again while others use it, hence SF.          *)
LockSection(p) ==
    \/ WriteLease(p) \/ AcquireDone(p)
    \/ AdmitPrepares(p) \/ AdmitCreates(p) \/ AdmitCommits(p) \/ AdmitFails(p)
    \/ Unlink(p) \/ ReleaseDone(p)
    \/ UnlinkInactive(p) \/ ReclaimDone(p)

Fairness ==
    \A p \in Procs :
        /\ WF_vars(LockSection(p))
        /\ SF_vars(Scan(p))
        /\ SF_vars(StartReclaim(p))

FairSpec == Spec /\ Fairness

-----------------------------------------------------------------------------
(* No resource ever has more lease files than its capacity, whatever is     *)
(* interrupted: _has_capacity is checked under the lock for all resources   *)
(* before any file is written (resources.py try_acquire, admit).            *)
CapacityRespected == \A r \in Resources : Cardinality(Holders(r)) <= Capacity[r]

(* Leases of a job are all-or-nothing: as long as no process has died in a  *)
(* lock section, a job seen with the lock free holds all of its resources   *)
(* or none (try_acquire and admit return busy before writing; release and   *)
(* reclaim drop every file of the job).                                     *)
AllOrNothing ==
    (crashes = 0 /\ holder = NoProc) =>
        \A j \in Jobs : HeldBy(j) \in {{}, Needs[j]}

(* What a lock section is removing counts as free from its start, what it   *)
(* is writing as granted.                                                   *)
Removing(j) == \E p \in Procs :
    \/ op[p].pc = "releasing" /\ op[p].job = j
    \/ op[p].pc = "reclaiming" /\ j \notin op[p].keep

ToWrite(j) == {r \in Resources : \E p \in Procs :
    op[p].pc = "writing" /\ op[p].job = j /\ r \in op[p].todo}

Granted == [j \in Jobs |-> IF Removing(j) THEN {} ELSE HeldBy(j) \cup ToWrite(j)]

Table == INSTANCE LeaseTable WITH table <- Granted

(* The files are a lease table whose grants and releases are single steps:  *)
(* a grant has found room for everything at once, nobody sees it half done, *)
(* and only a death in a section leaves a part, of the jobs that section    *)
(* worked on (resources.py try_acquire, admit, _release_job_unlocked,       *)
(* release_inactive_reservations, each under _locked).                      *)
GrantsAreWhole == Table!TableSpec

(* A lease never blocks its resource for good: the lease of a job that is   *)
(* over, or whose admission died half-way, is released or its job becomes   *)
(* live, even when the executor that should have released it crashed.       *)
LeakedLeasesReclaimed ==
    \A j \in Jobs :
        (HeldBy(j) # {} /\ status[j] \in {"absent", "settled"})
            ~> (HeldBy(j) = {} \/ status[j] \notin {"absent", "settled"})

(* README.md, Model Resources: "A local model can have capacity `1` so only *)
(* one worker uses it at a time."                                           *)
WorkersWithinCapacity ==
    \A r \in Resources :
        Cardinality({j \in Jobs : r \in Needs[j] /\ status[j] \in WorkerRuns})
            <= Capacity[r]
=============================================================================
