------------------------------ MODULE JobInputs ------------------------------
(***************************************************************************)
(* What a job is given: the snapshot of the repository and the commands    *)
(* frozen when it is created (runtime/repository_facts.py,                 *)
(* runtime/standard_contracts.py, runtime/execution_contracts.py,          *)
(* runtime/planning_inputs.py) and the workspace prepared from them        *)
(* (runtime/workspaces.py).  The user edits and commits meanwhile.         *)
(*                                                                         *)
(* A job of kind "contract" changes code and is verified by the commands   *)
(* of contract.yaml; one of kind "planning" produces artifacts only.       *)
(***************************************************************************)
EXTENDS SourceSelection

CONSTANTS
    Kinds,          \* the kinds of job of the instance
    Present,        \* paths the repository has at first
    Indexed,        \* of those, the tracked ones
    UserPaths,      \* paths the user may edit
    WorkerPaths,    \* paths the worker may write
    FirstPolicy,    \* the commands of contract.yaml; << >> is a file with errors
    Policies,       \* what the user may make of contract.yaml
    MaxEdits,
    MaxOutages      \* bound on the calls of git that fail

ASSUME KindsAssumption == Kinds \subseteq {"contract", "planning"}
ASSUME RepositoryAssumption ==
    /\ Indexed \subseteq Present /\ Present \subseteq Paths
    /\ UserPaths \subseteq Paths /\ WorkerPaths \subseteq Paths
ASSUME PoliciesAssumption ==
    /\ FirstPolicy \in Policies /\ MaxEdits \in 0..MaxWrites /\ MaxOutages \in Nat
    /\ \A commands \in Policies : commands \in Seq(STRING) /\ Len(commands) <= MaxWrites

VARIABLES
    repo,       \* the working tree of the repository
    head,       \* the tree of its HEAD, and of its index
    commits,    \* the number of HEAD
    policy,     \* contract.yaml
    edits,      \* the user's edits so far
    outages,    \* the calls of git that have failed so far
    kind,       \* the kind of the job
    pc,         \* how far the job is
    snap,       \* the snapshot or scan being taken
    contract,   \* the frozen inputs of the job
    ws,         \* its workspace
    writes,     \* the worker's writes so far
    history,    \* ghost: the trees the workspace has been since the worker started
    foreign     \* ghost: paths the user changed under the running job

userVars == <<repo, head, commits, policy, edits>>
inputVars == <<kind, contract>>
workVars == <<ws, writes, history>>

(* A HEAD that git could not tell, or not in time, is Unread.               *)
Unread == -1
Heads == Nat \cup {Unread}

Snapshots == [step : {"off", "scan", "head", "status", "done"}, at : 1..(Len(Order) + 1),
              sel : Selections, seen : Trees, commit : Heads, dirty : BOOLEAN]
NoSnapshot == [step |-> "off", at |-> 1, sel |-> NonGit, seen |-> Empty,
               commit |-> 0, dirty |-> FALSE]

Contracts == [baseline : Trees, sel : Selections, commit : Heads, dirty : BOOLEAN,
              checks : Policies \cup {<< >>}]
NoContract == [baseline |-> Empty, sel |-> NonGit, commit |-> 0, dirty |-> FALSE,
               checks |-> FirstPolicy]

Starting == {"idle", "freezing", "frozen", "copying", "refused"}
Settled == {"accepted", "failed", "refused"}

InputsInit ==
    /\ repo = [p \in Paths |-> IF p \in Present THEN Original ELSE Absent]
    /\ head = [p \in Paths |-> IF p \in Indexed THEN Original ELSE Absent]
    /\ commits = 0 /\ policy = FirstPolicy /\ edits = 0 /\ outages = 0
    /\ kind \in Kinds /\ pc = "idle" /\ snap = NoSnapshot /\ contract = NoContract
    /\ ws = Empty /\ writes = 0 /\ history = {} /\ foreign = {}

--------------------------------------------------------------------------------
(* capture_repository_snapshot of the repository: the rule is discovered,   *)
(* the files are hashed one after the other, and git is asked for HEAD and  *)
(* then for the status.                                                     *)

ScanBy(sel) == [NoSnapshot EXCEPT !.step = "scan", !.sel = sel]

GitFails == outages < MaxOutages /\ outages' = outages + 1

StartSnapshot(tracked) ==
    \/ snap' = ScanBy(Discover(repo, tracked)) /\ UNCHANGED outages
    \/ \E sel \in DiscoverSilent(repo) : snap' = ScanBy(sel) /\ GitFails

Reads(tree) == IF Order[snap.at] \in Selected(snap.sel) THEN tree[Order[snap.at]] ELSE Absent

Read(tree) ==
    [snap EXCEPT !.seen[Order[snap.at]] = Reads(tree), !.at = @ + 1,
                 !.step = IF snap.at = Len(Order) THEN "head" ELSE "scan"]

ScanRepository ==
    /\ pc \in {"freezing", "targeting"} /\ snap.step = "scan"
    /\ snap' = Read(repo)

ReadHead ==
    /\ pc \in {"freezing", "targeting"} /\ snap.step = "head"
    /\ snap' = [snap EXCEPT !.step = "status", !.commit = commits]

ReadStatus ==
    /\ pc \in {"freezing", "targeting"} /\ snap.step = "status"
    /\ snap' = [snap EXCEPT !.step = "done", !.dirty = Dirty(repo, head)]

(* git fails or needs more than its ten seconds: a tree without a HEAD is   *)
(* no checkout, and one without a status is not called dirty.               *)
GitSilent ==
    /\ pc \in {"freezing", "targeting"} /\ snap.step \in {"head", "status"}
    /\ GitFails
    /\ snap' = [snap EXCEPT !.step = "done", !.commit = IF snap.step = "head" THEN Unread ELSE @]

--------------------------------------------------------------------------------
(* load_standard_contract and _validate_global_commands: no job without a   *)
(* command to verify it.                                                    *)
PolicyUsable(commands) == commands # << >>

RefuseJob ==
    /\ pc = "idle" /\ kind = "contract" /\ ~PolicyUsable(policy)
    /\ pc' = "refused"
    /\ UNCHANGED <<snap, contract>>

(* The commands are copied into the contract before the repository is read. *)
StartFreeze ==
    /\ pc = "idle" /\ (kind = "contract" => PolicyUsable(policy))
    /\ contract' = [contract EXCEPT !.checks = IF kind = "contract" THEN policy ELSE << >>]
    /\ StartSnapshot(Tracked(head))
    /\ pc' = "freezing"

(* The frozen contract, and the frozen baseline of a planning job.  From    *)
(* here on the job runs by what it was created with.                        *)
Freeze ==
    /\ pc = "freezing" /\ snap.step = "done"
    /\ contract' = [contract EXCEPT !.baseline = snap.seen, !.sel = snap.sel,
                                    !.commit = snap.commit, !.dirty = snap.dirty]
    /\ snap' = NoSnapshot
    /\ pc' = "frozen"

--------------------------------------------------------------------------------
(* WorkspacePreparer.prepare copies the repository into the workspace by    *)
(* the frozen selection, file after file, and compares what it has copied   *)
(* with the frozen baseline.                                                *)
StartCopy ==
    /\ pc = "frozen"
    /\ snap' = ScanBy(contract.sel)
    /\ pc' = "copying"
    /\ UNCHANGED workVars

CopyRepository ==
    /\ pc = "copying" /\ snap.step = "scan"
    /\ LET p == Order[snap.at]
       IN ws' = [ws EXCEPT ![p] = IF Reads(repo) # Absent THEN Reads(repo) ELSE @]
    /\ snap' = Read(repo)
    /\ UNCHANGED <<pc, writes, history>>

BaselineKept == SameManifest(Manifest(ws, contract.sel), contract.baseline)

StartWorker ==
    /\ pc = "copying" /\ snap.step = "head"
    /\ pc' = IF BaselineKept THEN "working" ELSE "failed"
    /\ history' = IF BaselineKept THEN {ws} ELSE {}
    /\ snap' = NoSnapshot
    /\ UNCHANGED <<ws, writes>>

(* The repair of a rejected submission starts on the workspace as it is.    *)
(* A worker writes whenever it likes, its submission or not: it is not      *)
(* stopped before its job is settled.                                       *)
WorkerWrites(p, content) ==
    /\ pc \notin Starting \cup Settled /\ writes < MaxWrites
    /\ content \in {<<"worker", writes + 1>>, Absent} \ {ws[p]}
    /\ ws' = [ws EXCEPT ![p] = content]
    /\ writes' = writes + 1
    /\ history' = history \cup {ws'}
    /\ UNCHANGED <<pc, snap>>

(* cleanup_job_workspaces                                                   *)
CleanWorkspace ==
    /\ pc \in {"accepted", "failed"} /\ ws # Empty
    /\ ws' = Empty
    /\ UNCHANGED <<pc, snap, writes, history>>

--------------------------------------------------------------------------------
(* The user, until the job is settled.  "foreign" gathers the source files  *)
(* the user changes between the freeze and the moment the submission is     *)
(* about to be published.                                                   *)

BeforePublication == Starting \cup {"working", "pre", "copy", "post", "final", "sealed", "verifying"}

UserEdits(p, content) ==
    /\ pc \notin Settled /\ edits < MaxEdits
    /\ content \in {<<"user", edits + 1>>, Absent} \ {repo[p]}
    /\ repo' = [repo EXCEPT ![p] = content]
    /\ edits' = edits + 1
    /\ foreign' = IF content = contract.baseline[p] THEN foreign \ {p}
                  ELSE IF /\ pc \in BeforePublication \ {"idle", "freezing"}
                          /\ p \in Selected(contract.sel)
                       THEN foreign \cup {p} ELSE foreign
    /\ UNCHANGED <<head, commits, policy>>

(* git add -A; git commit                                                   *)
UserCommits ==
    /\ pc \notin Settled /\ Dirty(repo, head) /\ commits < MaxEdits
    /\ LET committed == Committable(repo, head, Paths)
       IN head' = [p \in Paths |-> IF p \in committed THEN repo[p] ELSE head[p]]
    /\ commits' = commits + 1
    /\ UNCHANGED <<repo, policy, edits, foreign>>

UserConfigures(commands) ==
    /\ pc \notin Settled /\ commands # policy /\ edits < MaxEdits
    /\ policy' = commands
    /\ edits' = edits + 1
    /\ UNCHANGED <<repo, head, commits, foreign>>

InputSteps ==
    \/ ScanRepository /\ UNCHANGED <<pc, contract, workVars, outages>>
    \/ ReadHead /\ UNCHANGED <<pc, contract, workVars, outages>>
    \/ ReadStatus /\ UNCHANGED <<pc, contract, workVars, outages>>
    \/ GitSilent /\ UNCHANGED <<pc, contract, workVars>>
    \/ RefuseJob /\ UNCHANGED <<workVars, outages>>
    \/ StartFreeze /\ UNCHANGED workVars
    \/ Freeze /\ UNCHANGED <<workVars, outages>>
    \/ StartCopy /\ UNCHANGED <<contract, outages>>
    \/ CopyRepository /\ UNCHANGED <<contract, outages>>
    \/ StartWorker /\ UNCHANGED <<contract, outages>>
    \/ CleanWorkspace /\ UNCHANGED <<contract, outages>>

UserSteps ==
    \/ \E p \in UserPaths, c \in Contents : UserEdits(p, c)
    \/ UserCommits
    \/ \E commands \in Policies : UserConfigures(commands)
================================================================================
