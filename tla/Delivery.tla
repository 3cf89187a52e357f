------------------------------- MODULE Delivery -------------------------------
(***************************************************************************)
(* A verified candidate on its way into the repository: the plan, the      *)
(* check of the integration target, the effects that change files, the     *)
(* commit and the last look at the result (runtime/completion.py and       *)
(* runtime/pathops.py).  It is the path of one job from its creation; the  *)
(* journal, crashes and the records of the job are the subject of          *)
(* AcceptanceTransaction and JobRuntime.                                   *)
(***************************************************************************)
EXTENDS CandidateVerification

VARIABLES
    plan,        \* the files still to delete and to promote
    planned,     \* all files of the plan
    integrated   \* what the last look has seen, of an accepted job

deliveryVars == <<plan, planned, integrated>>
vars == <<userVars, outages, inputVars, foreign, pc, snap, workVars, captureVars, verifyVars,
          deliveryVars>>

Plans == [delete : SUBSET Paths, promote : SUBSET Paths]
NoPlan == [delete |-> {}, promote |-> {}]

Pcs == Starting \cup Capturing \cup
       {"working", "sealed", "verifying", "verified", "targeting", "applying", "integrating",
        "accepted", "failed"}

TypeOK ==
    /\ repo \in Trees /\ head \in Trees /\ ws \in Trees /\ storage \in Trees /\ copy \in Trees
    /\ pre \in Trees /\ integrated \in Trees
    /\ commits \in Nat /\ edits \in 0..MaxEdits /\ writes \in 0..MaxWrites
    /\ outages \in 0..MaxOutages
    /\ policy \in Policies /\ kind \in Kinds /\ pc \in Pcs
    /\ snap \in Snapshots
    /\ contract \in Contracts
    /\ history \subseteq Trees /\ foreign \subseteq Paths
    /\ subs \in 0..MaxSubmissions /\ listed \subseteq Artifacts
    /\ cand \in Candidates
    /\ results \in Seq(CheckStatuses) /\ ran \in Seq(Trees)
    /\ plan \in Plans /\ planned \subseteq Paths

Init ==
    /\ InputsInit /\ CaptureInit /\ VerifyInit
    /\ plan = NoPlan /\ planned = {} /\ integrated = Empty

(* Artifacts would shadow source that the baseline or the repository has.   *)
Shadowed ==
    \E p \in listed :
        \/ kind = "contract" /\ contract.baseline[p] # Absent
        \/ repo[p] # Absent

(* _candidate_change_plan: submitted artifacts travel by themselves, equal  *)
(* files need nothing.                                                      *)
ToDelete == cand.changes.delete \ listed
ToPromote == {p \in (cand.changes.add \cup cand.changes.edit) \ listed : repo[p] # storage[p]}

ShadowRejects == pc = "verified" /\ Shadowed /\ Reject /\ UNCHANGED deliveryVars

(* _check_integration_target has nothing to compare without a contract.     *)
Plan ==
    /\ pc = "verified" /\ ~Shadowed
    /\ plan' = [delete |-> ToDelete, promote |-> ToPromote]
    /\ planned' = ToDelete \cup ToPromote
    /\ pc' = IF kind = "contract" THEN "targeting" ELSE "applying"
    /\ IF kind = "contract" THEN StartSnapshot(Tracked(head))
       ELSE snap' = NoSnapshot /\ UNCHANGED outages
    /\ UNCHANGED <<captureVars, integrated>>

(* The reasons for repo.stale_target.  Two checkouts are compared by their  *)
(* HEAD and must be clean.                                                  *)
BranchDrifted ==
    /\ snap.commit # Unread /\ contract.commit # Unread
    /\ snap.commit # contract.commit \/ contract.dirty \/ snap.dirty

DriftedBranch == BranchDrifted

Drifted == ~SameManifest(snap.seen, contract.baseline) \/ BranchDrifted

TargetRejects ==
    /\ pc = "targeting" /\ snap.step = "done" /\ Drifted
    /\ Reject
    /\ plan' = NoPlan /\ planned' = {}
    /\ UNCHANGED integrated

TargetAccepts ==
    /\ pc = "targeting" /\ snap.step = "done" /\ ~Drifted
    /\ snap' = NoSnapshot
    /\ pc' = "applying"
    /\ UNCHANGED <<captureVars, deliveryVars>>

(* The effects write what was planned, whatever the repository holds now:   *)
(* every delete before every promotion, each in the order of the paths.     *)
Promote(p) ==
    /\ plan.delete = {} /\ IsFirst(p, plan.promote)
    /\ repo' = [repo EXCEPT ![p] = storage[p]]
    /\ plan' = [plan EXCEPT !.promote = @ \ {p}]

Delete(p) ==
    /\ IsFirst(p, plan.delete)
    /\ repo' = [repo EXCEPT ![p] = Absent]
    /\ plan' = [plan EXCEPT !.delete = @ \ {p}]

ApplyChange ==
    /\ pc = "applying"
    /\ \E p \in planned : Promote(p) \/ Delete(p)
    /\ UNCHANGED <<head, commits, pc, snap, outages, planned, integrated>>

(* git add and git commit of the planned paths, as they are now; then the   *)
(* repository is looked at once more.                                       *)
Committed ==
    LET paths == Committable(repo, head, planned)
    IN [p \in Paths |-> IF p \in paths THEN repo[p] ELSE head[p]]

CommitChanges ==
    /\ pc = "applying" /\ plan = NoPlan
    /\ head' = Committed
    /\ commits' = IF Committed # head THEN commits + 1 ELSE commits
    /\ StartSnapshot(Tracked(head'))
    /\ pc' = "integrating"
    /\ UNCHANGED <<repo, plan, planned, integrated>>

(* A conflict, a failed write or a failed commit.  What has been applied    *)
(* and committed stays.                                                     *)
DeliveryFails ==
    /\ pc = "applying"
    /\ pc' = "failed"
    /\ snap' = NoSnapshot
    /\ UNCHANGED <<repo, head, commits, outages, deliveryVars>>

ScanIntegrated ==
    /\ pc = "integrating" /\ snap.step = "scan"
    /\ snap' = Read(repo)
    /\ UNCHANGED <<repo, head, commits, outages, pc, deliveryVars>>

(* The whole surface, without the artifacts, which have gone elsewhere.     *)
Surface(manifest) == [p \in Paths \ listed |-> manifest[p]]

(* Every change by itself, ignored or not.                                  *)
ChangesReached ==
    /\ \A p \in ToDelete : repo[p] = Absent
    /\ \A p \in (cand.changes.add \cup cand.changes.edit) \ listed : repo[p] = storage[p]

Validate ==
    /\ pc = "integrating" /\ snap.step = "head"
    /\ IF Surface(Manifest(storage, cand.sel)) = Surface(snap.seen) /\ ChangesReached
       THEN pc' = "accepted" /\ integrated' = snap.seen
       ELSE pc' = "failed" /\ UNCHANGED integrated
    /\ snap' = NoSnapshot
    /\ UNCHANGED <<repo, head, commits, outages, plan, planned>>

RepositorySteps ==
    \/ ApplyChange
    \/ CommitChanges
    \/ DeliveryFails
    \/ ScanIntegrated
    \/ Validate

PlanSteps ==
    \/ ShadowRejects /\ UNCHANGED outages
    \/ Plan
    \/ TargetRejects /\ UNCHANGED outages
    \/ TargetAccepts /\ UNCHANGED outages

Next ==
    \/ InputSteps /\ UNCHANGED <<userVars, kind, foreign, captureVars, verifyVars, deliveryVars>>
    \/ UserSteps
       /\ UNCHANGED <<outages, inputVars, pc, snap, workVars, captureVars, verifyVars,
                       deliveryVars>>
    \/ \E p \in WorkerPaths, c \in Contents : WorkerWrites(p, c)
       /\ UNCHANGED <<userVars, outages, inputVars, foreign, captureVars, verifyVars,
                       deliveryVars>>
    \/ CaptureSteps
       /\ UNCHANGED <<userVars, outages, inputVars, foreign, workVars, verifyVars, deliveryVars>>
    \/ VerificationSteps
       /\ UNCHANGED <<userVars, outages, inputVars, foreign, workVars, deliveryVars>>
    \/ PlanSteps /\ UNCHANGED <<userVars, inputVars, foreign, workVars, verifyVars>>
    \/ RepositorySteps
       /\ UNCHANGED <<policy, edits, foreign, inputVars, workVars, captureVars, verifyVars>>

Spec == Init /\ [][Next]_vars

--------------------------------------------------------------------------------
(* A sealed candidate is a state the workspace was in: it mixes no files    *)
(* from before and after a write of the worker, however the copy and the    *)
(* scans of capture_candidate interleave with it.                           *)
SealedIsSnapshot ==
    pc \in {"sealed", "verifying", "verified", "targeting", "applying", "integrating"} =>
        \E tree \in history : Manifest(tree, cand.sel) = Manifest(storage, cand.sel)

(* What an accepted code change leaves in the repository is, but for the    *)
(* artifacts, what every command of the contract frozen with the job found  *)
(* when it started and passed on; and no command of it was left out.        *)
DeliveredIsVerified ==
    pc = "accepted" /\ kind = "contract" =>
        /\ Len(ran) = Len(contract.checks) /\ ran # << >>
        /\ \A i \in DOMAIN ran :
              /\ results[i] = "passed"
              /\ Surface(Manifest(ran[i], Refresh(contract.sel, ran[i]))) = Surface(integrated)

(* No file that the user has changed under the running job, before its      *)
(* submission was about to be published, is written or removed by the       *)
(* publication of a code change: _check_integration_target stops it.  This  *)
(* is said of a job that was frozen by the rule of a checkout.  When git    *)
(* did not answer then, the baseline has files that the comparison leaves   *)
(* out as ignored, and the publication may write over such a one.           *)
EarlierEditsKept ==
    [][pc = "applying" /\ kind = "contract" /\ contract.sel.git =>
           \A p \in foreign : repo'[p] = repo[p]]_vars

(* "If the source changed since the baseline, the candidate is preserved    *)
(* and integration is halted with a stale/conflict report rather than       *)
(* copying verified bytes over a newer repository" (completion.py:1237),    *)
(* said of every integration.                                               *)
NewerRepositoryKept ==
    [][pc = "applying" => \A p \in foreign : repo'[p] = repo[p]]_vars
================================================================================
