--------------------------- MODULE CandidateCapture ---------------------------
(***************************************************************************)
(* The sealing of a submitted workspace: capture_candidate of              *)
(* runtime/candidate.py.  The worker is not stopped while its workspace is *)
(* copied; the workspace is scanned before the copy, after it, and once    *)
(* more when the record of the candidate is on disk.                       *)
(***************************************************************************)
EXTENDS JobInputs

CONSTANTS MaxSubmissions

ASSUME SubmissionsAssumption == MaxSubmissions \in Nat \ {0}

CONSTANTS
    Artifacts,   \* paths in the output directory, submitted as artifacts
    Required     \* those the transition requires

ASSUME ArtifactsAssumption == Required \subseteq Artifacts /\ Artifacts \subseteq Paths

VARIABLES
    subs,      \* submissions so far
    listed,    \* the artifacts the submission names
    pre,       \* the manifest before the copy
    storage,   \* the stored copy
    cand       \* the sealed record: its selection and its changes

captureVars == <<subs, listed, pre, storage, cand>>

Candidates == [sel : Selections, changes : Changes]
NoCandidate == [sel |-> NonGit, changes |-> Delta(Empty, Empty)]
Capturing == {"pre", "copy", "post", "final"}

CaptureInit ==
    /\ subs = 0 /\ listed = {} /\ pre = Empty /\ storage = Empty /\ cand = NoCandidate

(* A rejected submission is repaired, or the job is given up.               *)
Reject ==
    /\ pc' \in {"working", "failed"}
    /\ snap' = NoSnapshot
    /\ pre' = Empty /\ storage' = Empty /\ cand' = NoCandidate
    /\ UNCHANGED <<subs, listed>>

(* A planning job has no frozen selection: the rule of its workspace, a     *)
(* tree without .git, is discovered.                                        *)
CandidateSelection == IF kind = "contract" THEN Refresh(contract.sel, ws) ELSE NonGit

(* Its candidate has no baseline either.                                    *)
CandidateBaseline == IF kind = "contract" THEN contract.baseline ELSE Empty

SubmitUnbounded(artifacts) ==
    /\ pc = "working"
    /\ subs' = subs + 1 /\ listed' = artifacts
    /\ snap' = ScanBy(CandidateSelection)
    /\ pc' = "pre"
    /\ UNCHANGED <<pre, storage, cand>>

Submit(artifacts) ==
    /\ pc = "working" /\ subs < MaxSubmissions
    /\ subs' = subs + 1 /\ listed' = artifacts
    /\ snap' = ScanBy(CandidateSelection)
    /\ pc' = "pre"
    /\ UNCHANGED <<pre, storage, cand>>

ScanWorkspace ==
    /\ pc \in {"pre", "post", "final"} /\ snap.step = "scan"
    /\ snap' = Read(ws)
    /\ UNCHANGED <<pc, captureVars>>

StartSealing ==
    /\ pc = "pre" /\ snap.step = "head"
    /\ pre' = snap.seen
    /\ snap' = ScanBy(snap.sel)
    /\ pc' = "copy"
    /\ UNCHANGED <<subs, listed, storage, cand>>

(* _copy_deliverables walks the workspace anew.                             *)
CopyFile ==
    /\ pc = "copy" /\ snap.step = "scan"
    /\ storage' = [storage EXCEPT ![Order[snap.at]] = Reads(ws)]
    /\ snap' = Read(ws)
    /\ UNCHANGED <<pc, subs, listed, pre, cand>>

StartPostScan ==
    /\ pc = "copy" /\ snap.step = "head"
    /\ snap' = ScanBy(snap.sel)
    /\ pc' = "post"
    /\ UNCHANGED captureVars

(* post against pre: candidate.unstable; stored against post:               *)
(* candidate.capture_failed.                                                *)
Stable(sel, seen) ==
    /\ SameManifest(seen, pre)
    /\ SameManifest(Manifest(storage, sel), seen)

Seal ==
    /\ pc = "post" /\ snap.step = "head" /\ Stable(snap.sel, snap.seen)
    /\ cand' = [sel |-> snap.sel, changes |-> Delta(CandidateBaseline, snap.seen)]
    /\ snap' = ScanBy(snap.sel)
    /\ pc' = "final"
    /\ UNCHANGED <<subs, listed, pre, storage>>

Unstable ==
    /\ pc = "post" /\ snap.step = "head" /\ ~Stable(snap.sel, snap.seen)
    /\ Reject

(* The last scan: the workspace may have changed while the record was       *)
(* written.                                                                 *)
Sealed ==
    /\ pc = "final" /\ snap.step = "head" /\ SameManifest(snap.seen, pre)
    /\ snap' = NoSnapshot /\ pre' = Empty
    /\ pc' = "sealed"
    /\ UNCHANGED <<subs, listed, storage, cand>>

Superseded ==
    /\ pc = "final" /\ snap.step = "head" /\ ~SameManifest(snap.seen, pre)
    /\ Reject

(* A file that vanishes between the walk and its open, a link in its place, *)
(* or a disk that is full.                                                  *)
CaptureFails == pc \in Capturing /\ Reject

CaptureSteps ==
    \/ \E artifacts \in SUBSET Artifacts : Submit(artifacts)
    \/ ScanWorkspace
    \/ StartSealing
    \/ CopyFile
    \/ StartPostScan
    \/ Seal
    \/ Unstable
    \/ Sealed
    \/ Superseded
    \/ CaptureFails
================================================================================
