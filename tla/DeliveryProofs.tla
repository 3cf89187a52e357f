---------------------------- MODULE DeliveryProofs ----------------------------
(***************************************************************************)
(* Theorems about the delivery of a candidate, for any paths, rules,       *)
(* policies, bounds and edits.                                             *)
(***************************************************************************)
EXTENDS Delivery, SequenceTheorems, TLAPS

-----------------------------------------------------------------------------
(* Conditions.                                                             *)

(* No tracked file has a name that the verification copy leaves out.        *)
NothingDropped == contract.sel.tracked \cap Dropped = {}

(* No tracked file lies where the rules would ignore it.                    *)
TrackedStandsOut == contract.sel.tracked \cap IgnoredByRule(contract.sel) = {}

(* The worker gives no file a content back that it had before.              *)
RestoresNothing ==
    pc \notin Starting \cup Settled =>
        \A p \in Paths : ws'[p] # ws[p] => \A tree \in history : tree[p] # ws'[p]

-----------------------------------------------------------------------------
(* Invariants.                                                             *)

(* A scan knows where it is.                                                *)
ScanPlace ==
    /\ snap.step = "scan" => snap.at <= Len(Order)
    /\ snap.step \in {"head", "status", "done"} => snap.at = Len(Order) + 1

Scanned == {Order[k] : k \in 1..(snap.at - 1)}

(* What the commands write is found in their copy only.                     *)
ByCheck(content) == content[1] = "check"

Unchecked == \A p \in Paths : ~ByCheck(repo[p]) /\ ~ByCheck(ws[p]) /\ ~ByCheck(storage[p])

(* The selection by which a candidate is captured and kept.                 *)
CandidatePcs == {"final", "sealed", "verifying", "verified", "targeting", "applying",
                 "integrating", "accepted"}
Carried == IF pc \in {"pre", "copy", "post"} THEN snap.sel ELSE cand.sel

(* The frozen selection is that of a checkout, or of a tree without .git    *)
(* when git did not answer.                                                 *)
ByRule(sel) == sel.git \/ sel = NonGit

FrozenRule ==
    /\ pc = "freezing" => ByRule(snap.sel)
    /\ pc \notin Starting \/ pc \in {"frozen", "copying"} => ByRule(contract.sel)

(* Stored is what the selection selects; and when .gitignore of a checkout  *)
(* is stored as it was first, the selection ignores what that ignores.      *)
StoredByRule ==
    /\ pc \in Starting \cup {"working", "pre"} => storage = Empty
    /\ pc \in {"copy", "post"} \cup CandidatePcs =>
          \A p \in Paths \ Selected(Carried) : storage[p] = Absent
    /\ kind = "contract" /\ pc \in {"pre", "copy", "post"} \cup CandidatePcs =>
          /\ Carried.tracked = contract.sel.tracked
          /\ Carried.ignored \in {{}, Ignorable}
          /\ ~contract.sel.git => Carried = contract.sel
          /\ contract.sel.git /\ storage[IgnoreFile] = Original => Carried.ignored = Ignorable
          /\ contract.sel.git /\ pc \in {"pre", "copy"} /\ ws[IgnoreFile] = Original =>
                Carried.ignored = Ignorable

VerifiedPcs == {"verified", "targeting", "applying", "integrating", "accepted"}

(* What a command has written differs from the candidate for good.          *)
RanOnCopy ==
    pc \in {"verifying"} \cup VerifiedPcs =>
        /\ Len(ran) = Len(results) /\ Len(results) <= Len(contract.checks)
        /\ \A p \in Paths : copy[p] = VerificationCopy(storage)[p] \/ ByCheck(copy[p])
        /\ \A i \in 1..Len(ran), p \in Paths :
              \/ ran[i][p] = VerificationCopy(storage)[p]
              \/ ByCheck(ran[i][p]) /\ ByCheck(copy[p])

VerdictStands ==
    pc \in VerifiedPcs /\ kind = "contract" =>
        Len(results) = Len(contract.checks) /\ AllPassed /\ SourceUnchanged

AcceptedAsStored ==
    pc = "accepted" => Surface(Manifest(storage, cand.sel)) = Surface(integrated)

(* A .gitignore that is as it was first has been so when the job was        *)
(* created: the rules ignore no more than those of the checkout did.        *)
RulesLoosen ==
    /\ pc = "freezing" /\ snap.sel.git /\ repo[IgnoreFile] = Original =>
          snap.sel.ignored = Ignorable
    /\ pc \notin {"idle", "freezing", "applying", "integrating"} \cup Settled
          /\ contract.sel.git /\ repo[IgnoreFile] = Original =>
              contract.sel.ignored = Ignorable
    /\ pc = "targeting" /\ contract.sel.git => snap.sel.ignored \subseteq contract.sel.ignored

(* What the user has changed differs from the baseline; the comparison with *)
(* the target meets it.                                                     *)
ForeignDiffers ==
    /\ pc \in {"idle", "freezing"} => foreign = {}
    /\ pc \notin {"applying", "integrating"} \cup Settled =>
          \A p \in foreign : p \in Selected(contract.sel) /\ repo[p] # contract.baseline[p]
    /\ pc = "targeting" /\ contract.sel.git /\ TrackedStandsOut =>
          \A p \in foreign \cap Scanned : snap.seen[p] # contract.baseline[p]
    /\ pc = "applying" /\ kind = "contract" /\ contract.sel.git /\ TrackedStandsOut =>
          foreign = {}

(* A workspace of the worker's past; a content that a file has no more.     *)
Gone(p, content) == ws[p] # content /\ \E tree \in history : tree[p] = content

ScannedOnce(tree) == \A p \in Selected(snap.sel) :
    \/ tree[p] = pre[p]
    \/ Gone(p, pre[p]) /\ (pc = "post" /\ p \in Scanned => snap.seen[p] # pre[p])

OneState ==
    /\ pc \notin Starting \cup Settled => ws \in history
    /\ pc = "pre" => \A p \in Selected(snap.sel) \cap Scanned :
          \E tree \in history : tree[p] = snap.seen[p]
    /\ pc \in {"copy", "post"} => \E tree \in history : ScannedOnce(tree)
    /\ pc \in CandidatePcs \ {"accepted"} =>
          \E tree \in history : Manifest(tree, cand.sel) = Manifest(storage, cand.sel)

-----------------------------------------------------------------------------
(* Operators.                                                              *)

LEMMA OrderFacts ==
    /\ Len(Order) \in Nat \ {0} /\ DOMAIN Order = 1..Len(Order)
    /\ \A k \in 1..Len(Order) : Order[k] \in Paths
    /\ \A p \in Paths : \E k \in 1..Len(Order) : Order[k] = p
    /\ \A k, m \in 1..Len(Order) : Order[k] = Order[m] => k = m
<1>1. Order \in Seq(Paths) /\ Paths # {}
  BY PathsAssumption
<1>2. Len(Order) \in Nat /\ DOMAIN Order = 1..Len(Order)
  BY <1>1, LenProperties
<1>3. \A p \in Paths : \E k \in 1..Len(Order) : Order[k] = p
  BY <1>2 DEF Paths, ToSet
<1>4. \A k \in 1..Len(Order) : Order[k] \in Paths
  BY <1>1, ElementOfSeq
<1>5. \A k, m \in 1..Len(Order) : Order[k] = Order[m] => k = m
  BY <1>2, PathsAssumption DEF IsInjective
<1> QED
  BY <1>1, <1>2, <1>3, <1>4, <1>5

LEMMA ContentFacts ==
    /\ Absent \in Contents /\ Original \in Contents /\ Empty \in Trees
    /\ ~ByCheck(Absent) /\ ~ByCheck(Original)
    /\ \A p \in Paths : Empty[p] = Absent
    /\ Empty[IgnoreFile] # Original
  BY PathsAssumption DEF Absent, Original, Empty, Trees, Contents, ByCheck

(* A selection of a tree is a selection of its paths.                       *)
LEMMA SelectionFacts ==
  ASSUME NEW tree \in Trees, NEW tracked \in SUBSET Paths, NEW sel \in Selections
  PROVE  /\ Discover(tree, tracked) \in Selections
         /\ Refresh(sel, tree) \in Selections
         /\ NonGit \in Selections
         /\ Selected(sel) \subseteq Paths
         /\ Layer(tree) \in {{}, Ignorable}
<1>1. Layer(tree) \in SUBSET Paths /\ Layer(tree) \in {{}, Ignorable}
  BY PathsAssumption DEF Layer
<1>2. Discover(tree, tracked) \in Selections /\ NonGit \in Selections
  BY <1>1 DEF Discover, NonGit, Selections
<1>3. Refresh(sel, tree) \in Selections
  BY <1>1 DEF Refresh, Selections
<1>4. Selected(sel) \subseteq Paths
  BY DEF Selected, Selections
<1> QED
  BY <1>1, <1>2, <1>3, <1>4

LEMMA DiscoverTyped ==
  ASSUME NEW tree \in Trees, NEW tracked \in SUBSET Paths
  PROVE  Discover(tree, tracked) \in Selections
<1>1. NonGit \in Selections
  BY DEF NonGit, Selections
<1> QED
  BY <1>1, SelectionFacts

LEMMA ManifestTyped ==
  ASSUME NEW tree \in Trees, NEW sel \in Selections
  PROVE  Manifest(tree, sel) \in Trees
  BY ContentFacts DEF Manifest, Trees

LEMMA DeltaTyped ==
  ASSUME NEW before \in Trees, NEW after \in Trees
  PROVE  Delta(before, after) \in Changes
  BY DEF Delta, Changes

LEMMA NoSnapshotTyped ==
    /\ NoSnapshot \in Snapshots /\ NoSnapshot.step = "off" /\ NoSnapshot.at = 1
    /\ NoSnapshot.seen = Empty
  BY OrderFacts, ContentFacts DEF NoSnapshot, Snapshots, Heads, NonGit, Selections

(* A scan that begins.                                                      *)
LEMMA ScanByTyped ==
  ASSUME NEW sel \in Selections
  PROVE  /\ ScanBy(sel) \in Snapshots /\ ScanBy(sel).step = "scan" /\ ScanBy(sel).at = 1
         /\ ScanBy(sel).sel = sel
<1>1. ScanBy(sel) = [NoSnapshot EXCEPT !.step = "scan", !.sel = sel]
  BY DEF ScanBy
<1> QED
  BY <1>1, NoSnapshotTyped DEF Snapshots

(* A scan that goes on: one path is read and the rest is as it was.         *)
LEMMA ReadFacts ==
  ASSUME NEW tree \in Trees, snap \in Snapshots, snap.step = "scan", ScanPlace
  PROVE  /\ Order[snap.at] \in Paths /\ snap.at \in 1..Len(Order)
         /\ Reads(tree) \in Contents
         /\ Read(tree) \in Snapshots
         /\ Read(tree).sel = snap.sel /\ Read(tree).at = snap.at + 1
         /\ Read(tree).step = IF snap.at = Len(Order) THEN "head" ELSE "scan"
         /\ Read(tree).seen = [snap.seen EXCEPT ![Order[snap.at]] = Reads(tree)]
<1>1. snap.at \in 1..Len(Order) /\ Order[snap.at] \in Paths
  BY OrderFacts DEF ScanPlace, Snapshots
<1>2. Reads(tree) \in Contents
  BY <1>1, ContentFacts DEF Reads, Trees
<1>3. [snap.seen EXCEPT ![Order[snap.at]] = Reads(tree)] \in Trees
  BY <1>1, <1>2 DEF Snapshots, Trees
<1>4. Read(tree) = [snap EXCEPT !.seen = [snap.seen EXCEPT ![Order[snap.at]] = Reads(tree)],
                                !.at = snap.at + 1,
                                !.step = IF snap.at = Len(Order) THEN "head" ELSE "scan"]
  BY DEF Read, Snapshots
<1>5. snap.at + 1 \in 1..(Len(Order) + 1)
  BY <1>1, OrderFacts
<1>6. Read(tree) \in Snapshots
  BY <1>3, <1>4, <1>5 DEF Snapshots
<1>7. /\ Read(tree).sel = snap.sel /\ Read(tree).at = snap.at + 1
      /\ Read(tree).step = IF snap.at = Len(Order) THEN "head" ELSE "scan"
      /\ Read(tree).seen = [snap.seen EXCEPT ![Order[snap.at]] = Reads(tree)]
  BY <1>4 DEF Snapshots
<1> QED
  BY <1>1, <1>2, <1>6, <1>7

-----------------------------------------------------------------------------
(* Type correctness, by the groups of variables that steps leave alone.     *)
UserTyped ==
    /\ repo \in Trees /\ head \in Trees /\ commits \in Nat /\ edits \in 0..MaxEdits
    /\ policy \in Policies /\ foreign \subseteq Paths
InputTyped == kind \in Kinds /\ contract \in Contracts
PlaceTyped == pc \in Pcs /\ snap \in Snapshots /\ ScanPlace
WorkTyped == ws \in Trees /\ writes \in 0..MaxWrites /\ history \subseteq Trees
CaptureTyped ==
    /\ subs \in 0..MaxSubmissions /\ listed \subseteq Artifacts
    /\ pre \in Trees /\ storage \in Trees /\ cand \in Candidates
VerifyTyped == copy \in Trees /\ results \in Seq(CheckStatuses) /\ ran \in Seq(Trees)
DeliverTyped == plan \in Plans /\ planned \subseteq Paths /\ integrated \in Trees
OutagesTyped == outages \in 0..MaxOutages

TInv == TypeOK /\ ScanPlace

LEMMA TypedParts ==
    TInv <=> UserTyped /\ InputTyped /\ PlaceTyped /\ WorkTyped /\ CaptureTyped
             /\ VerifyTyped /\ DeliverTyped /\ OutagesTyped
  BY DEF TInv, TypeOK, UserTyped, InputTyped, PlaceTyped, WorkTyped, CaptureTyped, VerifyTyped,
         DeliverTyped, OutagesTyped

LEMMA TypedPartsNext ==
  ASSUME UserTyped', InputTyped', PlaceTyped', WorkTyped', CaptureTyped', VerifyTyped',
         DeliverTyped', OutagesTyped'
  PROVE  TInv'
  BY DEF TInv, TypeOK, UserTyped, InputTyped, PlaceTyped, WorkTyped, CaptureTyped, VerifyTyped,
         DeliverTyped, OutagesTyped

LEMMA TypedFrame ==
  ASSUME TInv
  PROVE  /\ UNCHANGED <<userVars, foreign>> => UserTyped'
         /\ UNCHANGED inputVars => InputTyped'
         /\ UNCHANGED <<pc, snap>> => PlaceTyped'
         /\ UNCHANGED workVars => WorkTyped'
         /\ UNCHANGED captureVars => CaptureTyped'
         /\ UNCHANGED verifyVars => VerifyTyped'
         /\ UNCHANGED deliveryVars => DeliverTyped'
  BY DEF TInv, TypeOK, UserTyped, InputTyped, PlaceTyped, WorkTyped, CaptureTyped, VerifyTyped,
         DeliverTyped, ScanPlace, userVars, inputVars, workVars, captureVars, verifyVars,
         deliveryVars

LEMMA InitTyped == Init => TInv
<1> SUFFICES ASSUME Init PROVE TInv
  OBVIOUS
<1>1. UserTyped
  BY RepositoryAssumption, PoliciesAssumption, ContentFacts
     DEF Init, InputsInit, UserTyped, Trees
<1>2. NoContract \in Contracts /\ NoCandidate \in Candidates
  BY PoliciesAssumption, ContentFacts, DeltaTyped
     DEF NoContract, Contracts, NonGit, Selections, Heads, NoCandidate, Candidates
<1>3. InputTyped
  BY <1>2 DEF Init, InputsInit, InputTyped
<1>4. PlaceTyped
  BY NoSnapshotTyped DEF Init, InputsInit, PlaceTyped, ScanPlace, Pcs, Starting
<1>5. WorkTyped
  BY ContentFacts, PathsAssumption DEF Init, InputsInit, WorkTyped
<1>6. CaptureTyped
  BY <1>2, ContentFacts, SubmissionsAssumption DEF Init, CaptureInit, CaptureTyped
<1>7. VerifyTyped
  BY ContentFacts DEF Init, VerifyInit, VerifyTyped
<1>8. DeliverTyped
  BY ContentFacts DEF Init, DeliverTyped, Plans, NoPlan
<1>9. OutagesTyped
  BY PoliciesAssumption DEF Init, InputsInit, OutagesTyped
<1> QED
  BY <1>1, <1>3, <1>4, <1>5, <1>6, <1>7, <1>8, <1>9, TypedParts

(* A call of git that fails is counted.                                     *)
LEMMA NextOutages == TInv /\ [Next]_vars => OutagesTyped'
<1>1. Next => UNCHANGED outages \/ GitFails
  BY DEF Next, InputSteps, GitSilent, StartFreeze, StartSnapshot, PlanSteps, Plan,
         RepositorySteps, ApplyChange, CommitChanges, DeliveryFails, ScanIntegrated, Validate
<1>2. TInv /\ (UNCHANGED outages \/ GitFails) => OutagesTyped'
  BY PoliciesAssumption DEF GitFails, OutagesTyped, TInv, TypeOK
<1> QED
  BY <1>1, <1>2 DEF vars

(* A scan of any tree keeps its place.                                      *)
LEMMA ReadKeepsPlace ==
  ASSUME TInv, NEW tree \in Trees, snap.step = "scan", snap' = Read(tree), UNCHANGED pc
  PROVE  PlaceTyped'
<1>1. snap \in Snapshots /\ ScanPlace
  BY DEF TInv, TypeOK
<1>2. snap'.at = snap.at + 1 /\ snap' \in Snapshots /\ snap.at \in 1..Len(Order)
      /\ snap'.step = IF snap.at = Len(Order) THEN "head" ELSE "scan"
  BY <1>1, ReadFacts
<1>3. ScanPlace'
  BY <1>2, OrderFacts DEF ScanPlace
<1> QED
  BY <1>2, <1>3 DEF PlaceTyped, TInv, TypeOK

LEMMA ScanPlaced ==
  ASSUME TInv, NEW sel \in Selections, snap' = ScanBy(sel), pc' \in Pcs
  PROVE  PlaceTyped'
<1>1. snap' \in Snapshots /\ snap'.step = "scan" /\ snap'.at = 1
  BY ScanByTyped
<1> QED
  BY <1>1, OrderFacts DEF PlaceTyped, ScanPlace

LEMMA OffPlaced ==
  ASSUME TInv, snap' = NoSnapshot, pc' \in Pcs
  PROVE  PlaceTyped'
  BY NoSnapshotTyped DEF PlaceTyped, ScanPlace

(* A snapshot begins as a scan by the rule that git has let it discover.    *)
LEMMA StartSnapshotFacts ==
  ASSUME TInv, NEW tracked \in SUBSET Paths, StartSnapshot(tracked)
  PROVE  /\ snap' \in Snapshots /\ snap'.step = "scan" /\ snap'.at = 1
         /\ snap'.sel = NonGit \/ (snap'.sel.git /\ snap'.sel.ignored = Layer(repo))
         /\ pc' \in Pcs => PlaceTyped'
<1>1. repo \in Trees /\ NonGit \in Selections /\ {} \in SUBSET Paths
  BY DEF TInv, TypeOK, NonGit, Selections
<1>2. PICK sel : /\ snap' = ScanBy(sel)
                 /\ sel \in {NonGit, Discover(repo, {}), Discover(repo, tracked)}
  BY DEF StartSnapshot, DiscoverSilent
<1>3. sel \in Selections /\ (sel = NonGit \/ (sel.git /\ sel.ignored = Layer(repo)))
  <2>1. Discover(repo, {}) \in Selections /\ Discover(repo, tracked) \in Selections
    BY <1>1, DiscoverTyped
  <2>2. /\ Discover(repo, {}).git /\ Discover(repo, {}).ignored = Layer(repo)
        /\ Discover(repo, tracked).git /\ Discover(repo, tracked).ignored = Layer(repo)
    BY DEF Discover
  <2> QED
    BY <1>1, <1>2, <2>1, <2>2
<1>4. pc' \in Pcs => PlaceTyped'
  BY <1>2, <1>3, ScanPlaced
<1> QED
  BY <1>2, <1>3, <1>4, ScanByTyped

LEMMA HeadTracked == Tracked(head) \in SUBSET Paths /\ Tracked(head)' \in SUBSET Paths
  BY DEF Tracked

LEMMA InputStepsTyped ==
  ASSUME TInv, InputSteps, OutagesTyped',
         UNCHANGED <<userVars, kind, foreign, captureVars, verifyVars, deliveryVars>>
  PROVE  TInv'
<1>t. UserTyped' /\ CaptureTyped' /\ VerifyTyped' /\ DeliverTyped' /\ kind \in Kinds
  BY TypedFrame DEF TInv, TypeOK
<1>p. /\ snap \in Snapshots /\ ScanPlace /\ repo \in Trees /\ head \in Trees /\ pc \in Pcs
      /\ ws \in Trees /\ contract \in Contracts /\ commits \in Nat /\ policy \in Policies
  BY DEF TInv, TypeOK
<1>i. UNCHANGED contract => InputTyped'
  BY TypedFrame DEF inputVars
<1>w. UNCHANGED workVars => WorkTyped'
  BY TypedFrame
<1>1. CASE ScanRepository /\ UNCHANGED <<pc, contract, workVars>>
  <2>1. PlaceTyped'
    BY <1>1, <1>p, ReadKeepsPlace DEF ScanRepository
  <2> QED
    BY <1>1, <1>t, <1>i, <1>w, <2>1, TypedPartsNext
<1>2. CASE (ReadHead \/ ReadStatus \/ GitSilent) /\ UNCHANGED <<pc, contract, workVars>>
  <2>0. Dirty(repo, head) \in BOOLEAN /\ Unread \in Heads /\ commits \in Heads
    BY <1>p DEF Dirty, Heads
  <2>1. /\ snap' \in Snapshots /\ snap'.at = snap.at /\ snap'.step \in {"status", "done"}
        /\ snap.step \in {"head", "status"}
    <3>1. CASE ReadHead
      BY <3>1, <1>p, <2>0 DEF ReadHead, Snapshots
    <3>2. CASE ReadStatus
      BY <3>2, <1>p, <2>0 DEF ReadStatus, Snapshots
    <3>3. CASE GitSilent
      BY <3>3, <1>p, <2>0 DEF GitSilent, Snapshots
    <3> QED
      BY <1>2, <3>1, <3>2, <3>3
  <2>2. PlaceTyped'
    BY <1>2, <1>p, <2>1 DEF PlaceTyped, ScanPlace
  <2> QED
    BY <1>2, <1>t, <1>i, <1>w, <2>2, TypedPartsNext
<1>3. CASE RefuseJob /\ UNCHANGED workVars
  <2>1. PlaceTyped'
    BY <1>3, <1>p DEF RefuseJob, PlaceTyped, ScanPlace, Pcs, Starting
  <2> QED
    BY <1>3, <1>t, <1>i, <1>w, <2>1, TypedPartsNext DEF RefuseJob
<1>4. CASE StartFreeze /\ UNCHANGED workVars
  <2>1. contract' \in Contracts
    BY <1>4, <1>p DEF StartFreeze, Contracts
  <2>2. PlaceTyped'
    <3>1. pc' \in Pcs
      BY <1>4 DEF StartFreeze, Pcs, Starting
    <3> QED
      BY <1>4, <3>1, HeadTracked, StartSnapshotFacts DEF StartFreeze
  <2> QED
    BY <1>4, <1>t, <1>w, <2>1, <2>2, TypedPartsNext DEF InputTyped
<1>5. CASE Freeze /\ UNCHANGED workVars
  <2>1. contract' \in Contracts
    BY <1>5, <1>p DEF Freeze, Contracts, Snapshots
  <2>2. PlaceTyped'
    BY <1>5, OffPlaced DEF Freeze, Pcs, Starting
  <2> QED
    BY <1>5, <1>t, <1>w, <2>1, <2>2, TypedPartsNext DEF InputTyped
<1>6. CASE StartCopy /\ UNCHANGED contract
  <2>1. contract.sel \in Selections /\ snap' = ScanBy(contract.sel) /\ pc' \in Pcs
    BY <1>6, <1>p DEF StartCopy, Contracts, ScanBy, Pcs, Starting
  <2> QED
    BY <1>6, <1>t, <1>i, <1>w, <2>1, ScanPlaced, TypedPartsNext DEF StartCopy
<1>7. CASE CopyRepository /\ UNCHANGED contract
  <2>1. PlaceTyped' /\ Reads(repo) \in Contents
    BY <1>7, <1>p, ReadKeepsPlace, ReadFacts DEF CopyRepository
  <2>2. WorkTyped'
    BY <1>7, <2>1 DEF CopyRepository, WorkTyped, TInv, TypeOK, Trees
  <2> QED
    BY <1>7, <1>t, <1>i, <2>1, <2>2, TypedPartsNext
<1>8. CASE StartWorker /\ UNCHANGED contract
  <2>1. PlaceTyped'
    BY <1>8, OffPlaced DEF StartWorker, Pcs
  <2>2. WorkTyped'
    BY <1>8 DEF StartWorker, WorkTyped, TInv, TypeOK
  <2> QED
    BY <1>8, <1>t, <1>i, <2>1, <2>2, TypedPartsNext
<1>9. CASE CleanWorkspace /\ UNCHANGED contract
  <2>1. PlaceTyped'
    BY <1>9, TypedFrame DEF CleanWorkspace
  <2>2. WorkTyped'
    BY <1>9, ContentFacts DEF CleanWorkspace, WorkTyped, TInv, TypeOK
  <2> QED
    BY <1>9, <1>t, <1>i, <2>1, <2>2, TypedPartsNext
<1> QED
  BY <1>1, <1>2, <1>3, <1>4, <1>5, <1>6, <1>7, <1>8, <1>9 DEF InputSteps

LEMMA UserStepsTyped ==
  ASSUME TInv, UserSteps, OutagesTyped',
         UNCHANGED <<inputVars, pc, snap, workVars, captureVars, verifyVars, deliveryVars>>
  PROVE  TInv'
<1>p. /\ repo \in Trees /\ head \in Trees /\ commits \in Nat /\ edits \in 0..MaxEdits
      /\ policy \in Policies /\ foreign \subseteq Paths
  BY DEF TInv, TypeOK
<1>1. ASSUME NEW p \in UserPaths, NEW c \in Contents, UserEdits(p, c) PROVE UserTyped'
  <2>1. repo' \in Trees
    BY <1>1, <1>p DEF UserEdits, Trees
  <2>2. edits' \in 0..MaxEdits
    BY <1>1, <1>p, PoliciesAssumption, PathsAssumption DEF UserEdits
  <2>3. foreign' \subseteq Paths
    BY <1>1, <1>p, RepositoryAssumption DEF UserEdits
  <2> QED
    BY <1>1, <1>p, <2>1, <2>2, <2>3 DEF UserEdits, UserTyped
<1>2. ASSUME UserCommits PROVE UserTyped'
  <2>1. head' \in Trees
    BY <1>2, <1>p DEF UserCommits, Trees
  <2> QED
    BY <1>2, <1>p, <2>1 DEF UserCommits, UserTyped
<1>3. ASSUME NEW commands \in Policies, UserConfigures(commands) PROVE UserTyped'
  <2>1. edits' \in 0..MaxEdits
    BY <1>3, <1>p, PoliciesAssumption, PathsAssumption DEF UserConfigures
  <2> QED
    BY <1>3, <1>p, <2>1 DEF UserConfigures, UserTyped
<1>4. UserTyped'
  BY <1>1, <1>2, <1>3 DEF UserSteps
<1> QED
  BY <1>4, TypedFrame, TypedPartsNext

LEMMA WorkerTyped ==
  ASSUME TInv, NEW p \in WorkerPaths, NEW c \in Contents, WorkerWrites(p, c), OutagesTyped',
         UNCHANGED <<userVars, inputVars, foreign, captureVars, verifyVars, deliveryVars>>
  PROVE  TInv'
<1>1. ws \in Trees /\ writes \in 0..MaxWrites /\ history \subseteq Trees
  BY DEF TInv, TypeOK
<1>2. ws' \in Trees
  BY <1>1 DEF WorkerWrites, Trees
<1>3. writes' = writes + 1 /\ writes < MaxWrites /\ history' = history \cup {ws'}
  BY DEF WorkerWrites
<1>4. writes' \in 0..MaxWrites
  BY <1>1, <1>3, PathsAssumption
<1>5. WorkTyped'
  BY <1>1, <1>2, <1>3, <1>4 DEF WorkTyped
<1> QED
  BY <1>5, TypedFrame, TypedPartsNext DEF WorkerWrites

LEMMA RejectTyped ==
  ASSUME TInv, Reject PROVE PlaceTyped' /\ CaptureTyped'
<1>1. PlaceTyped'
  BY OffPlaced DEF Reject, Pcs
<1>2. NoCandidate \in Candidates
  BY ContentFacts, DeltaTyped DEF NoCandidate, Candidates, NonGit, Selections
<1>3. CaptureTyped'
  BY <1>2, ContentFacts DEF Reject, CaptureTyped, TInv, TypeOK
<1> QED
  BY <1>1, <1>3

LEMMA CaptureStepsTyped ==
  ASSUME TInv, CaptureSteps, OutagesTyped',
         UNCHANGED <<userVars, inputVars, foreign, workVars, verifyVars, deliveryVars>>
  PROVE  TInv'
<1>t. UserTyped' /\ InputTyped' /\ WorkTyped' /\ VerifyTyped' /\ DeliverTyped'
  BY TypedFrame
<1>p. /\ snap \in Snapshots /\ ScanPlace /\ ws \in Trees /\ contract \in Contracts
      /\ subs \in 0..MaxSubmissions /\ listed \subseteq Artifacts /\ pre \in Trees
      /\ storage \in Trees /\ cand \in Candidates
  BY DEF TInv, TypeOK
<1>s. snap.sel \in Selections /\ snap.seen \in Trees /\ contract.sel \in Selections
      /\ contract.baseline \in Trees
  BY <1>p DEF Snapshots, Contracts
<1>r. Reject => TInv'
  BY <1>t, RejectTyped, TypedPartsNext
<1>1. ASSUME NEW artifacts \in SUBSET Artifacts, Submit(artifacts) PROVE TInv'
  <2>1. CandidateSelection \in Selections
    <3>1. Refresh(contract.sel, ws) \in Selections /\ NonGit \in Selections
      BY <1>p, <1>s, SelectionFacts
    <3> QED
      BY <3>1 DEF CandidateSelection
  <2>2. PlaceTyped'
    <3>1. pc' \in Pcs /\ snap' = ScanBy(CandidateSelection)
      BY <1>1 DEF Submit, Pcs, Capturing
    <3> QED
      BY <2>1, <3>1, ScanPlaced
  <2>3. CaptureTyped'
    BY <1>1, <1>p, SubmissionsAssumption DEF Submit, CaptureTyped
  <2> QED
    BY <1>t, <2>2, <2>3, TypedPartsNext
<1>2. CASE ScanWorkspace
  <2>1. PlaceTyped'
    BY <1>2, <1>p, ReadKeepsPlace DEF ScanWorkspace
  <2> QED
    BY <1>2, <1>t, <2>1, TypedFrame, TypedPartsNext DEF ScanWorkspace
<1>3. CASE StartSealing
  <2>1. PlaceTyped'
    <3>1. pc' \in Pcs /\ snap' = ScanBy(snap.sel)
      BY <1>3 DEF StartSealing, Pcs, Capturing
    <3> QED
      BY <1>s, <3>1, ScanPlaced
  <2>2. CaptureTyped'
    BY <1>3, <1>p, <1>s DEF StartSealing, CaptureTyped
  <2> QED
    BY <1>t, <2>1, <2>2, TypedPartsNext
<1>4. CASE CopyFile
  <2>1. PlaceTyped' /\ Reads(ws) \in Contents
    BY <1>4, <1>p, ReadKeepsPlace, ReadFacts DEF CopyFile
  <2>2. storage' \in Trees
    BY <1>4, <1>p, <2>1 DEF CopyFile, Trees
  <2>3. CaptureTyped'
    BY <1>4, <1>p, <2>2 DEF CopyFile, CaptureTyped
  <2> QED
    BY <1>t, <2>1, <2>3, TypedPartsNext
<1>5. CASE StartPostScan
  <2>1. PlaceTyped'
    <3>1. pc' \in Pcs /\ snap' = ScanBy(snap.sel)
      BY <1>5 DEF StartPostScan, Pcs, Capturing
    <3> QED
      BY <1>s, <3>1, ScanPlaced
  <2> QED
    BY <1>5, <1>t, <2>1, TypedFrame, TypedPartsNext DEF StartPostScan
<1>6. CASE Seal
  <2>1. PlaceTyped'
    <3>1. pc' \in Pcs /\ snap' = ScanBy(snap.sel)
      BY <1>6 DEF Seal, Pcs, Capturing
    <3> QED
      BY <1>s, <3>1, ScanPlaced
  <2>2. CandidateBaseline \in Trees
    BY <1>s, ContentFacts DEF CandidateBaseline
  <2>3. cand' \in Candidates
    BY <1>6, <1>s, <2>2, DeltaTyped DEF Seal, Candidates
  <2>4. CaptureTyped'
    BY <1>6, <1>p, <2>3 DEF Seal, CaptureTyped
  <2> QED
    BY <1>t, <2>1, <2>4, TypedPartsNext
<1>7. CASE Sealed
  <2>1. PlaceTyped'
    BY <1>7, OffPlaced DEF Sealed, Pcs
  <2>2. CaptureTyped'
    BY <1>7, <1>p, ContentFacts DEF Sealed, CaptureTyped
  <2> QED
    BY <1>t, <2>1, <2>2, TypedPartsNext
<1> QED
  BY <1>r, <1>1, <1>2, <1>3, <1>4, <1>5, <1>6, <1>7
     DEF CaptureSteps, Unstable, Superseded, CaptureFails

(* A command writes one of the contents there are: there are no more of them *)
(* than a policy has commands.                                              *)
LEMMA ChecksCounted ==
  ASSUME TInv
  PROVE  Len(contract.checks) \in Nat /\ Len(contract.checks) <= MaxWrites
<1>1. contract.checks \in Policies \cup {<< >>}
  BY DEF TInv, TypeOK, Contracts
<1>2. contract.checks \in Seq(STRING) /\ Len(contract.checks) <= MaxWrites
  <2>1. CASE contract.checks \in Policies
    BY <2>1, PoliciesAssumption
  <2>2. CASE contract.checks = << >>
    <3>1. contract.checks \in Seq(STRING) /\ Len(contract.checks) = 0
      BY <2>2
    <3> QED
      BY <3>1, PathsAssumption
  <2> QED
    BY <1>1, <2>1, <2>2
<1> QED
  BY <1>2, LenProperties

LEMMA WrittenTyped ==
  ASSUME TInv, NEW p \in CheckPaths, ChecksDue
  PROVE  Written(p) \in Trees
<1>1. Len(results) \in Nat /\ Len(results) < Len(contract.checks)
  BY LenProperties DEF ChecksDue, TInv, TypeOK
<1>2. <<"check", Len(results) + 1>> \in Contents
  BY <1>1, ChecksCounted, PathsAssumption DEF Contents
<1> QED
  BY <1>2 DEF Written, Trees, TInv, TypeOK

LEMMA VerificationStepsTyped ==
  ASSUME TInv, VerificationSteps, OutagesTyped',
         UNCHANGED <<userVars, inputVars, foreign, workVars, deliveryVars>>
  PROVE  TInv'
<1>t. UserTyped' /\ InputTyped' /\ WorkTyped' /\ DeliverTyped'
  BY TypedFrame
<1>p. /\ copy \in Trees /\ storage \in Trees /\ contract \in Contracts /\ kind \in Kinds
      /\ results \in Seq(CheckStatuses) /\ ran \in Seq(Trees) /\ pc \in Pcs
  BY DEF TInv, TypeOK
<1>1. CASE StartVerification
  <2>1. PlaceTyped' /\ CaptureTyped'
    BY <1>1, TypedFrame DEF StartVerification, PlaceTyped, ScanPlace, TInv, TypeOK, Pcs
  <2>2. VerificationCopy(storage) \in Trees
    BY <1>p, ContentFacts DEF VerificationCopy, Trees
  <2>3. VerifyTyped'
    BY <1>1, <2>2 DEF StartVerification, VerifyTyped
  <2> QED
    BY <1>t, <2>1, <2>3, TypedPartsNext
<1>2. ASSUME NEW status \in CheckStatuses, NEW content \in Trees, RunCheck(status, content)
      PROVE  TInv'
  <2>1. PlaceTyped' /\ CaptureTyped'
    BY <1>2, TypedFrame DEF RunCheck
  <2>2. VerifyTyped'
    BY <1>2, <1>p, AppendProperties DEF RunCheck, VerifyTyped
  <2> QED
    BY <1>t, <2>1, <2>2, TypedPartsNext
<1>3. \A p \in CheckPaths : ChecksDue => Written(p) \in Trees
  BY WrittenTyped
<1>4. ASSUME NEW claims \in ClaimOutcomes, VerdictAccepts(claims) PROVE TInv'
  <2>1. PlaceTyped' /\ CaptureTyped' /\ VerifyTyped'
    BY <1>4, TypedFrame DEF VerdictAccepts, PlaceTyped, ScanPlace, TInv, TypeOK, Pcs
  <2> QED
    BY <1>t, <2>1, TypedPartsNext
<1>5. ASSUME NEW claims \in ClaimOutcomes, VerdictRejects(claims) PROVE TInv'
  <2>1. VerifyTyped'
    BY <1>5, ContentFacts DEF VerdictRejects, VerifyTyped
  <2> QED
    BY <1>5, <1>t, <2>1, RejectTyped, TypedPartsNext DEF VerdictRejects
<1> QED
  BY <1>1, <1>2, <1>3, <1>4, <1>5, <1>p DEF VerificationSteps, RunCheck

LEMMA PlanStepsTyped ==
  ASSUME TInv, PlanSteps, OutagesTyped',
         UNCHANGED <<userVars, inputVars, foreign, workVars, verifyVars>>
  PROVE  TInv'
<1>t. UserTyped' /\ InputTyped' /\ WorkTyped' /\ VerifyTyped'
  BY TypedFrame
<1>1. CASE ShadowRejects
  BY <1>1, <1>t, RejectTyped, TypedFrame, TypedPartsNext DEF ShadowRejects
<1>2. CASE Plan
  <2>1. PlaceTyped'
    <3>1. CASE kind = "contract"
      <4>1. pc' \in Pcs /\ StartSnapshot(Tracked(head))
        BY <1>2, <3>1 DEF Plan, Pcs
      <4> QED
        BY <4>1, HeadTracked, StartSnapshotFacts
    <3>2. CASE kind # "contract"
      BY <1>2, <3>2, OffPlaced DEF Plan, Pcs
    <3> QED
      BY <3>1, <3>2
  <2>2. ToDelete \subseteq Paths /\ ToPromote \subseteq Paths
    BY DEF ToDelete, ToPromote, TInv, TypeOK, Candidates, Changes
  <2>3. DeliverTyped'
    BY <1>2, <2>2 DEF Plan, DeliverTyped, Plans, TInv, TypeOK
  <2> QED
    BY <1>2, <1>t, <2>1, <2>3, TypedFrame, TypedPartsNext DEF Plan
<1>3. CASE TargetRejects
  <2>1. DeliverTyped'
    BY <1>3 DEF TargetRejects, DeliverTyped, Plans, NoPlan, TInv, TypeOK
  <2> QED
    BY <1>3, <1>t, <2>1, RejectTyped, TypedPartsNext DEF TargetRejects
<1>4. CASE TargetAccepts
  <2>1. PlaceTyped'
    BY <1>4, OffPlaced DEF TargetAccepts, Pcs
  <2> QED
    BY <1>4, <1>t, <2>1, TypedFrame, TypedPartsNext DEF TargetAccepts
<1> QED
  BY <1>1, <1>2, <1>3, <1>4 DEF PlanSteps

LEMMA RepositoryStepsTyped ==
  ASSUME TInv, RepositorySteps, OutagesTyped',
         UNCHANGED <<policy, edits, foreign, inputVars, workVars, captureVars, verifyVars>>
  PROVE  TInv'
<1>t. InputTyped' /\ WorkTyped' /\ CaptureTyped' /\ VerifyTyped'
  BY TypedFrame
<1>p. /\ repo \in Trees /\ head \in Trees /\ commits \in Nat /\ edits \in 0..MaxEdits
      /\ policy \in Policies /\ foreign \subseteq Paths /\ storage \in Trees
      /\ plan \in Plans /\ planned \subseteq Paths /\ integrated \in Trees
      /\ snap \in Snapshots /\ ScanPlace
  BY DEF TInv, TypeOK
<1>1. ASSUME pc = "applying", NEW p \in planned, Promote(p) \/ Delete(p),
             UNCHANGED <<head, commits, pc, snap, planned, integrated>>
      PROVE  TInv'
  <2>1. repo' \in Trees /\ plan' \in Plans
    <3>1. CASE Promote(p)
      BY <3>1, <1>p DEF Promote, Trees, Plans
    <3>2. CASE Delete(p)
      BY <3>2, <1>p, ContentFacts DEF Delete, Trees, Plans
    <3> QED
      BY <1>1, <3>1, <3>2
  <2>2. UserTyped' /\ DeliverTyped'
    BY <1>1, <1>p, <2>1 DEF UserTyped, DeliverTyped
  <2> QED
    BY <1>1, <1>t, <2>2, TypedFrame, TypedPartsNext
<1>2. CASE CommitChanges
  <2>1. Committed \in Trees
    BY <1>p DEF Committed, Trees
  <2>2. UserTyped' /\ DeliverTyped'
    BY <1>2, <1>p, <2>1 DEF CommitChanges, UserTyped, DeliverTyped
  <2>3. PlaceTyped'
    <3>1. pc' \in Pcs /\ StartSnapshot(Tracked(head)')
      BY <1>2 DEF CommitChanges, Pcs, Tracked
    <3> QED
      BY <3>1, HeadTracked, StartSnapshotFacts
  <2> QED
    BY <1>t, <2>2, <2>3, TypedPartsNext
<1>3. CASE DeliveryFails
  <2>1. UserTyped' /\ DeliverTyped' /\ PlaceTyped'
    BY <1>3, <1>p, TypedFrame, OffPlaced DEF DeliveryFails, UserTyped, Pcs
  <2> QED
    BY <1>t, <2>1, TypedPartsNext
<1>4. CASE ScanIntegrated
  <2>1. PlaceTyped'
    BY <1>4, <1>p, ReadKeepsPlace DEF ScanIntegrated
  <2>2. UserTyped' /\ DeliverTyped'
    BY <1>4, <1>p, TypedFrame DEF ScanIntegrated, UserTyped
  <2> QED
    BY <1>t, <2>1, <2>2, TypedPartsNext
<1>5. CASE Validate
  <2>1. PlaceTyped'
    <3>1. snap' = NoSnapshot /\ pc' \in Pcs
      BY <1>5 DEF Validate, Pcs
    <3> QED
      BY <3>1, OffPlaced
  <2>2. snap.seen \in Trees
    BY <1>p DEF Snapshots
  <2>3. UserTyped' /\ DeliverTyped'
    BY <1>5, <1>p, <2>2 DEF Validate, UserTyped, DeliverTyped
  <2> QED
    BY <1>t, <2>1, <2>3, TypedPartsNext
<1> QED
  BY <1>1, <1>2, <1>3, <1>4, <1>5 DEF RepositorySteps, ApplyChange

LEMMA NextTyped == TInv /\ [Next]_vars => TInv'
<1> SUFFICES ASSUME TInv, [Next]_vars PROVE TInv'
  OBVIOUS
<1>0. OutagesTyped'
  BY NextOutages
<1>1. CASE UNCHANGED vars
  BY <1>0, <1>1, TypedFrame, TypedPartsNext DEF vars
<1>2. CASE Next
  BY <1>0, <1>2, InputStepsTyped, UserStepsTyped, WorkerTyped, CaptureStepsTyped,
     VerificationStepsTyped, PlanStepsTyped, RepositoryStepsTyped DEF Next
<1> QED
  BY <1>1, <1>2

(* The state of a delivery keeps its shape, for any number of writes, edits  *)
(* and submissions.                                                         *)
THEOREM Typed == Spec => []TypeOK
<1>1. TInv => TypeOK
  BY DEF TInv
<1> QED
  BY <1>1, InitTyped, NextTyped, PTL DEF Spec

-----------------------------------------------------------------------------
(* Who writes what, and how the job and its scans move on.                  *)
Rejecting == pc \in {"pre", "copy", "post", "final", "verifying", "verified", "targeting"} /\ Reject

Writers ==
    /\ UNCHANGED kind
    /\ UNCHANGED contract \/ StartFreeze \/ Freeze
    /\ \/ UNCHANGED repo
       \/ \E p \in UserPaths, c \in Contents : UserEdits(p, c) /\ UNCHANGED <<pc, snap, ws>>
       \/ pc = "applying" /\ UNCHANGED <<pc, ws>> /\ \E p \in planned : Promote(p) \/ Delete(p)
    /\ UNCHANGED foreign \/ \E p \in UserPaths, c \in Contents : UserEdits(p, c) /\ UNCHANGED pc
    /\ \/ UNCHANGED ws
       \/ CopyRepository \/ CleanWorkspace
       \/ \E p \in WorkerPaths, c \in Contents : WorkerWrites(p, c)
    /\ UNCHANGED history \/ StartWorker \/ \E p \in WorkerPaths, c \in Contents : WorkerWrites(p, c)
    /\ UNCHANGED pre \/ StartSealing \/ Sealed \/ Rejecting
    /\ UNCHANGED storage \/ CopyFile \/ Rejecting
    /\ UNCHANGED cand \/ Seal \/ Rejecting
    /\ UNCHANGED listed \/ \E artifacts \in SUBSET Artifacts : Submit(artifacts)
    /\ \/ UNCHANGED verifyVars
       \/ StartVerification
       \/ \E status \in CheckStatuses : RunCheck(status, copy)
       \/ \E status \in CheckStatuses, p \in CheckPaths : RunCheck(status, Written(p))
       \/ Rejecting
    /\ UNCHANGED integrated \/ Validate

Moves ==
    \/ UNCHANGED pc
    \/ RefuseJob \/ StartFreeze \/ Freeze \/ StartCopy \/ StartWorker
    \/ \E artifacts \in SUBSET Artifacts : Submit(artifacts)
    \/ StartSealing \/ StartPostScan \/ Seal \/ Sealed \/ Rejecting
    \/ StartVerification \/ \E claims \in ClaimOutcomes : VerdictAccepts(claims)
    \/ Plan \/ TargetAccepts \/ CommitChanges \/ DeliveryFails \/ Validate

ScanMoves == UNCHANGED pc =>
    \/ UNCHANGED snap
    \/ pc \in {"freezing", "targeting"} /\ ScanRepository
    \/ /\ pc \in {"freezing", "targeting"} /\ snap.step \in {"head", "status"}
       /\ UNCHANGED <<repo, ws>>
       /\ snap'.sel = snap.sel /\ snap'.seen = snap.seen /\ snap'.at = snap.at
    \/ pc = "copying" /\ CopyRepository
    \/ pc \in {"pre", "post", "final"} /\ ScanWorkspace
    \/ pc = "copy" /\ CopyFile
    \/ pc = "integrating" /\ ScanIntegrated

LEMMA NextWriters == TInv /\ [Next]_vars => Writers /\ Moves /\ ScanMoves
<1> SUFFICES ASSUME TInv, [Next]_vars PROVE Writers /\ Moves /\ ScanMoves
  OBVIOUS
<1> USE DEF userVars, inputVars, workVars, captureVars, verifyVars, deliveryVars
<1>1. CASE UNCHANGED vars
  BY <1>1 DEF vars, Writers, Moves, ScanMoves
<1>2. ASSUME InputSteps, UNCHANGED <<userVars, kind, foreign, captureVars, verifyVars, deliveryVars>>
      PROVE  Writers /\ Moves /\ ScanMoves
  <2>1. CASE ScanRepository /\ UNCHANGED <<pc, contract, workVars>>
    BY <1>2, <2>1 DEF ScanRepository, Writers, Moves, ScanMoves
  <2>2. CASE (ReadHead \/ ReadStatus \/ GitSilent) /\ UNCHANGED <<pc, contract, workVars>>
    <3>1. /\ pc \in {"freezing", "targeting"} /\ snap.step \in {"head", "status"}
          /\ snap'.sel = snap.sel /\ snap'.seen = snap.seen /\ snap'.at = snap.at
      BY <2>2 DEF ReadHead, ReadStatus, GitSilent, TInv, TypeOK, Snapshots
    <3> QED
      BY <1>2, <2>2, <3>1 DEF Writers, Moves, ScanMoves
  <2>3. CASE (RefuseJob \/ StartFreeze \/ Freeze) /\ UNCHANGED workVars
    BY <1>2, <2>3 DEF RefuseJob, StartFreeze, Freeze, Writers, Moves, ScanMoves
  <2>4. CASE (StartCopy \/ CopyRepository \/ StartWorker \/ CleanWorkspace) /\ UNCHANGED contract
    BY <1>2, <2>4 DEF StartCopy, CopyRepository, StartWorker, CleanWorkspace, Writers, Moves,
                      ScanMoves
  <2> QED
    BY <1>2, <2>1, <2>2, <2>3, <2>4 DEF InputSteps
<1>3. ASSUME UserSteps,
             UNCHANGED <<inputVars, pc, snap, workVars, captureVars, verifyVars, deliveryVars>>
      PROVE  Writers /\ Moves /\ ScanMoves
  <2>1. \/ UNCHANGED <<repo, foreign>>
        \/ \E p \in UserPaths, c \in Contents : UserEdits(p, c)
    BY <1>3 DEF UserSteps, UserCommits, UserConfigures
  <2> QED
    BY <1>3, <2>1 DEF Writers, Moves, ScanMoves
<1>4. ASSUME NEW p \in WorkerPaths, NEW c \in Contents, WorkerWrites(p, c),
             UNCHANGED <<userVars, inputVars, foreign, captureVars, verifyVars, deliveryVars>>
      PROVE  Writers /\ Moves /\ ScanMoves
  <2>1. UNCHANGED <<pc, snap>>
    BY <1>4 DEF WorkerWrites
  <2> QED
    BY <1>4, <2>1 DEF Writers, Moves, ScanMoves
<1>5. ASSUME CaptureSteps,
             UNCHANGED <<userVars, inputVars, foreign, workVars, verifyVars, deliveryVars>>
      PROVE  Writers /\ Moves /\ ScanMoves
  <2>1. ASSUME NEW artifacts \in SUBSET Artifacts, Submit(artifacts)
        PROVE  Writers /\ Moves /\ ScanMoves
    BY <1>5, <2>1 DEF Submit, Writers, Moves, ScanMoves
  <2>2. CASE Unstable \/ Superseded \/ CaptureFails
    <3>1. Rejecting
      BY <2>2 DEF Unstable, Superseded, CaptureFails, Rejecting, Capturing
    <3>2. pc' # pc /\ UNCHANGED listed
      BY <3>1 DEF Rejecting, Reject
    <3> QED
      BY <1>5, <3>1, <3>2 DEF Writers, Moves, ScanMoves
  <2>3. CASE ScanWorkspace
    BY <1>5, <2>3 DEF ScanWorkspace, Writers, Moves, ScanMoves
  <2>4. CASE CopyFile
    BY <1>5, <2>4 DEF CopyFile, Writers, Moves, ScanMoves
  <2>5. CASE StartSealing \/ StartPostScan \/ Seal \/ Sealed
    BY <1>5, <2>5 DEF StartSealing, StartPostScan, Seal, Sealed, Writers, Moves, ScanMoves
  <2> QED
    BY <1>5, <2>1, <2>2, <2>3, <2>4, <2>5 DEF CaptureSteps
<1>6. ASSUME VerificationSteps, UNCHANGED <<userVars, inputVars, foreign, workVars, deliveryVars>>
      PROVE  Writers /\ Moves /\ ScanMoves
  <2>1. CASE StartVerification
    BY <1>6, <2>1 DEF StartVerification, Writers, Moves, ScanMoves
  <2>2. ASSUME NEW status \in CheckStatuses,
               RunCheck(status, copy) \/ \E p \in CheckPaths : RunCheck(status, Written(p))
        PROVE  Writers /\ Moves /\ ScanMoves
    <3>1. UNCHANGED <<pc, snap, captureVars>>
      BY <2>2 DEF RunCheck
    <3> QED
      BY <1>6, <2>2, <3>1 DEF Writers, Moves, ScanMoves
  <2>3. ASSUME NEW claims \in ClaimOutcomes, VerdictAccepts(claims)
        PROVE  Writers /\ Moves /\ ScanMoves
    BY <1>6, <2>3 DEF VerdictAccepts, VerdictReached, Writers, Moves, ScanMoves
  <2>4. ASSUME NEW claims \in ClaimOutcomes, VerdictRejects(claims)
        PROVE  Writers /\ Moves /\ ScanMoves
    <3>1. Rejecting
      BY <2>4 DEF VerdictRejects, VerdictReached, Rejecting
    <3>2. pc' # pc /\ UNCHANGED listed
      BY <3>1 DEF Rejecting, Reject
    <3> QED
      BY <1>6, <3>1, <3>2 DEF Writers, Moves, ScanMoves
  <2> QED
    BY <1>6, <2>1, <2>2, <2>3, <2>4 DEF VerificationSteps
<1>7. ASSUME PlanSteps, UNCHANGED <<userVars, inputVars, foreign, workVars, verifyVars>>
      PROVE  Writers /\ Moves /\ ScanMoves
  <2>1. CASE ShadowRejects \/ TargetRejects
    <3>1. Rejecting /\ UNCHANGED integrated
      BY <2>1 DEF ShadowRejects, TargetRejects, Rejecting
    <3>2. pc' # pc /\ UNCHANGED listed
      BY <3>1 DEF Rejecting, Reject
    <3> QED
      BY <1>7, <3>1, <3>2 DEF Writers, Moves, ScanMoves
  <2>2. CASE Plan \/ TargetAccepts
    BY <1>7, <2>2 DEF Plan, TargetAccepts, Writers, Moves, ScanMoves
  <2> QED
    BY <1>7, <2>1, <2>2 DEF PlanSteps
<1>8. ASSUME RepositorySteps,
             UNCHANGED <<policy, edits, foreign, inputVars, workVars, captureVars, verifyVars>>
      PROVE  Writers /\ Moves /\ ScanMoves
  <2>1. CASE ApplyChange
    BY <1>8, <2>1 DEF ApplyChange, Writers, Moves, ScanMoves
  <2>2. CASE CommitChanges \/ DeliveryFails
    BY <1>8, <2>2 DEF CommitChanges, DeliveryFails, Writers, Moves, ScanMoves
  <2>3. CASE ScanIntegrated
    BY <1>8, <2>3 DEF ScanIntegrated, Writers, Moves, ScanMoves
  <2>4. CASE Validate
    BY <1>8, <2>4 DEF Validate, Writers, Moves, ScanMoves
  <2> QED
    BY <1>8, <2>1, <2>2, <2>3, <2>4 DEF RepositorySteps
<1> QED
  BY <1>1, <1>2, <1>3, <1>4, <1>5, <1>6, <1>7, <1>8 DEF Next

(* The same as the pairs of points that a step leads from and to.            *)
LEMMA MovesTo ==
  ASSUME Moves
  PROVE  /\ pc' = "refused" /\ pc # "refused" => pc = "idle"
         /\ pc' = "idle" => pc = "idle"
         /\ pc' = "freezing" /\ pc # "freezing" => StartFreeze
         /\ pc' = "frozen" /\ pc # "frozen" => Freeze
         /\ pc' = "copying" /\ pc # "copying" => StartCopy
         /\ pc' = "working" /\ pc # "working" => StartWorker \/ Rejecting
         /\ pc' = "pre" /\ pc # "pre" => \E artifacts \in SUBSET Artifacts : Submit(artifacts)
         /\ pc' = "copy" /\ pc # "copy" => StartSealing
         /\ pc' = "post" /\ pc # "post" => StartPostScan
         /\ pc' = "final" /\ pc # "final" => Seal
         /\ pc' = "sealed" /\ pc # "sealed" => Sealed
         /\ pc' = "verifying" /\ pc # "verifying" => StartVerification
         /\ pc' = "verified" /\ pc # "verified" => \E claims \in ClaimOutcomes : VerdictAccepts(claims)
         /\ pc' = "targeting" /\ pc # "targeting" => Plan /\ kind = "contract"
         /\ pc' = "applying" /\ pc # "applying" =>
                TargetAccepts \/ (Plan /\ kind # "contract")
         /\ pc' = "integrating" /\ pc # "integrating" => CommitChanges
         /\ pc' = "accepted" /\ pc # "accepted" => Validate
         /\ pc' = "failed" /\ pc # "failed" =>
                StartWorker \/ Rejecting \/ DeliveryFails \/ Validate
  BY DEF Moves, RefuseJob, StartFreeze, Freeze, StartCopy, StartWorker, Submit, StartSealing,
         StartPostScan, Seal, Sealed, Rejecting, Reject, StartVerification, VerdictAccepts, Plan,
         TargetAccepts, CommitChanges, DeliveryFails, Validate

-----------------------------------------------------------------------------
(* What is verified is delivered.                                          *)
CandInv == /\ Unchecked /\ FrozenRule /\ StoredByRule
           /\ RanOnCopy /\ VerdictStands /\ AcceptedAsStored

(* A scan by a selection goes on by the same.                               *)
LEMMA ScanKeepsSel ==
  ASSUME TInv, ScanMoves, UNCHANGED pc
  PROVE  snap'.sel = snap.sel
<1>1. snap \in Snapshots /\ ScanPlace /\ repo \in Trees /\ ws \in Trees
  BY DEF TInv, TypeOK
<1>2. ASSUME NEW tree \in Trees, snap.step = "scan", snap' = Read(tree)
      PROVE  snap'.sel = snap.sel
  BY <1>1, <1>2, ReadFacts
<1> QED
  BY <1>1, <1>2 DEF ScanMoves, ScanRepository, CopyRepository, ScanWorkspace, CopyFile, ScanIntegrated

LEMMA NextUnchecked == TInv /\ Writers /\ Unchecked => Unchecked'
<1> SUFFICES ASSUME TInv, Writers, Unchecked PROVE Unchecked'
  OBVIOUS
<1>p. repo \in Trees /\ ws \in Trees /\ storage \in Trees /\ snap \in Snapshots /\ ScanPlace
  BY DEF TInv, TypeOK
<1>1. \A p \in Paths : ~ByCheck(repo'[p])
  <2>1. ASSUME NEW p \in UserPaths, NEW c \in Contents, UserEdits(p, c)
        PROVE  \A q \in Paths : ~ByCheck(repo'[q])
    <3>1. ~ByCheck(<<"user", edits + 1>>)
      BY DEF ByCheck
    <3>2. ~ByCheck(c) /\ repo' = [repo EXCEPT ![p] = c]
      BY <2>1, <3>1, ContentFacts DEF UserEdits
    <3> QED
      BY <1>p, <3>2 DEF Unchecked, Trees
  <2>2. ASSUME NEW p \in planned, Promote(p) \/ Delete(p)
        PROVE  \A q \in Paths : ~ByCheck(repo'[q])
    <3>1. p \in Paths
      BY DEF TInv, TypeOK
    <3>2. repo' = [repo EXCEPT ![p] = storage[p]] \/ repo' = [repo EXCEPT ![p] = Absent]
      BY <2>2 DEF Promote, Delete
    <3> QED
      BY <1>p, <3>1, <3>2, ContentFacts DEF Unchecked, Trees
  <2> QED
    BY <2>1, <2>2 DEF Writers, Unchecked
<1>2. \A p \in Paths : ~ByCheck(ws'[p])
  <2>1. CASE CopyRepository
    BY <1>p, <2>1, ReadFacts DEF CopyRepository, Unchecked, Trees, Reads
  <2>2. CASE CleanWorkspace
    BY <2>2, ContentFacts DEF CleanWorkspace
  <2>3. ASSUME NEW p \in WorkerPaths, NEW c \in Contents, WorkerWrites(p, c)
        PROVE  \A q \in Paths : ~ByCheck(ws'[q])
    <3>1. ~ByCheck(<<"worker", writes + 1>>)
      BY DEF ByCheck
    <3>2. ~ByCheck(c) /\ ws' = [ws EXCEPT ![p] = c]
      BY <2>3, <3>1, ContentFacts DEF WorkerWrites
    <3> QED
      BY <1>p, <3>2 DEF Unchecked, Trees
  <2> QED
    BY <2>1, <2>2, <2>3 DEF Writers, Unchecked
<1>3. \A p \in Paths : ~ByCheck(storage'[p])
  <2>1. CASE CopyFile
    <3>1. ~ByCheck(Reads(ws)) /\ Order[snap.at] \in Paths
      BY <1>p, <2>1, ReadFacts, ContentFacts DEF CopyFile, Unchecked, Reads
    <3> QED
      BY <1>p, <2>1, <3>1 DEF CopyFile, Unchecked, Trees
  <2>2. CASE Rejecting
    BY <2>2, ContentFacts DEF Rejecting, Reject
  <2> QED
    BY <2>1, <2>2 DEF Writers, Unchecked
<1> QED
  BY <1>1, <1>2, <1>3 DEF Unchecked

LEMMA NextFrozen == TInv /\ Writers /\ Moves /\ ScanMoves /\ FrozenRule => FrozenRule'
<1> SUFFICES ASSUME TInv, Writers, Moves, ScanMoves, FrozenRule PROVE FrozenRule'
  OBVIOUS
<1>1. CASE StartFreeze
  <2>1. ByRule(snap.sel)' /\ pc' = "freezing"
    BY <1>1, HeadTracked, StartSnapshotFacts DEF StartFreeze, ByRule
  <2> QED
    BY <2>1 DEF FrozenRule, Starting
<1>2. CASE Freeze
  <2>1. contract'.sel = snap.sel /\ pc = "freezing" /\ pc' = "frozen"
    BY <1>2 DEF Freeze, TInv, TypeOK, Contracts
  <2> QED
    BY <2>1 DEF FrozenRule, ByRule, Starting
<1>3. CASE UNCHANGED contract /\ UNCHANGED pc
  BY <1>3, ScanKeepsSel DEF FrozenRule, ByRule
<1>4. CASE UNCHANGED contract /\ pc' # pc /\ ~StartFreeze
  <2>1. pc' # "freezing"
    BY <1>4, MovesTo
  <2>2. pc' \notin Starting \/ pc' \in {"frozen", "copying"} =>
            pc \notin Starting \/ pc \in {"frozen", "copying"} \/ Freeze
    BY <1>4 DEF Moves, RefuseJob, StartCopy, StartWorker, Submit, StartSealing, StartPostScan,
         Seal, Sealed, Rejecting, StartVerification, VerdictAccepts, VerdictReached, Plan,
         TargetAccepts, CommitChanges, DeliveryFails, Validate, Starting
  <2>3. Freeze => FrozenRule'
    BY <1>2
  <2> QED
    BY <1>4, <2>1, <2>2, <2>3 DEF FrozenRule, ByRule
<1> QED
  BY <1>1, <1>2, <1>3, <1>4 DEF Writers

(* A file the worker has written is not as it was first.                    *)
LEMMA WorkspaceMovesOn ==
  ASSUME TInv, Writers, pc \notin Starting \cup Settled, ws'[IgnoreFile] = Original
  PROVE  ws[IgnoreFile] = Original
<1>1. ~CopyRepository /\ ~CleanWorkspace
  BY DEF CopyRepository, CleanWorkspace, Starting, Settled
<1>2. ASSUME NEW p \in WorkerPaths, NEW c \in Contents, WorkerWrites(p, c)
      PROVE  ws[IgnoreFile] = Original
  <2>1. c # Original /\ ws' = [ws EXCEPT ![p] = c] /\ ws \in Trees
    BY <1>2 DEF WorkerWrites, Original, Absent, TInv, TypeOK
  <2> QED
    BY <2>1, PathsAssumption DEF Trees
<1> QED
  BY <1>1, <1>2 DEF Writers

LEMMA IgnoreIsSelected ==
  ASSUME NEW sel \in Selections, sel.ignored \in {{}, Ignorable}
  PROVE  IgnoreFile \in Selected(sel)
  BY PathsAssumption DEF Selected, IgnoredByRule

LEMMA NextStored ==
    TInv /\ Writers /\ Moves /\ ScanMoves /\ FrozenRule /\ StoredByRule => StoredByRule'
<1> SUFFICES ASSUME TInv, Writers, Moves, ScanMoves, FrozenRule, StoredByRule PROVE StoredByRule'
  OBVIOUS
<1>p. /\ snap \in Snapshots /\ ScanPlace /\ ws \in Trees /\ storage \in Trees
      /\ contract \in Contracts /\ cand \in Candidates /\ pc \in Pcs
  BY DEF TInv, TypeOK
<1>s. snap.sel \in Selections /\ contract.sel \in Selections /\ cand.sel \in Selections
  BY <1>p DEF Snapshots, Contracts, Candidates
<1>c. pc \notin Starting => UNCHANGED <<kind, contract>>
  BY DEF Writers, StartFreeze, Freeze, Starting
<1>1. CASE UNCHANGED pc /\ ~CopyFile
  <2>1. UNCHANGED <<storage, cand>>
    BY <1>1 DEF Writers, Rejecting, Reject, Seal
  <2>2. snap'.sel = snap.sel /\ Carried' = Carried
    BY <1>1, <2>1, ScanKeepsSel DEF Carried
  <2>3. pc \in {"pre", "copy"} /\ ws'[IgnoreFile] = Original => ws[IgnoreFile] = Original
    BY WorkspaceMovesOn DEF Starting, Settled
  <2>4. pc \in {"pre", "copy", "post"} \cup CandidatePcs => pc \notin Starting
    BY DEF CandidatePcs, Starting
  <2> QED
    BY <1>1, <1>c, <2>1, <2>2, <2>3, <2>4 DEF StoredByRule
<1>2. CASE CopyFile
  <2>1. pc = "copy" /\ pc' = "copy" /\ snap.step = "scan" /\ UNCHANGED cand
    BY <1>2 DEF CopyFile, Writers, Rejecting, Reject, Seal
  <2>2. snap'.sel = snap.sel /\ Carried' = snap.sel /\ Carried = snap.sel
    BY <2>1, ScanKeepsSel DEF Carried
  <2>3. storage' = [storage EXCEPT ![Order[snap.at]] = Reads(ws)] /\ Order[snap.at] \in Paths
    BY <1>2, <1>p, <2>1, ReadFacts DEF CopyFile
  <2>4. \A p \in Paths \ Selected(snap.sel) : storage'[p] = Absent
    BY <1>p, <2>1, <2>2, <2>3 DEF StoredByRule, Reads, Trees
  <2>5. kind = "contract" /\ contract.sel.git /\ storage'[IgnoreFile] = Original =>
            snap.sel.ignored = Ignorable
    <3>1. storage'[IgnoreFile] \in {storage[IgnoreFile], ws[IgnoreFile], Absent}
      BY <1>p, <2>3, PathsAssumption DEF Trees, Reads
    <3> QED
      BY <2>1, <2>2, <3>1 DEF StoredByRule, Original, Absent
  <2>6. ws'[IgnoreFile] = Original => ws[IgnoreFile] = Original
    BY <2>1, WorkspaceMovesOn DEF Starting, Settled
  <2>7. UNCHANGED <<kind, contract>>
    BY <2>1, <1>c DEF Starting
  <2> QED
    BY <2>1, <2>2, <2>4, <2>5, <2>6, <2>7 DEF StoredByRule, Starting, CandidatePcs
<1>3. CASE Rejecting
  BY <1>3 DEF Rejecting, Reject, StoredByRule, CandidatePcs
<1>4. ASSUME NEW artifacts \in SUBSET Artifacts, Submit(artifacts) PROVE StoredByRule'
  <2>1. pc = "working" /\ pc' = "pre" /\ snap' = ScanBy(CandidateSelection) /\ UNCHANGED storage
    BY <1>4 DEF Submit
  <2>2. storage' = Empty /\ UNCHANGED <<kind, contract>> /\ ByRule(contract.sel)
    BY <2>1, <1>c DEF StoredByRule, Starting, FrozenRule
  <2>3. ws' = ws
    BY <2>1 DEF Writers, CopyRepository, CleanWorkspace, WorkerWrites
  <2>4. CASE kind = "contract"
    <3>1. CandidateSelection = IF contract.sel.git THEN [contract.sel EXCEPT !.ignored = Layer(ws)]
                               ELSE contract.sel
      BY <2>4 DEF CandidateSelection, Refresh
    <3>2. CandidateSelection \in Selections
      BY <1>p, <1>s, <2>4, SelectionFacts DEF CandidateSelection
    <3>3. Carried' = CandidateSelection
      BY <2>1, <3>2, ScanByTyped DEF Carried
    <3>4. /\ Carried'.tracked = contract.sel.tracked
          /\ Carried'.ignored \in {{}, Ignorable}
          /\ ~contract.sel.git => Carried' = contract.sel
          /\ contract.sel.git /\ ws[IgnoreFile] = Original => Carried'.ignored = Ignorable
      BY <1>s, <2>2, <3>1, <3>3 DEF Selections, Layer, ByRule, NonGit
    <3> QED
      BY <2>1, <2>2, <2>3, <3>4, ContentFacts DEF StoredByRule, Starting, CandidatePcs
  <2>5. CASE kind # "contract"
    BY <2>1, <2>2, <2>5 DEF StoredByRule, Starting, CandidatePcs
  <2> QED
    BY <2>4, <2>5
<1>5. CASE StartSealing \/ StartPostScan
  <2>1. /\ <<pc, pc'>> \in {<<"pre", "copy">>, <<"copy", "post">>} /\ snap' = ScanBy(snap.sel)
        /\ UNCHANGED storage
    BY <1>5 DEF StartSealing, StartPostScan, captureVars
  <2>2. Carried = snap.sel /\ Carried' = snap.sel /\ UNCHANGED <<kind, contract, ws>>
    BY <1>s, <1>c, <2>1, ScanByTyped
       DEF Carried, Starting, Writers, CopyRepository, CleanWorkspace, WorkerWrites
  <2>3. \A p \in Paths \ Selected(snap.sel) : storage'[p] = Absent
    BY <2>1, <2>2, ContentFacts DEF StoredByRule
  <2> QED
    BY <2>1, <2>2, <2>3 DEF StoredByRule, Starting, CandidatePcs
<1>6. CASE Seal
  <2>1. pc = "post" /\ pc' = "final" /\ cand'.sel = snap.sel /\ UNCHANGED storage
    BY <1>6 DEF Seal
  <2>2. Carried = snap.sel /\ Carried' = snap.sel /\ UNCHANGED <<kind, contract>>
    BY <1>c, <2>1 DEF Carried, Starting
  <2> QED
    BY <2>1, <2>2 DEF StoredByRule, Starting, CandidatePcs
<1>7. CASE /\ pc' # pc /\ ~Rejecting /\ ~Seal /\ pc' \notin {"pre", "copy", "post"}
  <2>1. UNCHANGED <<storage, cand>>
    BY <1>7 DEF Writers, CopyFile
  <2>2. CASE pc' \in Starting \cup {"working", "failed"}
    <3>1. pc' \in Starting \cup {"working"} => pc \in Starting
      BY <1>7, <2>2, MovesTo
         DEF Starting, StartFreeze, Freeze, StartCopy, StartWorker
    <3> QED
      BY <2>1, <2>2, <3>1 DEF StoredByRule, Starting, CandidatePcs
  <2>3. CASE pc' \in CandidatePcs
    <3>1. pc \in CandidatePcs
      BY <1>7, <2>3, MovesTo
         DEF CandidatePcs, Sealed, StartVerification, VerdictAccepts, VerdictReached, Plan,
             TargetAccepts, CommitChanges, Validate
    <3>2. Carried' = Carried /\ UNCHANGED <<kind, contract>>
      BY <1>c, <2>1, <2>3, <3>1 DEF Carried, CandidatePcs, Starting
    <3> QED
      BY <2>1, <2>3, <3>1, <3>2 DEF StoredByRule, CandidatePcs, Starting
  <2>4. pc' \in Pcs
    BY <1>7 DEF Moves, RefuseJob, StartFreeze, Freeze, StartCopy, StartWorker, Sealed, Submit,
         StartSealing, StartPostScan, StartVerification, VerdictAccepts, Plan, TargetAccepts,
         CommitChanges, DeliveryFails, Validate, Pcs, Starting, Capturing
  <2> QED
    BY <1>7, <2>2, <2>3, <2>4 DEF Pcs, CandidatePcs, Starting, Capturing
<1> QED
  BY <1>1, <1>2, <1>3, <1>4, <1>5, <1>6, <1>7, MovesTo

LEMMA NextRan == TInv /\ Writers /\ Moves /\ Unchecked /\ RanOnCopy => RanOnCopy'
<1> SUFFICES ASSUME TInv, Writers, Moves, Unchecked, RanOnCopy,
                    pc' \in {"verifying"} \cup VerifiedPcs
             PROVE  RanOnCopy'
  BY DEF RanOnCopy
<1>p. /\ copy \in Trees /\ storage \in Trees /\ results \in Seq(CheckStatuses) /\ ran \in Seq(Trees)
      /\ contract \in Contracts
  BY DEF TInv, TypeOK
<1>1. CASE StartVerification
  <2>1. /\ copy' = VerificationCopy(storage) /\ results' = << >> /\ ran' = << >>
        /\ storage' = storage
    BY <1>1 DEF StartVerification, captureVars
  <2>2. contract' = contract /\ Len(contract.checks) \in Nat
    BY <1>1, ChecksCounted DEF StartVerification, Writers, StartFreeze, Freeze
  <2>3. Len(ran') = 0 /\ Len(results') = 0
    BY <2>1
  <2> QED
    BY <2>1, <2>2, <2>3 DEF RanOnCopy
<1>2. ~StartVerification => pc \in {"verifying"} \cup VerifiedPcs
  BY MovesTo DEF VerifiedPcs, VerdictAccepts, VerdictReached, Plan, TargetAccepts, CommitChanges,
     Validate
<1>3. ~StartVerification => UNCHANGED <<storage, contract>>
  BY <1>2 DEF Writers, CopyFile, Rejecting, Reject, StartFreeze, Freeze, VerifiedPcs
<1>4. CASE UNCHANGED verifyVars /\ ~StartVerification
  BY <1>2, <1>3, <1>4 DEF RanOnCopy, verifyVars
<1>5. ASSUME NEW status \in CheckStatuses, NEW content \in Trees, RunCheck(status, content),
             content = copy \/ \E p \in CheckPaths : content = Written(p)
      PROVE  RanOnCopy'
  <2>1. /\ results' = Append(results, status) /\ ran' = Append(ran, copy) /\ copy' = content
        /\ ~StartVerification /\ ChecksDue
    BY <1>5 DEF RunCheck, StartVerification
  <2>2. \A p \in Paths : copy'[p] = copy[p] \/ ByCheck(copy'[p])
    BY <1>5, <1>p, <2>1 DEF Written, ByCheck, Trees
  <2>3. /\ Len(ran') = Len(ran) + 1 /\ Len(results') = Len(results) + 1
        /\ ran'[Len(ran) + 1] = copy /\ \A i \in 1..Len(ran) : ran'[i] = ran[i]
        /\ Len(ran) \in Nat /\ Len(results) \in Nat
    BY <1>p, <2>1, AppendProperties, LenProperties
  <2>4. /\ Len(ran) = Len(results) /\ Len(results) <= Len(contract.checks)
        /\ \A p \in Paths : copy[p] = VerificationCopy(storage)[p] \/ ByCheck(copy[p])
        /\ \A i \in 1..Len(ran), p \in Paths :
              \/ ran[i][p] = VerificationCopy(storage)[p]
              \/ ByCheck(ran[i][p]) /\ ByCheck(copy[p])
    BY <1>2, <2>1 DEF RanOnCopy
  <2>6. \A p \in Paths : copy'[p] = VerificationCopy(storage)[p] \/ ByCheck(copy'[p])
    BY <2>2, <2>4
  <2>7. Len(contract.checks) \in Nat
    BY ChecksCounted
  <2>8. Len(ran') = Len(results') /\ Len(results') <= Len(contract.checks)
    BY <2>1, <2>3, <2>4, <2>7 DEF ChecksDue
  <2>9. ASSUME NEW i \in 1..Len(ran'), NEW p \in Paths
        PROVE  \/ ran'[i][p] = VerificationCopy(storage)[p]
               \/ ByCheck(ran'[i][p]) /\ ByCheck(copy'[p])
    <3>0. \A q \in Paths : ~ByCheck(VerificationCopy(storage)[q])
      BY ContentFacts DEF VerificationCopy, Unchecked
    <3>1. CASE i = Len(ran) + 1
      BY <2>2, <2>3, <2>4, <3>0, <3>1
    <3>2. CASE i \in 1..Len(ran)
      BY <2>2, <2>3, <2>4, <3>0, <3>2
    <3> QED
      BY <2>3, <3>1, <3>2
  <2> QED
    BY <1>3, <2>1, <2>6, <2>8, <2>9 DEF RanOnCopy
<1>6. \A p \in CheckPaths : ChecksDue => Written(p) \in Trees
  BY WrittenTyped
<1> QED
  BY <1>1, <1>4, <1>5, <1>6, <1>p DEF Writers, Rejecting, Reject, RunCheck, VerifiedPcs

LEMMA NextVerdict ==
    TInv /\ Writers /\ Moves /\ RanOnCopy /\ VerdictStands => VerdictStands'
<1> SUFFICES ASSUME TInv, Writers, Moves, RanOnCopy, VerdictStands,
                    pc' \in VerifiedPcs, kind' = "contract"
             PROVE  VerdictStands'
  BY DEF VerdictStands
<1>1. pc \in {"verifying"} \cup VerifiedPcs /\ kind = "contract"
  BY MovesTo DEF VerifiedPcs, VerdictAccepts, VerdictReached, Plan, TargetAccepts, CommitChanges,
     Validate, Writers
<1>2. UNCHANGED <<storage, contract>>
  BY <1>1 DEF Writers, CopyFile, Rejecting, Reject, StartFreeze, Freeze, VerifiedPcs
<1>3. UNCHANGED verifyVars
  BY <1>1 DEF Writers, StartVerification, RunCheck, Rejecting, Reject, VerifiedPcs
<1>4. Len(results) = Len(contract.checks) /\ AllPassed /\ SourceUnchanged
  <2>1. CASE pc \in VerifiedPcs
    BY <1>1, <2>1 DEF VerdictStands
  <2>2. CASE pc = "verifying"
    <3>1. PICK claims \in ClaimOutcomes : VerdictAccepts(claims)
      BY <2>2, MovesTo DEF VerifiedPcs, Plan, TargetAccepts, CommitChanges, Validate
    <3>2. ~ChecksDue /\ AllPassed /\ SourceUnchanged
      BY <1>1, <3>1 DEF VerdictAccepts, VerdictReached, Verifies, ContractMet
    <3>3. Len(results) <= Len(contract.checks) /\ Len(results) \in Nat
      BY <2>2, LenProperties DEF RanOnCopy, TInv, TypeOK
    <3>4. Len(contract.checks) \in Nat
      BY ChecksCounted
    <3> QED
      BY <3>2, <3>3, <3>4 DEF ChecksDue
  <2> QED
    BY <1>1, <2>1, <2>2
<1>5. AllPassed' /\ SourceUnchanged'
  BY <1>2, <1>3, <1>4 DEF AllPassed, SourceUnchanged, verifyVars
<1> QED
  BY <1>2, <1>3, <1>4, <1>5 DEF VerdictStands, verifyVars

LEMMA NextAccepted ==
    TInv /\ Writers /\ Moves /\ AcceptedAsStored => AcceptedAsStored'
<1> SUFFICES ASSUME TInv, Writers, Moves, AcceptedAsStored, pc' = "accepted"
             PROVE  AcceptedAsStored'
  BY DEF AcceptedAsStored
<1>1. CASE pc = "accepted"
  <2>1. UNCHANGED <<storage, cand, integrated, listed>>
    BY <1>1 DEF Writers, CopyFile, Rejecting, Seal, Validate, Submit
  <2> QED
    BY <1>1, <2>1 DEF AcceptedAsStored, Surface
<1>2. CASE pc # "accepted"
  <2>1. Validate
    BY <1>2, MovesTo
  <2>2. /\ Surface(Manifest(storage, cand.sel)) = Surface(snap.seen) /\ integrated' = snap.seen
        /\ pc = "integrating"
    BY <2>1 DEF Validate
  <2>3. UNCHANGED <<storage, cand, listed>>
    BY <2>2 DEF Writers, CopyFile, Rejecting, Seal, Submit
  <2> QED
    BY <2>2, <2>3 DEF AcceptedAsStored, Surface
<1> QED
  BY <1>1, <1>2

LEMMA NextCandidate == TInv /\ CandInv /\ [Next]_vars => CandInv'
  BY NextWriters, NextUnchecked, NextFrozen, NextStored, NextRan, NextVerdict, NextAccepted
     DEF CandInv

LEMMA InitCandidate == Init => CandInv
<1> SUFFICES ASSUME Init PROVE CandInv
  OBVIOUS
<1>1. Unchecked
  BY ContentFacts DEF Init, InputsInit, CaptureInit, Unchecked
<1> QED
  BY <1>1, ContentFacts
     DEF Init, InputsInit, CaptureInit, CandInv, FrozenRule, StoredByRule, RanOnCopy,
         VerdictStands, AcceptedAsStored, Starting, CandidatePcs, VerifiedPcs

(* The rule of the tree that is stored selects what was stored.             *)
LEMMA StoredManifest ==
  ASSUME TInv, StoredByRule, kind = "contract", pc \in CandidatePcs
  PROVE  Manifest(storage, Refresh(contract.sel, storage)) = Manifest(storage, cand.sel)
<1> DEFINE R == Refresh(contract.sel, storage)
<1>1. /\ Carried = cand.sel
      /\ cand.sel \in Selections /\ contract.sel \in Selections /\ storage \in Trees
  BY DEF Carried, CandidatePcs, TInv, TypeOK, Candidates, Contracts
<1>2. /\ cand.sel.tracked = contract.sel.tracked /\ (~contract.sel.git => cand.sel = contract.sel)
      /\ contract.sel.git /\ storage[IgnoreFile] = Original => cand.sel.ignored = Ignorable
      /\ \A p \in Paths \ Selected(cand.sel) : storage[p] = Absent
  BY <1>1 DEF StoredByRule
<1>3. IF contract.sel.git THEN R.tracked = contract.sel.tracked /\ R.ignored = Layer(storage)
      ELSE R = contract.sel
  BY <1>1 DEF Refresh, Selections
<1>4. Selected(cand.sel) \subseteq Selected(R)
  <2>1. CASE contract.sel.git
    BY <1>2, <1>3, <2>1 DEF Selected, IgnoredByRule, Layer
  <2>2. CASE ~contract.sel.git
    BY <1>2, <1>3, <2>2
  <2> QED
    BY <2>1, <2>2
<1> QED
  BY <1>2, <1>4 DEF Manifest

(* What the worker's .gitignore does not hide from the rule, no name hides   *)
(* from the verification, unless a tracked file has it.                     *)
LEMMA CopyManifest ==
  ASSUME TInv, NothingDropped, kind = "contract", pc \in CandidatePcs
  PROVE  LET before == VerificationCopy(storage)
         IN  /\ Refresh(contract.sel, before) = Refresh(contract.sel, storage)
             /\ Manifest(before, Refresh(contract.sel, before))
                  = Manifest(storage, Refresh(contract.sel, storage))
<1> DEFINE before == VerificationCopy(storage)
<1> DEFINE R == Refresh(contract.sel, storage)
<1>1. contract.sel \in Selections /\ storage \in Trees
  BY DEF TInv, TypeOK, Contracts
<1>2. before[IgnoreFile] = storage[IgnoreFile]
  BY PathsAssumption DEF VerificationCopy
<1>3. Refresh(contract.sel, before) = R
  BY <1>2 DEF Refresh, Layer
<1>4. R.tracked = contract.sel.tracked
  BY <1>1 DEF Refresh, Selections
<1>5. Selected(R) \cap Dropped = {}
  BY <1>4, PathsAssumption DEF Selected, IgnoredByRule, NothingDropped
<1>6. Manifest(before, R) = Manifest(storage, R)
  BY <1>5 DEF Manifest, VerificationCopy
<1> QED
  BY <1>3, <1>6

(* A command that ran on other source than the candidate's has left a       *)
(* difference that the verdict sees.                                        *)
LEMMA RanOnSource ==
  ASSUME TInv, FrozenRule, RanOnCopy, VerdictStands, Unchecked,
         kind = "contract", pc \in VerifiedPcs, NEW i \in 1..Len(ran)
  PROVE  LET before == VerificationCopy(storage)
         IN  Manifest(ran[i], Refresh(contract.sel, ran[i]))
               = Manifest(before, Refresh(contract.sel, before))
<1> DEFINE before == VerificationCopy(storage)
<1> DEFINE R == Refresh(contract.sel, before)
<1>1. /\ ByRule(contract.sel) /\ contract.sel \in Selections /\ storage \in Trees /\ before \in Trees
      /\ NonGit \in Selections
  BY ContentFacts DEF VerifiedPcs, FrozenRule, Starting, TInv, TypeOK, Contracts,
     VerificationCopy, Trees, NonGit, Selections
<1>2. R \in Selections /\ R.ignored \in {{}, Ignorable}
  <2>1. R \in Selections /\ Layer(before) \in {{}, Ignorable}
    BY <1>1, SelectionFacts
  <2>2. contract.sel.git => R.ignored = Layer(before)
    BY <1>1 DEF Refresh, Selections
  <2>3. ~contract.sel.git => R.ignored = {}
    BY <1>1 DEF Refresh, ByRule, NonGit
  <2> QED
    BY <2>1, <2>2, <2>3
<1>3. IgnoreFile \in Selected(R) /\ IgnoreFile \in Paths
  BY <1>2, IgnoreIsSelected, PathsAssumption
<1>4. Manifest(copy, R) = Manifest(before, R)
  BY DEF VerdictStands, SourceUnchanged, SameManifest, VerifiedPcs
<1>5. \A p \in Paths : p \in Selected(R) => copy[p] = before[p]
  BY <1>4 DEF Manifest
<1>6. \A p \in Paths : ~ByCheck(before[p])
  BY ContentFacts DEF Unchecked, VerificationCopy
<1>7. \A p \in Paths : p \in Selected(R) => ran[i][p] = before[p]
  BY <1>5, <1>6 DEF RanOnCopy
<1>8. Refresh(contract.sel, ran[i]) = R
  BY <1>3, <1>7 DEF Refresh, Layer
<1> QED
  BY <1>7, <1>8 DEF Manifest

(* What an accepted code change leaves in the repository is what each        *)
(* command of its frozen contract found and passed on, unless a tracked     *)
(* file has a name that the verification copy leaves out.                   *)
THEOREM DeliveredAsVerified == Spec => [](NothingDropped => DeliveredIsVerified)
<1>1. TInv /\ CandInv => (NothingDropped => DeliveredIsVerified)
  <2> SUFFICES ASSUME TInv, CandInv, NothingDropped, pc = "accepted", kind = "contract"
               PROVE  /\ Len(ran) = Len(contract.checks) /\ ran # << >>
                      /\ \A i \in DOMAIN ran :
                            /\ results[i] = "passed"
                            /\ Surface(Manifest(ran[i], Refresh(contract.sel, ran[i])))
                                 = Surface(integrated)
    BY DEF DeliveredIsVerified
  <2>1. pc \in VerifiedPcs /\ pc \in CandidatePcs
    BY DEF VerifiedPcs, CandidatePcs
  <2>2. ran \in Seq(Trees) /\ results \in Seq(CheckStatuses)
    BY DEF TInv, TypeOK
  <2>3. /\ Len(ran) = Len(results) /\ Len(results) = Len(contract.checks)
        /\ results # << >> /\ \A i \in DOMAIN results : results[i] = "passed"
    BY <2>1 DEF CandInv, RanOnCopy, VerdictStands, AllPassed
  <2>4. DOMAIN ran = 1..Len(ran) /\ DOMAIN results = 1..Len(ran) /\ ran # << >>
    BY <2>2, <2>3, LenProperties, EmptySeq
  <2>5. ASSUME NEW i \in 1..Len(ran)
        PROVE  Manifest(ran[i], Refresh(contract.sel, ran[i])) = Manifest(storage, cand.sel)
    BY <2>1, RanOnSource, CopyManifest, StoredManifest DEF CandInv
  <2>6. Surface(Manifest(storage, cand.sel)) = Surface(integrated)
    BY DEF CandInv, AcceptedAsStored
  <2> QED
    BY <2>3, <2>4, <2>5, <2>6
<1> QED
  BY <1>1, InitTyped, NextTyped, InitCandidate, NextCandidate, PTL DEF Spec

-----------------------------------------------------------------------------
(* Edits made while the job runs are kept.                                 *)
EditInv == RulesLoosen /\ ForeignDiffers

(* Until the publication only users write the repository, and no edit makes *)
(* a file as it was first.                                                  *)
LEMMA RepositoryMovesOn ==
  ASSUME TInv, Writers, pc # "applying", repo'[IgnoreFile] = Original
  PROVE  repo[IgnoreFile] = Original
<1>1. ASSUME NEW p \in UserPaths, NEW c \in Contents, UserEdits(p, c)
      PROVE  repo[IgnoreFile] = Original
  <2>1. c # Original /\ repo' = [repo EXCEPT ![p] = c] /\ repo \in Trees
    BY <1>1 DEF UserEdits, Original, Absent, TInv, TypeOK
  <2> QED
    BY <2>1, PathsAssumption DEF Trees
<1> QED
  BY <1>1 DEF Writers

LEMMA NextLoosen ==
    TInv /\ Writers /\ Moves /\ ScanMoves /\ FrozenRule /\ RulesLoosen => RulesLoosen'
<1> SUFFICES ASSUME TInv, Writers, Moves, ScanMoves, FrozenRule, RulesLoosen PROVE RulesLoosen'
  OBVIOUS
<1>p. repo \in Trees /\ snap \in Snapshots /\ contract \in Contracts /\ pc \in Pcs
  BY DEF TInv, TypeOK
<1>0. pc # "applying" /\ repo'[IgnoreFile] = Original => repo[IgnoreFile] = Original
  BY RepositoryMovesOn
<1>1. CASE StartFreeze
  <2>1. pc = "idle" /\ pc' = "freezing" /\ (snap'.sel.git => snap'.sel.ignored = Layer(repo))
    BY <1>1, HeadTracked, StartSnapshotFacts DEF StartFreeze, NonGit
  <2> QED
    BY <1>0, <2>1 DEF RulesLoosen, Layer
<1>2. CASE Freeze
  <2>1. contract'.sel = snap.sel /\ pc = "freezing" /\ pc' = "frozen"
    BY <1>2, <1>p DEF Freeze, Contracts
  <2> QED
    BY <1>0, <2>1 DEF RulesLoosen
<1>3. CASE UNCHANGED pc
  <2>1. snap'.sel = snap.sel /\ UNCHANGED contract
    BY <1>3, ScanKeepsSel DEF Writers, StartFreeze, Freeze
  <2> QED
    BY <1>0, <1>3, <2>1 DEF RulesLoosen
<1>4. CASE Plan /\ kind = "contract"
  <2>1. /\ pc = "verified" /\ pc' = "targeting" /\ StartSnapshot(Tracked(head))
        /\ UNCHANGED contract
    BY <1>4 DEF Plan, Writers, StartFreeze, Freeze
  <2>2. snap'.sel.ignored \subseteq Layer(repo)
    BY <2>1, HeadTracked, StartSnapshotFacts DEF NonGit
  <2>3. contract.sel.git /\ repo[IgnoreFile] = Original => contract.sel.ignored = Ignorable
    BY <2>1 DEF RulesLoosen, Settled
  <2>4. contract.sel.git => Layer(repo) \subseteq contract.sel.ignored
    BY <2>3 DEF Layer
  <2> QED
    BY <1>0, <2>1, <2>2, <2>3, <2>4 DEF RulesLoosen
<1>5. CASE pc' # pc /\ ~StartFreeze /\ ~Freeze /\ ~(Plan /\ kind = "contract")
  <2>1. UNCHANGED contract /\ pc' # "freezing" /\ pc' # "targeting"
    BY <1>5, MovesTo DEF Writers
  <2>2. pc' \notin {"idle", "freezing", "applying", "integrating"} \cup Settled =>
            pc \notin {"idle", "freezing", "applying", "integrating"} \cup Settled
    BY <1>5 DEF Moves, RefuseJob, StartCopy, StartWorker, Submit, StartSealing, StartPostScan,
         Seal, Sealed, Rejecting, StartVerification, VerdictAccepts, VerdictReached, Plan,
         TargetAccepts, CommitChanges, DeliveryFails, Validate, Settled
  <2> QED
    BY <1>0, <2>1, <2>2 DEF RulesLoosen
<1> QED
  BY <1>1, <1>2, <1>3, <1>4, <1>5

(* A path that has been scanned is not scanned again.                       *)
LEMMA ScannedGrows ==
  ASSUME TInv, NEW tree \in Trees, snap.step = "scan", snap' = Read(tree)
  PROVE  /\ Scanned' = Scanned \cup {Order[snap.at]}
         /\ Order[snap.at] \notin Scanned /\ Order[snap.at] \in Paths
         /\ snap'.sel = snap.sel /\ snap'.seen[Order[snap.at]] = Reads(tree)
         /\ \A p \in Scanned : snap'.seen[p] = snap.seen[p]
         /\ snap' # snap
<1>1. snap \in Snapshots /\ ScanPlace
  BY DEF TInv, TypeOK
<1>2. /\ Order[snap.at] \in Paths /\ snap.at \in 1..Len(Order) /\ Read(tree).sel = snap.sel
      /\ Read(tree).at = snap.at + 1
      /\ Read(tree).seen = [snap.seen EXCEPT ![Order[snap.at]] = Reads(tree)]
  BY <1>1, ReadFacts
<1>3. snap.seen \in Trees
  BY <1>1 DEF Snapshots
<1>4. Order[snap.at] \notin Scanned
  BY <1>2, OrderFacts DEF Scanned
<1>5. 1..(snap'.at - 1) = 1..(snap.at - 1) \cup {snap.at}
  BY <1>2, OrderFacts
<1>6. Scanned' = Scanned \cup {Order[snap.at]}
  BY <1>5 DEF Scanned
<1>7. Scanned \subseteq Paths
  BY <1>2, OrderFacts DEF Scanned
<1>8. snap' # snap
  <2>1. snap'.at = snap.at + 1 /\ snap.at \in Int
    BY <1>2, OrderFacts
  <2> QED
    BY <2>1
<1> QED
  BY <1>2, <1>3, <1>4, <1>6, <1>7, <1>8 DEF Trees

LEMMA NothingScanned ==
  ASSUME snap.at = 1 PROVE Scanned = {}
  BY DEF Scanned

LEMMA AllScanned ==
  ASSUME TInv, snap.step \in {"head", "status", "done"} PROVE Scanned = Paths
<1>1. snap.at = Len(Order) + 1
  BY DEF TInv, ScanPlace
<1>2. snap.at - 1 = Len(Order)
  BY <1>1, OrderFacts
<1> QED
  BY <1>2, OrderFacts DEF Scanned

(* What is in "foreign" is a source file that differs from the baseline.    *)
Differing == \A p \in foreign : p \in Selected(contract.sel) /\ repo[p] # contract.baseline[p]

LEMMA EditKeepsDiffering ==
  ASSUME TInv, Differing, NEW p \in UserPaths, NEW c \in Contents, UserEdits(p, c),
         UNCHANGED contract
  PROVE  Differing'
<1>1. repo' = [repo EXCEPT ![p] = c] /\ repo \in Trees /\ foreign \subseteq Paths /\ p \in Paths
  BY RepositoryAssumption DEF UserEdits, TInv, TypeOK
<1>2. \A q \in foreign' : q \in Selected(contract.sel) /\ (q = p => c # contract.baseline[p])
      /\ (q # p => q \in foreign)
  BY DEF UserEdits, Differing
<1> QED
  BY <1>1, <1>2 DEF Differing, Trees

(* Edits add to "foreign" before the publication only.                      *)
LEMMA ForeignGrows ==
  ASSUME NEW p \in UserPaths, NEW c \in Contents, UserEdits(p, c),
         pc \in {"idle", "freezing", "targeting", "applying"}
  PROVE  foreign' \subseteq foreign
  BY DEF UserEdits, BeforePublication, Starting

(* The comparison meets what is foreign: it is selected there, too.          *)
LEMMA ForeignIsMet ==
  ASSUME TInv, RulesLoosen, Differing, TrackedStandsOut, pc = "targeting", contract.sel.git
  PROVE  \A p \in foreign : p \in Selected(snap.sel)
<1>1. snap.sel.ignored \subseteq contract.sel.ignored /\ foreign \subseteq Paths
  BY DEF RulesLoosen, TInv, TypeOK
<1>2. ASSUME NEW p \in foreign PROVE p \in Selected(snap.sel)
  <2>1. p \in Selected(contract.sel) /\ p \in Paths
    BY <1>1 DEF Differing
  <2>2. p \notin Caches \cup contract.sel.ignored
    BY <2>1 DEF Selected, TrackedStandsOut, IgnoredByRule
  <2> QED
    BY <1>1, <2>1, <2>2 DEF Selected, IgnoredByRule
<1> QED
  BY <1>2

Met == \A p \in foreign \cap Scanned : snap.seen[p] # contract.baseline[p]

LEMMA NextMet ==
  ASSUME TInv, Writers, ScanMoves, RulesLoosen, Differing, TrackedStandsOut, Met,
         pc = "targeting", contract.sel.git, UNCHANGED pc
  PROVE  Met'
<1>1. UNCHANGED contract /\ repo \in Trees /\ foreign \subseteq Paths
  BY DEF Writers, StartFreeze, Freeze, TInv, TypeOK
<1>2. foreign' \subseteq foreign
  BY ForeignGrows DEF Writers
<1>3. CASE UNCHANGED snap
  BY <1>1, <1>2, <1>3 DEF Met, Scanned
<1>4. CASE ScanRepository
  <2>1. \A p \in foreign : p \in Selected(snap.sel) /\ repo[p] # contract.baseline[p]
    BY ForeignIsMet DEF Differing
  <2>2. /\ Scanned' = Scanned \cup {Order[snap.at]}
        /\ snap'.seen[Order[snap.at]] = Reads(repo)
        /\ \A p \in Scanned : snap'.seen[p] = snap.seen[p]
    BY <1>1, <1>4, ScannedGrows DEF ScanRepository
  <2>3. Order[snap.at] \in foreign => Reads(repo) = repo[Order[snap.at]]
    BY <2>1 DEF Reads
  <2> QED
    BY <1>1, <1>2, <2>1, <2>2, <2>3 DEF Met
<1>5. CASE snap'.seen = snap.seen /\ snap'.at = snap.at
  BY <1>1, <1>2, <1>5 DEF Met, Scanned
<1> QED
  BY <1>3, <1>4, <1>5 DEF ScanMoves

LEMMA NextForeign ==
  TInv /\ Writers /\ Moves /\ ScanMoves /\ RulesLoosen /\ ForeignDiffers => ForeignDiffers'
<1> SUFFICES ASSUME TInv, Writers, Moves, ScanMoves, RulesLoosen, ForeignDiffers
             PROVE  ForeignDiffers'
  OBVIOUS
<1>1. pc' \in {"idle", "freezing"} => foreign' = {}
  <2> SUFFICES ASSUME pc' \in {"idle", "freezing"} PROVE foreign' = {}
    OBVIOUS
  <2>1. pc \in {"idle", "freezing"} /\ foreign = {}
    BY MovesTo DEF ForeignDiffers, StartFreeze
  <2> QED
    BY <2>1, ForeignGrows DEF Writers
<1>2. pc' \notin {"applying", "integrating"} \cup Settled => Differing'
  <2> SUFFICES ASSUME pc' \notin {"applying", "integrating"} \cup Settled PROVE Differing'
    OBVIOUS
  <2>1. pc \notin {"applying", "integrating"} \cup Settled
    BY DEF Moves, RefuseJob, StartFreeze, Freeze, StartCopy, StartWorker, Submit, StartSealing,
         StartPostScan, Seal, Sealed, Rejecting, StartVerification, VerdictAccepts,
         VerdictReached, Plan, TargetAccepts, CommitChanges, DeliveryFails, Validate, Settled
  <2>2. Differing
    BY <2>1 DEF ForeignDiffers, Differing
  <2>3. CASE StartFreeze \/ Freeze
    <3>1. foreign = {} /\ pc \in {"idle", "freezing"} /\ pc' # pc
      BY <2>3 DEF ForeignDiffers, StartFreeze, Freeze
    <3>2. foreign' = {}
      BY <3>1 DEF Writers
    <3> QED
      BY <3>2 DEF Differing
  <2>4. CASE ~StartFreeze /\ ~Freeze
    <3>1. UNCHANGED contract
      BY <2>4 DEF Writers
    <3>2. CASE \E p \in UserPaths, c \in Contents : UserEdits(p, c)
      BY <2>2, <3>1, <3>2, EditKeepsDiffering
    <3>3. CASE ~\E p \in UserPaths, c \in Contents : UserEdits(p, c)
      <4>1. UNCHANGED <<repo, foreign>>
        BY <2>1, <3>3 DEF Writers
      <4> QED
        BY <2>2, <3>1, <4>1 DEF Differing
    <3> QED
      BY <3>2, <3>3
  <2> QED
    BY <2>3, <2>4
<1>3. pc' = "targeting" /\ contract'.sel.git /\ TrackedStandsOut' => Met'
  <2> SUFFICES ASSUME pc' = "targeting", contract'.sel.git, TrackedStandsOut' PROVE Met'
    OBVIOUS
  <2>1. CASE pc = "targeting"
    <3>1. UNCHANGED contract
      BY <2>1 DEF Writers, StartFreeze, Freeze
    <3>2. TrackedStandsOut /\ Differing /\ contract.sel.git
      BY <2>1, <3>1 DEF TrackedStandsOut, ForeignDiffers, Differing, Settled
    <3>3. Met
      BY <2>1, <3>2 DEF ForeignDiffers, Met
    <3> QED
      BY <2>1, <3>2, <3>3, NextMet
  <2>2. CASE pc # "targeting"
    <3>1. StartSnapshot(Tracked(head))
      BY <2>2, MovesTo DEF Plan
    <3>2. snap'.at = 1
      BY <3>1, HeadTracked, StartSnapshotFacts
    <3>3. Scanned' = {}
      BY <3>2 DEF Scanned
    <3> QED
      BY <3>3 DEF Met
  <2> QED
    BY <2>1, <2>2
<1>4. pc' = "applying" /\ kind' = "contract" /\ contract'.sel.git /\ TrackedStandsOut' =>
          foreign' = {}
  <2> SUFFICES ASSUME pc' = "applying", kind' = "contract", contract'.sel.git, TrackedStandsOut'
               PROVE  foreign' = {}
    OBVIOUS
  <2>0. UNCHANGED kind
    BY DEF Writers
  <2>1. pc \in {"targeting", "applying"} /\ (pc = "targeting" => TargetAccepts)
    BY <2>0, MovesTo DEF TargetAccepts
  <2>2. UNCHANGED contract /\ TrackedStandsOut
    BY <2>1 DEF Writers, StartFreeze, Freeze, TrackedStandsOut
  <2>3. CASE pc = "applying"
    <3>1. foreign = {}
      BY <2>0, <2>2, <2>3 DEF ForeignDiffers
    <3> QED
      BY <2>3, <3>1, ForeignGrows DEF Writers
  <2>4. CASE pc = "targeting"
    <3>1. TargetAccepts
      BY <2>1, <2>4
    <3>2. snap.seen = contract.baseline /\ snap.step = "done"
      BY <3>1 DEF TargetAccepts, Drifted, SameManifest
    <3>3. Met /\ foreign \subseteq Paths
      BY <2>2, <2>4 DEF ForeignDiffers, Met, TInv, TypeOK
    <3>4. foreign = {}
      BY <3>2, <3>3, AllScanned DEF Met
    <3>5. UNCHANGED foreign
      BY <2>4 DEF Writers
    <3> QED
      BY <3>4, <3>5
  <2> QED
    BY <2>1, <2>3, <2>4
<1> QED
  BY <1>1, <1>2, <1>3, <1>4 DEF ForeignDiffers, Differing, Met

LEMMA InitEdits == Init => EditInv
  BY DEF Init, InputsInit, EditInv, RulesLoosen, ForeignDiffers, Settled

LEMMA NextEdits == TInv /\ FrozenRule /\ EditInv /\ [Next]_vars => EditInv'
  BY NextWriters, NextLoosen, NextForeign DEF EditInv

(* The publication of a code change that was frozen by the rule of a        *)
(* checkout neither writes nor removes a file that the user has changed     *)
(* under the running job, as long as no tracked file lies where the rules   *)
(* would ignore it: the comparison with the target meets every such change, *)
(* whatever git answers when the target is read.                            *)
THEOREM EditsKept == Spec /\ []TrackedStandsOut => EarlierEditsKept
<1>1. TInv /\ EditInv /\ TrackedStandsOut =>
          (pc = "applying" /\ kind = "contract" /\ contract.sel.git => \A p \in foreign : repo'[p] = repo[p])
  BY DEF EditInv, ForeignDiffers
<1>2. TInv /\ EditInv /\ TrackedStandsOut /\ [Next]_vars =>
          [pc = "applying" /\ kind = "contract" /\ contract.sel.git => \A p \in foreign : repo'[p] = repo[p]]_vars
  BY <1>1
<1>3. CandInv => FrozenRule
  BY DEF CandInv
<1> QED
  BY <1>2, <1>3, InitTyped, NextTyped, InitCandidate, NextCandidate, InitEdits, NextEdits, PTL
     DEF Spec, EarlierEditsKept

-----------------------------------------------------------------------------
(* A sealed candidate is one state of the workspace.                       *)

(* The workspace and its past are written by the worker alone, once it has   *)
(* started; its write brings no content back.                               *)
LEMMA WorkspaceGoesOn ==
  ASSUME TInv, Writers, ScanMoves, [RestoresNothing]_vars, pc \notin Starting \cup Settled
  PROVE  /\ history \subseteq history'
         /\ ws \in history => ws' \in history'
         /\ \A p \in Paths, c \in Contents : Gone(p, c) => Gone(p, c)'
         /\ UNCHANGED <<ws, history>> \/ UNCHANGED <<pc, snap>>
<1>1. CASE UNCHANGED <<ws, history>>
  BY <1>1 DEF Gone
<1>2. ASSUME NEW p \in WorkerPaths, NEW c \in Contents, WorkerWrites(p, c)
      PROVE  /\ history \subseteq history' /\ ws' \in history'
             /\ \A q \in Paths, d \in Contents : Gone(q, d) => Gone(q, d)'
             /\ UNCHANGED <<pc, snap>>
  <2>1. history' = history \cup {ws'} /\ UNCHANGED <<pc, snap>>
    BY <1>2 DEF WorkerWrites
  <2>2. ws' # ws
    <3>1. ws' = [ws EXCEPT ![p] = c] /\ c # ws[p] /\ ws \in Trees /\ p \in Paths
      BY <1>2, RepositoryAssumption DEF WorkerWrites, TInv, TypeOK
    <3> QED
      BY <3>1 DEF Trees
  <2>3. RestoresNothing
    BY <2>2 DEF vars, workVars
  <2>4. ASSUME NEW q \in Paths, NEW d \in Contents, Gone(q, d) PROVE Gone(q, d)'
    <3>1. PICK tree \in history : tree[q] = d
      BY <2>4 DEF Gone
    <3>2. ws'[q] # d
      BY <2>3, <2>4, <3>1 DEF RestoresNothing, Gone
    <3> QED
      BY <2>1, <3>1, <3>2 DEF Gone
  <2> QED
    BY <2>1, <2>4
<1>3. UNCHANGED <<ws, history>> \/ \E p \in WorkerPaths, c \in Contents : WorkerWrites(p, c)
  BY DEF Writers, CopyRepository, CleanWorkspace, StartWorker, Starting, Settled
<1> QED
  BY <1>1, <1>2, <1>3

LEMMA NextOneState ==
    TInv /\ Writers /\ Moves /\ ScanMoves /\ [RestoresNothing]_vars /\ OneState => OneState'
<1> SUFFICES ASSUME TInv, Writers, Moves, ScanMoves, [RestoresNothing]_vars, OneState
             PROVE  OneState'
  OBVIOUS
<1>p. /\ snap \in Snapshots /\ ws \in Trees /\ pre \in Trees /\ history \subseteq Trees
      /\ snap.sel \in Selections /\ snap.seen \in Trees
      /\ Selected(snap.sel) \subseteq Paths
  BY ContentFacts, SelectionFacts DEF TInv, TypeOK, Snapshots
<1>g. pc \notin Starting \cup Settled =>
        /\ history \subseteq history' /\ ws' \in history'
        /\ \A p \in Paths, c \in Contents : Gone(p, c) => Gone(p, c)'
        /\ UNCHANGED <<ws, history>> \/ UNCHANGED <<pc, snap>>
  BY WorkspaceGoesOn DEF OneState
<1>1. pc' \notin Starting \cup Settled => ws' \in history'
  <2>1. CASE pc \notin Starting \cup Settled
    BY <1>g, <2>1
  <2>2. CASE pc \in Starting \cup Settled /\ pc' \notin Starting \cup Settled
    <3>1. StartWorker /\ BaselineKept
      BY <2>2 DEF Moves, RefuseJob, StartFreeze, Freeze, StartCopy, StartWorker, Submit,
         StartSealing, StartPostScan, Seal, Sealed, Rejecting, StartVerification, VerdictAccepts,
         VerdictReached, Plan, TargetAccepts, CommitChanges, DeliveryFails, Validate, Starting,
         Settled
    <3> QED
      BY <3>1 DEF StartWorker
  <2> QED
    BY <2>1, <2>2
<1>2. pc' = "pre" => \A p \in Selected(snap'.sel) \cap Scanned' :
                        \E tree \in history' : tree[p] = snap'.seen[p]
  <2> SUFFICES ASSUME pc' = "pre"
               PROVE  \A p \in Selected(snap'.sel) \cap Scanned' :
                         \E tree \in history' : tree[p] = snap'.seen[p]
    OBVIOUS
  <2>1. CASE pc # "pre"
    <3>1. snap'.at = 1
      <4>1. snap' = ScanBy(CandidateSelection)
        BY <2>1, MovesTo DEF Submit
      <4> QED
        BY <4>1, NoSnapshotTyped DEF ScanBy, NoSnapshot
    <3> QED
      BY <3>1 DEF Scanned
  <2>2. CASE pc = "pre" /\ UNCHANGED snap
    BY <1>g, <2>2 DEF OneState, Starting, Settled, Scanned
  <2>3. CASE pc = "pre" /\ ScanWorkspace
    <3>1. /\ Scanned' = Scanned \cup {Order[snap.at]} /\ snap'.sel = snap.sel
          /\ snap'.seen[Order[snap.at]] = Reads(ws)
          /\ \A p \in Scanned : snap'.seen[p] = snap.seen[p]
      BY <1>p, <2>3, ScannedGrows DEF ScanWorkspace
    <3>2. Order[snap.at] \in Selected(snap.sel) => Reads(ws) = ws[Order[snap.at]]
      BY DEF Reads
    <3>3. ws \in history /\ history \subseteq history'
      BY <1>g, <2>3 DEF OneState, Starting, Settled
    <3>4. \A p \in Selected(snap.sel) \cap Scanned : \E tree \in history : tree[p] = snap.seen[p]
      BY <2>3 DEF OneState
    <3> QED
      BY <3>1, <3>2, <3>3, <3>4
  <2> QED
    BY <2>1, <2>2, <2>3 DEF ScanMoves, CopyRepository, CopyFile
<1>3. pc' \in {"copy", "post"} => \E tree \in history' : ScannedOnce(tree)'
  <2>1. CASE pc = "pre" /\ pc' = "copy"
    <3>1. StartSealing
      BY <2>1, MovesTo
    <3>2. /\ pre' = snap.seen /\ snap'.sel = snap.sel /\ snap.step = "head" /\ UNCHANGED <<ws, history>>
      BY <1>g, <1>p, <2>1, <3>1, ScanByTyped DEF StartSealing, Starting, Settled
    <3>3. ws \in history /\ Scanned = Paths
      BY <2>1, <3>2, AllScanned DEF OneState, Starting, Settled
    <3>4. \A p \in Selected(snap.sel) : ws[p] = snap.seen[p] \/ Gone(p, snap.seen[p])
      BY <1>p, <2>1, <3>3 DEF OneState, Gone
    <3>5. ScannedOnce(ws)'
      BY <2>1, <3>2, <3>4 DEF ScannedOnce, Gone
    <3> QED
      BY <3>2, <3>3, <3>5
  <2>2. ASSUME pc \in {"copy", "post"}, pc' \in {"copy", "post"}, UNCHANGED <<pre, snap>>,
               NEW tree \in history, ScannedOnce(tree)
        PROVE  ScannedOnce(tree)' /\ tree \in history'
    <3>1. UNCHANGED pc
      BY <2>2, MovesTo, <1>p, NoSnapshotTyped, ScanByTyped DEF StartSealing, StartPostScan
    <3>2. ASSUME NEW p \in Selected(snap.sel)
          PROVE  \/ tree[p] = pre[p]
                 \/ Gone(p, pre[p])' /\ (pc = "post" /\ p \in Scanned => snap.seen[p] # pre[p])
      <4>1. p \in Paths /\ pre[p] \in Contents
        BY <1>p DEF Trees
      <4> QED
        BY <1>g, <2>2, <4>1 DEF ScannedOnce, Starting, Settled
    <3>3. history \subseteq history'
      BY <1>g, <2>2 DEF Starting, Settled
    <3> QED
      BY <2>2, <3>1, <3>2, <3>3 DEF ScannedOnce, Gone, Scanned
  <2>3. ASSUME pc = "post", pc' = "post", ScanWorkspace, NEW tree \in history, ScannedOnce(tree)
        PROVE  ScannedOnce(tree)' /\ tree \in history'
    <3>1. /\ Scanned' = Scanned \cup {Order[snap.at]} /\ snap'.sel = snap.sel
          /\ snap'.seen[Order[snap.at]] = Reads(ws)
          /\ \A p \in Scanned : snap'.seen[p] = snap.seen[p]
          /\ snap' # snap /\ UNCHANGED pre
      BY <1>p, <2>3, ScannedGrows DEF ScanWorkspace, captureVars
    <3>2. Order[snap.at] \in Selected(snap.sel) => Reads(ws) = ws[Order[snap.at]]
      BY DEF Reads
    <3>3. UNCHANGED <<ws, history>>
      BY <1>g, <2>3, <3>1 DEF Starting, Settled
    <3>4. ASSUME NEW p \in Selected(snap.sel)
          PROVE  \/ tree[p] = pre[p]
                 \/ Gone(p, pre[p]) /\ (p \in Scanned' => snap'.seen[p] # pre[p])
      BY <2>3, <3>1, <3>2 DEF ScannedOnce, Gone
    <3> QED
      BY <2>3, <3>1, <3>3, <3>4 DEF ScannedOnce, Gone
  <2>4. ASSUME pc = "copy", pc' = "copy", CopyFile, NEW tree \in history, ScannedOnce(tree)
        PROVE  ScannedOnce(tree)' /\ tree \in history'
    <3>1. snap'.sel = snap.sel /\ snap' # snap /\ UNCHANGED pre
      BY <1>p, <2>4, ScannedGrows DEF CopyFile
    <3>2. UNCHANGED <<ws, history>>
      BY <1>g, <2>4, <3>1 DEF Starting, Settled
    <3> QED
      BY <2>4, <3>1, <3>2 DEF ScannedOnce, Gone
  <2>5. ASSUME pc = "copy", pc' = "post", NEW tree \in history, ScannedOnce(tree)
        PROVE  ScannedOnce(tree)' /\ tree \in history'
    <3>1. StartPostScan
      BY <2>5, MovesTo
    <3>2. snap' = ScanBy(snap.sel) /\ UNCHANGED pre
      BY <3>1 DEF StartPostScan, captureVars
    <3>3. snap'.sel = snap.sel /\ snap'.at = 1
      BY <1>p, <3>2, ScanByTyped
    <3>4. UNCHANGED <<ws, history>>
      BY <1>g, <2>5 DEF Starting, Settled
    <3>5. Scanned' = {}
      BY <3>3 DEF Scanned
    <3> QED
      BY <2>5, <3>2, <3>3, <3>4, <3>5 DEF ScannedOnce, Gone
  <2>6. pc' \in {"copy", "post"} /\ ~(pc = "pre" /\ pc' = "copy") =>
            /\ pc \in {"copy", "post"}
            /\ \/ pc = "copy" /\ pc' = "post"
               \/ UNCHANGED <<pc, pre, snap>>
               \/ pc = "post" /\ pc' = "post" /\ ScanWorkspace
               \/ pc = "copy" /\ pc' = "copy" /\ CopyFile
    BY MovesTo DEF StartSealing, StartPostScan, ScanMoves, Writers, Sealed, Rejecting, Reject,
       CopyRepository
  <2>7. pc \in {"copy", "post"} => \E tree \in history : ScannedOnce(tree)
    BY DEF OneState
  <2> QED
    BY <2>1, <2>2, <2>3, <2>4, <2>5, <2>6, <2>7
<1>4. pc' \in CandidatePcs \ {"accepted"} =>
          \E tree \in history' : Manifest(tree, cand'.sel) = Manifest(storage', cand'.sel)
  <2> SUFFICES ASSUME pc' \in CandidatePcs \ {"accepted"}
               PROVE  \E tree \in history' :
                         Manifest(tree, cand'.sel) = Manifest(storage', cand'.sel)
    OBVIOUS
  <2>1. CASE pc \in CandidatePcs \ {"accepted"}
    <3>1. UNCHANGED <<storage, cand>>
      BY <2>1, MovesTo DEF CandidatePcs, Writers, CopyFile, Seal, Rejecting, Reject
    <3>2. history \subseteq history'
      BY <1>g, <2>1 DEF CandidatePcs, Starting, Settled
    <3> QED
      BY <2>1, <3>1, <3>2 DEF OneState
  <2>2. CASE pc \notin CandidatePcs \ {"accepted"}
    <3>1. Seal
      BY <2>2, MovesTo DEF CandidatePcs, Sealed, StartVerification, VerdictAccepts,
         VerdictReached, Plan, TargetAccepts, CommitChanges
    <3>2. /\ pc = "post" /\ snap.step = "head" /\ snap.seen = pre /\ cand'.sel = snap.sel
          /\ Manifest(storage, snap.sel) = snap.seen /\ UNCHANGED storage
      BY <3>1 DEF Seal, Stable, SameManifest
    <3>3. UNCHANGED <<ws, history>>
      BY <1>g, <3>2, <3>1 DEF Starting, Settled, Seal
    <3>4. PICK tree \in history : ScannedOnce(tree)
      BY <3>2 DEF OneState
    <3>5. \A p \in Selected(snap.sel) : tree[p] = pre[p]
      BY <1>p, <3>2, <3>4, AllScanned DEF ScannedOnce
    <3>6. \A p \in Paths : p \notin Selected(snap.sel) => pre[p] = Absent
      BY <3>2 DEF Manifest
    <3>7. Manifest(tree, snap.sel) = pre
      BY <1>p, <3>5, <3>6 DEF Manifest, Trees
    <3> QED
      BY <3>2, <3>3, <3>7
  <2> QED
    BY <2>1, <2>2
<1> QED
  BY <1>1, <1>2, <1>3, <1>4 DEF OneState

(* A sealed candidate is a state the workspace was in, however many files    *)
(* the worker writes while it is captured, as long as it gives none back a  *)
(* content it had before: what the three scans compare is what was read.    *)
THEOREM SealedAsItStood == Spec /\ [][RestoresNothing]_vars => []SealedIsSnapshot
<1>1. Init => OneState
  BY DEF Init, InputsInit, OneState, Starting, CandidatePcs
<1>2. TInv /\ OneState /\ [Next]_vars /\ [RestoresNothing]_vars => OneState'
  BY NextWriters, NextOneState
<1>3. OneState => SealedIsSnapshot
  BY DEF OneState, SealedIsSnapshot, CandidatePcs
<1> QED
  BY <1>1, <1>2, <1>3, InitTyped, NextTyped, PTL DEF Spec
=============================================================================
