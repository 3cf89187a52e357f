------------------------ MODULE AcceptanceTransaction ------------------------
(***************************************************************************)
(* The acceptance of one completion, effect by effect: the transaction     *)
(* runtime (runtime/transactions.py) with the effects, compensation and    *)
(* final validation of runtime/completion.py, the two-file writes of the   *)
(* vault (adapters/obsidian.py), and recover_completion_transactions, over *)
(* files that users edit.                                                  *)
(*                                                                         *)
(* Two agents apply effects: "submit", the thread that accepts, and        *)
(* "recovery", a context load.  at[i] is what effect i finds in the        *)
(* repository, the artifact directory or the vault:                        *)
(*   before  as recorded when the journal was prepared                     *)
(*   half    the first of two writes is done: an artifact copied and not   *)
(*           linked, or a task note without its board card                 *)
(*   after   as intended                                                   *)
(*   relinked  an artifact as intended, among links a user has changed     *)
(*   other   something else, which a user has made of it; of an artifact,  *)
(*           whatever the links are then                                   *)
(***************************************************************************)
EXTENDS Integers, Sequences

CONSTANTS
    Plan,         \* the kinds of the effects, in the order of the journal
    TornEffects,  \* whether a fault may leave the first of two writes without the second
    Concurrent,   \* whether recovery may run while submit applies
    MaxFaults,    \* bound on crashes and failing operations
    MaxEdits      \* bound on user edits

FileKinds == {"promote_changed_file", "delete_changed_file"}
Kinds == FileKinds \cup {"commit_repo_changes", "promote_artifact", "create_task",
                         "link_derived_tasks", "move_task"}

(* The kinds that go through the vault adapter, which first loads the whole *)
(* vault; and those that write two files one after the other.  (move_task   *)
(* also writes a note first, but the state of a task is its card's column.) *)
VaultKinds == {"create_task", "link_derived_tasks", "move_task"}
TwoWrites == {"promote_artifact", "create_task"}

Effects == DOMAIN Plan
Kind(i) == Plan[i]
OfKind(kinds) == {i \in Effects : Kind(i) \in kinds}

(* submit puts the files before the commit.                                 *)
ASSUME PlanAssumption ==
    /\ Plan \in Seq(Kinds)
    /\ \A i \in OfKind(FileKinds), j \in OfKind({"commit_repo_changes"}) : i < j
ASSUME SwitchAssumption == TornEffects \in BOOLEAN /\ Concurrent \in BOOLEAN
ASSUME BoundAssumption == MaxFaults \in Nat /\ MaxEdits \in Nat

VARIABLES
    at,         \* effect -> what it finds
    published,  \* whether the events of the acceptance are in the log
    journal,
    job,        \* status of the job record
    agent,      \* agent -> what it is doing
    faults, edits

vars == <<at, published, journal, job, agent, faults, edits>>

Agents == {"submit", "recovery"}
Idle == [pc |-> "idle", i |-> 0]

TypeOK ==
    /\ at \in [Effects -> {"before", "half", "after", "relinked", "other"}]
    /\ published \in BOOLEAN
    /\ journal \in {"none", "prepared", "committed", "failed"}
    /\ job \in {"submitted", "failed", "accepted"}
    /\ agent \in [Agents -> [pc : {"idle", "applying", "writing", "appending",
                                   "committing", "settling", "compensating", "failing"},
                             i : 0..(Len(Plan) + 1)]]
    /\ faults \in 0..MaxFaults
    /\ edits \in 0..MaxEdits

Init ==
    /\ at = [i \in Effects |-> "before"]
    /\ published = FALSE
    /\ journal = "none"
    /\ job = "submitted"
    /\ agent = [a \in Agents |-> Idle]
    /\ faults = 0
    /\ edits = 0

-----------------------------------------------------------------------------
On(a, pc) == agent[a].pc = pc
Goes(a, pc, i) == agent' = [agent EXCEPT ![a] = [pc |-> pc, i |-> i]]
Stops(a) == agent' = [agent EXCEPT ![a] = Idle]
Faulty == faults < MaxFaults /\ faults' = faults + 1
NoFault == UNCHANGED faults

(* ObsidianVaultAdapter._load: a task note without a card makes every read  *)
(* and write of the vault fail.                                             *)
VaultLoads == \A i \in OfKind({"create_task"}) : at[i] # "half"

AllAfter(effects) == \A i \in effects : at[i] = "after"

(* The commit has the intended tree when the promoted files are as intended *)
(* and no one has committed since.  create_task refuses an id it knows.     *)
CommitResult(i) ==
    IF at[i] # "other" /\ AllAfter(OfKind(FileKinds)) THEN "after" ELSE "other"

Refused(i) ==
    \/ Kind(i) \in VaultKinds /\ ~ VaultLoads
    \/ Kind(i) = "create_task" /\ at[i] # "before"

(* The effects that write one file, and those that write two.              *)
WriteOnce(a, i) ==
    /\ ~ Refused(i)
    /\ Kind(i) \notin TwoWrites
    /\ at' = [at EXCEPT ![i] = IF Kind(i) = "commit_repo_changes" THEN CommitResult(i) ELSE "after"]
    /\ Goes(a, "applying", i + 1)

WriteFirst(a, i) ==
    /\ ~ Refused(i)
    /\ Kind(i) \in TwoWrites
    /\ at' = [at EXCEPT ![i] = "half"]
    /\ Goes(a, "writing", i)

-----------------------------------------------------------------------------
(* submit: the journal is prepared before any effect, and records what is   *)
(* there.                                                                   *)
Prepare ==
    /\ On("submit", "idle")
    /\ journal = "none" /\ job = "submitted"
    /\ journal' = "prepared"
    /\ Goes("submit", "applying", 1)
    /\ UNCHANGED <<at, published, job, faults, edits>>

(* _recovery_has_conflict: anything a user has changed stops recovery, and  *)
(* so does a vault that cannot be read.                                     *)
Conflict == ~ VaultLoads \/ \E i \in Effects : at[i] = "other"

(* _recovery_effect_applied: of an artifact it compares the file alone, and *)
(* a link section it cannot see.                                            *)
Applied(i) ==
    \/ at[i] = "after" /\ Kind(i) # "link_derived_tasks"
    \/ at[i] \in {"half", "relinked"} /\ Kind(i) = "promote_artifact"

(* _validate_final_state reads the task and the source, nothing else.       *)
FinalStateValid == VaultLoads /\ AllAfter(OfKind(FileKinds \cup {"move_task"}))

(* Mutant: visits prepared journals only.                                   *)
StartRecoveryPrepared ==
    /\ On("recovery", "idle")
    /\ Concurrent \/ On("submit", "idle")
    /\ journal = "prepared"
    /\ ~ Conflict
    /\ Goes("recovery", "applying", 1)
    /\ UNCHANGED <<at, published, journal, job, faults, edits>>

(* Every journal is visited, prepared and failed ones to roll them forward. *)
StartRecovery ==
    /\ On("recovery", "idle")
    /\ Concurrent \/ On("submit", "idle")
    /\ journal \in {"prepared", "failed"}
    /\ ~ Conflict
    /\ Goes("recovery", "applying", 1)
    /\ UNCHANGED <<at, published, journal, job, faults, edits>>

(* A committed one only closes the window before the update of the job.     *)
StartSettlement ==
    /\ On("recovery", "idle")
    /\ Concurrent \/ On("submit", "idle")
    /\ journal = "committed" /\ job # "accepted"
    /\ ~ Conflict
    /\ \A i \in Effects \ OfKind({"link_derived_tasks"}) : Applied(i)
    /\ FinalStateValid
    /\ Goes("recovery", "settling", 0)
    /\ UNCHANGED <<at, published, journal, job, faults, edits>>

(* Mutant: off by one.                                                      *)
AbortsEarlier(a, i) ==
    IF a = "submit"
    THEN journal' = "failed" /\ Goes(a, "compensating", i - 2)
    ELSE UNCHANGED journal /\ Stops(a)

(* A failure marks the journal and compensates the effects before this one; *)
(* recovery leaves the journal as it is and tries again another time.       *)
Aborts(a, i) ==
    IF a = "submit"
    THEN journal' = "failed" /\ Goes(a, "compensating", i - 1)
    ELSE UNCHANGED journal /\ Stops(a)

-----------------------------------------------------------------------------
Apply(a) ==
    LET i == agent[a].i
    IN  /\ On(a, "applying") /\ i \in Effects
        /\ \/ /\ a = "recovery" /\ Applied(i)
              /\ Goes(a, "applying", i + 1)
              /\ UNCHANGED at
           \/ /\ a = "submit" \/ ~ Applied(i)
              /\ WriteOnce(a, i) \/ WriteFirst(a, i)
        /\ UNCHANGED <<published, journal, job, faults, edits>>

(* The link of an artifact is left out without an error when the vault does *)
(* not load.                                                                *)
WriteSecond(a) ==
    LET i == agent[a].i
    IN  /\ On(a, "writing")
        /\ at' = [at EXCEPT ![i] = IF Kind(i) = "promote_artifact" /\ ~ VaultLoads
                                   THEN "half" ELSE "after"]
        /\ Goes(a, "applying", i + 1)
        /\ UNCHANGED <<published, journal, job, faults, edits>>

EffectFails(a) ==
    LET i == agent[a].i
    IN  /\ On(a, "applying") /\ i \in Effects
        /\ \/ Refused(i) /\ (a = "submit" \/ ~ Applied(i)) /\ NoFault
           \/ Faulty
        /\ Aborts(a, i)
        /\ UNCHANGED <<at, published, job, edits>>

(* The second write fails: _write_prepared takes the first one back, an     *)
(* artifact stays where it was copied.                                      *)
SecondWriteFails(a) ==
    LET i == agent[a].i
    IN  /\ On(a, "writing")
        /\ TornEffects \/ Kind(i) = "create_task"
        /\ Faulty
        /\ at' = [at EXCEPT ![i] = IF Kind(i) = "create_task" THEN "before" ELSE @]
        /\ Aborts(a, i)
        /\ UNCHANGED <<published, job, edits>>

Validate(a) ==
    /\ On(a, "applying") /\ agent[a].i = Len(Plan) + 1
    /\ IF FinalStateValid
       THEN Goes(a, "appending", 0) /\ UNCHANGED journal
       ELSE Aborts(a, Len(Plan) + 1)
    /\ UNCHANGED <<at, published, job, faults, edits>>

(* Mutant: goes on when the events cannot be appended.                      *)
AppendEventsRegardless(a) ==
    /\ On(a, "appending")
    /\ (published' = TRUE /\ NoFault) \/ (UNCHANGED published /\ Faulty)
    /\ Goes(a, "committing", 0)
    /\ UNCHANGED <<at, journal, job, edits>>

(* append_many leaves out the events whose ids are in the log.              *)
AppendEvents(a) ==
    /\ On(a, "appending")
    /\ \/ /\ published' = TRUE
          /\ Goes(a, "committing", 0)
          /\ NoFault /\ UNCHANGED journal
       \/ /\ Faulty
          /\ Aborts(a, Len(Plan) + 1)
          /\ UNCHANGED published
    /\ UNCHANGED <<at, job, edits>>

Commit(a) ==
    /\ On(a, "committing")
    /\ journal' = "committed"
    /\ Goes(a, "settling", 0)
    /\ UNCHANGED <<at, published, job, faults, edits>>

(* Only the write of the journal failed: nothing is compensated.            *)
CommitFails(a) ==
    /\ On(a, "committing")
    /\ Faulty
    /\ IF a = "submit" THEN Goes(a, "failing", 0) ELSE Stops(a)
    /\ UNCHANGED <<at, published, journal, job, edits>>

(* Recovery accepts only when the commit is proven to be the intended one.  *)
Settle(a) ==
    /\ On(a, "settling")
    /\ job' = IF a = "submit" \/ AllAfter(OfKind({"commit_repo_changes"}))
              THEN "accepted" ELSE job
    /\ Stops(a)
    /\ UNCHANGED <<at, published, journal, faults, edits>>

(* Mutant: without a look at its bytes.                                     *)
RemovedUnseen(i) == IF Kind(i) = "promote_artifact" THEN "before" ELSE at[i]

(* _compensate_effect: an artifact that was not there before is removed,    *)
(* unless its bytes have changed since, and the links are written back as   *)
(* they were recorded, whatever they are now; the other effects stay.       *)
Removed(i) ==
    IF Kind(i) = "promote_artifact" /\ at[i] # "other" THEN "before" ELSE at[i]

(* A compensation that fails is passed over.                                *)
Compensate ==
    LET i == agent["submit"].i
    IN  /\ On("submit", "compensating") /\ i > 0
        /\ \/ at' = [at EXCEPT ![i] = Removed(i)] /\ NoFault
           \/ Faulty /\ UNCHANGED at
        /\ Goes("submit", "compensating", i - 1)
        /\ UNCHANGED <<published, journal, job, edits>>

Compensated ==
    /\ On("submit", "compensating") /\ agent["submit"].i = 0
    /\ Goes("submit", "failing", 0)
    /\ UNCHANGED <<at, published, journal, job, faults, edits>>

MarkFailed ==
    /\ On("submit", "failing")
    /\ job' = "failed"
    /\ Stops("submit")
    /\ UNCHANGED <<at, published, journal, faults, edits>>

-----------------------------------------------------------------------------
(* A process dies; between the two writes of an effect only if TornEffects. *)
Crash(a) ==
    /\ ~ On(a, "idle")
    /\ TornEffects \/ ~ On(a, "writing")
    /\ Faulty
    /\ Stops(a)
    /\ UNCHANGED <<at, published, journal, job, edits>>

(* runtime start fails the jobs a dead daemon left behind.                  *)
Reconcile ==
    /\ On("submit", "idle") /\ journal # "none" /\ job = "submitted"
    /\ job' = "failed"
    /\ UNCHANGED <<at, published, journal, agent, faults, edits>>

(* A user changes a file, commits, changes a task or moves a card, or       *)
(* changes the links beside an artifact, while nothing is being put in      *)
(* place.                                                                   *)
Delivering(a) == agent[a].pc \in {"applying", "writing", "appending", "committing"}

UserEdits(i) ==
    /\ journal # "none" /\ \A a \in Agents : ~ Delivering(a)
    /\ Kind(i) # "link_derived_tasks"
    /\ edits < MaxEdits
    /\ edits' = edits + 1
    /\ \/ /\ at[i] # "other"
          /\ at' = [at EXCEPT ![i] = "other"]
       \/ /\ Kind(i) = "promote_artifact" /\ at[i] \in {"half", "after"}
          /\ at' = [at EXCEPT ![i] = "relinked"]
    /\ UNCHANGED <<published, journal, job, agent, faults>>

AgentStep(a) ==
    \/ Apply(a) \/ WriteSecond(a) \/ EffectFails(a) \/ SecondWriteFails(a)
    \/ Validate(a) \/ AppendEvents(a) \/ Commit(a) \/ CommitFails(a) \/ Settle(a)

SubmitStep == Prepare \/ AgentStep("submit") \/ Compensate \/ Compensated \/ MarkFailed
RecoveryStep == StartRecovery \/ StartSettlement \/ AgentStep("recovery")

Next ==
    \/ SubmitStep \/ RecoveryStep
    \/ \E a \in Agents : Crash(a)
    \/ Reconcile
    \/ \E i \in Effects : UserEdits(i)

Spec == Init /\ [][Next]_vars

(* A thread in submit goes on, and contexts go on being loaded.             *)
Fairness == WF_vars(SubmitStep) /\ WF_vars(RecoveryStep)

FairSpec == Spec /\ Fairness

-----------------------------------------------------------------------------
(* The acceptance keeps the promise of the ledger: its journal is committed *)
(* once, with every effect and the events in place, nothing of the runtime  *)
(* changes what was delivered, and the job is accepted only after that      *)
(* (transactions.py apply, completion.py recover_completion_transactions).  *)
(* An artifact a user has changed the links of has been delivered.          *)
Delivered(i) == at[i] \in {"after", "relinked"}

Ledger == INSTANCE AcceptanceLedger WITH
    Items    <- 0..Len(Plan),
    in_place <- {i \in Effects : Delivered(i)} \cup (IF published THEN {0} ELSE {}),
    ledger   <- IF journal = "committed" THEN "closed" ELSE "open",
    verdict  <- job

DeliversAtomically == Ledger!LedgerSpec

(* Neither recovery nor compensation changes what a user has made of a file,*)
(* a branch, a task or a card (reliability-05-delivery-plan.md, 5E: "An     *)
(* intervening user change must block compensation rather than be           *)
(* overwritten by a backup."), nor the links of a task; but for the links   *)
(* beside an artifact that a failing submission takes back, which           *)
(* _compensate_effect overwrites with the recorded ones.                    *)
TakenBack(i) == On("submit", "compensating") /\ agent["submit"].i = i

UserWorkKept == [][\A i \in Effects :
    /\ at[i] = "other" => at'[i] = "other"
    /\ at[i] = "relinked" /\ ~ TakenBack(i) => at'[i] \in {"relinked", "other"}]_vars

(* Whatever has failed or died, an acceptance that was prepared ends as an  *)
(* accepted job, unless a user has changed something it touches (5E: one    *)
(* committed acceptance record or an explicit unresolved conflict).         *)
RecoveryConverges == journal # "none" ~> (job = "accepted" \/ edits > 0)
=============================================================================
