--------------------- MODULE AcceptanceTransactionProofs ---------------------
(***************************************************************************)
(* Proofs about AcceptanceTransaction, for any plan, any number of faults  *)
(* and of user edits, when recovery keeps out of a running submission and  *)
(* no fault leaves the first of two writes without the second: the         *)
(* acceptance implements the ledger, and what users have made is kept.     *)
(***************************************************************************)
EXTENDS AcceptanceTransaction, TLAPS

(* The two conditions of the run acceptance.                                *)
Undisturbed == ~ Concurrent /\ ~ TornEffects

(* One agent at a time.                                                     *)
Alone == On("submit", "idle") \/ On("recovery", "idle")

(* What an agent has put in place so far.                                   *)
Progress(a) ==
    /\ agent[a].pc \in {"applying", "writing"} =>
         /\ agent[a].i > 0
         /\ \A i \in Effects : i < agent[a].i => Delivered(i)
    /\ On(a, "writing") =>
         /\ agent[a].i \in Effects /\ Kind(agent[a].i) \in TwoWrites
         /\ at[agent[a].i] = "half"
    /\ agent[a].pc \in {"appending", "committing"} => \A i \in Effects : Delivered(i)
    /\ On(a, "committing") => published

(* While an agent delivers, nothing is as a user has made it, but that      *)
(* recovery may find the links beside an artifact changed.                  *)
Untouched(a) == Delivering(a) => \A i \in Effects :
    at[i] # "other" /\ (at[i] = "relinked" => a = "recovery")

(* The journal an agent at work has.                                        *)
Journalled(a) ==
    /\ Delivering(a) => journal \in {"prepared", "failed"}
    /\ agent[a].pc \in {"compensating", "failing"} => journal # "committed"
    /\ On(a, "settling") => journal = "committed"

(* Half an effect is the effect someone is writing.                         *)
Whole == \A i \in Effects :
    at[i] = "half" => \E a \in Agents : On(a, "writing") /\ agent[a].i = i

(* Only an artifact has links beside it.                                    *)
Linked == \A i \in Effects : at[i] = "relinked" => Kind(i) = "promote_artifact"

(* Nothing has happened before the journal is prepared.                     *)
Unopened == journal = "none" =>
    /\ \A a \in Agents : On(a, "idle")
    /\ \A i \in Effects : at[i] = "before"

AcceptedClosed == job = "accepted" => journal = "committed"

IInv ==
    /\ TypeOK
    /\ Alone
    /\ \A a \in Agents : Progress(a) /\ Untouched(a) /\ Journalled(a)
    /\ Whole
    /\ Linked
    /\ Unopened
    /\ AcceptedClosed

-----------------------------------------------------------------------------
(* The effects are numbered from 1.                                         *)
LEMMA EffectsNumbered == Len(Plan) \in Nat /\ Effects = 1..Len(Plan)
  BY PlanAssumption DEF Effects

(* Initially nothing has been done.                                         *)
LEMMA InitIInv == Init => IInv
<1> SUFFICES ASSUME Init PROVE IInv
  OBVIOUS
<1>1. TypeOK
  <2>1. at \in [Effects -> {"before", "half", "after", "relinked", "other"}]
    BY DEF Init
  <2>2. agent \in [Agents -> [pc : {"idle", "applying", "writing", "appending",
                                   "committing", "settling", "compensating", "failing"},
                             i : 0..(Len(Plan) + 1)]]
    BY EffectsNumbered DEF Init, Idle
  <2>3. published \in BOOLEAN
    BY DEF Init
  <2>4. faults \in 0..MaxFaults /\ edits \in 0..MaxEdits
    BY BoundAssumption DEF Init
  <2> QED
    BY <2>1, <2>2, <2>3, <2>4 DEF Init, TypeOK
<1>2. \A a \in Agents : On(a, "idle")
  BY DEF Init, Idle, On
<1> QED
  BY <1>1, <1>2 DEF Init, IInv, Alone, Progress, Untouched, Journalled, Whole,
     Linked, Unopened, AcceptedClosed, On, Agents, Delivering

(* Every step keeps the types.                                              *)
LEMMA NextTyped == IInv /\ [Next]_vars => TypeOK'
<1> SUFFICES ASSUME IInv, [Next]_vars PROVE TypeOK'
  OBVIOUS
<1> USE EffectsNumbered, BoundAssumption
<1> USE DEF IInv, TypeOK, Agents, Goes, Stops, Idle, Faulty, NoFault
<1>1. CASE UNCHANGED vars
  BY <1>1 DEF vars
<1>2. CASE Prepare
  BY <1>2 DEF Prepare
<1>3. CASE StartRecovery
  BY <1>3 DEF StartRecovery
<1>4. CASE StartSettlement
  BY <1>4 DEF StartSettlement
<1>5. ASSUME NEW a \in Agents, Apply(a) PROVE TypeOK'
  BY <1>5 DEF Apply, WriteOnce, WriteFirst, CommitResult
<1>6. ASSUME NEW a \in Agents, WriteSecond(a) PROVE TypeOK'
  BY <1>6 DEF WriteSecond, Progress
<1>7. ASSUME NEW a \in Agents, EffectFails(a) PROVE TypeOK'
  BY <1>7 DEF EffectFails, Aborts
<1>8. ASSUME NEW a \in Agents, SecondWriteFails(a) PROVE TypeOK'
  BY <1>8 DEF SecondWriteFails, Aborts, Progress, On
<1>9. ASSUME NEW a \in Agents, Validate(a) PROVE TypeOK'
  BY <1>9 DEF Validate, Aborts
<1>10. ASSUME NEW a \in Agents, AppendEvents(a) PROVE TypeOK'
  <2>1. published' \in BOOLEAN
    BY <1>10 DEF AppendEvents
  <2>2. agent' \in [Agents -> [pc : {"idle", "applying", "writing", "appending",
                                    "committing", "settling", "compensating", "failing"},
                              i : 0..(Len(Plan) + 1)]]
    BY <1>10 DEF AppendEvents, Aborts
  <2> QED
    BY <1>10, <2>1, <2>2 DEF AppendEvents, Aborts
<1>11. ASSUME NEW a \in Agents, Commit(a) PROVE TypeOK'
  BY <1>11 DEF Commit
<1>12. ASSUME NEW a \in Agents, CommitFails(a) PROVE TypeOK'
  BY <1>12 DEF CommitFails
<1>13. ASSUME NEW a \in Agents, Settle(a) PROVE TypeOK'
  BY <1>13 DEF Settle
<1>14. CASE Compensate
  BY <1>14 DEF Compensate, Removed
<1>15. CASE Compensated
  BY <1>15 DEF Compensated
<1>16. CASE MarkFailed
  BY <1>16 DEF MarkFailed
<1>17. ASSUME NEW a \in Agents, Crash(a) PROVE TypeOK'
  BY <1>17 DEF Crash
<1>18. CASE Reconcile
  BY <1>18 DEF Reconcile
<1>19. ASSUME NEW i \in Effects, UserEdits(i) PROVE TypeOK'
  BY <1>19 DEF UserEdits
<1> QED
  BY <1>1, <1>2, <1>3, <1>4, <1>5, <1>6, <1>7, <1>8, <1>9, <1>10, <1>11, <1>12,
     <1>13, <1>14, <1>15, <1>16, <1>17, <1>18, <1>19
     DEF Next, SubmitStep, RecoveryStep, AgentStep

-----------------------------------------------------------------------------
(* Only artifacts are ever relinked.                                        *)
LEMMA NextLinked == IInv /\ [Next]_vars => Linked'
<1> SUFFICES ASSUME IInv, [Next]_vars PROVE Linked'
  OBVIOUS
<1> USE DEF IInv, TypeOK, Linked
<1>1. CASE UNCHANGED at
  BY <1>1
<1>2. ASSUME NEW a \in Agents, AgentStep(a) PROVE Linked'
  BY <1>1, <1>2 DEF AgentStep, Apply, WriteOnce, WriteFirst, CommitResult, WriteSecond,
     EffectFails, SecondWriteFails, Validate, AppendEvents, Commit, CommitFails, Settle
<1>3. CASE Compensate
  BY <1>3 DEF Compensate, Removed
<1>4. ASSUME NEW k \in Effects, UserEdits(k) PROVE Linked'
  BY <1>4 DEF UserEdits
<1>5. CASE Prepare \/ StartRecovery \/ StartSettlement \/ Compensated \/ MarkFailed
           \/ Reconcile \/ (\E a \in Agents : Crash(a)) \/ UNCHANGED vars
  BY <1>1, <1>5 DEF Prepare, StartRecovery, StartSettlement, Compensated, MarkFailed,
     Reconcile, Crash, vars
<1> QED
  BY <1>2, <1>3, <1>4, <1>5 DEF Next, SubmitStep, RecoveryStep, Agents

-----------------------------------------------------------------------------
(* While one agent works, every part of the invariant follows from what it  *)
(* says of that agent.                                                      *)
LEMMA OneAtWork ==
    ASSUME NEW a \in Agents, TypeOK', Linked',
           \A b \in Agents : b # a => agent[b].pc = "idle" /\ agent'[b] = agent[b],
           Progress(a)', Untouched(a)', Journalled(a)', journal' # "none",
           \A i \in Effects : at'[i] = "half" => agent'[a].pc = "writing" /\ agent'[a].i = i,
           AcceptedClosed'
    PROVE  IInv'
<1>1. Alone'
  BY DEF Alone, On, Agents
<1>2. \A b \in Agents : (Progress(b) /\ Untouched(b) /\ Journalled(b))'
  <2> SUFFICES ASSUME NEW b \in Agents, b # a
               PROVE  (Progress(b) /\ Untouched(b) /\ Journalled(b))'
    OBVIOUS
  <2> QED
    BY DEF Progress, Untouched, Journalled, On, Delivering
<1>3. Whole'
  BY DEF Whole, On
<1>4. Unopened'
  BY DEF Unopened
<1> QED
  BY <1>1, <1>2, <1>3, <1>4 DEF IInv

(* In every state of the invariant, the agent that is not idle is alone,    *)
(* has a journal, and no effect but the one it is writing is half done.     *)
LEMMA AtWork ==
    ASSUME IInv, NEW a \in Agents, ~ On(a, "idle")
    PROVE  /\ \A b \in Agents : b # a => agent[b].pc = "idle"
           /\ journal # "none"
           /\ \A i \in Effects : at[i] = "half" => On(a, "writing") /\ agent[a].i = i
<1>1. \A b \in Agents : b # a => agent[b].pc = "idle"
  BY DEF IInv, Alone, On, Agents
<1>2. journal # "none"
  BY DEF IInv, Unopened
<1>3. ASSUME NEW i \in Effects, at[i] = "half" PROVE On(a, "writing") /\ agent[a].i = i
  BY <1>1, <1>3 DEF IInv, Whole, On
<1> QED
  BY <1>1, <1>2, <1>3

(* The vault can be read except while a task is being created.              *)
LEMMA Readable ==
    ASSUME IInv, NEW a \in Agents, ~ On(a, "idle"),
           On(a, "writing") => Kind(agent[a].i) = "promote_artifact"
    PROVE  VaultLoads
  BY AtWork DEF VaultLoads, OfKind

(* An agent that gives up, stops or fails the job leaves a state of the     *)
(* invariant if nothing is half done.                                       *)
LEMMA Leaves ==
    ASSUME IInv, TypeOK', Linked', NEW a \in Agents, ~ On(a, "idle"),
           \A b \in Agents : b # a => agent'[b] = agent[b],
           \/ agent'[a].pc = "idle"
           \/ a = "submit" /\ agent'[a].pc \in {"compensating", "failing"} /\ journal' # "committed",
           \A i \in Effects : at'[i] # "half",
           journal' # "none",
           AcceptedClosed'
    PROVE  IInv'
<1>1. \A b \in Agents : b # a => agent[b].pc = "idle" /\ agent'[b] = agent[b]
  BY AtWork
<1>2. Progress(a)' /\ Untouched(a)' /\ Journalled(a)'
  BY DEF Progress, Untouched, Journalled, On, Delivering
<1> QED
  BY <1>1, <1>2, OneAtWork


-----------------------------------------------------------------------------
(* Preparing the journal, starting to recover and starting to settle.       *)
LEMMA StartsKeepIInv ==
    ASSUME Undisturbed, IInv, TypeOK', Linked', Prepare \/ StartRecovery \/ StartSettlement
    PROVE  IInv'
<1> USE DEF IInv, TypeOK, Goes, Agents
<1>1. \A a \in Agents : On(a, "idle")
  BY DEF Prepare, StartRecovery, StartSettlement, Undisturbed, Unopened, On
<1>2. \A i \in Effects : at[i] # "half"
  BY <1>1 DEF Whole, On
<1>3. CASE Prepare
  <2>1. Progress("submit")' /\ Untouched("submit")' /\ Journalled("submit")'
    BY <1>3, EffectsNumbered DEF Prepare, Progress, Untouched, Journalled, On, Delivering, Unopened
  <2>2. AcceptedClosed'
    BY <1>3 DEF Prepare, AcceptedClosed
  <2>3. \A b \in Agents : b # "submit" => agent[b].pc = "idle" /\ agent'[b] = agent[b]
    BY <1>1, <1>3 DEF Prepare, On
  <2> QED
    BY <1>2, <1>3, <2>1, <2>2, <2>3, OneAtWork DEF Prepare
<1>4. CASE StartRecovery
  <2>1. Progress("recovery")' /\ Untouched("recovery")' /\ Journalled("recovery")'
    BY <1>4, EffectsNumbered DEF StartRecovery, Conflict, Progress, Untouched, Journalled, On, Delivering
  <2>2. AcceptedClosed'
    BY <1>4 DEF StartRecovery, AcceptedClosed
  <2>3. \A b \in Agents : b # "recovery" => agent[b].pc = "idle" /\ agent'[b] = agent[b]
    BY <1>1, <1>4 DEF StartRecovery, On
  <2> QED
    BY <1>2, <1>4, <2>1, <2>2, <2>3, OneAtWork DEF StartRecovery
<1>5. CASE StartSettlement
  <2>1. Progress("recovery")' /\ Untouched("recovery")' /\ Journalled("recovery")'
    BY <1>5 DEF StartSettlement, Progress, Untouched, Journalled, On, Delivering
  <2>2. AcceptedClosed'
    BY <1>5 DEF StartSettlement, AcceptedClosed
  <2>3. \A b \in Agents : b # "recovery" => agent[b].pc = "idle" /\ agent'[b] = agent[b]
    BY <1>1, <1>5 DEF StartSettlement, On
  <2> QED
    BY <1>2, <1>5, <2>1, <2>2, <2>3, OneAtWork DEF StartSettlement
<1> QED
  BY <1>3, <1>4, <1>5

(* An effect is in place, and the agent goes on to the next.                *)
LEMMA PassesOn ==
    ASSUME IInv, TypeOK', Linked', NEW a \in Agents, NEW n \in Effects,
           On(a, "applying"), agent[a].i = n,
           Goes(a, "applying", n + 1),
           UNCHANGED <<published, journal, job, faults, edits>>,
           at'[n] = "after" \/ (a = "recovery" /\ at'[n] = "relinked"),
           \A i \in Effects : i # n => at'[i] = at[i]
    PROVE  IInv'
<1> USE DEF IInv, TypeOK
<1>1. ~ On(a, "idle") /\ Delivering(a) /\ n \in Nat
  BY EffectsNumbered DEF On, Delivering
<1>2. \A i \in Effects : at[i] # "half" /\ at[i] # "other" /\ (at[i] = "relinked" => a = "recovery")
  BY <1>1, AtWork DEF On, Untouched
<1>3. agent'[a].pc = "applying" /\ agent'[a].i = n + 1
  BY DEF Goes
<1>4. \A i \in Effects : i < n + 1 => i < n \/ i = n
  BY <1>1, EffectsNumbered
<1>5. Progress(a)'
  BY <1>1, <1>3, <1>4 DEF Progress, On, Delivered
<1>6. Untouched(a)' /\ Journalled(a)'
  BY <1>1, <1>2, <1>3 DEF Untouched, Journalled, Delivering, On
<1>7. \A i \in Effects : at'[i] # "half"
  BY <1>2
<1>8. \A b \in Agents : b # a => agent[b].pc = "idle" /\ agent'[b] = agent[b]
  BY <1>1, AtWork DEF Goes
<1>9. journal' # "none" /\ AcceptedClosed'
  BY <1>1, AtWork DEF AcceptedClosed
<1> QED
  BY <1>5, <1>6, <1>7, <1>8, <1>9, OneAtWork

(* An effect is put in place, or its first file is.                         *)
LEMMA ApplyKeepsIInv ==
    ASSUME IInv, TypeOK', Linked', NEW a \in Agents, Apply(a)
    PROVE  IInv'
<1> DEFINE n == agent[a].i
<1> USE DEF IInv, TypeOK
<1>1. On(a, "applying") /\ ~ On(a, "idle") /\ n \in Effects /\ n \in Nat
      /\ n \in DOMAIN at /\ Delivering(a)
  BY EffectsNumbered DEF Apply, On, Delivering
<1>2. \A i \in Effects : at[i] # "half" /\ at[i] # "other" /\ (at[i] = "relinked" => a = "recovery")
  BY <1>1, AtWork DEF On, Untouched
<1>3. \A i \in Effects : i < n => Delivered(i)
  BY <1>1 DEF On, Progress
<1>4. UNCHANGED <<published, journal, job, faults, edits>>
  BY DEF Apply
<1>5. \A b \in Agents : b # a => agent[b].pc = "idle" /\ agent'[b] = agent[b]
  BY <1>1, AtWork DEF Apply, WriteOnce, WriteFirst, Goes
<1>6. journal # "none" /\ AcceptedClosed'
  BY <1>1, <1>4, AtWork DEF AcceptedClosed
<1>7. CASE a = "recovery" /\ Applied(n) /\ Goes(a, "applying", n + 1) /\ UNCHANGED at
  <2>1. at[n] = "after" \/ at[n] = "relinked"
    BY <1>1, <1>2, <1>7 DEF Applied
  <2> QED
    BY <1>1, <1>4, <1>7, <2>1, PassesOn
<1>8. CASE WriteOnce(a, n)
  <2>1. ASSUME Kind(n) = "commit_repo_changes" PROVE CommitResult(n) = "after"
    <3>1. \A i \in OfKind(FileKinds) : i < n
      BY <1>1, <2>1, PlanAssumption DEF OfKind
    <3> QED
      BY <1>1, <1>2, <1>3, <3>1 DEF CommitResult, AllAfter, OfKind, Delivered, Linked, FileKinds
  <2>2. at' = [at EXCEPT ![n] = "after"]
    BY <1>8, <2>1 DEF WriteOnce
  <2>3. at'[n] = "after" /\ \A i \in Effects : i # n => at'[i] = at[i]
    BY <1>1, <2>2
  <2>4. Goes(a, "applying", n + 1)
    BY <1>8 DEF WriteOnce
  <2> QED
    BY <1>1, <1>4, <2>3, <2>4, PassesOn
<1> USE DEF Goes
<1>9. CASE WriteFirst(a, n)
  <2>1. agent'[a].pc = "writing" /\ agent'[a].i = n /\ Kind(n) \in TwoWrites
    BY <1>9 DEF WriteFirst
  <2>2. \A i \in Effects : at'[i] = IF i = n THEN "half" ELSE at[i]
    BY <1>9 DEF WriteFirst
  <2>3. Progress(a)'
    BY <1>1, <1>2, <1>3, <2>1, <2>2, EffectsNumbered DEF Progress, On, Delivered
  <2>4. Untouched(a)' /\ Journalled(a)'
    BY <1>1, <1>2, <1>4, <2>1, <2>2 DEF Untouched, Journalled, Delivering, On
  <2>5. \A i \in Effects : at'[i] = "half" => agent'[a].pc = "writing" /\ agent'[a].i = i
    BY <1>2, <2>1, <2>2
  <2> QED
    BY <1>4, <1>5, <1>6, <2>3, <2>4, <2>5, OneAtWork
<1> QED
  BY <1>7, <1>8, <1>9 DEF Apply


(* The second file of an effect is written.                                 *)
LEMMA WriteSecondKeepsIInv ==
    ASSUME IInv, TypeOK', Linked', NEW a \in Agents, WriteSecond(a)
    PROVE  IInv'
<1> DEFINE n == agent[a].i
<1> USE DEF IInv, TypeOK, Goes
<1>1. On(a, "writing") /\ ~ On(a, "idle") /\ n \in Effects /\ n \in Nat
      /\ n \in DOMAIN at /\ Delivering(a)
  BY EffectsNumbered DEF WriteSecond, On, Delivering, Progress
<1>2. \A i \in Effects : /\ at[i] # "other" /\ (at[i] = "half" => i = n)
                         /\ at[i] = "relinked" => a = "recovery"
  BY <1>1, AtWork DEF Untouched
<1>3. at' = [at EXCEPT ![n] = "after"]
  <2>1. Kind(n) = "promote_artifact" => VaultLoads
    BY <1>1, Readable
  <2> QED
    BY <2>1 DEF WriteSecond
<1>4. \A i \in Effects : at'[i] = IF i = n THEN "after" ELSE at[i]
  BY <1>3
<1>5. agent'[a].pc = "applying" /\ agent'[a].i = n + 1
  BY DEF WriteSecond
<1>6. Progress(a)'
  <2>1. \A i \in Effects : i < n + 1 => i < n \/ i = n
    BY <1>1, EffectsNumbered
  <2> QED
    BY <1>1, <1>4, <1>5, <2>1 DEF Progress, On, Delivered
<1>7. Untouched(a)' /\ Journalled(a)'
  BY <1>1, <1>2, <1>4, <1>5 DEF WriteSecond, Untouched, Journalled, Delivering, On
<1>8. \A i \in Effects : at'[i] # "half"
  BY <1>2, <1>4
<1>9. \A b \in Agents : b # a => agent[b].pc = "idle" /\ agent'[b] = agent[b]
  BY <1>1, AtWork DEF WriteSecond
<1>10. journal' # "none" /\ AcceptedClosed'
  BY <1>1, AtWork DEF WriteSecond, AcceptedClosed
<1> QED
  BY <1>6, <1>7, <1>8, <1>9, <1>10, OneAtWork

(* An agent gives up, and a submission begins to compensate.                *)
LEMMA AbortsKeepIInv ==
    ASSUME IInv, TypeOK', Linked', NEW a \in Agents, NEW n \in Int, Delivering(a), Aborts(a, n),
           UNCHANGED job, \A i \in Effects : at'[i] # "half"
    PROVE  IInv'
<1> USE DEF IInv, TypeOK
<1>1. ~ On(a, "idle") /\ journal \in {"prepared", "failed"}
  BY DEF Delivering, On, Journalled
<1>2. \A b \in Agents : b # a => agent'[b] = agent[b]
  BY DEF Aborts, Goes, Stops
<1>3. journal' # "none" /\ journal' # "committed" /\ AcceptedClosed'
  BY <1>1 DEF Aborts, AcceptedClosed
<1>4. \/ agent'[a].pc = "idle"
      \/ a = "submit" /\ agent'[a].pc \in {"compensating", "failing"}
  BY DEF Aborts, Goes, Stops, Idle
<1> QED
  BY <1>1, <1>2, <1>3, <1>4, Leaves

(* An effect fails, at its first write or at its second.                    *)
LEMMA FailuresKeepIInv ==
    ASSUME Undisturbed, IInv, TypeOK', Linked', NEW a \in Agents, EffectFails(a) \/ SecondWriteFails(a)
    PROVE  IInv'
<1> USE DEF IInv, TypeOK
<1>1. Delivering(a) /\ ~ On(a, "idle") /\ UNCHANGED job
  BY DEF EffectFails, SecondWriteFails, Delivering, On
<1>2. agent[a].i \in Int /\ Len(Plan) + 1 \in Int
  BY EffectsNumbered
<1>3. CASE EffectFails(a)
  BY <1>1, <1>2, <1>3, AtWork, AbortsKeepIInv DEF EffectFails, On
<1>4. CASE SecondWriteFails(a)
  <2>1. agent[a].i \in Effects /\ Kind(agent[a].i) = "create_task"
    BY <1>4 DEF SecondWriteFails, Undisturbed, Progress
  <2>2. \A i \in Effects : at'[i] # "half"
    BY <1>1, <1>4, <2>1, AtWork DEF SecondWriteFails
  <2> QED
    BY <1>1, <1>2, <1>4, <2>2, AbortsKeepIInv DEF SecondWriteFails
<1> QED
  BY <1>3, <1>4

(* The final state is validated, the events appended, the journal committed *)
(* and the job settled.                                                     *)
LEMMA ClosingKeepsIInv ==
    ASSUME IInv, TypeOK', Linked', NEW a \in Agents,
           Validate(a) \/ AppendEvents(a) \/ Commit(a) \/ CommitFails(a) \/ Settle(a)
    PROVE  IInv'
<1> USE DEF IInv, TypeOK
<1>1. ~ On(a, "idle") /\ ~ On(a, "writing")
  BY DEF Validate, AppendEvents, Commit, CommitFails, Settle, On
<1>2. \A i \in Effects : at[i] # "half"
  BY <1>1, AtWork
<1>3. UNCHANGED at /\ \A b \in Agents : b # a => agent[b].pc = "idle" /\ agent'[b] = agent[b]
  BY <1>1, AtWork DEF Validate, AppendEvents, Commit, CommitFails, Settle, Aborts, Goes, Stops
<1>4. Len(Plan) + 1 \in Int
  BY EffectsNumbered
<1>5. CASE Validate(a)
  <2>1. Delivering(a) /\ UNCHANGED job
    BY <1>5 DEF Validate, Delivering, On
  <2>2. CASE FinalStateValid
    <3>1. agent'[a].pc = "appending" /\ UNCHANGED journal
      BY <1>5, <2>2 DEF Validate, Goes
    <3>2. \A i \in Effects : Delivered(i)
      BY <1>5, EffectsNumbered DEF Validate, Progress, On
    <3>3. Progress(a)' /\ Untouched(a)' /\ Journalled(a)'
      BY <1>3, <2>1, <3>1, <3>2 DEF Progress, Untouched, Journalled, Delivering, On, Delivered
    <3>4. journal' # "none" /\ AcceptedClosed'
      BY <1>1, <2>1, <3>1, AtWork DEF AcceptedClosed
    <3> QED
      BY <1>2, <1>3, <3>3, <3>4, OneAtWork
  <2>3. CASE ~ FinalStateValid
    BY <1>2, <1>3, <1>4, <1>5, <2>1, <2>3, AbortsKeepIInv DEF Validate
  <2> QED
    BY <2>2, <2>3
<1>6. CASE AppendEvents(a)
  <2>1. Delivering(a) /\ UNCHANGED job
    BY <1>6 DEF AppendEvents, Delivering, On
  <2>2. CASE published' = TRUE /\ Goes(a, "committing", 0) /\ UNCHANGED journal
    <3>1. agent'[a].pc = "committing"
      BY <2>2 DEF Goes
    <3>2. \A i \in Effects : Delivered(i)
      BY <1>6 DEF AppendEvents, Progress, On
    <3>3. Progress(a)' /\ Untouched(a)' /\ Journalled(a)'
      BY <1>3, <2>1, <2>2, <3>1, <3>2
         DEF Progress, Untouched, Journalled, Delivering, On, Delivered
    <3>4. journal' # "none" /\ AcceptedClosed'
      BY <1>1, <2>1, <2>2, AtWork DEF AcceptedClosed
    <3> QED
      BY <1>2, <1>3, <3>3, <3>4, OneAtWork
  <2>3. CASE Aborts(a, Len(Plan) + 1)
    BY <1>2, <1>3, <1>4, <2>1, <2>3, AbortsKeepIInv
  <2> QED
    BY <1>6, <2>2, <2>3 DEF AppendEvents
<1>7. CASE Commit(a)
  <2>1. agent'[a].pc = "settling" /\ journal' = "committed"
    BY <1>7 DEF Commit, Goes
  <2>2. Progress(a)' /\ Untouched(a)' /\ Journalled(a)'
    BY <2>1 DEF Progress, Untouched, Journalled, Delivering, On
  <2>3. AcceptedClosed'
    BY <2>1 DEF AcceptedClosed
  <2> QED
    BY <1>2, <1>3, <2>1, <2>2, <2>3, OneAtWork
<1>8. CASE CommitFails(a)
  <2>1. journal' # "none" /\ journal' # "committed" /\ AcceptedClosed'
    BY <1>8 DEF CommitFails, Journalled, Delivering, On, AcceptedClosed
  <2>2. \/ agent'[a].pc = "idle"
        \/ a = "submit" /\ agent'[a].pc \in {"compensating", "failing"}
    BY <1>8 DEF CommitFails, Goes, Stops, Idle
  <2> QED
    BY <1>1, <1>2, <1>3, <2>1, <2>2, Leaves
<1>9. CASE Settle(a)
  <2>1. journal' = "committed" /\ AcceptedClosed'
    BY <1>9 DEF Settle, Journalled, AcceptedClosed
  <2>2. agent'[a].pc = "idle"
    BY <1>9 DEF Settle, Stops, Idle
  <2> QED
    BY <1>1, <1>2, <1>3, <2>1, <2>2, Leaves
<1> QED
  BY <1>5, <1>6, <1>7, <1>8, <1>9


(* Compensation, and the job failed after it.                               *)
LEMMA CompensationKeepsIInv ==
    ASSUME IInv, TypeOK', Linked', Compensate \/ Compensated \/ MarkFailed
    PROVE  IInv'
<1> USE DEF IInv, TypeOK, Agents
<1>1. ~ On("submit", "idle") /\ ~ On("submit", "writing") /\ journal # "committed"
      /\ UNCHANGED journal
  BY DEF Compensate, Compensated, MarkFailed, On, Journalled
<1>2. \A i \in Effects : at[i] # "half"
  BY <1>1, AtWork
<1>3. \A i \in Effects : at'[i] # "half"
  BY <1>2 DEF Compensate, Compensated, MarkFailed, Removed
<1>4. \A b \in Agents : b # "submit" => agent'[b] = agent[b]
  BY DEF Compensate, Compensated, MarkFailed, Goes, Stops
<1>5. agent'["submit"].pc \in {"idle", "compensating", "failing"}
  BY DEF Compensate, Compensated, MarkFailed, Goes, Stops, Idle
<1>6. journal' # "none" /\ journal' # "committed"
  BY <1>1, AtWork
<1>7. AcceptedClosed'
  BY <1>1 DEF Compensate, Compensated, MarkFailed, AcceptedClosed
<1> QED
  BY <1>1, <1>3, <1>4, <1>5, <1>6, <1>7, Leaves

(* Crashes, the reconciliation of a start, and users.                       *)
LEMMA WorldKeepsIInv ==
    ASSUME Undisturbed, IInv, TypeOK', Linked',
           (\E a \in Agents : Crash(a)) \/ Reconcile \/ \E i \in Effects : UserEdits(i)
    PROVE  IInv'
<1> USE DEF IInv, TypeOK
<1>1. ASSUME NEW a \in Agents, Crash(a) PROVE IInv'
  <2>1. ~ On(a, "idle") /\ ~ On(a, "writing") /\ UNCHANGED <<at, journal, job>>
    BY <1>1 DEF Crash, Undisturbed
  <2>2. journal' # "none" /\ \A i \in Effects : at'[i] # "half"
    BY <2>1, AtWork
  <2>3. agent'[a].pc = "idle" /\ \A b \in Agents : b # a => agent'[b] = agent[b]
    BY <1>1 DEF Crash, Stops, Idle
  <2>4. AcceptedClosed'
    BY <2>1 DEF AcceptedClosed
  <2> QED
    BY <2>1, <2>2, <2>3, <2>4, Leaves
<1>2. CASE Reconcile
  BY <1>2 DEF Reconcile, Alone, Progress, Untouched, Journalled, Whole, Unopened,
     AcceptedClosed, On, Delivering, Delivered
<1>3. ASSUME NEW i \in Effects, UserEdits(i) PROVE IInv'
  <2>1. UNCHANGED <<published, journal, job, agent>> /\ journal # "none"
        /\ \A a \in Agents : ~ Delivering(a)
    BY <1>3 DEF UserEdits
  <2>2. \A k \in Effects : at'[k] # "half"
    <3>1. \A k \in Effects : at[k] # "half"
      BY <2>1 DEF Whole, Delivering, On
    <3> QED
      BY <1>3, <3>1 DEF UserEdits
  <2>3. \A a \in Agents : (Progress(a) /\ Untouched(a) /\ Journalled(a))'
    BY <2>1 DEF Progress, Untouched, Journalled, Delivering, On
  <2> QED
    BY <2>1, <2>2, <2>3 DEF Alone, Whole, Unopened, AcceptedClosed, On
<1> QED
  BY <1>1, <1>2, <1>3

(* The invariant is inductive.                                              *)
LEMMA NextIInv == Undisturbed /\ IInv /\ [Next]_vars => IInv'
<1> SUFFICES ASSUME Undisturbed, IInv, [Next]_vars PROVE IInv'
  OBVIOUS
<1>1. TypeOK' /\ Linked'
  BY NextTyped, NextLinked
<1>2. CASE UNCHANGED vars
  BY <1>2 DEF vars, IInv, TypeOK, Alone, Progress, Untouched, Journalled, Whole,
     Linked, Unopened, AcceptedClosed, On, Delivering, Delivered
<1>3. CASE Prepare \/ StartRecovery \/ StartSettlement
  BY <1>1, <1>3, StartsKeepIInv
<1>4. ASSUME NEW a \in Agents, AgentStep(a) PROVE IInv'
  BY <1>1, <1>4, ApplyKeepsIInv, WriteSecondKeepsIInv, FailuresKeepIInv, ClosingKeepsIInv
     DEF AgentStep
<1>5. CASE Compensate \/ Compensated \/ MarkFailed
  BY <1>1, <1>5, CompensationKeepsIInv
<1>6. CASE (\E a \in Agents : Crash(a)) \/ Reconcile \/ \E i \in Effects : UserEdits(i)
  BY <1>1, <1>6, WorldKeepsIInv
<1> QED
  BY <1>2, <1>3, <1>4, <1>5, <1>6 DEF Next, SubmitStep, RecoveryStep, Agents

(* The detailed acceptance is well formed at every moment (transactions.py  *)
(* apply, completion.py recover_completion_transactions).                   *)
THEOREM AcceptanceInvariant == Undisturbed => (Spec => []IInv)
<1> SUFFICES ASSUME Undisturbed PROVE Spec => []IInv
  OBVIOUS
<1>1. IInv /\ [Next]_vars => IInv'
  BY NextIInv
<1> QED
  BY <1>1, InitIInv, PTL DEF Spec


(* The acceptance keeps the shape of its state (transactions.py apply).     *)
THEOREM AcceptanceTyped == Undisturbed => (Spec => []TypeOK)
<1>1. IInv => TypeOK
  BY DEF IInv
<1> QED
  BY <1>1, AcceptanceInvariant, PTL

-----------------------------------------------------------------------------
(* What is in place, of what the ledger asks for.                           *)
InPlace == {i \in Effects : Delivered(i)} \cup (IF published THEN {0} ELSE {})

LEMMA InPlaceItems ==
    /\ InPlace \subseteq 0..Len(Plan)
    /\ InPlace' \subseteq 0..Len(Plan)
    /\ (\A i \in Effects : Delivered(i)) /\ published => InPlace = 0..Len(Plan)
  BY EffectsNumbered DEF InPlace

(* A step before the commit that leaves the job alone is work.              *)
LEMMA OpenSteps ==
    ASSUME journal # "committed", journal' # "committed", UNCHANGED job
    PROVE  Ledger!Work
  BY InPlaceItems DEF Ledger!Work, InPlace

(* Every step of the acceptance is one of the ledger.                       *)
LEMMA StepImplementsLedger ==
    Undisturbed /\ IInv /\ [Next]_vars => [Ledger!LedgerNext]_(Ledger!ledgerVars)
<1> SUFFICES ASSUME Undisturbed, IInv, [Next]_vars
             PROVE  Ledger!LedgerNext \/ UNCHANGED Ledger!ledgerVars
  OBVIOUS
<1> USE DEF IInv, TypeOK
<1>1. CASE UNCHANGED <<at, published, journal, job>>
  BY <1>1 DEF Ledger!ledgerVars, Delivered
<1>2. CASE UNCHANGED vars
  BY <1>1, <1>2 DEF vars
<1>3. CASE Prepare \/ StartRecovery \/ StartSettlement
  <2>1. CASE Prepare
    BY <2>1, OpenSteps DEF Prepare, Ledger!LedgerNext
  <2> QED
    BY <1>1, <1>3, <2>1 DEF StartRecovery, StartSettlement
<1>4. ASSUME NEW a \in Agents, AgentStep(a), ~ Commit(a), ~ Settle(a)
      PROVE  Ledger!LedgerNext
  <2>1. Delivering(a) /\ UNCHANGED job
    BY <1>4 DEF AgentStep, Apply, WriteSecond, EffectFails, SecondWriteFails, Validate,
       AppendEvents, CommitFails, Delivering, On
  <2>2. journal # "committed"
    BY <2>1 DEF Journalled
  <2>3. journal' # "committed"
    BY <1>4, <2>2 DEF AgentStep, Apply, WriteSecond, EffectFails, SecondWriteFails, Validate,
       AppendEvents, CommitFails, Aborts
  <2> QED
    BY <2>1, <2>2, <2>3, OpenSteps DEF Ledger!LedgerNext
<1>5. ASSUME NEW a \in Agents, Commit(a) PROVE Ledger!LedgerNext
  <2>1. (\A i \in Effects : Delivered(i)) /\ published /\ journal # "committed"
    BY <1>5 DEF Commit, Progress, Journalled, Delivering, On
  <2>2. Ledger!Close
    BY <1>5, <2>1, InPlaceItems DEF Commit, Ledger!Close, InPlace, Delivered
  <2> QED
    BY <2>2 DEF Ledger!LedgerNext
<1>6. ASSUME NEW a \in Agents, Settle(a) PROVE Ledger!LedgerNext \/ UNCHANGED Ledger!ledgerVars
  <2>1. journal = "committed" /\ UNCHANGED <<at, published, journal>>
    BY <1>6 DEF Settle, Journalled
  <2>2. CASE job' = "accepted"
    BY <2>1, <2>2 DEF Ledger!TellAccepted, Ledger!LedgerNext, Delivered
  <2>3. CASE job' = job
    BY <1>1, <2>1, <2>3
  <2> QED
    BY <1>6, <2>2, <2>3 DEF Settle
<1>7. CASE Compensate \/ Compensated
  <2>1. journal # "committed" /\ UNCHANGED <<journal, job>>
    BY <1>7 DEF Compensate, Compensated, Journalled, On, Agents
  <2> QED
    BY <2>1, OpenSteps DEF Ledger!LedgerNext
<1>8. CASE MarkFailed \/ Reconcile
  <2>1. job # "accepted"
    BY <1>8 DEF MarkFailed, Reconcile, Journalled, AcceptedClosed, On, Agents
  <2> QED
    BY <1>8, <2>1 DEF MarkFailed, Reconcile, Ledger!TellFailed, Ledger!LedgerNext, Delivered
<1>9. ASSUME NEW a \in Agents, Crash(a) PROVE Ledger!LedgerNext \/ UNCHANGED Ledger!ledgerVars
  BY <1>1, <1>9 DEF Crash
<1>10. ASSUME NEW i \in Effects, UserEdits(i) PROVE Ledger!LedgerNext
  <2>1. UNCHANGED <<published, journal, job>> /\ \A k \in Effects : at[k] # "half"
    BY <1>10 DEF UserEdits, Whole, Delivering, On
  <2>2. InPlace' \subseteq InPlace
    BY <1>10, <2>1 DEF UserEdits, InPlace, Delivered
  <2> QED
    BY <2>1, <2>2 DEF InPlace, Ledger!UserChanges, Ledger!LedgerNext
<1> QED
  BY <1>2, <1>3, <1>4, <1>5, <1>6, <1>7, <1>8, <1>9, <1>10
     DEF Next, SubmitStep, RecoveryStep, Agents

(* The acceptance implements the ledger: it is committed at most once and   *)
(* with everything in place, whatever fails and whoever dies                *)
(* (transactions.py apply, completion.py recover_completion_transactions).  *)
THEOREM AcceptanceDelivers == Undisturbed => (Spec => DeliversAtomically)
<1> SUFFICES ASSUME Undisturbed PROVE Spec => DeliversAtomically
  OBVIOUS
<1>1. Init => Ledger!LedgerInit
  BY DEF Init, Ledger!LedgerInit, Delivered
<1>2. IInv /\ [Next]_vars => [Ledger!LedgerNext]_(Ledger!ledgerVars)
  BY StepImplementsLedger
<1>3. Spec => []IInv
  BY AcceptanceInvariant
<1> QED
  BY <1>1, <1>2, <1>3, PTL DEF Spec, DeliversAtomically, Ledger!LedgerSpec


(* What a step may do to what a user has made.                              *)
Keeps(i) ==
    /\ at[i] = "other" => at'[i] = "other"
    /\ at[i] = "relinked" /\ ~ TakenBack(i) => at'[i] \in {"relinked", "other"}

(* An agent that delivers finds nothing a user has made of a file, and      *)
(* passes over an artifact among changed links.                             *)
LEMMA DeliveryKeepsUserWork ==
    ASSUME IInv, NEW a \in Agents, AgentStep(a), Delivering(a), NEW i \in Effects
    PROVE  Keeps(i)
<1> USE DEF IInv, TypeOK
<1>1. at[i] # "other"
  BY DEF Untouched
<1>2. CASE UNCHANGED at
  BY <1>2 DEF Keeps
<1>3. CASE Apply(a)
  <2> DEFINE n == agent[a].i
  <2>1. n \in Effects /\ (at[n] = "relinked" => Applied(n) /\ a = "recovery")
    BY <1>3 DEF Apply, Untouched, Applied, Linked
  <2>2. CASE at[n] = "relinked"
    BY <1>2, <1>3, <2>1, <2>2 DEF Apply, Agents
  <2>3. CASE at[n] # "relinked"
    BY <1>1, <1>2, <1>3, <2>1, <2>3 DEF Apply, WriteOnce, WriteFirst, Keeps
  <2> QED
    BY <2>2, <2>3
<1>4. CASE WriteSecond(a)
  BY <1>1, <1>4 DEF WriteSecond, Progress, Keeps
<1>5. CASE SecondWriteFails(a)
  BY <1>1, <1>5 DEF SecondWriteFails, Progress, Keeps
<1> QED
  BY <1>2, <1>3, <1>4, <1>5 DEF AgentStep, EffectFails, Validate, AppendEvents, Commit,
     CommitFails, Settle

(* Only users make an effect "other" or relink it, and only a compensation  *)
(* then changes it, an artifact among changed links (_compensate_effect,    *)
(* _recovery_has_conflict).                                                 *)
LEMMA StepKeepsUserWork == IInv /\ [Next]_vars => \A i \in Effects : Keeps(i)
<1> SUFFICES ASSUME IInv, [Next]_vars, NEW i \in Effects
             PROVE  Keeps(i)
  OBVIOUS
<1> USE DEF IInv, TypeOK
<1>1. CASE UNCHANGED at
  BY <1>1 DEF Keeps
<1>2. ASSUME NEW a \in Agents, AgentStep(a) PROVE Keeps(i)
  <2>1. CASE ~ Delivering(a)
    BY <1>1, <1>2, <2>1 DEF AgentStep, Apply, WriteSecond, EffectFails, SecondWriteFails,
       Validate, AppendEvents, Commit, CommitFails, Settle, Delivering, On
  <2> QED
    BY <1>2, <2>1, DeliveryKeepsUserWork
<1>3. CASE Compensate
  BY <1>3 DEF Compensate, Removed, Keeps, TakenBack
<1>4. ASSUME NEW k \in Effects, UserEdits(k) PROVE Keeps(i)
  BY <1>4 DEF UserEdits, Keeps
<1>5. CASE Prepare \/ StartRecovery \/ StartSettlement \/ Compensated \/ MarkFailed
           \/ Reconcile \/ (\E a \in Agents : Crash(a)) \/ UNCHANGED vars
  BY <1>1, <1>5 DEF Prepare, StartRecovery, StartSettlement, Compensated, MarkFailed,
     Reconcile, Crash, vars
<1> QED
  BY <1>2, <1>3, <1>4, <1>5 DEF Next, SubmitStep, RecoveryStep, Agents

(* Neither recovery nor compensation changes what a user has made of what   *)
(* an acceptance touches, but for the links beside an artifact that a       *)
(* failing submission takes back (_compensate_effect,                       *)
(* _recovery_has_conflict).                                                 *)
THEOREM UserWorkSafe == Undisturbed => (Spec => UserWorkKept)
<1> SUFFICES ASSUME Undisturbed PROVE Spec => UserWorkKept
  OBVIOUS
<1>1. IInv /\ [Next]_vars => [\A i \in Effects : Keeps(i)]_vars
  BY StepKeepsUserWork
<1>2. Spec => []IInv
  BY AcceptanceInvariant
<1>3. [][\A i \in Effects : Keeps(i)]_vars => UserWorkKept
  BY DEF UserWorkKept, Keeps
<1> QED
  BY <1>1, <1>2, <1>3, PTL DEF Spec

=============================================================================
