------------------------ MODULE WorkerSessionProofs ------------------------
(***************************************************************************)
(* Proofs about WorkerSession, for any jobs, requests, proxies and bounds: *)
(* its type invariant, that a settled attempt is cut off from the backend, *)
(* and that a supervised worker keeps its credential.                      *)
(***************************************************************************)
EXTENDS WorkerSession, SequenceTheorems, TLAPS

(* What a sequence is after its last element has been taken or replaced.    *)
LEMMA FrontProperties ==
  ASSUME NEW S, NEW s \in Seq(S), s # << >>
  PROVE  /\ Front(s) \in Seq(S)
         /\ Len(Front(s)) = Len(s) - 1
         /\ \A i \in 1..Len(s) - 1 : Front(s)[i] = s[i]
         /\ Len(s) \in Nat \ {0}
         /\ Last(s) = s[Len(s)] /\ Last(s) \in S
<1>1. Len(s) \in Nat /\ Len(s) # 0
  BY LenProperties, EmptySeq
<1>2. Front(s) = [i \in 1..Len(s) - 1 |-> s[i]]
  BY <1>1, SubSeqProperties DEF Front
<1> QED
  BY <1>1, <1>2, SubSeqProperties, ElementOfSeq DEF Front, Last

LEMMA AppendLast ==
  ASSUME NEW S, NEW s \in Seq(S), NEW e \in S
  PROVE  /\ Append(s, e) \in Seq(S)
         /\ Append(s, e) # << >>
         /\ Len(Append(s, e)) = Len(s) + 1 /\ Len(s) \in Nat
         /\ \A i \in 1..Len(s) : Append(s, e)[i] = s[i]
         /\ Append(s, e)[Len(s) + 1] = e
  BY AppendProperties, LenProperties

(* The points of a run at which its innermost call has admitted an attempt. *)
Admitted == {"admitted", "issued", "supervising", "joining", "reading", "bound", "fail_read",
             "fail_write", "stopping", "evidence_read", "evidence_write", "raising"}

(* The points at which no call has been opened since the last admission.    *)
Between == {"idle", "loading", "leasing"}

(* The calls of a run: an enclosing call has admitted an attempt, earlier    *)
(* than those inside it; the innermost one may not have yet.                *)
OpenOrdered(open, n) ==
    /\ \A i \in 1..Len(open) : open[i] <= n
    /\ \A i, k \in 1..Len(open) :
          i < k => open[i] # 0 /\ (open[k] = 0 \/ open[i] < open[k])

OpenFits(pc, open, n) ==
    /\ pc = "idle" => open = << >>
    /\ pc \notin Between => open # << >>
    /\ pc \in Between => \A i \in 1..Len(open) : open[i] # 0
    /\ pc = "prepared" => n < MaxAttempts /\ Last(open) = 0
    /\ pc \in Admitted => n # 0 /\ Last(open) = n

OpenCalls == \A j \in Jobs :
    OpenOrdered(run[j].open, attempts[j]) /\ OpenFits(run[j].pc, run[j].open, attempts[j])

(* A logged rejection has a reason.                                         *)
Named == \A j \in Jobs : rejected[j].reason = "none" => rejected[j] = NoRejection

TInv == TypeOK /\ OpenCalls /\ Named

-----------------------------------------------------------------------------
(* A classified failure has one of the codes and an attempt of the job.     *)
LEMMA ClassifyType ==
  ASSUME TypeOK, Named, NEW j \in Jobs, NEW result
  PROVE  Classify(j, result) \in Failures
<1>1. CodeOfEnd(result) \in Codes
  BY DEF CodeOfEnd, Codes
<1>2. ASSUME NEW reason \in Reasons PROVE CodeOfReason(reason) \in Codes
  BY DEF CodeOfReason, Codes, Reasons
<1>3. rejected[j] # NoRejection => rejected[j].reason \in Reasons /\ rejected[j].attempt \in 0..MaxAttempts
  BY DEF TypeOK, Named, Rejections
<1>4. "provider.upstream" \in Codes
  BY DEF Codes
<1>5. upstream[j] \in 0..MaxAttempts /\ attempts[j] \in 0..MaxAttempts
  BY DEF TypeOK
<1> QED
  BY <1>1, <1>2, <1>3, <1>4, <1>5 DEF Classify, Failures

(* The initial state is typed.                                              *)
LEMMA InitTyped == Init => TInv
<1> SUFFICES ASSUME Init PROVE TInv
  OBVIOUS
<1> USE JobsAssumption, ProxiesAssumption, BoundsAssumption DEF Init
<1>1. << >> \in Seq(0..MaxAttempts) /\ Len(<< >>) = 0
  BY EmptySeq
<1>2. NoFailure \in Failures
  BY DEF NoFailure, Failures, Codes
<1>3. IdleRun \in Runs
  BY <1>1, <1>2 DEF IdleRun, Runs, Calls, RunPcs, Statuses
<1>4. (CHOOSE j \in Jobs : TRUE) \in Jobs
  OBVIOUS
<1>5. TypeOK
  <2>1. NoCommand \in Commands /\ NoRejection \in Rejections
    BY DEF NoCommand, Commands, NoRejection, Rejections
  <2>2. NoRequest(CHOOSE j \in Jobs : TRUE) \in ProxyRequests
    BY <1>4 DEF NoRequest, ProxyRequests
  <2>3. clock \in 0..MaxClock /\ crashes \in 0..MaxCrashes
    OBVIOUS
  <2>4. /\ status \in [Jobs -> Statuses] /\ attempts \in [Jobs -> 0..MaxAttempts]
        /\ failure \in [Jobs -> Failures] /\ run \in [Jobs -> Runs]
    BY <1>2, <1>3 DEF Statuses
  <2>5. /\ worker \in [Jobs -> 0..MaxAttempts]
        /\ box \in [Jobs -> Outcomes \cup {NoResult, Raised, Conflict}]
        /\ obs \in [Jobs -> {"off", "watching", "dead", "notify", "done"}]
        /\ command \in [Jobs -> Commands] /\ req \in [Requests -> ProxyRequests]
        /\ rejected \in [Jobs -> Rejections] /\ upstream \in [Jobs -> 0..MaxAttempts]
    BY <2>1, <2>2
  <2> QED
    BY <2>3, <2>4, <2>5 DEF TypeOK
<1>6. OpenCalls
  BY <1>1 DEF OpenCalls, OpenOrdered, OpenFits, IdleRun, Between, Admitted
<1>7. Named
  BY DEF Named
<1> QED
  BY <1>5, <1>6, <1>7 DEF TInv

(* The type invariant by the groups of variables that steps leave alone.    *)
RecordsTyped ==
    /\ status \in [Jobs -> Statuses] /\ attempts \in [Jobs -> 0..MaxAttempts]
    /\ failure \in [Jobs -> Failures]
AccessTyped == leases \subseteq Jobs /\ sessions \subseteq Sessions
RunsTyped == run \in [Jobs -> Runs]
WorkersTyped ==
    /\ handler \subseteq Jobs /\ exited \subseteq Jobs
    /\ worker \in [Jobs -> 0..MaxAttempts]
    /\ box \in [Jobs -> Outcomes \cup {NoResult, Raised, Conflict}]
    /\ obs \in [Jobs -> {"off", "watching", "dead", "notify", "done"}]
ProxyTyped ==
    /\ req \in [Requests -> ProxyRequests] /\ serving \in BOOLEAN
    /\ rejected \in [Jobs -> Rejections] /\ upstream \in [Jobs -> 0..MaxAttempts]
MiscTyped ==
    /\ clock \in 0..MaxClock /\ crashes \in 0..MaxCrashes
    /\ command \in [Jobs -> Commands] /\ cut \subseteq Jobs \X (1..MaxAttempts)

LEMMA TypedParts ==
  ASSUME RecordsTyped', AccessTyped', RunsTyped', WorkersTyped', ProxyTyped', MiscTyped'
  PROVE  TypeOK'
  BY DEF TypeOK, RecordsTyped, AccessTyped, RunsTyped, WorkersTyped, ProxyTyped, MiscTyped

LEMMA TypedFrame ==
  ASSUME TypeOK
  PROVE  /\ UNCHANGED recordVars => RecordsTyped'
         /\ UNCHANGED accessVars => AccessTyped'
         /\ UNCHANGED run => RunsTyped'
         /\ UNCHANGED workerVars => WorkersTyped'
         /\ UNCHANGED proxyVars => ProxyTyped'
         /\ UNCHANGED miscVars => MiscTyped'
  BY DEF TypeOK, RecordsTyped, AccessTyped, RunsTyped, WorkersTyped, ProxyTyped, MiscTyped,
         recordVars, accessVars, workerVars, proxyVars, miscVars

(* A run that only goes to another point stays typed.                       *)
LEMMA GoTyped ==
  ASSUME TypeOK, NEW j \in Jobs, NEW pc \in RunPcs, Go(j, pc)
  PROVE  RunsTyped'
  BY DEF TypeOK, Go, RunsTyped, Runs

LEMMA RunTyped ==
  ASSUME TypeOK, NEW j \in Jobs, NEW rec \in Runs, run' = [run EXCEPT ![j] = rec]
  PROVE  RunsTyped'
  BY DEF TypeOK, RunsTyped

LEMMA SetStatusTyped ==
  ASSUME TypeOK, NEW j \in Jobs, NEW s \in Statuses, SetStatus(j, s), UNCHANGED <<attempts, failure>>
  PROVE  RecordsTyped'
  BY DEF TypeOK, SetStatus, RecordsTyped

(* Every step of a run keeps the types.                                     *)
LEMMA RunStepTyped ==
  ASSUME TInv, NEW j \in Jobs, TakeRun(j) \/ RunStep(j) PROVE TypeOK'
<1> USE BoundsAssumption, ProxiesAssumption
<1>0. TypeOK /\ OpenCalls /\ Named
  BY DEF TInv
<1>i. IdleRun \in Runs
  BY EmptySeq DEF IdleRun, Runs, Calls, RunPcs, Statuses, NoFailure, Failures, Codes
<1>j. run[j] \in Runs /\ run[j].open \in Calls /\ attempts[j] \in 0..MaxAttempts
  BY <1>0 DEF TypeOK, Runs
<1>1. ASSUME TakeRun(j) \/ Load(j) \/ FailRead(j) \/ LeaseBusy(j) PROVE TypeOK'
  <2>1. PICK pc \in RunPcs : Go(j, pc)
    BY <1>1 DEF TakeRun, Load, FailRead, LeaseBusy, Back, AfterFailure, RunPcs
  <2> QED
    BY <1>0, <1>1, <2>1, GoTyped, TypedParts, TypedFrame
       DEF TakeRun, Load, FailRead, LeaseBusy
<1>2. ASSUME BudgetSpent(j) \/ Breaks(j) PROVE TypeOK'
  <2>1. PICK pc \in RunPcs : Go(j, pc)
    BY <1>2 DEF BudgetSpent, Breaks, Back, RunPcs
  <2>2. RecordsTyped'
    BY <1>0, <1>2, SetStatusTyped DEF BudgetSpent, Breaks, Statuses
  <2> QED
    BY <1>0, <1>2, <2>1, <2>2, GoTyped, TypedParts, TypedFrame DEF BudgetSpent, Breaks
<1>3. ASSUME TakeLease(j) PROVE TypeOK'
  <2>1. Append(run[j].open, 0) \in Calls
    BY <1>j, AppendLast DEF Calls
  <2>2. RunsTyped'
    <3>1. [run[j] EXCEPT !.pc = "prepared", !.open = Append(run[j].open, 0)] \in Runs
      BY <1>j, <2>1 DEF Runs, RunPcs
    <3> QED
      BY <1>0, <1>3, <3>1, RunTyped DEF TakeLease
  <2>3. AccessTyped'
    BY <1>0, <1>3 DEF TakeLease, TypeOK, AccessTyped
  <2>4. MiscTyped'
    <3> DEFINE c == [command[j] EXCEPT !.again = @ \/ command[j].pc \in {"released", "done"}]
    <3>1. command \in [Jobs -> Commands] /\ command[j] \in Commands
      BY <1>0 DEF TypeOK
    <3>2. c \in Commands
      BY <3>1 DEF Commands
    <3>3. command' = [command EXCEPT ![j] = c]
      BY <1>3, <3>1 DEF TakeLease, TakenAgain
    <3> HIDE DEF c
    <3> QED  BY <1>0, <1>3, <3>1, <3>2, <3>3 DEF TakeLease, TypeOK, MiscTyped
  <2> QED
    BY <1>0, <1>3, <2>2, <2>3, <2>4, TypedParts, TypedFrame DEF TakeLease
<1>4. ASSUME Admit(j) PROVE TypeOK'
  <2>1. run[j].open # << >> /\ attempts[j] + 1 \in 1..MaxAttempts
    BY <1>0, <1>4, <1>j DEF Admit, At, OpenCalls, OpenFits, Between
  <2>2. Front(run[j].open) \in Calls
    BY <1>j, <2>1, FrontProperties DEF Calls
  <2>3. Append(Front(run[j].open), attempts[j] + 1) \in Calls
    BY <2>1, <2>2, AppendLast DEF Calls
  <2>4. clock + Lifetime \in Nat
    BY <1>0 DEF TypeOK
  <2>5. RunsTyped'
    <3>1. [run[j] EXCEPT !.pc = "admitted", !.deadline = clock + Lifetime,
                         !.open = Append(Front(run[j].open), attempts[j] + 1)] \in Runs
      BY <1>j, <2>3, <2>4 DEF Runs, RunPcs
    <3> QED
      BY <1>0, <1>4, <3>1, RunTyped DEF Admit
  <2>6. RecordsTyped'
    BY <1>0, <1>4, <2>1 DEF Admit, SetStatus, TypeOK, RecordsTyped, Statuses
  <2> QED
    BY <1>0, <1>4, <2>5, <2>6, TypedParts, TypedFrame DEF Admit
<1>5. ASSUME IssueSession(j) PROVE TypeOK'
  <2>1. attempts[j] \in 1..MaxAttempts
    BY <1>0, <1>5, <1>j DEF IssueSession, At, OpenCalls, OpenFits, Admitted
  <2>2. SessionsFor(j) \subseteq Sessions
    BY <1>j, <2>1 DEF SessionsFor, NewSession, Sessions, Runs
  <2>3. AccessTyped'
    BY <1>0, <1>5, <2>2 DEF IssueSession, TypeOK, AccessTyped
  <2>4. "issued" \in RunPcs
    BY DEF RunPcs
  <2> QED
    BY <1>0, <1>5, <2>3, <2>4, GoTyped, TypedParts, TypedFrame DEF IssueSession
<1>6. ASSUME Launch(j) \/ LeaveLoop(j) \/ StopWorker(j) PROVE TypeOK'
  <2>1. PICK pc \in RunPcs : Go(j, pc)
    BY <1>6 DEF Launch, LeaveLoop, StopWorker, RunPcs
  <2>2. WorkersTyped'
    <3>1. CASE Launch(j)
      BY <1>0, <3>1 DEF Launch, TypeOK, WorkersTyped
    <3>2. CASE LeaveLoop(j)
      BY <1>0, <3>2 DEF LeaveLoop, TypeOK, WorkersTyped
    <3>3. CASE StopWorker(j)
      BY <1>0, <3>3 DEF StopWorker, TypeOK, WorkersTyped
    <3> QED
      BY <1>6, <3>1, <3>2, <3>3
  <2> QED
    BY <1>0, <1>6, <2>1, <2>2, GoTyped, TypedParts, TypedFrame DEF Launch, LeaveLoop, StopWorker
<1>7. ASSUME SeeExit(j) PROVE TypeOK'
  <2>1. Classify(j, NoResult) \in Failures
    BY <1>0, ClassifyType
  <2>2. RunsTyped'
    <3>1. [run[j] EXCEPT !.pc = "fail_read", !.why = "exit", !.cause = Classify(j, NoResult)] \in Runs
      BY <1>j, <2>1 DEF Runs, RunPcs
    <3> QED
      BY <1>0, <1>7, <3>1, RunTyped DEF SeeExit
  <2> QED
    BY <1>0, <1>7, <2>2, TypedParts, TypedFrame DEF SeeExit
<1>8. ASSUME ReadOutcome(j) PROVE TypeOK'
  <2>1. NoFailure \in Failures /\ Classify(j, box[j]) \in Failures
    BY <1>0, ClassifyType DEF NoFailure, Failures, Codes
  <2>2. PICK pc \in RunPcs, why \in {"seen", "end"}, cause \in Failures :
           run' = [run EXCEPT ![j] = [@ EXCEPT !.pc = pc, !.why = why, !.cause = cause]]
    <3> DEFINE pc == CASE status[j] \in {"accepted", "rejected"} -> "releasing"
                       [] status[j] = "repair" ->
                            IF attempts[j] < MaxAttempts THEN "loading" ELSE "bound"
                       [] status[j] = "failed" -> "evidence_read"
                       [] OTHER                -> "fail_read"
               why == IF status[j] = "failed" THEN "seen" ELSE "end"
               cause == IF status[j] \in {"pending", "running", "submitted"}
                          THEN Classify(j, box[j]) ELSE NoFailure
    <3>1. pc \in RunPcs
      BY DEF RunPcs
    <3>2. why \in {"seen", "end"} /\ cause \in Failures
      BY <2>1
    <3>3. run' = [run EXCEPT ![j] = [@ EXCEPT !.pc = pc, !.why = why, !.cause = cause]]
      BY <1>8 DEF ReadOutcome
    <3> HIDE DEF pc, why, cause
    <3> QED  BY <3>1, <3>2, <3>3
  <2>3. RunsTyped'
    <3>1. [run[j] EXCEPT !.pc = pc, !.why = why, !.cause = cause] \in Runs
      BY <1>j DEF Runs
    <3> QED
      BY <1>0, <2>2, <3>1, RunTyped
  <2> QED
    BY <1>0, <1>8, <2>3, TypedParts, TypedFrame DEF ReadOutcome
<1>9. ASSUME FailWrite(j) PROVE TypeOK'
  <2>1. NoFailure \in Failures /\ run[j].cause \in Failures
    BY <1>j DEF NoFailure, Failures, Codes, Runs
  <2>2. PICK pc \in RunPcs : run' = [run EXCEPT ![j] = [@ EXCEPT !.pc = pc, !.cause = NoFailure]]
    BY <1>9 DEF FailWrite, RunPcs
  <2>3. RunsTyped'
    <3>1. [run[j] EXCEPT !.pc = pc, !.cause = NoFailure] \in Runs
      BY <1>j, <2>1 DEF Runs
    <3> QED
      BY <1>0, <2>2, <3>1, RunTyped
  <2>4. RecordsTyped'
    BY <1>0, <1>9, <2>1 DEF FailWrite, SetStatus, TypeOK, RecordsTyped, Statuses
  <2> QED
    BY <1>0, <1>9, <2>3, <2>4, TypedParts, TypedFrame DEF FailWrite
<1>10. ASSUME ReadForEvidence(j) PROVE TypeOK'
  <2>1. RunsTyped'
    <3>1. [run[j] EXCEPT !.pc = "evidence_write", !.saw = status[j]] \in Runs
      BY <1>0, <1>j DEF TypeOK, Runs, RunPcs
    <3> QED
      BY <1>0, <1>10, <3>1, RunTyped DEF ReadForEvidence
  <2> QED
    BY <1>0, <1>10, <2>1, TypedParts, TypedFrame DEF ReadForEvidence
<1>11. ASSUME WriteEvidence(j) PROVE TypeOK'
  <2>1. PICK pc \in RunPcs : run' = [run EXCEPT ![j] = [@ EXCEPT !.pc = pc, !.saw = "pending"]]
    BY <1>11 DEF WriteEvidence, AfterFailure, RunPcs
  <2>2. RunsTyped'
    <3>1. [run[j] EXCEPT !.pc = pc, !.saw = "pending"] \in Runs
      BY <1>j DEF Runs, Statuses
    <3> QED
      BY <1>0, <2>1, <3>1, RunTyped
  <2>3. run[j].saw \in Statuses
    BY <1>j DEF Runs
  <2>4. RecordsTyped'
    BY <1>0, <1>11, <2>3, SetStatusTyped DEF WriteEvidence
  <2>5. AccessTyped'
    BY <1>0, <1>11 DEF WriteEvidence, TypeOK, AccessTyped
  <2> QED
    BY <1>0, <1>11, <2>2, <2>4, <2>5, TypedParts, TypedFrame DEF WriteEvidence
<1>12. ASSUME ReleaseLease(j) PROVE TypeOK'
  <2>1. [IdleRun EXCEPT !.pc = "revoking", !.open = run[j].open] \in Runs
    BY <1>i, <1>j DEF Runs, RunPcs
  <2>2. RunsTyped'
    BY <1>0, <1>12, <2>1 DEF ReleaseLease, TypeOK, RunsTyped
  <2>3. AccessTyped'
    BY <1>0, <1>12 DEF ReleaseLease, TypeOK, AccessTyped
  <2>4. WorkersTyped'
    BY <1>0, <1>12 DEF ReleaseLease, TypeOK, WorkersTyped
  <2> QED
    BY <1>0, <1>12, <2>2, <2>3, <2>4, TypedParts, TypedFrame DEF ReleaseLease
<1>13. ASSUME Revoke(j) PROVE TypeOK'
  <2>1. run[j].open # << >>
    BY <1>0, <1>13 DEF Revoke, At, OpenCalls, OpenFits, Between
  <2>2. Front(run[j].open) \in Calls /\ Last(run[j].open) \in 0..MaxAttempts
    BY <1>j, <2>1, FrontProperties DEF Calls
  <2>3. [run[j] EXCEPT !.pc = "releasing", !.open = Front(run[j].open)] \in Runs
    BY <1>j, <2>2 DEF Runs, RunPcs
  <2>4. RunsTyped'
    <3>1. CASE Len(run[j].open) = 1
      BY <1>0, <1>13, <1>i, <3>1, RunTyped DEF Revoke
    <3>2. CASE Len(run[j].open) # 1
      BY <1>0, <1>13, <2>3, <3>2, RunTyped DEF Revoke
    <3> QED
      BY <3>1, <3>2
  <2>5. AccessTyped'
    BY <1>0, <1>13 DEF Revoke, WithoutAttempt, TypeOK, AccessTyped
  <2>6. MiscTyped'
    BY <1>0, <1>13, <2>2 DEF Revoke, TypeOK, MiscTyped
  <2> QED
    BY <1>0, <1>13, <2>4, <2>5, <2>6, TypedParts, TypedFrame DEF Revoke
<1> QED
  BY <1>1, <1>2, <1>3, <1>4, <1>5, <1>6, <1>7, <1>8, <1>9, <1>10, <1>11, <1>12, <1>13 DEF RunStep

(* Every step keeps the types.                                              *)
LEMMA NextTyped ==
  ASSUME TInv, [Next]_vars PROVE TypeOK'
<1> USE BoundsAssumption, ProxiesAssumption
<1>0. TypeOK /\ Named
  BY DEF TInv
<1>1. CASE UNCHANGED vars
  BY <1>0, <1>1, TypedFrame, TypedParts DEF vars
<1>2. ASSUME NEW j \in Jobs, WorkerReturns(j) \/ WorkerVanishes(j) \/ OrphanEnds(j) PROVE TypeOK'
  <2>1. WorkersTyped'
    <3>1. CASE WorkerReturns(j)
      BY <1>0, <3>1 DEF WorkerReturns, TypeOK, WorkersTyped
    <3>2. CASE WorkerVanishes(j)
      BY <1>0, <3>2 DEF WorkerVanishes, TypeOK, WorkersTyped
    <3>3. CASE OrphanEnds(j)
      BY <1>0, <3>3 DEF OrphanEnds, TypeOK, WorkersTyped
    <3> QED
      BY <1>2, <3>1, <3>2, <3>3
  <2> QED
    BY <1>0, <1>2, <2>1, TypedFrame, TypedParts DEF WorkerReturns, WorkerVanishes, OrphanEnds
<1>3. ASSUME NEW j \in Jobs, ObserverStep(j) PROVE TypeOK'
  <2>1. WorkersTyped'
    <3>1. CASE ObserverProbes(j)
      BY <1>0, <3>1 DEF ObserverProbes, TypeOK, WorkersTyped
    <3>2. CASE ObserverReads(j)
      BY <1>0, <3>2 DEF ObserverReads, TypeOK, WorkersTyped
    <3>3. CASE ObserverNotifies(j)
      BY <1>0, <3>3 DEF ObserverNotifies, TypeOK, WorkersTyped
    <3> QED
      BY <1>3, <3>1, <3>2, <3>3 DEF ObserverStep
  <2> QED
    BY <1>0, <1>3, <2>1, TypedFrame, TypedParts
       DEF ObserverStep, ObserverProbes, ObserverReads, ObserverNotifies
<1>4. ASSUME NEW j \in Jobs, Submit(j) \/ Verdict(j) PROVE TypeOK'
  <2>1. PICK s \in Statuses : SetStatus(j, s)
    BY <1>4 DEF Submit, Verdict, Statuses
  <2>2. RecordsTyped'
    BY <1>0, <1>4, <2>1, SetStatusTyped DEF Submit, Verdict
  <2>3. WorkersTyped'
    BY <1>0, <1>4 DEF Submit, Verdict, TypeOK, WorkersTyped
  <2> QED
    BY <1>0, <1>4, <2>2, <2>3, TypedFrame, TypedParts DEF Submit, Verdict
<1>5. ASSUME NEW j \in Jobs, Crash(j) PROVE TypeOK'
  <2>1. IdleRun \in Runs
    BY EmptySeq DEF IdleRun, Runs, Calls, RunPcs, Statuses, NoFailure, Failures, Codes
  <2>2. RunsTyped'
    BY <1>0, <1>5, <2>1, RunTyped DEF Crash
  <2>3. WorkersTyped'
    BY <1>0, <1>5 DEF Crash, TypeOK, WorkersTyped
  <2>4. MiscTyped'
    BY <1>0, <1>5 DEF Crash, TypeOK, MiscTyped
  <2> QED
    BY <1>0, <1>5, <2>2, <2>3, <2>4, TypedFrame, TypedParts DEF Crash
<1>6. ASSUME NEW j \in Jobs, CommandMarks(j) PROVE TypeOK'
  <2>1. RecordsTyped'
    BY <1>0, <1>6, SetStatusTyped DEF CommandMarks, Statuses
  <2>2. WorkersTyped'
    BY <1>0, <1>6 DEF CommandMarks, TypeOK, WorkersTyped
  <2>3. [command[j] EXCEPT !.pc = "marked", !.upto = attempts[j]] \in Commands
    <3>1. command[j] \in Commands /\ attempts[j] \in 0..MaxAttempts
      BY <1>0 DEF TypeOK
    <3> QED  BY ONLY <3>1 DEF Commands
  <2>4. MiscTyped'
    BY <1>0, <1>6, <2>3 DEF CommandMarks, TypeOK, MiscTyped
  <2> QED
    BY <1>0, <1>6, <2>1, <2>2, <2>4, TypedFrame, TypedParts DEF CommandMarks
<1>7. ASSUME NEW j \in Jobs, CommandReleases(j) \/ CommandRevokes(j) PROVE TypeOK'
  <2>1. AccessTyped'
    BY <1>0, <1>7 DEF CommandReleases, CommandRevokes, WithoutJob, TypeOK, AccessTyped
  <2>2. MiscTyped'
    <3>1. \A pc \in {"released", "done"} : [command[j] EXCEPT !.pc = pc] \in Commands
      BY <1>0 DEF TypeOK, Commands
    <3>2. PICK pc \in {"released", "done"} : command' = [command EXCEPT ![j].pc = pc]
      BY <1>7 DEF CommandReleases, CommandRevokes
    <3>3. command' \in [Jobs -> Commands]
      BY <1>0, <3>1, <3>2 DEF TypeOK
    <3> QED
      BY <1>0, <1>7, <3>3 DEF CommandReleases, CommandRevokes, TypeOK, MiscTyped
  <2> QED
    BY <1>0, <1>7, <2>1, <2>2, TypedFrame, TypedParts DEF CommandReleases, CommandRevokes
<1>8. ASSUME NEW j \in Jobs, NEW r \in Requests, NEW p \in Proxies, Arrive(r, j, p) PROVE TypeOK'
  <2>1. PICK s \in sessions :
         /\ s.job = j
         /\ \/ /\ sessions' = sessions \ {s}
               /\ LogRejection(j, "session_expired", s.attempt)
               /\ UNCHANGED req
            \/ /\ req' = [req EXCEPT ![r] =
                       [pc |-> "looked", job |-> j, attempt |-> s.attempt, proxy |-> p,
                        late |-> Late(j, s.attempt)]]
               /\ UNCHANGED <<sessions, rejected>>
    BY <1>8 DEF Arrive
  <2>2. s.attempt \in 0..MaxAttempts /\ Late(j, s.attempt) \in {"no", "ended", "commanded"}
    BY <1>0 DEF Late, TypeOK, Sessions
  <2>3. AccessTyped'
    BY <1>0, <1>8, <2>1 DEF Arrive, TypeOK, AccessTyped
  <2>4. [reason |-> "session_expired", attempt |-> s.attempt] \in Rejections
    BY <2>2 DEF Rejections, Reasons
  <2>5. rejected' \in [Jobs -> Rejections]
    BY <1>0, <2>1, <2>4 DEF LogRejection, TypeOK
  <2>6. [pc |-> "looked", job |-> j, attempt |-> s.attempt, proxy |-> p,
         late |-> Late(j, s.attempt)] \in ProxyRequests
    BY <2>2 DEF ProxyRequests
  <2>7. req' \in [Requests -> ProxyRequests]
    BY <1>0, <2>1, <2>6 DEF TypeOK
  <2>8. ProxyTyped'
    BY <1>0, <1>8, <2>5, <2>7 DEF Arrive, TypeOK, ProxyTyped
  <2> QED
    BY <1>0, <1>8, <2>3, <2>8, TypedFrame, TypedParts DEF Arrive
<1>9. ASSUME NEW r \in Requests, Refuse(r) \/ Forward(r) \/ Answer(r) PROVE TypeOK'
  <2>0. req[r] \in ProxyRequests
    BY <1>0 DEF TypeOK
  <2>1. PICK q \in ProxyRequests : req' = [req EXCEPT ![r] = q]
    <3>1. NoRequest(req[r].job) \in ProxyRequests
      BY <2>0 DEF NoRequest, ProxyRequests
    <3>2. [req[r] EXCEPT !.pc = "streaming"] \in ProxyRequests
      BY <2>0 DEF ProxyRequests
    <3> QED
      BY <1>9, <3>1, <3>2 DEF Refuse, Forward, Answer, Free
  <2>2. rejected' \in [Jobs -> Rejections]
    <3>1. CASE Refuse(r)
      <4>1. Refusal(req[r]) \in Reasons
        BY <3>1 DEF Refuse, Refusal, Reasons
      <4>2. [reason |-> Refusal(req[r]), attempt |-> req[r].attempt] \in Rejections
        BY <2>0, <4>1 DEF Rejections, ProxyRequests
      <4> QED
        BY <1>0, <3>1, <4>2 DEF Refuse, LogRejection, TypeOK
    <3> QED
      BY <1>0, <1>9, <3>1 DEF Forward, Answer, TypeOK
  <2>3. upstream' \in [Jobs -> 0..MaxAttempts]
    BY <1>0, <1>9, <2>0 DEF Refuse, Forward, Answer, TypeOK, ProxyRequests
  <2>4. ProxyTyped'
    BY <1>0, <1>9, <2>1, <2>2, <2>3 DEF Refuse, Forward, Answer, TypeOK, ProxyTyped
  <2> QED
    BY <1>0, <1>9, <2>4, TypedFrame, TypedParts DEF Refuse, Forward, Answer
<1>10. ASSUME ServeStarts PROVE TypeOK'
  <2>1. ProxyTyped'
    BY <1>0, <1>10 DEF ServeStarts, TypeOK, ProxyTyped
  <2> QED
    BY <1>0, <1>10, <2>1, TypedFrame, TypedParts DEF ServeStarts
<1>11. ASSUME Reclaim PROVE TypeOK'
  <2>1. AccessTyped'
    BY <1>0, <1>11 DEF Reclaim, TypeOK, AccessTyped
  <2> QED
    BY <1>0, <1>11, <2>1, TypedFrame, TypedParts DEF Reclaim
<1>12. ASSUME Tick PROVE TypeOK'
  <2>1. MiscTyped'
    BY <1>0, <1>12 DEF Tick, TypeOK, MiscTyped
  <2> QED
    BY <1>0, <1>12, <2>1, TypedFrame, TypedParts DEF Tick
<1> QED
  BY <1>1, <1>2, <1>3, <1>4, <1>5, <1>6, <1>7, <1>8, <1>9, <1>10, <1>11, <1>12, RunStepTyped DEF Next

-----------------------------------------------------------------------------
(* One more call, that has no attempt yet or a later one than the others.   *)
LEMMA AppendOrdered ==
  ASSUME NEW n \in Nat, NEW m \in Nat, n <= m, NEW s \in Seq(Nat), OpenOrdered(s, n),
         \A i \in 1..Len(s) : s[i] # 0,
         NEW e \in Nat, e = 0 \/ (e = m /\ n < m)
  PROVE  OpenOrdered(Append(s, e), m)
<1>1. PICK t \in Seq(Nat) : t = Append(s, e)
  BY AppendProperties
<1>2. /\ Len(t) = Len(s) + 1 /\ Len(s) \in Nat /\ t[Len(s) + 1] = e
      /\ \A i \in 1..Len(s) : t[i] = s[i] /\ s[i] \in Nat
  BY <1>1, AppendProperties, LenProperties, ElementOfSeq
<1>3. ASSUME NEW i \in 1..Len(t) PROVE t[i] <= m
  <2>1. CASE i \in 1..Len(s)
    <3>1. t[i] = s[i] /\ s[i] \in Nat /\ s[i] <= n
      BY <1>2, <2>1 DEF OpenOrdered
    <3> QED  BY <3>1
  <2>2. CASE i = Len(s) + 1
    BY <1>2, <2>2
  <2> QED  BY <1>2, <2>1, <2>2
<1>4. ASSUME NEW i \in 1..Len(t), NEW k \in 1..Len(t), i < k
      PROVE  t[i] # 0 /\ (t[k] = 0 \/ t[i] < t[k])
  <2>1. i \in 1..Len(s) /\ t[i] = s[i] /\ s[i] # 0 /\ s[i] \in Nat /\ s[i] <= n
    BY <1>2, <1>4 DEF OpenOrdered
  <2>2. CASE k \in 1..Len(s)
    BY <1>2, <1>4, <2>1, <2>2 DEF OpenOrdered
  <2>3. CASE k = Len(s) + 1
    BY <1>2, <2>1, <2>3
  <2> QED
    BY <1>2, <2>2, <2>3
<1> QED
  BY <1>1, <1>3, <1>4 DEF OpenOrdered

(* The innermost call has ended.                                            *)
LEMMA FrontOrdered ==
  ASSUME NEW n \in Nat, NEW s \in Seq(Nat), s # << >>, OpenOrdered(s, n)
  PROVE  /\ OpenOrdered(Front(s), n)
         /\ \A i \in 1..Len(Front(s)) : Front(s)[i] # 0
<1>1. PICK t \in Seq(Nat) : t = Front(s)
  BY FrontProperties
<1>2. /\ Len(s) \in Nat \ {0} /\ Len(t) = Len(s) - 1
      /\ \A i \in 1..Len(t) : t[i] = s[i] /\ i \in 1..Len(s) /\ i < Len(s)
  <2>1. /\ Len(s) \in Nat \ {0} /\ Len(t) = Len(s) - 1
        /\ \A i \in 1..Len(s) - 1 : t[i] = s[i]
    BY <1>1, FrontProperties
  <2> QED
    BY <2>1
<1>3. \A i \in 1..Len(t) : t[i] <= n /\ t[i] # 0
  BY <1>2 DEF OpenOrdered
<1>4. \A i, k \in 1..Len(t) : i < k => t[i] # 0 /\ (t[k] = 0 \/ t[i] < t[k])
  BY <1>2 DEF OpenOrdered
<1> QED
  BY <1>1, <1>3, <1>4 DEF OpenOrdered

(* The calls of a run that has gone to another point keep their order.      *)
LEMMA CallsUnmoved ==
  ASSUME TInv, NEW j \in Jobs, attempts' = attempts,
         \A i \in Jobs \ {j} : run'[i] = run[i],
         run'[j].open = run[j].open,
         OpenFits(run'[j].pc, run[j].open, attempts[j])
  PROVE  OpenCalls'
<1>1. ASSUME NEW i \in Jobs
      PROVE  OpenOrdered(run'[i].open, attempts'[i]) /\ OpenFits(run'[i].pc, run'[i].open, attempts'[i])
  BY DEF TInv, OpenCalls
<1> QED
  BY <1>1 DEF OpenCalls

(* Every step of a run keeps its calls nested: a call is opened inside one   *)
(* that has admitted its attempt, and the innermost one ends first.         *)
LEMMA RunStepNests ==
  ASSUME TInv, NEW j \in Jobs, TakeRun(j) \/ RunStep(j) PROVE OpenCalls'
<1> USE BoundsAssumption
<1>0. TypeOK /\ OpenCalls
  BY DEF TInv
<1>j. /\ run[j] \in Runs /\ run[j].open \in Seq(0..MaxAttempts) /\ attempts[j] \in 0..MaxAttempts
      /\ run \in [Jobs -> Runs] /\ Len(run[j].open) \in Nat
  BY <1>0, LenProperties DEF TypeOK, Runs, Calls
<1>o. OpenOrdered(run[j].open, attempts[j]) /\ OpenFits(run[j].pc, run[j].open, attempts[j])
  BY <1>0 DEF OpenCalls
<1>n. run[j].open \in Seq(Nat) /\ attempts[j] \in Nat /\ Len(run[j].open) \in Nat
  BY <1>j, SeqMonotonic
<1>1. ASSUME NEW pc, Go(j, pc), UNCHANGED attempts, OpenFits(pc, run[j].open, attempts[j])
      PROVE  OpenCalls'
  BY <1>1, <1>j, CallsUnmoved DEF Go, Runs
<1>2. ASSUME TakeRun(j) \/ Load(j) \/ LeaseBusy(j) \/ BudgetSpent(j) PROVE OpenCalls'
  <2>1. Back(j) \in {"idle", "releasing"} /\ OpenFits(Back(j), run[j].open, attempts[j])
    BY DEF Back, OpenFits, Between, Admitted
  <2>2. run[j].pc \in Between => OpenFits("leasing", run[j].open, attempts[j])
                                 /\ OpenFits("loading", run[j].open, attempts[j])
    BY <1>o DEF OpenFits, Between, Admitted
  <2> QED
    BY <1>1, <1>2, <2>1, <2>2
       DEF TakeRun, Load, LeaseBusy, BudgetSpent, At, Between, recordVars

<1>3. ASSUME run[j].pc \in Admitted, UNCHANGED attempts, \A i \in Jobs \ {j} : run'[i] = run[i],
             run'[j].open = run[j].open,
             run'[j].pc \in Admitted \cup {"releasing", "loading"}
      PROVE  OpenCalls'
  <2>1. OpenFits(run'[j].pc, run[j].open, attempts[j])
    <3>1. run[j].open # << >> /\ attempts[j] # 0 /\ Last(run[j].open) = attempts[j]
      BY <1>3, <1>o DEF OpenFits, Admitted, Between
    <3>2. \A i \in 1..Len(run[j].open) : run[j].open[i] # 0
      BY <1>o, <1>j, <3>1 DEF OpenOrdered, Last
    <3> QED
      BY <1>3, <3>1, <3>2 DEF OpenFits, Admitted, Between
  <2> QED
    BY <1>3, <2>1, CallsUnmoved
<1>4. ASSUME IssueSession(j) \/ Launch(j) \/ LeaveLoop(j) \/ FailRead(j) \/ StopWorker(j)
      PROVE  OpenCalls'
  <2>1. PICK pc \in Admitted \cup {"releasing"} : Go(j, pc)
    BY <1>4 DEF IssueSession, Launch, LeaveLoop, FailRead, StopWorker, AfterFailure, Admitted
  <2>2. run[j].pc \in Admitted /\ UNCHANGED attempts
    BY <1>4 DEF IssueSession, Launch, LeaveLoop, FailRead, StopWorker, At, Admitted, recordVars
  <2>3. run'[j].open = run[j].open /\ run'[j].pc = pc /\ \A i \in Jobs \ {j} : run'[i] = run[i]
    BY <2>1, <1>j DEF Go, Runs
  <2> QED
    BY <1>3, <2>1, <2>2, <2>3
<1>5. ASSUME SeeExit(j) \/ ReadOutcome(j) \/ FailWrite(j) \/ ReadForEvidence(j) \/ WriteEvidence(j)
      PROVE  OpenCalls'
  <2>1. run[j].pc \in Admitted /\ UNCHANGED attempts
    BY <1>5 DEF SeeExit, ReadOutcome, FailWrite, ReadForEvidence, WriteEvidence, At, Admitted, recordVars
  <2>2. /\ run'[j].open = run[j].open /\ \A i \in Jobs \ {j} : run'[i] = run[i]
        /\ run'[j].pc \in Admitted \cup {"releasing", "loading"}
    <3>1. CASE SeeExit(j)
      BY <3>1, <1>j DEF SeeExit, Runs, Admitted
    <3>2. CASE ReadOutcome(j)
      BY <3>2, <1>j DEF ReadOutcome, Runs, Admitted
    <3>3. CASE FailWrite(j)
      BY <3>3, <1>j DEF FailWrite, Runs, Admitted
    <3>4. CASE ReadForEvidence(j)
      BY <3>4, <1>j DEF ReadForEvidence, Runs, Admitted
    <3>5. CASE WriteEvidence(j)
      BY <3>5, <1>j DEF WriteEvidence, AfterFailure, Runs, Admitted
    <3> QED
      BY <1>5, <3>1, <3>2, <3>3, <3>4, <3>5
  <2> QED
    BY <1>3, <2>1, <2>2
<1>6. ASSUME Breaks(j) \/ ReleaseLease(j) PROVE OpenCalls'
  <2>1. /\ run'[j].open = run[j].open /\ \A i \in Jobs \ {j} : run'[i] = run[i]
        /\ run'[j].pc \in {"releasing", "revoking"} /\ UNCHANGED attempts
        /\ run[j].pc \notin Between
    <3>1. CASE Breaks(j)
      BY <3>1, <1>j DEF Breaks, Go, Runs, Between
    <3>2. CASE ReleaseLease(j)
      <4> DEFINE r == [IdleRun EXCEPT !.pc = "revoking", !.open = run[j].open]
      <4>1. r.pc = "revoking" /\ r.open = run[j].open
        BY DEF IdleRun
      <4>2. run' = [run EXCEPT ![j] = r]
        BY <3>2 DEF ReleaseLease
      <4> HIDE DEF r
      <4>3. run'[j] = r /\ \A i \in Jobs \ {j} : run'[i] = run[i]
        BY <1>j, <4>2
      <4> QED  BY <3>2, <4>1, <4>3 DEF ReleaseLease, At, Between, recordVars
    <3> QED  BY <1>6, <3>1, <3>2
  <2>2. OpenFits(run'[j].pc, run[j].open, attempts[j])
    BY <1>o, <2>1 DEF OpenFits, Between, Admitted
  <2> QED
    BY <2>1, <2>2, CallsUnmoved
<1>7. ASSUME attempts[j] <= attempts'[j], \A i \in Jobs \ {j} : run'[i] = run[i] /\ attempts'[i] = attempts[i],
             OpenOrdered(run'[j].open, attempts'[j]), OpenFits(run'[j].pc, run'[j].open, attempts'[j])
      PROVE  OpenCalls'
  BY <1>0, <1>7 DEF OpenCalls
<1>8. ASSUME TakeLease(j) PROVE OpenCalls'
  <2> DEFINE open == run[j].open
             longer == Append(open, 0)
  <2>1. /\ run'[j].open = longer /\ run'[j].pc = "prepared" /\ attempts[j] < MaxAttempts
        /\ run[j].pc = "leasing" /\ attempts' = attempts /\ \A i \in Jobs \ {j} : run'[i] = run[i]
    BY <1>8, <1>j DEF TakeLease, At, Runs, recordVars
  <2>2. /\ longer \in Seq(Nat)
        /\ longer # << >> /\ Len(longer) = Len(open) + 1 /\ longer[Len(open) + 1] = 0
        /\ \A i \in 1..Len(open) : longer[i] = open[i]
    <3>1. open \in Seq(Nat) /\ 0 \in Nat
      BY <1>n
    <3> HIDE DEF open
    <3> QED  BY ONLY <3>1, AppendLast
  <2>3. \A i \in 1..Len(open) : open[i] # 0
    BY <1>o, <2>1 DEF OpenFits, Between
  <2>4. OpenOrdered(longer, attempts[j])
    BY <1>o, <1>n, <2>3, AppendOrdered
  <2>5. OpenFits("prepared", longer, attempts[j])
    BY <2>1, <2>2 DEF OpenFits, Between, Admitted, Last
  <2> QED
    BY <1>7, <1>j, <2>1, <2>4, <2>5
<1>9. ASSUME Admit(j) PROVE OpenCalls'
  <2> DEFINE open == run[j].open
             n == attempts[j] + 1
             next == Append(Front(open), n)
  <2>1. /\ run'[j].open = next /\ run'[j].pc = "admitted" /\ run[j].pc = "prepared"
        /\ attempts'[j] = n
        /\ \A i \in Jobs \ {j} : run'[i] = run[i] /\ attempts'[i] = attempts[i]
    BY <1>9, <1>j, <1>0 DEF Admit, At, Runs, TypeOK
  <2>2. open # << >> /\ attempts[j] < MaxAttempts
    BY <1>o, <2>1 DEF OpenFits, Between
  <2>3. /\ Front(open) \in Seq(0..MaxAttempts) /\ Len(Front(open)) = Len(open) - 1
        /\ \A i \in 1..Len(open) - 1 : Front(open)[i] = open[i]
        /\ Len(open) \in Nat \ {0}
    BY <1>j, <2>2, FrontProperties
  <2>4. n \in 0..MaxAttempts
    BY <1>j, <2>2
  <2>5. /\ next # << >> /\ Len(next) = Len(open) /\ next[Len(open)] = n
        /\ \A i \in 1..Len(open) - 1 : next[i] = open[i]
    BY <2>3, <2>4, AppendLast
  <2>6. OpenOrdered(next, n)
    <3>1. Front(open) \in Seq(Nat)
      BY <2>3, SeqMonotonic
    <3>2. OpenOrdered(Front(open), attempts[j]) /\ \A i \in 1..Len(Front(open)) : Front(open)[i] # 0
      BY <1>o, <1>n, <2>2, FrontOrdered
    <3> QED
      BY <1>n, <3>1, <3>2, AppendOrdered
  <2>7. OpenFits("admitted", next, n)
    BY <1>j, <2>5 DEF OpenFits, Between, Admitted, Last
  <2> QED
    BY <1>7, <1>j, <2>1, <2>6, <2>7
<1>10. ASSUME Revoke(j) PROVE OpenCalls'
  <2> DEFINE open == run[j].open
  <2>1. /\ run[j].pc = "revoking" /\ attempts' = attempts /\ \A i \in Jobs \ {j} : run'[i] = run[i]
    BY <1>10, <1>j DEF Revoke, At, recordVars
  <2>2. open # << >>
    BY <1>o, <2>1 DEF OpenFits, Between
  <2>3. /\ Front(open) \in Seq(0..MaxAttempts) /\ Len(Front(open)) = Len(open) - 1
        /\ \A i \in 1..Len(open) - 1 : Front(open)[i] = open[i]
        /\ Len(open) \in Nat \ {0}
    BY <1>j, <2>2, FrontProperties
  <2>4. CASE Len(open) = 1
    <3>1. run'[j].open = << >> /\ run'[j].pc = "idle"
      BY <1>10, <1>j, <2>4 DEF Revoke, IdleRun
    <3>2. OpenOrdered(<< >>, attempts[j]) /\ OpenFits("idle", << >>, attempts[j])
      BY EmptySeq DEF OpenOrdered, OpenFits, Between, Admitted
    <3> QED
      BY <1>7, <1>j, <2>1, <3>1, <3>2
  <2>5. CASE Len(open) # 1
    <3>1. run'[j].open = Front(open) /\ run'[j].pc = "releasing"
      BY <1>10, <1>j, <2>5 DEF Revoke, Runs
    <3>2. OpenOrdered(Front(open), attempts[j])
      BY <1>o, <1>n, <2>2, FrontOrdered
    <3>3. Front(open) # << >>
      <4>1. Len(Front(open)) # 0
        BY <2>3, <2>5
      <4> QED
        BY <4>1, EmptySeq
    <3>4. OpenFits("releasing", Front(open), attempts[j])
      BY <3>3 DEF OpenFits, Between, Admitted
    <3> QED
      BY <1>7, <1>j, <2>1, <3>1, <3>2, <3>4
  <2> QED
    BY <2>4, <2>5
<1> QED
  BY <1>2, <1>4, <1>5, <1>6, <1>8, <1>9, <1>10 DEF RunStep

(* The steps of the others leave the calls of the runs alone, and those of  *)
(* a crashed daemon are gone.                                               *)
LEMMA NextNests == TInv /\ [Next]_vars => OpenCalls'
<1> SUFFICES ASSUME TInv, [Next]_vars PROVE OpenCalls'
  OBVIOUS
<1>0. OpenCalls
  BY DEF TInv
<1>1. ASSUME UNCHANGED <<run, attempts>> PROVE OpenCalls'
  BY <1>0, <1>1 DEF OpenCalls
<1>2. CASE UNCHANGED vars
  BY <1>1, <1>2 DEF vars, recordVars
<1>3. ASSUME NEW j \in Jobs, Crash(j) PROVE OpenCalls'
  <2>1. OpenOrdered(<< >>, attempts[j]) /\ OpenFits("idle", << >>, attempts[j])
    BY EmptySeq DEF OpenOrdered, OpenFits, Between, Admitted
  <2>2. /\ run'[j].open = << >> /\ run'[j].pc = "idle" /\ attempts' = attempts
        /\ \A i \in Jobs \ {j} : run'[i] = run[i]
    BY <1>3 DEF Crash, IdleRun, recordVars, TInv, TypeOK
  <2> QED
    BY <1>0, <2>1, <2>2 DEF OpenCalls
<1>4. ASSUME NEW j \in Jobs,
             \/ WorkerReturns(j) \/ WorkerVanishes(j) \/ OrphanEnds(j) \/ ObserverStep(j)
             \/ Submit(j) \/ Verdict(j) \/ CommandMarks(j) \/ CommandReleases(j) \/ CommandRevokes(j)
             \/ \E r \in Requests, p \in Proxies : Arrive(r, j, p)
      PROVE  OpenCalls'
  BY <1>1, <1>4 DEF WorkerReturns, WorkerVanishes, OrphanEnds, ObserverStep, ObserverProbes,
     ObserverReads, ObserverNotifies, Submit, Verdict, CommandMarks, CommandReleases,
     CommandRevokes, Arrive, recordVars
<1>5. ASSUME NEW r \in Requests, Refuse(r) \/ Forward(r) \/ Answer(r) PROVE OpenCalls'
  BY <1>1, <1>5 DEF Refuse, Forward, Answer, recordVars
<1>6. ASSUME ServeStarts \/ Reclaim \/ Tick PROVE OpenCalls'
  BY <1>1, <1>6 DEF ServeStarts, Reclaim, Tick, recordVars
<1> QED
  BY <1>2, <1>3, <1>4, <1>5, <1>6, RunStepNests DEF Next

(* A rejection is logged with its reason.                                   *)
LEMMA NextNamed == TInv /\ [Next]_vars => Named'
<1> SUFFICES ASSUME TInv, [Next]_vars PROVE Named'
  OBVIOUS
<1>0. TypeOK /\ Named
  BY DEF TInv
<1>1. ASSUME UNCHANGED rejected PROVE Named'
  BY <1>0, <1>1 DEF Named
<1>2. ASSUME NEW j \in Jobs, NEW reason \in Reasons, NEW n, LogRejection(j, reason, n) PROVE Named'
  BY <1>0, <1>2 DEF LogRejection, Named, Reasons, TypeOK
<1>3. CASE UNCHANGED vars
  BY <1>1, <1>3 DEF vars, proxyVars
<1>4. ASSUME NEW j \in Jobs, TakeRun(j) \/ RunStep(j) PROVE Named'
  BY <1>1, <1>4 DEF TakeRun, RunStep, Load, BudgetSpent, LeaseBusy, TakeLease, Admit, IssueSession,
     Launch, SeeExit, LeaveLoop, ReadOutcome, FailRead, FailWrite, StopWorker, ReadForEvidence,
     WriteEvidence, Breaks, ReleaseLease, Revoke, proxyVars
<1>5. ASSUME NEW j \in Jobs,
             \/ WorkerReturns(j) \/ WorkerVanishes(j) \/ OrphanEnds(j) \/ ObserverStep(j)
             \/ Submit(j) \/ Verdict(j) \/ Crash(j)
             \/ CommandMarks(j) \/ CommandReleases(j) \/ CommandRevokes(j)
      PROVE  Named'
  BY <1>1, <1>5 DEF WorkerReturns, WorkerVanishes, OrphanEnds, ObserverStep, ObserverProbes,
     ObserverReads, ObserverNotifies, Submit, Verdict, Crash, CommandMarks, CommandReleases,
     CommandRevokes, proxyVars
<1>6. ASSUME NEW j \in Jobs, NEW r \in Requests, NEW p \in Proxies, Arrive(r, j, p) PROVE Named'
  <2>1. UNCHANGED rejected \/ \E n : LogRejection(j, "session_expired", n)
    BY <1>6 DEF Arrive
  <2> QED
    BY <1>1, <1>2, <2>1 DEF Reasons
<1>7. ASSUME NEW r \in Requests, Refuse(r) PROVE Named'
  <2>1. req[r].job \in Jobs /\ Refusal(req[r]) \in Reasons
    BY <1>0, <1>7 DEF TypeOK, ProxyRequests, Refuse, Refusal, Reasons
  <2> QED
    BY <1>2, <1>7, <2>1 DEF Refuse
<1>8. ASSUME NEW r \in Requests, Forward(r) \/ Answer(r) PROVE Named'
  BY <1>1, <1>8 DEF Forward, Answer
<1>9. ASSUME ServeStarts \/ Reclaim \/ Tick PROVE Named'
  BY <1>1, <1>9 DEF ServeStarts, Reclaim, Tick, proxyVars
<1> QED
  BY <1>3, <1>4, <1>5, <1>6, <1>7, <1>8, <1>9 DEF Next

(* TypeOK holds of every execution: a worker's run, its observer, the proxy  *)
(* and the commands keep the records in their shapes, whatever the order.   *)
THEOREM Typed == Spec => []TypeOK
<1>1. TInv /\ [Next]_vars => TInv'
  BY NextTyped, NextNests, NextNamed DEF TInv
<1>2. TInv => TypeOK
  BY DEF TInv
<1> QED
  BY <1>1, <1>2, InitTyped, PTL DEF Spec

-----------------------------------------------------------------------------
(* An attempt whose run has ended was admitted, and no open call has it.    *)
EndedAttempts ==
    /\ \A c \in cut : c[2] <= attempts[c[1]]
    /\ \A j \in Jobs : \A i \in 1..Len(run[j].open) : <<j, run[j].open[i]>> \notin cut

(* No session is left of an attempt that its run has ended.                 *)
SessionsOfOpen == \A s \in sessions :
    s.attempt <= attempts[s.job] /\ <<s.job, s.attempt>> \notin cut

(* A command takes the lease with it.                                       *)
TakenAgainOnly == \A j \in Jobs :
    command[j].pc \in {"released", "done"} /\ j \in leases => command[j].again

(* A request that is late came after a command, and is forwarded only if a   *)
(* run has taken the lease since.                                           *)
LateOnly == \A r \in Requests :
    /\ req[r].late # "ended"
    /\ req[r].late = "commanded" => command[req[r].job].pc = "done"
    /\ req[r].pc = "streaming" /\ req[r].late = "commanded" => command[req[r].job].again

CutInv == EndedAttempts /\ SessionsOfOpen /\ TakenAgainOnly /\ LateOnly

(* Who writes what: the attempts, the open calls, the sessions, the leases,  *)
(* the commands and the requests have each a few writers.                   *)
Writers ==
    /\ UNCHANGED attempts \/ \E j \in Jobs : Admit(j)
    /\ \/ \A j \in Jobs : run'[j].open = run[j].open
       \/ \E j \in Jobs : TakeLease(j) \/ Admit(j) \/ Revoke(j) \/ Crash(j)
    /\ UNCHANGED cut \/ \E j \in Jobs : Revoke(j)
    /\ \/ sessions' \subseteq sessions
       \/ \E j \in Jobs : IssueSession(j)
    /\ \/ leases' \subseteq leases
       \/ \E j \in Jobs : TakeLease(j)
    /\ \/ UNCHANGED command
       \/ \E j \in Jobs : TakeLease(j) \/ CommandMarks(j) \/ CommandReleases(j) \/ CommandRevokes(j)
    /\ \/ UNCHANGED req
       \/ \E r \in Requests, j \in Jobs, p \in Proxies : Arrive(r, j, p)
       \/ \E r \in Requests : Free(r) \/ Forward(r)

LEMMA NextWriters == TypeOK /\ [Next]_vars => Writers
<1> SUFFICES ASSUME TypeOK, [Next]_vars PROVE Writers
  OBVIOUS
<1>t. run \in [Jobs -> Runs]
  BY DEF TypeOK
<1> USE DEF Writers, recordVars, accessVars, workerVars, proxyVars, miscVars
<1>1. CASE UNCHANGED vars
  BY <1>1 DEF vars
<1>2. ASSUME NEW j \in Jobs, NEW pc, Go(j, pc), UNCHANGED <<attempts, cut, command, req>>,
             sessions' \subseteq sessions \/ IssueSession(j), UNCHANGED leases
      PROVE  Writers
  BY <1>2, <1>t DEF Go, Runs
<1>3. ASSUME NEW j \in Jobs, TakeRun(j) \/ Load(j) \/ BudgetSpent(j) \/ LeaseBusy(j) \/ Breaks(j)
             \/ IssueSession(j)
      PROVE  Writers
  BY <1>2, <1>3 DEF TakeRun, Load, BudgetSpent, LeaseBusy, Breaks, IssueSession
<1>4. ASSUME NEW j \in Jobs, Launch(j) \/ LeaveLoop(j) \/ FailRead(j) \/ StopWorker(j) PROVE Writers
  BY <1>2, <1>4 DEF Launch, LeaveLoop, FailRead, StopWorker
<1>5. ASSUME NEW j \in Jobs,
             SeeExit(j) \/ ReadOutcome(j) \/ FailWrite(j) \/ ReadForEvidence(j) \/ WriteEvidence(j)
             \/ ReleaseLease(j)
      PROVE  Writers
  <2>1. /\ UNCHANGED <<attempts, cut, command, req, sessions>> /\ leases' \subseteq leases
    BY <1>5 DEF SeeExit, ReadOutcome, FailWrite, ReadForEvidence, WriteEvidence, ReleaseLease
  <2>2. \A i \in Jobs : run'[i].open = run[i].open
    <3>1. CASE SeeExit(j)
      BY <3>1, <1>t DEF SeeExit, Runs
    <3>2. CASE ReadOutcome(j)
      BY <3>2, <1>t DEF ReadOutcome, Runs
    <3>3. CASE FailWrite(j)
      BY <3>3, <1>t DEF FailWrite, Runs
    <3>4. CASE ReadForEvidence(j)
      BY <3>4, <1>t DEF ReadForEvidence, Runs
    <3>5. CASE WriteEvidence(j)
      BY <3>5, <1>t DEF WriteEvidence, Runs
    <3>6. CASE ReleaseLease(j)
      BY <3>6, <1>t DEF ReleaseLease, IdleRun, Runs
    <3> QED
      BY <1>5, <3>1, <3>2, <3>3, <3>4, <3>5, <3>6
  <2> QED
    BY <2>1, <2>2
<1>6. ASSUME NEW j \in Jobs, TakeLease(j) PROVE Writers
  BY <1>6 DEF TakeLease
<1>7. ASSUME NEW j \in Jobs, Admit(j) PROVE Writers
  BY <1>7 DEF Admit
<1>8. ASSUME NEW j \in Jobs, Revoke(j) PROVE Writers
  BY <1>8 DEF Revoke, WithoutAttempt
<1>9. ASSUME NEW j \in Jobs, Crash(j) PROVE Writers
  BY <1>9 DEF Crash
<1>10. ASSUME NEW j \in Jobs,
              WorkerReturns(j) \/ WorkerVanishes(j) \/ OrphanEnds(j) \/ ObserverStep(j)
              \/ Submit(j) \/ Verdict(j)
       PROVE  Writers
  BY <1>10 DEF WorkerReturns, WorkerVanishes, OrphanEnds, ObserverStep, ObserverProbes,
     ObserverReads, ObserverNotifies, Submit, Verdict
<1>11. ASSUME NEW j \in Jobs, CommandMarks(j) PROVE Writers
  BY <1>11 DEF CommandMarks
<1>12. ASSUME NEW j \in Jobs, CommandReleases(j) PROVE Writers
  BY <1>12 DEF CommandReleases
<1>13. ASSUME NEW j \in Jobs, CommandRevokes(j) PROVE Writers
  BY <1>13 DEF CommandRevokes, WithoutJob
<1>14. ASSUME NEW r \in Requests, NEW j \in Jobs, NEW p \in Proxies, Arrive(r, j, p) PROVE Writers
  <2>1. sessions' \subseteq sessions /\ UNCHANGED <<recordVars, leases, run, miscVars>>
    BY <1>14 DEF Arrive
  <2> QED
    BY <1>14, <2>1
<1>15. ASSUME NEW r \in Requests, Refuse(r) \/ Forward(r) \/ Answer(r) PROVE Writers
  <2>1. UNCHANGED <<recordVars, accessVars, run, miscVars>>
    BY <1>15 DEF Refuse, Forward, Answer
  <2>2. Free(r) \/ Forward(r)
    BY <1>15 DEF Refuse, Answer
  <2> QED
    BY <2>1, <2>2
<1>16. ASSUME ServeStarts \/ Reclaim \/ Tick PROVE Writers
  BY <1>16 DEF ServeStarts, Reclaim, Tick
<1> QED
  BY <1>1, <1>3, <1>4, <1>5, <1>6, <1>7, <1>8, <1>9, <1>10, <1>11, <1>12, <1>13, <1>14, <1>15,
     <1>16 DEF Next, RunStep

(* Attempts are only added to an account.                                   *)
LEMMA AttemptsGrow ==
  ASSUME TypeOK, Writers
  PROVE  \A j \in Jobs : attempts[j] <= attempts'[j] /\ attempts'[j] \in Nat
<1>1. attempts \in [Jobs -> 0..MaxAttempts] /\ \A j \in Jobs : attempts[j] \in Nat
  BY BoundsAssumption DEF TypeOK
<1>2. CASE UNCHANGED attempts
  BY <1>1, <1>2
<1>3. ASSUME NEW j \in Jobs, Admit(j)
      PROVE  \A i \in Jobs : attempts[i] <= attempts'[i] /\ attempts'[i] \in Nat
  <2>1. attempts' = [attempts EXCEPT ![j] = attempts[j] + 1]
    BY <1>3 DEF Admit
  <2> QED
    BY <1>1, <2>1
<1> QED
  BY <1>2, <1>3 DEF Writers

(* A run ends its innermost attempt, which is in no other call and is never  *)
(* admitted again.                                                          *)
LEMMA EndedStays ==
  ASSUME TInv, EndedAttempts, Writers PROVE EndedAttempts'
<1> USE BoundsAssumption
<1>0. TypeOK /\ OpenCalls
  BY DEF TInv
<1>j. \A j \in Jobs : /\ run[j].open \in Seq(0..MaxAttempts) /\ run[j].open \in Seq(Nat)
                      /\ attempts[j] \in Nat
  BY <1>0, SeqMonotonic DEF TypeOK, Runs, Calls
<1>g. \A j \in Jobs : attempts[j] <= attempts'[j] /\ attempts'[j] \in Nat
  BY <1>0, AttemptsGrow
<1>c. \A c \in cut : c \in Jobs \X (1..MaxAttempts)
  BY <1>0 DEF TypeOK
<1>1. ASSUME UNCHANGED cut,
             \A j \in Jobs : \A i \in 1..Len(run'[j].open) : <<j, run'[j].open[i]>> \notin cut
      PROVE  EndedAttempts'
  <2>1. \A c \in cut : c[2] <= attempts[c[1]] /\ c[2] \in Nat /\ c[1] \in Jobs
    BY <1>c DEF EndedAttempts
  <2>2. \A c \in cut : c[2] <= attempts'[c[1]]
    BY <2>1, <1>g, <1>j
  <2> QED
    BY <1>1, <2>2 DEF EndedAttempts
<1>2. CASE \A j \in Jobs : run'[j].open = run[j].open
  <2>1. \A j \in Jobs : ~ Revoke(j)
    <3>1. ASSUME NEW j \in Jobs, Revoke(j) PROVE FALSE
      <4>1. run[j].open # << >> /\ run[j].pc = "revoking"
        BY <1>0, <3>1 DEF OpenCalls, OpenFits, Revoke, At, Between
      <4>2. Len(Front(run[j].open)) = Len(run[j].open) - 1 /\ Len(run[j].open) \in Nat \ {0}
        BY <4>1, <1>j, FrontProperties
      <4>3. run'[j].open = << >> \/ run'[j].open = Front(run[j].open)
        BY <1>0, <3>1 DEF Revoke, IdleRun, TypeOK, Runs
      <4>4. Len(<< >>) = 0
        BY EmptySeq
      <4> QED
        BY <1>2, <4>1, <4>2, <4>3, <4>4
    <3> QED
      BY <3>1
  <2>2. UNCHANGED cut
    BY <2>1 DEF Writers
  <2> QED
    BY <1>1, <1>2, <2>2 DEF EndedAttempts
<1>3. ASSUME NEW j \in Jobs, TakeLease(j) PROVE EndedAttempts'
  <2>1. /\ run'[j].open = Append(run[j].open, 0) /\ \A i \in Jobs \ {j} : run'[i] = run[i]
        /\ UNCHANGED cut
    BY <1>3, <1>0 DEF TakeLease, TypeOK, Runs
  <2>2. /\ Len(Append(run[j].open, 0)) = Len(run[j].open) + 1 /\ Len(run[j].open) \in Nat
        /\ \A i \in 1..Len(run[j].open) : Append(run[j].open, 0)[i] = run[j].open[i]
        /\ Append(run[j].open, 0)[Len(run[j].open) + 1] = 0
    BY <1>j, AppendLast
  <2>3. <<j, 0>> \notin cut
    BY <1>c
  <2>4. \A i \in 1..Len(run'[j].open) : <<j, run'[j].open[i]>> \notin cut
    BY <2>1, <2>2, <2>3 DEF EndedAttempts
  <2> QED
    BY <1>1, <2>1, <2>4 DEF EndedAttempts
<1>4. ASSUME NEW j \in Jobs, Admit(j) PROVE EndedAttempts'
  <2> DEFINE n == attempts[j] + 1
  <2>1. /\ run'[j].open = Append(Front(run[j].open), n) /\ \A i \in Jobs \ {j} : run'[i] = run[i]
        /\ UNCHANGED cut /\ run[j].open # << >>
    BY <1>4, <1>0 DEF Admit, At, OpenCalls, OpenFits, Between, miscVars, TypeOK, Runs
  <2>2. /\ Front(run[j].open) \in Seq(Nat)
        /\ Len(Front(run[j].open)) = Len(run[j].open) - 1
        /\ \A i \in 1..Len(run[j].open) - 1 : Front(run[j].open)[i] = run[j].open[i]
        /\ Len(run[j].open) \in Nat \ {0}
    BY <1>j, <2>1, FrontProperties
  <2>3. n \in Nat
    BY <1>j
  <2>4. /\ Len(run'[j].open) = Len(run[j].open) /\ run'[j].open[Len(run[j].open)] = n
        /\ \A i \in 1..Len(run[j].open) - 1 : run'[j].open[i] = run[j].open[i]
    BY <2>1, <2>2, <2>3, AppendLast
  <2>5. <<j, n>> \notin cut
    <3>1. ~ n <= attempts[j]
      BY <1>j
    <3> QED
      BY <3>1 DEF EndedAttempts
  <2>6. \A i \in 1..Len(run'[j].open) : <<j, run'[j].open[i]>> \notin cut
    <3>1. ASSUME NEW i \in 1..Len(run[j].open) - 1 PROVE <<j, run'[j].open[i]>> \notin cut
      BY <2>2, <2>4 DEF EndedAttempts
    <3>2. \A i \in 1..Len(run'[j].open) : i \in 1..Len(run[j].open) - 1 \/ i = Len(run[j].open)
      BY <2>2, <2>4
    <3> QED
      BY <2>4, <2>5, <3>1, <3>2
  <2> QED
    BY <1>1, <2>1, <2>6 DEF EndedAttempts
<1>5. ASSUME NEW j \in Jobs, Crash(j) PROVE EndedAttempts'
  <2>1. run'[j].open = << >> /\ (\A i \in Jobs \ {j} : run'[i] = run[i]) /\ UNCHANGED cut
    BY <1>5, <1>0 DEF Crash, IdleRun, TypeOK
  <2>2. \A i \in 1..Len(<< >>) : FALSE
    BY EmptySeq
  <2> QED
    BY <1>1, <2>1, <2>2 DEF EndedAttempts
<1>6. ASSUME NEW j \in Jobs, Revoke(j) PROVE EndedAttempts'
  <2> DEFINE open == run[j].open
             n == Last(open)
  <2>1. /\ open # << >> /\ attempts' = attempts /\ \A i \in Jobs \ {j} : run'[i] = run[i]
        /\ cut' = IF n = 0 THEN cut ELSE cut \cup {<<j, n>>}
    BY <1>6, <1>0 DEF Revoke, At, OpenCalls, OpenFits, Between, recordVars, TypeOK
  <2>2. /\ Len(Front(open)) = Len(open) - 1
        /\ \A i \in 1..Len(open) - 1 : Front(open)[i] = open[i]
        /\ Len(open) \in Nat \ {0} /\ n = open[Len(open)] /\ n \in Nat
    BY <1>j, <2>1, FrontProperties
  <2>3. run'[j].open = << >> \/ run'[j].open = Front(open)
    BY <1>6, <1>0 DEF Revoke, IdleRun, TypeOK, Runs
  <2>4. \A i \in 1..Len(run'[j].open) : i \in 1..Len(open) - 1 /\ run'[j].open[i] = open[i]
    BY <2>2, <2>3, EmptySeq
  <2>5. \A i \in 1..Len(open) - 1 : n # 0 => open[i] # n
    <3>1. OpenOrdered(open, attempts[j])
      BY <1>0 DEF OpenCalls
    <3>2. ASSUME NEW i \in 1..Len(open) - 1, n # 0 PROVE open[i] # n
      <4>1. i \in 1..Len(open) /\ Len(open) \in 1..Len(open) /\ i < Len(open)
        BY <2>2
      <4>2. open[i] < n /\ open[i] \in Nat
        BY <1>j, <2>2, <3>1, <3>2, <4>1, ElementOfSeq DEF OpenOrdered
      <4> QED
        BY <2>2, <4>2
    <3> QED
      BY <3>2
  <2>6. n <= attempts[j]
    <3>1. Len(open) \in 1..Len(open)
      BY <2>2
    <3> QED
      BY <1>0, <2>2, <3>1 DEF OpenCalls, OpenOrdered
  <2>7. \A c \in cut' : c[2] <= attempts'[c[1]]
    BY <2>1, <2>6 DEF EndedAttempts
  <2>8. ASSUME NEW i \in Jobs, NEW k \in 1..Len(run'[i].open)
        PROVE  <<i, run'[i].open[k]>> \notin cut'
    <3>1. CASE i = j
      <4>1. k \in 1..Len(open) - 1 /\ k \in 1..Len(open) /\ run'[j].open[k] = open[k]
        BY <2>2, <2>4, <2>8, <3>1
      <4> QED
        BY <2>1, <2>5, <3>1, <4>1 DEF EndedAttempts
    <3>2. CASE i # j
      BY <2>1, <2>8, <3>2 DEF EndedAttempts
    <3> QED
      BY <3>1, <3>2
  <2> QED
    BY <2>7, <2>8 DEF EndedAttempts
<1> QED
  BY <1>2, <1>3, <1>4, <1>5, <1>6 DEF Writers

(* A session is issued for the innermost attempt only, and the end of that   *)
(* attempt deletes it.                                                      *)
LEMMA SessionsStay ==
  ASSUME TInv, EndedAttempts, SessionsOfOpen, Writers PROVE SessionsOfOpen'
<1>0. TypeOK /\ OpenCalls
  BY DEF TInv
<1>s. \A s \in sessions : s.job \in Jobs /\ s.attempt \in Nat /\ s.attempt # 0
  BY <1>0 DEF TypeOK, Sessions
<1>a. \A j \in Jobs : attempts[j] \in Nat
  BY <1>0, BoundsAssumption DEF TypeOK
<1>g. \A s \in sessions : s.attempt <= attempts'[s.job]
  <2> SUFFICES ASSUME NEW s \in sessions PROVE s.attempt <= attempts'[s.job]
    OBVIOUS
  <2>1. s.attempt <= attempts[s.job] /\ s.job \in Jobs
    BY <1>s DEF SessionsOfOpen
  <2>2. \A j \in Jobs : attempts[j] <= attempts'[j] /\ attempts'[j] \in Nat
    BY <1>0, AttemptsGrow
  <2> QED
    BY <1>s, <1>a, <2>1, <2>2
<1>1. ASSUME UNCHANGED cut, sessions' \subseteq sessions PROVE SessionsOfOpen'
  BY <1>1, <1>g DEF SessionsOfOpen
<1>2. ASSUME NEW j \in Jobs, IssueSession(j) PROVE SessionsOfOpen'
  <2>1. /\ UNCHANGED <<cut, attempts>> /\ run[j].pc = "admitted"
        /\ sessions' \subseteq sessions \cup {NewSession(j)}
    BY <1>2 DEF IssueSession, SessionsFor, At, recordVars, miscVars
  <2>2. NewSession(j).job = j /\ NewSession(j).attempt = attempts[j]
    BY DEF NewSession
  <2>3. run[j].open # << >> /\ run[j].open[Len(run[j].open)] = attempts[j]
    BY <1>0, <2>1 DEF OpenCalls, OpenFits, Admitted, Between, Last
  <2>4. Len(run[j].open) \in 1..Len(run[j].open)
    <3>1. run[j].open \in Seq(0..MaxAttempts)
      BY <1>0 DEF TypeOK, Runs, Calls
    <3>2. Len(run[j].open) \in Nat \ {0}
      BY <2>3, <3>1, EmptySeq
    <3> QED
      BY <3>2
  <2>5. <<j, attempts[j]>> \notin cut
    BY <2>3, <2>4 DEF EndedAttempts
  <2> QED
    <3>1. ASSUME NEW s \in sessions'
          PROVE  s.attempt <= attempts'[s.job] /\ <<s.job, s.attempt>> \notin cut'
      <4>1. CASE s \in sessions
        BY <1>g, <2>1, <4>1 DEF SessionsOfOpen
      <4>2. CASE s = NewSession(j)
        BY <1>a, <2>1, <2>2, <2>5, <4>2
      <4> QED
        BY <2>1, <4>1, <4>2
    <3> QED
      BY <3>1 DEF SessionsOfOpen
<1>3. ASSUME NEW j \in Jobs, Revoke(j) PROVE SessionsOfOpen'
  <2> DEFINE n == Last(run[j].open)
  <2>1. /\ attempts' = attempts
        /\ sessions' = WithoutAttempt(j, n)
        /\ cut' = IF n = 0 THEN cut ELSE cut \cup {<<j, n>>}
    BY <1>3 DEF Revoke, recordVars
  <2>2. \A s \in sessions' : s \in sessions /\ (s.job # j \/ n = 0 \/ s.attempt # n)
    BY <2>1 DEF WithoutAttempt
  <2> QED
    BY <1>g, <2>1, <2>2 DEF SessionsOfOpen
<1> QED
  BY <1>1, <1>2, <1>3 DEF Writers

(* The lease that a command has released is a run's again only after a run   *)
(* has taken it.                                                            *)
LEMMA LeasesStay ==
  ASSUME TypeOK, TakenAgainOnly, Writers
  PROVE  /\ TakenAgainOnly'
         /\ \A j \in Jobs : /\ command[j].pc = "done" => command'[j].pc = "done"
                            /\ command[j].again => command'[j].again
<1>c. command \in [Jobs -> Commands]
  BY DEF TypeOK
<1>1. CASE UNCHANGED command /\ leases' \subseteq leases
  BY <1>1 DEF TakenAgainOnly
<1>2. ASSUME NEW j \in Jobs, TakeLease(j)
      PROVE  /\ TakenAgainOnly'
             /\ \A i \in Jobs : /\ command[i].pc = "done" => command'[i].pc = "done"
                                /\ command[i].again => command'[i].again
  <2>1. /\ leases' = leases \cup {j} /\ \A i \in Jobs \ {j} : command'[i] = command[i]
        /\ command'[j].pc = command[j].pc
        /\ command'[j].again = (command[j].again \/ command[j].pc \in {"released", "done"})
    BY <1>2, <1>c DEF TakeLease, TakenAgain, Commands
  <2> QED
    BY <2>1 DEF TakenAgainOnly
<1>3. ASSUME NEW j \in Jobs, CommandMarks(j) \/ CommandReleases(j) \/ CommandRevokes(j)
      PROVE  /\ TakenAgainOnly'
             /\ \A i \in Jobs : /\ command[i].pc = "done" => command'[i].pc = "done"
                                /\ command[i].again => command'[i].again
  <2>1. /\ \A i \in Jobs \ {j} : command'[i] = command[i]
        /\ command'[j].again = command[j].again
        /\ command[j].pc # "done" /\ leases' \subseteq leases
        /\ \/ command'[j].pc = "marked"
           \/ j \notin leases'
           \/ command[j].pc = "released" /\ leases' = leases
    <3>1. CASE CommandMarks(j)
      BY <3>1, <1>c DEF CommandMarks, Commands, accessVars
    <3>2. CASE CommandReleases(j)
      BY <3>2, <1>c DEF CommandReleases, Commands
    <3>3. CASE CommandRevokes(j)
      BY <3>3, <1>c DEF CommandRevokes, Commands
    <3> QED
      BY <1>3, <3>1, <3>2, <3>3
  <2> QED
    BY <2>1 DEF TakenAgainOnly
<1> QED
  BY <1>1, <1>2, <1>3 DEF Writers

(* A request that looks at a session finds one of an attempt that no run has *)
(* ended; after a command it also needs a lease taken since.                *)
LEMMA LateStays ==
  ASSUME TypeOK, SessionsOfOpen, TakenAgainOnly, LateOnly, Writers PROVE LateOnly'
<1>r. req \in [Requests -> ProxyRequests]
  BY DEF TypeOK
<1>q. \A r \in Requests : req[r].job \in Jobs
  BY <1>r DEF ProxyRequests
<1>c. \A j \in Jobs : /\ command[j].pc = "done" => command'[j].pc = "done"
                      /\ command[j].again => command'[j].again
  BY LeasesStay
<1> DEFINE Fine(q) == /\ q.late # "ended"
                      /\ q.late = "commanded" => command'[q.job].pc = "done"
                      /\ q.pc = "streaming" /\ q.late = "commanded" => command'[q.job].again
<1>1. \A r \in Requests : Fine(req[r])
  BY <1>c, <1>q DEF LateOnly
<1>2. ASSUME NEW r \in Requests, \A k \in Requests \ {r} : req'[k] = req[k], Fine(req'[r])
      PROVE  LateOnly'
  BY <1>1, <1>2 DEF LateOnly
<1>3. CASE UNCHANGED req
  BY <1>1, <1>3 DEF LateOnly
<1>4. ASSUME NEW r \in Requests, NEW j \in Jobs, NEW p \in Proxies, Arrive(r, j, p)
      PROVE  LateOnly'
  <2>1. UNCHANGED command
    BY <1>4 DEF Arrive, miscVars
  <2>2. ASSUME NEW s \in sessions, s.job = j,
               req' = [req EXCEPT ![r] = [pc |-> "looked", job |-> j, attempt |-> s.attempt,
                                          proxy |-> p, late |-> Late(j, s.attempt)]]
        PROVE  LateOnly'
    <3>1. <<j, s.attempt>> \notin cut
      BY <2>2 DEF SessionsOfOpen
    <3>2. Late(j, s.attempt) # "ended"
          /\ (Late(j, s.attempt) = "commanded" => command[j].pc = "done")
      BY <3>1 DEF Late
    <3>3. /\ req'[r].pc = "looked" /\ req'[r].job = j /\ req'[r].late = Late(j, s.attempt)
          /\ \A k \in Requests \ {r} : req'[k] = req[k]
      BY <2>2, <1>r
    <3>4. Fine(req'[r])
      BY <3>2, <3>3, <2>1
    <3> QED
      BY <1>2, <3>3, <3>4
  <2> QED
    BY <1>3, <1>4, <2>2 DEF Arrive
<1>5. ASSUME NEW r \in Requests, Free(r) PROVE LateOnly'
  <2>1. req'[r] = NoRequest(req[r].job) /\ \A k \in Requests \ {r} : req'[k] = req[k]
    BY <1>5, <1>r DEF Free
  <2>2. Fine(req'[r])
    BY <2>1 DEF NoRequest
  <2> QED
    BY <1>2, <2>1, <2>2
<1>6. ASSUME NEW r \in Requests, Forward(r) PROVE LateOnly'
  <2>1. /\ req'[r].pc = "streaming" /\ req'[r].late = req[r].late /\ req'[r].job = req[r].job
        /\ \A k \in Requests \ {r} : req'[k] = req[k]
        /\ UNCHANGED command
    BY <1>6, <1>r DEF Forward, ProxyRequests, miscVars
  <2>2. req[r].job \in leases
    BY <1>6 DEF Forward, Refusal
  <2>3. req[r].late = "commanded" => command[req[r].job].again
    BY <2>2, <1>q DEF LateOnly, TakenAgainOnly
  <2>4. Fine(req'[r])
    BY <1>1, <2>1, <2>3
  <2> QED
    BY <1>2, <2>1, <2>4
<1> QED
  BY <1>3, <1>4, <1>5, <1>6 DEF Writers

(* A settled attempt is cut off for any number of jobs, attempts, requests   *)
(* and crashes: the end of the run revokes its session for good, and a       *)
(* command's settlement holds until a run takes the lease again.            *)
THEOREM SettledIsCutOff == Spec => []SettledAttemptCutOff
<1>1. Init => CutInv
  <2> SUFFICES ASSUME Init PROVE CutInv
    OBVIOUS
  <2>1. EndedAttempts
    BY EmptySeq DEF Init, EndedAttempts, IdleRun
  <2>2. SessionsOfOpen /\ TakenAgainOnly
    BY DEF Init, SessionsOfOpen, TakenAgainOnly
  <2>3. LateOnly
    BY DEF Init, LateOnly, NoRequest
  <2> QED
    BY <2>1, <2>2, <2>3 DEF CutInv
<1>2. TInv /\ CutInv /\ [Next]_vars => CutInv'
  <2> SUFFICES ASSUME TInv, CutInv, [Next]_vars PROVE CutInv'
    OBVIOUS
  <2>1. TypeOK /\ Writers
    BY NextWriters DEF TInv
  <2> QED
    BY <2>1, EndedStays, SessionsStay, LeasesStay, LateStays DEF CutInv
<1>3. TInv /\ [Next]_vars => TInv'
  BY NextTyped, NextNests, NextNamed DEF TInv
<1>4. CutInv => SettledAttemptCutOff
  BY DEF CutInv, LateOnly, SettledAttemptCutOff
<1> QED
  BY <1>1, <1>2, <1>3, <1>4, InitTyped, PTL DEF Spec

-----------------------------------------------------------------------------
(* From the issue of its session to the end of its supervision, an attempt   *)
(* that no command has touched keeps it up to its deadline.                 *)
Supplied == \A j \in Jobs :
    (/\ run[j].pc \in {"issued", "supervising"} /\ command[j].pc = "none"
     /\ ProxyKind[Home] # "subscription")
    => NewSession(j) \in sessions \/ clock >= run[j].deadline

(* Steps that take no session of the job away keep it supplied.             *)
LEMMA SuppliedFrame ==
  ASSUME Supplied, NEW j \in Jobs, UNCHANGED clock,
         \A i \in Jobs \ {j} : run'[i] = run[i] /\ attempts'[i] = attempts[i],
         \A i \in Jobs \ {j} : command'[i].pc = "none" => command[i].pc = "none",
         \A s \in sessions : s.job # j => s \in sessions',
         run'[j].pc \in {"issued", "supervising"} /\ command'[j].pc = "none"
            => /\ run[j].pc \in {"issued", "supervising"} /\ command[j].pc = "none"
               /\ run'[j].deadline = run[j].deadline /\ attempts'[j] = attempts[j]
               /\ NewSession(j) \in sessions => NewSession(j) \in sessions' \/ clock >= run[j].deadline
  PROVE  Supplied'
<1> SUFFICES ASSUME NEW i \in Jobs, run'[i].pc \in {"issued", "supervising"}, command'[i].pc = "none",
                    ProxyKind[Home] # "subscription"
             PROVE  NewSession(i)' \in sessions' \/ clock' >= run'[i].deadline
  BY DEF Supplied
<1>1. run'[i].deadline = run[i].deadline /\ NewSession(i)' = NewSession(i)
  BY DEF NewSession
<1>2. NewSession(i) \in sessions \/ clock >= run[i].deadline
  BY DEF Supplied
<1>3. CASE i # j
  BY <1>1, <1>2, <1>3 DEF NewSession
<1>4. CASE i = j
  BY <1>1, <1>2, <1>4
<1> QED
  BY <1>3, <1>4

(* Every step keeps the attempts under supervision supplied.                *)
LEMMA NextSupplied == TypeOK /\ Supplied /\ [Next]_vars => Supplied'
<1> SUFFICES ASSUME TypeOK, Supplied, [Next]_vars PROVE Supplied'
  OBVIOUS
<1>t. run \in [Jobs -> Runs] /\ command \in [Jobs -> Commands] /\ attempts \in [Jobs -> 0..MaxAttempts]
  BY DEF TypeOK
<1>1. ASSUME UNCHANGED <<attempts, sessions, run, command, clock>> PROVE Supplied'
  BY <1>1 DEF Supplied, NewSession
<1>2. CASE UNCHANGED vars
  BY <1>1, <1>2 DEF vars, recordVars, accessVars, miscVars
<1>3. ASSUME NEW j \in Jobs, NEW pc \in RunPcs \ {"issued", "supervising"}, Go(j, pc),
             UNCHANGED <<attempts, sessions, command, clock>>
      PROVE  Supplied'
  BY <1>3, <1>t, SuppliedFrame DEF Go, Runs
<1>4. ASSUME NEW j \in Jobs, TakeRun(j) \/ Load(j) \/ BudgetSpent(j) \/ LeaseBusy(j) \/ Breaks(j)
             \/ LeaveLoop(j) \/ FailRead(j) \/ StopWorker(j)
      PROVE  Supplied'
  <2>1. PICK pc \in RunPcs \ {"issued", "supervising"} : Go(j, pc)
    BY <1>4 DEF TakeRun, Load, BudgetSpent, LeaseBusy, Breaks, LeaveLoop, FailRead, StopWorker,
                Back, AfterFailure, RunPcs
  <2>2. UNCHANGED <<attempts, sessions, command, clock>>
    BY <1>4 DEF TakeRun, Load, BudgetSpent, LeaseBusy, Breaks, LeaveLoop, FailRead, StopWorker,
                recordVars, accessVars, miscVars
  <2> QED
    BY <1>3, <2>1, <2>2
<1>5. ASSUME NEW j \in Jobs,
             \/ SeeExit(j) \/ ReadOutcome(j) \/ FailWrite(j) \/ ReadForEvidence(j) \/ WriteEvidence(j)
             \/ ReleaseLease(j) \/ Crash(j)
      PROVE  Supplied'
  <2>1. UNCHANGED <<attempts, sessions, command, clock>> /\ \A i \in Jobs \ {j} : run'[i] = run[i]
    BY <1>5, <1>t DEF SeeExit, ReadOutcome, FailWrite, ReadForEvidence, WriteEvidence, ReleaseLease,
                Crash, recordVars, accessVars, miscVars
  <2>2. run'[j].pc \notin {"issued", "supervising"}
    <3>1. CASE SeeExit(j)
      BY <3>1, <1>t DEF SeeExit, Runs
    <3>2. CASE ReadOutcome(j)
      BY <3>2, <1>t DEF ReadOutcome, Runs
    <3>3. CASE FailWrite(j)
      BY <3>3, <1>t DEF FailWrite, Runs
    <3>4. CASE ReadForEvidence(j)
      BY <3>4, <1>t DEF ReadForEvidence, Runs
    <3>5. CASE WriteEvidence(j)
      BY <3>5, <1>t DEF WriteEvidence, AfterFailure, Runs
    <3>6. CASE ReleaseLease(j)
      <4>1. run'[j] = [IdleRun EXCEPT !.pc = "revoking", !.open = run[j].open]
        BY <3>6, <1>t DEF ReleaseLease
      <4> QED
        BY <4>1 DEF IdleRun
    <3>7. CASE Crash(j)
      <4>1. run'[j] = IdleRun
        BY <3>7, <1>t DEF Crash
      <4> QED
        BY <4>1 DEF IdleRun
    <3> QED
      BY <1>5, <3>1, <3>2, <3>3, <3>4, <3>5, <3>6, <3>7
  <2> QED
    BY <2>1, <2>2, SuppliedFrame
<1>6. ASSUME NEW j \in Jobs, TakeLease(j) PROVE Supplied'
  <2>1. /\ UNCHANGED <<attempts, sessions, clock>> /\ run'[j].pc = "prepared"
        /\ \A i \in Jobs \ {j} : run'[i] = run[i] /\ command'[i] = command[i]
    BY <1>6, <1>t DEF TakeLease, TakenAgain, Runs, recordVars
  <2> QED
    BY <2>1, SuppliedFrame
<1>7. ASSUME NEW j \in Jobs, Admit(j) PROVE Supplied'
  <2>1. /\ UNCHANGED <<sessions, command, clock>> /\ run'[j].pc = "admitted"
        /\ \A i \in Jobs \ {j} : run'[i] = run[i] /\ attempts'[i] = attempts[i]
    BY <1>7, <1>t DEF Admit, Runs, accessVars, miscVars
  <2> QED
    BY <2>1, SuppliedFrame
<1>8. ASSUME NEW j \in Jobs, IssueSession(j) PROVE Supplied'
  <2>1. /\ UNCHANGED <<attempts, command, clock>> /\ sessions' = sessions \cup SessionsFor(j)
        /\ run'[j].deadline = run[j].deadline /\ \A i \in Jobs \ {j} : run'[i] = run[i]
    BY <1>8, <1>t DEF IssueSession, Go, Runs, recordVars, miscVars
  <2>2. ProxyKind[Home] # "subscription" => NewSession(j) \in sessions'
    BY <2>1 DEF SessionsFor
  <2>3. \A i \in Jobs : NewSession(i)' = NewSession(i)
    BY <2>1 DEF NewSession
  <2> QED
    BY <2>1, <2>2, <2>3 DEF Supplied
<1>9. ASSUME NEW j \in Jobs, Launch(j) PROVE Supplied'
  <2>1. /\ UNCHANGED <<attempts, sessions, command, clock>> /\ run[j].pc = "issued"
        /\ run'[j].deadline = run[j].deadline /\ \A i \in Jobs \ {j} : run'[i] = run[i]
    BY <1>9, <1>t DEF Launch, At, Go, Runs, recordVars, accessVars, miscVars
  <2> QED
    BY <2>1, SuppliedFrame
<1>10. ASSUME NEW j \in Jobs, Revoke(j) PROVE Supplied'
  <2>1. /\ UNCHANGED <<attempts, command, clock>> /\ \A i \in Jobs \ {j} : run'[i] = run[i]
        /\ \A s \in sessions : s.job # j => s \in sessions'
        /\ run'[j].pc \in {"idle", "releasing"}
    BY <1>10, <1>t DEF Revoke, WithoutAttempt, IdleRun, Runs, recordVars
  <2> QED
    BY <2>1, SuppliedFrame
<1>11. ASSUME NEW j \in Jobs,
              WorkerReturns(j) \/ WorkerVanishes(j) \/ OrphanEnds(j) \/ ObserverStep(j)
              \/ Submit(j) \/ Verdict(j)
       PROVE  Supplied'
  BY <1>1, <1>11 DEF WorkerReturns, WorkerVanishes, OrphanEnds, ObserverStep, ObserverProbes,
     ObserverReads, ObserverNotifies, Submit, Verdict, recordVars, accessVars, miscVars
<1>12. ASSUME NEW j \in Jobs, CommandMarks(j) \/ CommandReleases(j) \/ CommandRevokes(j)
       PROVE  Supplied'
  <2>1. /\ UNCHANGED <<attempts, run, clock>> /\ \A i \in Jobs \ {j} : command'[i] = command[i]
        /\ \A s \in sessions : s.job # j => s \in sessions'
    BY <1>12, <1>t DEF CommandMarks, CommandReleases, CommandRevokes, WithoutJob, recordVars, accessVars
  <2>2. command'[j].pc # "none"
    <3>1. CASE CommandMarks(j)
      BY <3>1, <1>t DEF CommandMarks, Commands
    <3>2. CASE CommandReleases(j) \/ CommandRevokes(j)
      BY <3>2, <1>t DEF CommandReleases, CommandRevokes, Commands
    <3> QED
      BY <1>12, <3>1, <3>2
  <2> QED
    BY <2>1, <2>2, SuppliedFrame
<1>13. ASSUME NEW r \in Requests, NEW j \in Jobs, NEW p \in Proxies, Arrive(r, j, p)
       PROVE  Supplied'
  <2>1. UNCHANGED <<attempts, run, command, clock>>
    BY <1>13 DEF Arrive, recordVars, miscVars
  <2>2. \A s \in sessions : s \in sessions' \/ Expired(s)
    BY <1>13 DEF Arrive
  <2>3. \A i \in Jobs : NewSession(i)' = NewSession(i)
    BY <2>1 DEF NewSession
  <2>4. \A i \in Jobs : Expired(NewSession(i)) => clock >= run[i].deadline
    BY DEF Expired, NewSession
  <2> QED
    BY <2>1, <2>2, <2>3, <2>4 DEF Supplied
<1>14. ASSUME NEW r \in Requests, Refuse(r) \/ Forward(r) \/ Answer(r) PROVE Supplied'
  BY <1>1, <1>14 DEF Refuse, Forward, Answer, recordVars, accessVars, miscVars
<1>15. ASSUME ServeStarts \/ Reclaim PROVE Supplied'
  <2>1. CASE ServeStarts
    BY <1>1, <2>1 DEF ServeStarts, recordVars, accessVars, miscVars
  <2>2. CASE Reclaim
    BY <1>1, <2>2 DEF Reclaim, recordVars, miscVars
  <2> QED
    BY <1>15, <2>1, <2>2
<1>16. ASSUME Tick PROVE Supplied'
  <2>1. /\ UNCHANGED <<attempts, sessions, run, command>> /\ clock' = clock + 1 /\ clock \in Nat
        /\ \A i \in Jobs : run[i].deadline \in Nat
    BY <1>16, <1>t, BoundsAssumption DEF Tick, recordVars, accessVars, Runs, TypeOK
  <2>2. \A i \in Jobs : NewSession(i)' = NewSession(i)
    BY <2>1 DEF NewSession
  <2> QED
    BY <2>1, <2>2 DEF Supplied
<1> QED
  BY <1>2, <1>4, <1>5, <1>6, <1>7, <1>8, <1>9, <1>10, <1>11, <1>12, <1>13, <1>14, <1>15, <1>16
     DEF Next, RunStep

(* A supervised worker keeps its credential, for any number of jobs, nested  *)
(* calls and crashes: what earlier calls and other jobs revoke is not its    *)
(* own (executor.py revokes by attempt in its finally).                     *)
THEOREM CredentialSafe == Spec => []CredentialOutlivesAttempt
<1>1. Init => Supplied
  BY DEF Init, Supplied, IdleRun
<1>2. TypeOK /\ Supplied => CredentialOutlivesAttempt
  <2> SUFFICES ASSUME TypeOK, Supplied, NEW j \in Jobs, At(j, "supervising"),
                      ProxyKind[Home] # "subscription", clock < run[j].deadline,
                      command[j].pc = "none"
               PROVE  \E s \in sessions : s.job = j /\ s.attempt = attempts[j] /\ ~ Expired(s)
    BY DEF CredentialOutlivesAttempt
  <2>1. clock \in Nat /\ run[j].deadline \in Nat
    BY BoundsAssumption DEF TypeOK, Runs
  <2>2. NewSession(j) \in sessions
    BY <2>1 DEF Supplied, At
  <2>3. NewSession(j).job = j /\ NewSession(j).attempt = attempts[j] /\ ~ Expired(NewSession(j))
    BY <2>1 DEF NewSession, Expired
  <2> QED
    BY <2>2, <2>3
<1> QED
  BY <1>1, <1>2, NextSupplied, Typed, PTL DEF Spec
============================================================================
