-------------------------- MODULE JobRuntimeProofs --------------------------
(***************************************************************************)
(* Proofs about JobRuntime, for any jobs, submissions, processes, threads  *)
(* and limits: its type invariant, the budget of worker starts and what an *)
(* accepted job stands for.                                                *)
(***************************************************************************)
EXTENDS JobRuntime, FiniteSetTheorems, TLAPS

(* Who does something does it to a job, and an attempt that is being        *)
(* admitted has a number.                                                   *)
ExecutorBound == \A e \in Executors :
    /\ exec[e].pc \notin {"idle", "down"} => exec[e].job \in Jobs
    /\ exec[e].pc \notin {"idle", "down", "creating", "handed", "loading", "refused", "finishing"}
          => exec[e].number \in Numbers

ThreadBound == \A t \in Threads :
    thread[t].pc # "idle" => thread[t].job \in Jobs /\ thread[t].sub \in Submissions

LoaderBound == \A r \in Recoverers :
    loader[r].pc # "idle" => loader[r].job \in Jobs /\ loader[r].sub \in Submissions

TInv == TypeOK /\ ExecutorBound /\ ThreadBound /\ LoaderBound

-----------------------------------------------------------------------------
LEMMA RecordTypes ==
  ASSUME TInv, NEW j \in Jobs
  PROVE  /\ jobs[j] \in JobRecord
         /\ jobs[j].status \in Statuses /\ jobs[j].attempts \in 0..MaxNumber
         /\ jobs[j].records \in [Numbers -> AttemptStatuses]
         /\ jobs[j].repair_ready \in BOOLEAN /\ jobs[j].repairs \in Nat
         /\ jobs[j].answers \in [Submissions -> Answers]
  BY DEF TInv, TypeOK, JobsTypeOK, JobRecord

LEMMA ExecutorTypes ==
  ASSUME TInv, NEW e \in Executors
  PROVE  /\ exec[e] \in ExecutorState
         /\ exec[e].pc \in ExecutorPcs /\ exec[e].job \in Jobs \cup {NoTarget}
         /\ exec[e].number \in 0..MaxNumber /\ exec[e].repair \in BOOLEAN
         /\ exec[e].repairs \in Nat /\ exec[e].owed \subseteq Numbers
         /\ exec[e].saw \in Statuses
         /\ exec[e].pc \notin {"idle", "down"} => exec[e].job \in Jobs
         /\ exec[e].pc \notin {"idle", "down", "creating", "handed", "loading", "refused", "finishing"}
               => exec[e].number \in Numbers
  BY DEF TInv, TypeOK, ExecutorTypeOK, ExecutorState, ExecutorBound

LEMMA ThreadTypes ==
  ASSUME TInv, NEW t \in Threads
  PROVE  /\ thread[t] \in ThreadState
         /\ thread[t].pc \in ThreadPcs /\ thread[t].job \in Jobs \cup {NoJob}
         /\ thread[t].sub \in Submissions \cup {NoSubmission} /\ thread[t].saw \in Statuses
         /\ thread[t].answers \in [Submissions -> Answers] /\ thread[t].repairs \in Nat
         /\ thread[t].verdict \in {"none", "pass", "fail", "raise"}
         /\ thread[t].pc # "idle" => thread[t].job \in Jobs /\ thread[t].sub \in Submissions
  BY DEF TInv, TypeOK, ServiceTypeOK, ThreadState, ThreadBound

LEMMA LoaderTypes ==
  ASSUME TInv, NEW r \in Recoverers
  PROVE  /\ loader[r] \in LoaderState
         /\ loader[r].pc \in {"idle", "applying", "committing", "settling"}
         /\ loader[r].job \in Jobs \cup {NoJob}
         /\ loader[r].sub \in Submissions \cup {NoSubmission}
         /\ loader[r].pc # "idle" => loader[r].job \in Jobs /\ loader[r].sub \in Submissions
  BY DEF TInv, TypeOK, ServiceTypeOK, LoaderState, LoaderBound

LEMMA StatusTyped ==
  ASSUME JobsTypeOK, NEW j \in Jobs, NEW s \in Statuses, UpdateStatus(j, s)
  PROVE  JobsTypeOK'
  BY DEF JobsTypeOK, JobRecord, UpdateStatus

(* A job whose attempt records are replaced keeps its type.                 *)
LEMMA RecordsTyped ==
  ASSUME TInv, NEW j \in Jobs, NEW f \in [Numbers -> AttemptStatuses],
         jobs' = [jobs EXCEPT ![j].records = f]
  PROVE  JobsTypeOK'
<1> DEFINE r == [jobs[j] EXCEPT !.records = f]
<1>1. jobs[j] \in JobRecord /\ jobs \in [Jobs -> JobRecord]
  BY RecordTypes DEF TInv, TypeOK, JobsTypeOK
<1>2. r \in JobRecord
  BY ONLY <1>1, f \in [Numbers -> AttemptStatuses] DEF JobRecord
<1>3. jobs' = [jobs EXCEPT ![j] = r]
  BY <1>1
<1> HIDE DEF r
<1> QED
  BY ONLY <1>1, <1>2, <1>3, j \in Jobs DEF JobsTypeOK

LEMMA AttemptTyped ==
  ASSUME TInv, NEW j \in Jobs, NEW n \in Numbers, NEW st \in AttemptStatuses,
         RecordAttempt(j, n, st)
  PROVE  JobsTypeOK'
<1> DEFINE f == [jobs[j].records EXCEPT ![n] = st]
<1>1. f \in [Numbers -> AttemptStatuses]
  BY RecordTypes
<1>2. jobs' = [jobs EXCEPT ![j].records = f]
  BY DEF RecordAttempt
<1> HIDE DEF f
<1> QED
  BY <1>1, <1>2, RecordsTyped

LEMMA IdleTyped == IdleExecutor \in ExecutorState
  BY MaxNumberAssumption DEF IdleExecutor, ExecutorState, ExecutorPcs, Statuses

LEMMA NoAnswersTyped == NoAnswers \in [Submissions -> Answers]
  BY DEF NoAnswers, Answers

LEMMA InitTyped == Init => TInv
<1> SUFFICES ASSUME Init PROVE TInv
  OBVIOUS
<1> USE DEF Init
<1>1. JobsTypeOK
  <2>1. NewRecord \in JobRecord
    BY MaxNumberAssumption, NoAnswersTyped DEF NewRecord, JobRecord, Statuses, AttemptStatuses
  <2> QED  BY <2>1 DEF JobsInit, JobsTypeOK
<1>2. ExecutorTypeOK /\ ExecutorBound
  <2>1. IdleExecutor.pc = "idle"
    BY DEF IdleExecutor
  <2> QED  BY <2>1, IdleTyped DEF ExecutorInit, ExecutorTypeOK, ExecutorBound
<1>3. ServiceTypeOK /\ ThreadBound /\ LoaderBound
  <2>1. NoThreadState \in ThreadState /\ NoThreadState.pc = "idle"
    BY NoAnswersTyped DEF NoThreadState, ThreadState, ThreadPcs, Statuses
  <2>2. NoLoaderState \in LoaderState /\ NoLoaderState.pc = "idle"
    BY DEF NoLoaderState, LoaderState
  <2>3. [status |-> "none", answers |-> NoAnswers] \in JournalRecord
    BY NoAnswersTyped DEF JournalRecord, JournalStatuses
  <2> QED
    BY <2>1, <2>2, <2>3, MaxCrashesAssumption
    DEF ServiceInit, ServiceTypeOK, ThreadBound, LoaderBound
<1>4. host \in [Threads -> Executors \cup {NoExecutor}]
  OBVIOUS
<1> QED
  BY <1>1, <1>2, <1>3, <1>4 DEF TInv, TypeOK

-----------------------------------------------------------------------------
LEMMA ExecutorPlaced ==
  ASSUME TInv, NEW e \in Executors, NEW x \in ExecutorState,
         x.pc \notin {"idle", "down"} => x.job \in Jobs,
         x.pc \notin {"idle", "down", "creating", "handed", "loading", "refused", "finishing"}
            => x.number \in Numbers,
         exec' = [exec EXCEPT ![e] = x],
         claim' \in [Jobs -> Executors \cup {NoExecutor}], alive' \subseteq Jobs, launches' \in Nat
  PROVE  ExecutorTypeOK' /\ ExecutorBound'
  BY DEF TInv, TypeOK, ExecutorTypeOK, ExecutorBound

LEMMA ExecutorMoves ==
  ASSUME TInv, NEW e \in Executors, NEW pc \in ExecutorPcs,
         pc \notin {"idle", "down"} => exec[e].job \in Jobs,
         pc \notin {"idle", "down", "creating", "handed", "loading", "refused", "finishing"}
            => exec[e].number \in Numbers,
         exec' = [exec EXCEPT ![e].pc = pc],
         claim' \in [Jobs -> Executors \cup {NoExecutor}], alive' \subseteq Jobs, launches' \in Nat
  PROVE  ExecutorTypeOK' /\ ExecutorBound'
<1> DEFINE x == [exec[e] EXCEPT !.pc = pc]
<1>1. x \in ExecutorState /\ x.pc = pc /\ x.job = exec[e].job /\ x.number = exec[e].number
  BY ExecutorTypes DEF ExecutorState
<1>2. exec' = [exec EXCEPT ![e] = x]
  OBVIOUS
<1> HIDE DEF x
<1> QED
  BY <1>1, <1>2, ExecutorPlaced

LEMMA IdlePlaced ==
  ASSUME NEW pc \in ExecutorPcs, NEW j \in Jobs \cup {NoTarget}
  PROVE  /\ [IdleExecutor EXCEPT !.pc = pc, !.job = j] \in ExecutorState
         /\ [IdleExecutor EXCEPT !.pc = pc, !.job = j].pc = pc
         /\ [IdleExecutor EXCEPT !.pc = pc, !.job = j].job = j
<1>1. IdleExecutor \in ExecutorState
  BY IdleTyped
<1> QED
  BY <1>1 DEF ExecutorState

(* A step of an executor leaves everything of the service alone.            *)
LEMMA RunStepTyped ==
  ASSUME TInv, NEW e \in Executors, RunStep(e) \/ \E j \in Jobs : Claim(e, j)
  PROVE  JobsTypeOK' /\ ExecutorTypeOK' /\ ExecutorBound'
<1> DEFINE j == exec[e].job
           Kept == claim' \in [Jobs -> Executors \cup {NoExecutor}] /\ alive' \subseteq Jobs
                   /\ launches' \in Nat
<1>t. /\ JobsTypeOK /\ claim \in [Jobs -> Executors \cup {NoExecutor}] /\ alive \subseteq Jobs
      /\ launches \in Nat /\ exec \in [Executors -> ExecutorState]
  BY DEF TInv, TypeOK, ExecutorTypeOK
<1>u. UNCHANGED jobs => JobsTypeOK'
  BY <1>t DEF JobsTypeOK
<1>p. \A pc : pc \in {"idle", "creating", "handed", "loading", "budget", "bound", "leasing",
                "admitting", "marking", "environment", "launching", "working",
                "waiting", "reading", "failing", "fail_write", "broken", "evidence",
                "evidence_write", "refused", "finishing", "down"} => pc \in ExecutorPcs
  BY DEF ExecutorPcs
<1>1. ASSUME NEW k \in Jobs, Claim(e, k) PROVE JobsTypeOK' /\ ExecutorTypeOK' /\ ExecutorBound'
  <2>1. Kept /\ UNCHANGED jobs
    BY <1>1, <1>t DEF Claim
  <2> DEFINE x == [IdleExecutor EXCEPT !.pc = "loading", !.job = k]
  <2>p. "loading" \in ExecutorPcs /\ k \in Jobs \cup {NoTarget}
    BY <1>p
  <2>2. x \in ExecutorState /\ x.pc = "loading" /\ x.job = k
    BY <2>p, IdlePlaced
  <2>3. exec' = [exec EXCEPT ![e] = x]
    BY <1>1 DEF Claim
  <2> HIDE DEF x
  <2> QED  BY <2>1, <2>2, <2>3, <1>u, ExecutorPlaced
<1>2. CASE ClaimRefused(e)
  BY <1>2, <1>t, <1>u, IdleTyped, ExecutorPlaced DEF ClaimRefused, IdleExecutor
<1>3. CASE LoadTerminal(e) \/ LoadRefused(e) \/ LeaseRefused(e) \/ EvidenceSkipped(e)
  <2>1. PICK pc \in {"finishing", "refused"} : exec' = [exec EXCEPT ![e].pc = pc]
    BY <1>3 DEF LoadTerminal, LoadRefused, LeaseRefused, EvidenceSkipped, Move
  <2>2. exec[e].pc \in {"loading", "leasing", "evidence"} /\ UNCHANGED <<jobs, claim, alive, launches>>
    BY <1>3 DEF LoadTerminal, LoadRefused, LeaseRefused, EvidenceSkipped, Move, On
  <2>3. j \in Jobs
    BY <2>2, ExecutorTypes
  <2> QED  BY <2>1, <2>2, <2>3, <1>t, <1>u, <1>p, ExecutorMoves
<1>4. CASE Load(e)
  <2> DEFINE n == IF jobs[j].attempts < MaxNumber THEN jobs[j].attempts + 1 ELSE MaxNumber
             r == (jobs[j].status = "completion_rejected" /\ jobs[j].repair_ready)
             x == [exec[e] EXCEPT !.pc = "budget", !.number = n, !.repair = r,
                                  !.repairs = jobs[j].repairs]
  <2>1. j \in Jobs
    BY <1>4, ExecutorTypes DEF Load, On
  <2>2. n \in 0..MaxNumber /\ n \in Numbers
    BY <2>1, RecordTypes, MaxNumberAssumption DEF Numbers
  <2>3. jobs[j].repairs \in Nat
    BY <2>1, RecordTypes
  <2> HIDE DEF n, r
  <2>4. r \in BOOLEAN
    BY DEF r
  <2>5. x \in ExecutorState /\ x.pc = "budget" /\ x.job = j /\ x.number = n
    BY <1>p, <2>1, <2>2, <2>3, <2>4, ExecutorTypes DEF ExecutorState
  <2>6. exec' = [exec EXCEPT ![e] = x]
    BY <1>4 DEF Load, JobOf, n, r
  <2> HIDE DEF x
  <2> QED  BY <1>4, <1>t, <1>u, <2>1, <2>2, <2>5, <2>6, ExecutorPlaced DEF Load
<1>5. CASE CheckBudget(e)
  <2> DEFINE pc == IF WithinBudget THEN "leasing" ELSE "bound"
  <2>1. exec' = [exec EXCEPT ![e].pc = pc] /\ pc \in {"leasing", "bound"}
    BY <1>5 DEF CheckBudget
  <2> HIDE DEF pc
  <2> QED  BY <1>5, <2>1, <1>t, <1>u, <1>p, ExecutorTypes, ExecutorMoves DEF CheckBudget, On
<1>6. CASE Leased(e) \/ WaitEnds(e)
  BY <1>6, <1>t, <1>u, <1>p, ExecutorTypes, ExecutorMoves DEF Leased, WaitEnds, Move, On
<1>7. CASE AdmitAttempt(e)
  <2> DEFINE x == [exec[e] EXCEPT !.pc = "marking", !.owed = @ \cup {exec[e].number}]
  <2>1. exec[e].number \in Numbers /\ j \in Jobs
    BY <1>7, ExecutorTypes DEF AdmitAttempt, On
  <2>2. x \in ExecutorState /\ x.pc = "marking" /\ x.job = j /\ x.number = exec[e].number
    BY <1>p, <2>1, ExecutorTypes DEF ExecutorState
  <2>3. exec' = [exec EXCEPT ![e] = x]
    BY <1>7 DEF AdmitAttempt
  <2>4. JobsTypeOK'
    BY <1>7, <2>1, AttemptTyped DEF AdmitAttempt, JobOf, AttemptStatuses
  <2> HIDE DEF x
  <2> QED  BY <1>7, <1>t, <2>1, <2>2, <2>3, <2>4, ExecutorPlaced DEF AdmitAttempt
<1>8. CASE MarkRunning(e)
  <2>1. exec[e].number \in Numbers /\ j \in Jobs /\ exec[e].pc = "marking"
    BY <1>8, ExecutorTypes DEF MarkRunning, Move, On
  <2> DEFINE n == IF jobs[j].attempts < MaxNumber THEN jobs[j].attempts + 1
                  ELSE jobs[j].attempts
             ready == IF exec[e].repair THEN FALSE ELSE jobs[j].repair_ready
             count == IF exec[e].repair THEN exec[e].repairs + 1 ELSE jobs[j].repairs
             new == [jobs[j] EXCEPT !.status = "running", !.attempts = n,
                                    !.repair_ready = ready, !.repairs = count]
  <2>d. jobs[j].attempts \in 0..MaxNumber /\ jobs[j].repairs \in Nat
        /\ exec[e].repairs \in Nat /\ jobs[j].repair_ready \in BOOLEAN
    BY <2>1, RecordTypes, ExecutorTypes
  <2>a1. n \in 0..MaxNumber
    BY <2>d, MaxNumberAssumption
  <2>a2. ready \in BOOLEAN
    BY <2>d
  <2>a3. count \in Nat
    BY <2>d
  <2>b. jobs' = [jobs EXCEPT ![j] = new]
    BY <1>8, <1>t, <2>1 DEF MarkRunning, JobOf
  <2> HIDE DEF n, ready, count
  <2>c. new \in JobRecord
    <3>1. jobs[j] \in JobRecord /\ "running" \in Statuses
      BY <2>1, RecordTypes DEF Statuses
    <3> QED  BY <3>1, <2>a1, <2>a2, <2>a3 DEF JobRecord
  <2> HIDE DEF new
  <2>2. JobsTypeOK'
    BY <1>t, <2>b, <2>c DEF JobsTypeOK
  <2> QED
    BY <1>8, <1>t, <1>p, <2>1, <2>2, ExecutorMoves DEF MarkRunning, Move
<1>9. CASE SaveEnvironment(e)
  <2>1. exec[e].number \in Numbers /\ j \in Jobs /\ exec[e].pc = "environment"
    BY <1>9, ExecutorTypes DEF SaveEnvironment, Move, On
  <2>2. JobsTypeOK'
    BY <1>9, <1>t, <1>u, <2>1, StatusTyped DEF SaveEnvironment, JobOf, Statuses
  <2> QED
    BY <1>9, <1>t, <1>p, <2>1, <2>2, ExecutorMoves DEF SaveEnvironment, Move
<1>10. CASE Launch(e)
  <2>1. exec[e].number \in Numbers /\ j \in Jobs
    BY <1>10, ExecutorTypes DEF Launch, On
  <2>2. JobsTypeOK'
    BY <1>10, <2>1, AttemptTyped DEF Launch, JobOf, AttemptStatuses
  <2>3. Kept
    BY <1>10, <1>t, <2>1 DEF Launch, JobOf
  <2>4. PICK pc \in {"reading", "working"} : exec' = [exec EXCEPT ![e].pc = pc]
    BY <1>10 DEF Launch
  <2> QED  BY <1>p, <2>1, <2>2, <2>3, <2>4, ExecutorMoves
<1>11. CASE WorkerEnds(e)
  <2>1. exec[e].number \in Numbers /\ j \in Jobs
    BY <1>11, ExecutorTypes DEF WorkerEnds, On
  <2>2. PICK pc \in {"waiting", "reading"} : exec' = [exec EXCEPT ![e].pc = pc]
    BY <1>11 DEF WorkerEnds
  <2> QED  BY <1>11, <1>t, <1>u, <1>p, <2>1, <2>2, ExecutorMoves DEF WorkerEnds
<1>12. CASE ReadOutcome(e)
  <2>1. exec[e].number \in Numbers /\ j \in Jobs
    BY <1>12, ExecutorTypes DEF ReadOutcome, Move, On
  <2>2. PICK pc \in {"finishing", "evidence", "failing", "loading", "bound"} :
            exec' = [exec EXCEPT ![e].pc = pc]
    BY <1>12 DEF ReadOutcome, Move
  <2> QED  BY <1>12, <1>t, <1>u, <1>p, <2>1, <2>2, ExecutorMoves DEF ReadOutcome
<1>13. CASE FailWorkerRead(e)
  <2>1. exec[e].number \in Numbers /\ j \in Jobs
    BY <1>13, ExecutorTypes DEF FailWorkerRead, On
  <2>2. PICK pc \in {"finishing", "fail_write"} : exec' = [exec EXCEPT ![e].pc = pc]
    BY <1>13 DEF FailWorkerRead
  <2> QED  BY <1>13, <1>t, <1>u, <1>p, <2>1, <2>2, ExecutorMoves DEF FailWorkerRead
<1>14. CASE Breaks(e)
  BY <1>14, <1>t, <1>u, <1>p, ExecutorTypes, ExecutorMoves DEF Breaks
<1>15. CASE WriteFailed(e)
  <2>1. j \in Jobs /\ exec[e].number \in Numbers
    BY <1>15, ExecutorTypes DEF WriteFailed
  <2>2. JobsTypeOK'
    BY <1>15, <1>t, <2>1, StatusTyped DEF WriteFailed, JobOf, Statuses
  <2>3. PICK pc \in {"evidence", "finishing"} : exec' = [exec EXCEPT ![e].pc = pc]
    BY <1>15 DEF WriteFailed
  <2> QED
    BY <1>15, <1>t, <1>p, <2>1, <2>2, <2>3, ExecutorMoves DEF WriteFailed
<1>17. CASE EvidenceRead(e) \/ EvidenceWrite(e)
  <2>1. j \in Jobs /\ exec[e].number \in Numbers /\ exec[e] \in ExecutorState
    BY <1>17, ExecutorTypes DEF EvidenceRead, EvidenceWrite, On
  <2>2. PICK pc \in {"evidence_write", "finishing"}, st \in Statuses :
          exec' = [exec EXCEPT ![e] = [exec[e] EXCEPT !.pc = pc, !.saw = st]]
    <3>1. CASE EvidenceRead(e)
      <4>1. jobs[j].status \in Statuses
        BY <2>1, RecordTypes
      <4>2. exec' = [exec EXCEPT ![e] = [exec[e] EXCEPT !.pc = "evidence_write",
                                                       !.saw = jobs[j].status]]
        BY <3>1, <1>t DEF EvidenceRead, JobOf, Status
      <4> QED  BY <4>1, <4>2
    <3>2. CASE EvidenceWrite(e)
      <4>1. exec' = [exec EXCEPT ![e] = [exec[e] EXCEPT !.pc = "finishing", !.saw = "absent"]]
        BY <3>2, <1>t DEF EvidenceWrite
      <4> QED  BY <4>1 DEF Statuses
    <3> QED  BY <1>17, <3>1, <3>2
  <2> DEFINE x == [exec[e] EXCEPT !.pc = pc, !.saw = st]
  <2>3. x \in ExecutorState /\ x.pc = pc /\ x.job = j /\ x.number = exec[e].number
    BY <1>p, <2>1 DEF ExecutorState
  <2>4. exec' = [exec EXCEPT ![e] = x]
    BY <2>2
  <2> HIDE DEF x
  <2>5. JobsTypeOK'
    BY <1>17, <1>t, <1>u, <2>1, StatusTyped, ExecutorTypes DEF EvidenceRead, EvidenceWrite, JobOf
  <2>6. Kept
    BY <1>17, <1>t DEF EvidenceRead, EvidenceWrite
  <2> QED  BY <2>1, <2>3, <2>4, <2>5, <2>6, ExecutorPlaced
<1>16. CASE Finish(e)
  <2>1. j \in Jobs
    BY <1>16, ExecutorTypes DEF Finish
  <2>2. JobsTypeOK'
    <3> DEFINE f == [n \in Numbers |-> IF n \in exec[e].owed THEN "ended" ELSE jobs[j].records[n]]
    <3>1. f \in [Numbers -> AttemptStatuses]
      BY <2>1, RecordTypes DEF AttemptStatuses
    <3>2. jobs' = [jobs EXCEPT ![j].records = f]
      BY <1>16 DEF Finish, JobOf
    <3> HIDE DEF f
    <3> QED  BY <2>1, <3>1, <3>2, RecordsTyped
  <2> QED
    BY <1>16, <1>t, <2>2, IdleTyped, ExecutorPlaced DEF Finish, IdleExecutor
<1> QED
  BY <1>1, <1>2, <1>3, <1>4, <1>5, <1>6, <1>7, <1>8, <1>9, <1>10, <1>11, <1>12, <1>13, <1>14,
     <1>15, <1>16, <1>17 DEF RunStep

-----------------------------------------------------------------------------
ThreadsTyped == thread \in [Threads -> ThreadState] /\ ThreadBound
LoadersTyped == loader \in [Recoverers -> LoaderState] /\ LoaderBound
JournalsTyped == journal \in [Jobs -> [Submissions -> JournalRecord]]
ToldTyped == told \in [Jobs -> [Submissions -> SUBSET {"accepted", "rejected"}]]

LEMMA ServiceParts ==
  ASSUME TInv
  PROVE  /\ JobsTypeOK /\ ThreadsTyped /\ LoadersTyped /\ JournalsTyped /\ ToldTyped
         /\ task \in {"todo", "done"} /\ publisher \in Threads \cup {NoThread}
         /\ crashes \in 0..MaxCrashes
  BY DEF TInv, TypeOK, ServiceTypeOK, ThreadsTyped, LoadersTyped, JournalsTyped, ToldTyped

LEMMA ThreadPlaced ==
  ASSUME TInv, NEW t \in Threads, NEW x \in ThreadState,
         x.pc # "idle" => x.job \in Jobs /\ x.sub \in Submissions,
         thread' = [thread EXCEPT ![t] = x]
  PROVE  ThreadsTyped'
  BY ServiceParts DEF ThreadsTyped, ThreadBound

LEMMA ThreadMoves ==
  ASSUME TInv, NEW t \in Threads, NEW pc \in ThreadPcs, thread[t].pc # "idle", Goto(t, pc)
  PROVE  ThreadsTyped'
<1> DEFINE x == [thread[t] EXCEPT !.pc = pc]
<1>1. x \in ThreadState /\ x.job = thread[t].job /\ x.sub = thread[t].sub
  BY ThreadTypes DEF ThreadState
<1>2. thread' = [thread EXCEPT ![t] = x]
  BY DEF Goto
<1> HIDE DEF x
<1> QED
  BY <1>1, <1>2, ThreadTypes, ThreadPlaced

LEMMA NoThreadTyped == NoThreadState \in ThreadState /\ NoThreadState.pc = "idle"
  BY NoAnswersTyped DEF NoThreadState, ThreadState, ThreadPcs, Statuses

LEMMA ThreadEnds ==
  ASSUME TInv, NEW t \in Threads, Done(t)
  PROVE  ThreadsTyped'
  BY NoThreadTyped, ThreadPlaced DEF Done

LEMMA AnswerTold ==
  ASSUME TInv, NEW j \in Jobs, NEW s \in Submissions, NEW a \in {"accepted", "rejected"},
         Tells(j, s, a)
  PROVE  ToldTyped'
<1>1. told \in [Jobs -> [Submissions -> SUBSET {"accepted", "rejected"}]]
  BY ServiceParts DEF ToldTyped
<1>2. told[j] \in [Submissions -> SUBSET {"accepted", "rejected"}]
  BY <1>1
<1> DEFINE new == [told[j] EXCEPT ![s] = @ \cup {a}]
<1>3. new \in [Submissions -> SUBSET {"accepted", "rejected"}]
  BY <1>2
<1>4. told' = [told EXCEPT ![j] = new]
  BY <1>1 DEF Tells
<1> HIDE DEF new
<1> QED
  BY <1>1, <1>3, <1>4 DEF ToldTyped

LEMMA AnswersExtended ==
  ASSUME NEW a \in [Submissions -> Answers], NEW s \in Submissions, NEW v \in {"accepted", "rejected"}
  PROVE  [a EXCEPT ![s] = v] \in [Submissions -> Answers]
  BY DEF Answers

LEMMA JournalStatusSet ==
  ASSUME TInv, NEW j \in Jobs, NEW s \in Submissions, NEW st \in JournalStatuses,
         JournalSet(j, s, st)
  PROVE  JournalsTyped'
<1>1. journal \in [Jobs -> [Submissions -> JournalRecord]]
  BY ServiceParts DEF JournalsTyped
<1>2. journal[j] \in [Submissions -> JournalRecord] /\ journal[j][s] \in JournalRecord
  BY <1>1
<1> DEFINE x == [journal[j][s] EXCEPT !.status = st]
<1>3. x \in JournalRecord
  BY <1>2 DEF JournalRecord
<1>4. journal' = [journal EXCEPT ![j] = [journal[j] EXCEPT ![s] = x]]
  BY <1>1, <1>2 DEF JournalSet
<1> HIDE DEF x
<1> QED
  BY <1>1, <1>2, <1>3, <1>4 DEF JournalsTyped

(* The writes that change the status together with the answers.             *)
LEMMA AnswerWritten ==
  ASSUME TInv, NEW j \in Jobs, NEW st \in Statuses, NEW ready \in BOOLEAN,
         NEW a \in [Submissions -> Answers],
         \/ jobs' = [jobs EXCEPT ![j].status = st, ![j].repair_ready = ready, ![j].answers = a]
         \/ jobs' = [jobs EXCEPT ![j].status = st, ![j].answers = a]
  PROVE  JobsTypeOK'
<1>1. JobsTypeOK /\ jobs[j] \in JobRecord
  BY ServiceParts, RecordTypes
<1>2. [jobs[j] EXCEPT !.status = st, !.repair_ready = ready, !.answers = a] \in JobRecord
  BY <1>1 DEF JobRecord
<1>3. [jobs[j] EXCEPT !.status = st, !.answers = a] \in JobRecord
  BY <1>1 DEF JobRecord
<1> QED
  BY <1>1, <1>2, <1>3 DEF JobsTypeOK

ServiceTyped == JobsTypeOK /\ ServiceTypeOK /\ ThreadBound /\ LoaderBound

LEMMA ServiceWhole ==
  ASSUME JobsTypeOK', ThreadsTyped', LoadersTyped', JournalsTyped', ToldTyped',
         task' \in {"todo", "done"}, publisher' \in Threads \cup {NoThread},
         crashes' \in 0..MaxCrashes
  PROVE  ServiceTyped'
  BY DEF ServiceTyped, ServiceTypeOK, ThreadsTyped, LoadersTyped, JournalsTyped, ToldTyped

LEMMA ThreadStepTyped ==
  ASSUME TInv, NEW t \in Threads, ThreadStep(t)
  PROVE  ServiceTyped'
<1> DEFINE j == thread[t].job
           s == thread[t].sub
<1>t. /\ JobsTypeOK /\ ThreadsTyped /\ LoadersTyped /\ JournalsTyped /\ ToldTyped
      /\ task \in {"todo", "done"} /\ publisher \in Threads \cup {NoThread}
      /\ crashes \in 0..MaxCrashes
  BY ServiceParts
<1>a. thread[t].pc # "idle" /\ j \in Jobs /\ s \in Submissions
  <2>1. thread[t].pc # "idle"
    BY DEF ThreadStep, MarkSubmitted, CaptureRead, CaptureWrite, CaptureFails, RejectCapture,
           Verify, RecordVerdict, IgnoreRejection, RejectRead, RejectWrite, Prepare, ApplyEffects,
           ApplyFails, CommitJournal, MarkFailed, MarkAccepted, At
  <2> QED  BY <2>1, ThreadTypes
<1>b. /\ jobs[j].status \in Statuses /\ jobs[j].answers \in [Submissions -> Answers]
      /\ jobs[j].repairs \in Nat
  BY <1>a, RecordTypes
<1>c. /\ thread[t] \in ThreadState /\ thread[t].saw \in Statuses
      /\ thread[t].answers \in [Submissions -> Answers]
  BY ThreadTypes
<1>p. ThreadPcs = {"idle", "marking", "capturing", "capture_write", "capture_reject",
              "verifying", "verify_write", "rejecting", "reject_write",
              "publishing", "applying", "committing", "failing", "accepting"}
  BY DEF ThreadPcs
<1>u. /\ UNCHANGED jobs => JobsTypeOK'
      /\ UNCHANGED loader => LoadersTyped'
      /\ UNCHANGED journal => JournalsTyped'
      /\ UNCHANGED told => ToldTyped'
  BY <1>t DEF JobsTypeOK, LoadersTyped, LoaderBound, JournalsTyped, ToldTyped
<1> HIDE DEF j, s
<1>1. CASE MarkSubmitted(t)
  <2>1. JobsTypeOK'
    BY <1>1, <1>a, <1>t, StatusTyped DEF MarkSubmitted, Statuses, j
  <2>2. ThreadsTyped'
    BY <1>1, <1>a, <1>p, ThreadMoves DEF MarkSubmitted
  <2> QED  BY <1>1, <2>1, <2>2, <1>t, <1>u, ServiceWhole DEF MarkSubmitted
<1>2. CASE CaptureRead(t)
  <2> DEFINE x == [thread[t] EXCEPT !.pc = "capture_write", !.saw = Status(thread[t].job)]
  <2>1. x \in ThreadState /\ x.job = j /\ x.sub = s
    BY <1>b, <1>c, <1>p DEF ThreadState, Status, j, s
  <2>2. thread' = [thread EXCEPT ![t] = x]
    BY <1>2 DEF CaptureRead
  <2> HIDE DEF x
  <2>3. ThreadsTyped'
    BY <2>1, <2>2, <1>a, ThreadPlaced
  <2> QED  BY <1>2, <2>3, <1>t, <1>u, ServiceWhole DEF CaptureRead
<1>3. CASE CaptureWrite(t)
  <2> DEFINE x == [thread[t] EXCEPT !.pc = "verifying", !.saw = "absent"]
  <2>1. x \in ThreadState /\ x.job = j /\ x.sub = s
    BY <1>c, <1>p DEF ThreadState, Statuses, j, s
  <2>2. thread' = [thread EXCEPT ![t] = x]
    BY <1>3 DEF CaptureWrite
  <2> HIDE DEF x
  <2>3. ThreadsTyped'
    BY <2>1, <2>2, <1>a, ThreadPlaced
  <2>4. JobsTypeOK'
    BY <1>3, <1>a, <1>c, <1>t, StatusTyped DEF CaptureWrite, j
  <2> QED  BY <1>3, <2>3, <2>4, <1>t, <1>u, ServiceWhole DEF CaptureWrite
<1>4. CASE CaptureFails(t)
  <2> DEFINE x == [thread[t] EXCEPT !.pc = "capture_reject", !.answers = jobs[j].answers]
  <2>1. x \in ThreadState /\ x.job = j /\ x.sub = s
    BY <1>b, <1>c, <1>p DEF ThreadState, j, s
  <2>2. thread' = [thread EXCEPT ![t] = x]
    BY <1>4 DEF CaptureFails, j
  <2> HIDE DEF x
  <2>3. ThreadsTyped'
    BY <2>1, <2>2, <1>a, ThreadPlaced
  <2> QED  BY <1>4, <2>3, <1>t, <1>u, ServiceWhole DEF CaptureFails
<1>5. CASE RejectCapture(t)
  <2>1. [thread[t].answers EXCEPT ![s] = "rejected"] \in [Submissions -> Answers]
    BY <1>a, <1>c, AnswersExtended
  <2>2. JobsTypeOK'
    BY <1>5, <2>1, <1>a, AnswerWritten DEF RejectCapture, Statuses, j, s
  <2> QED
    BY <1>5, <2>2, <1>a, <1>t, <1>u, ThreadEnds, AnswerTold, ServiceWhole DEF RejectCapture, j, s
<1>6. CASE Verify(t)
  <2> DEFINE x(v) == [thread[t] EXCEPT !.pc = "verify_write", !.saw = Status(thread[t].job),
                                       !.verdict = v]
  <2>1. PICK v \in {"pass", "fail", "raise"} : thread' = [thread EXCEPT ![t] = x(v)]
    BY <1>6 DEF Verify
  <2>2. x(v) \in ThreadState /\ x(v).job = j /\ x(v).sub = s
    BY <1>b, <1>c, <1>p DEF ThreadState, Status, j, s
  <2> HIDE DEF x
  <2>3. ThreadsTyped'
    BY <2>1, <2>2, <1>a, ThreadPlaced
  <2> QED  BY <1>6, <2>3, <1>t, <1>u, ServiceWhole DEF Verify
<1>7. CASE RecordVerdict(t)
  <2>1. JobsTypeOK'
    BY <1>7, <1>a, <1>c, <1>t, StatusTyped DEF RecordVerdict, j
  <2>2. ThreadsTyped'
    <3> DEFINE x == [thread[t] EXCEPT !.pc = "rejecting", !.saw = "absent", !.answers = NoAnswers]
               y == [thread[t] EXCEPT !.pc = "publishing", !.saw = "absent"]
    <3>0. /\ thread[t] \in ThreadState
          /\ "rejecting" \in ThreadPcs /\ "publishing" \in ThreadPcs /\ "absent" \in Statuses
      BY <1>c, <1>p DEF Statuses
    <3>1. x \in ThreadState /\ x.job = j /\ x.sub = s
      BY ONLY <3>0, NoAnswersTyped DEF ThreadState, j, s
    <3>2. y \in ThreadState /\ y.job = j /\ y.sub = s
      BY ONLY <3>0 DEF ThreadState, j, s
    <3>3. Done(t) \/ thread' = [thread EXCEPT ![t] = x] \/ thread' = [thread EXCEPT ![t] = y]
      BY <1>7 DEF RecordVerdict
    <3> HIDE DEF x, y
    <3> QED  BY <3>1, <3>2, <3>3, <1>a, ThreadEnds, ThreadPlaced
  <2> QED  BY <1>7, <2>1, <2>2, <1>t, <1>u, ServiceWhole DEF RecordVerdict
<1>8. CASE IgnoreRejection(t)
  BY <1>8, <1>t, <1>u, ThreadEnds, ServiceWhole DEF IgnoreRejection
<1>9. CASE RejectRead(t)
  <2> DEFINE x == [thread[t] EXCEPT !.pc = "reject_write", !.answers = jobs[j].answers,
                                    !.repairs = jobs[j].repairs]
  <2>1. x \in ThreadState /\ x.job = j /\ x.sub = s
    BY <1>b, <1>c, <1>p DEF ThreadState, j, s
  <2>2. thread' = [thread EXCEPT ![t] = x]
    BY <1>9 DEF RejectRead, j
  <2> HIDE DEF x
  <2>3. ThreadsTyped'
    BY <2>1, <2>2, <1>a, ThreadPlaced
  <2> QED  BY <1>9, <2>3, <1>t, <1>u, ServiceWhole DEF RejectRead
<1>10. CASE RejectWrite(t)
  <2>1. [thread[t].answers EXCEPT ![s] = "rejected"] \in [Submissions -> Answers]
    BY <1>a, <1>c, AnswersExtended
  <2>2. PICK ready \in BOOLEAN : jobs' = [jobs EXCEPT
            ![j].status = IF ready THEN "completion_rejected" ELSE "failed",
            ![j].repair_ready = ready,
            ![j].answers = [thread[t].answers EXCEPT ![s] = "rejected"]]
    BY <1>10 DEF RejectWrite, j, s
  <2> DEFINE st == IF ready THEN "completion_rejected" ELSE "failed"
  <2>3. st \in Statuses
    BY DEF Statuses
  <2> HIDE DEF st
  <2>4. jobs' = [jobs EXCEPT ![j].status = st, ![j].repair_ready = ready,
            ![j].answers = [thread[t].answers EXCEPT ![s] = "rejected"]]
    BY <2>2 DEF st
  <2>5. JobsTypeOK'
    BY <2>1, <2>3, <2>4, <1>a, AnswerWritten
  <2> QED
    BY <1>10, <2>5, <1>a, <1>t, <1>u, ThreadEnds, AnswerTold, ServiceWhole DEF RejectWrite, j, s
<1>11. CASE Prepare(t)
  <2> DEFINE a == [thread[t].answers EXCEPT ![s] = "accepted"]
             x == [status |-> "prepared", answers |-> a]
  <2>1. a \in [Submissions -> Answers]
    BY <1>a, <1>c, AnswersExtended
  <2> HIDE DEF a
  <2>2. x \in JournalRecord
    BY <2>1 DEF JournalRecord, JournalStatuses
  <2>3. journal' = [journal EXCEPT ![j][s] = x]
    BY <1>11 DEF Prepare, j, s, a
  <2> HIDE DEF x
  <2>4. JournalsTyped'
    BY <2>2, <2>3, <1>a, <1>t DEF JournalsTyped
  <2>5. ThreadsTyped'
    BY <1>11, <1>a, <1>p, ThreadMoves DEF Prepare
  <2> QED  BY <1>11, <2>4, <2>5, <1>t, <1>u, ServiceWhole DEF Prepare
<1>12. CASE ApplyEffects(t)
  <2>1. ThreadsTyped'
    BY <1>12, <1>a, <1>p, ThreadMoves DEF ApplyEffects
  <2> QED  BY <1>12, <2>1, <1>t, <1>u, ServiceWhole DEF ApplyEffects
<1>13. CASE ApplyFails(t)
  <2>1. ThreadsTyped'
    BY <1>13, <1>a, <1>p, ThreadMoves DEF ApplyFails
  <2>2. JournalsTyped'
    BY <1>13, <1>a, JournalStatusSet DEF ApplyFails, JournalStatuses, j, s
  <2> QED  BY <1>13, <2>1, <2>2, <1>t, <1>u, ServiceWhole DEF ApplyFails
<1>14. CASE CommitJournal(t)
  <2>1. ThreadsTyped'
    BY <1>14, <1>a, <1>p, ThreadMoves DEF CommitJournal
  <2>2. JournalsTyped'
    BY <1>14, <1>a, JournalStatusSet DEF CommitJournal, JournalStatuses, j, s
  <2> QED  BY <1>14, <2>1, <2>2, <1>t, <1>u, ServiceWhole DEF CommitJournal
<1>15. CASE MarkFailed(t)
  <2>1. JobsTypeOK'
    BY <1>15, <1>a, <1>t, StatusTyped DEF MarkFailed, Statuses, j
  <2> QED  BY <1>15, <2>1, <1>t, <1>u, ThreadEnds, ServiceWhole DEF MarkFailed
<1>16. CASE MarkAccepted(t)
  <2>1. [thread[t].answers EXCEPT ![s] = "accepted"] \in [Submissions -> Answers]
    BY <1>a, <1>c, AnswersExtended
  <2>2. JobsTypeOK'
    BY <1>16, <2>1, <1>a, AnswerWritten DEF MarkAccepted, Statuses, j, s
  <2> QED
    BY <1>16, <2>2, <1>a, <1>t, <1>u, ThreadEnds, AnswerTold, ServiceWhole DEF MarkAccepted, j, s
<1> QED
  BY <1>1, <1>2, <1>3, <1>4, <1>5, <1>6, <1>7, <1>8, <1>9, <1>10, <1>11, <1>12, <1>13, <1>14,
     <1>15, <1>16 DEF ThreadStep

LEMMA ReceiveTyped ==
  ASSUME TInv, NEW t \in Threads, NEW j \in Jobs, NEW s \in Submissions, Receive(t, j, s)
  PROVE  ServiceTyped'
<1>t. /\ JobsTypeOK /\ ThreadsTyped /\ LoadersTyped /\ JournalsTyped /\ ToldTyped
      /\ task \in {"todo", "done"} /\ publisher \in Threads \cup {NoThread}
      /\ crashes \in 0..MaxCrashes
  BY ServiceParts
<1>b. jobs[j].answers \in [Submissions -> Answers]
  BY RecordTypes
<1>u. /\ UNCHANGED jobs => JobsTypeOK'
      /\ UNCHANGED loader => LoadersTyped'
      /\ UNCHANGED journal => JournalsTyped'
      /\ UNCHANGED told => ToldTyped'
      /\ UNCHANGED thread => ThreadsTyped'
  BY <1>t DEF JobsTypeOK, LoadersTyped, LoaderBound, JournalsTyped, ToldTyped, ThreadsTyped,
              ThreadBound
<1>1. CASE ReplayAnswer(t, j, s)
  <2>1. jobs[j].answers[s] \in {"accepted", "rejected"}
    BY <1>1, <1>b DEF ReplayAnswer, Answers
  <2>2. ToldTyped'
    BY <1>1, <2>1, AnswerTold DEF ReplayAnswer
  <2> QED  BY <1>1, <2>2, <1>t, <1>u, ServiceWhole DEF Receive, ReplayAnswer
<1>2. CASE RepeatAccepted(t, j, s)
  <2>2. ToldTyped'
    BY <1>2, AnswerTold DEF RepeatAccepted
  <2> QED  BY <1>2, <2>2, <1>t, <1>u, ServiceWhole DEF Receive, RepeatAccepted
<1>3. CASE Begin(t, j, s)
  <2> DEFINE x == [NoThreadState EXCEPT !.pc = "marking", !.job = j, !.sub = s,
                                        !.answers = jobs[j].answers]
  <2>1. x \in ThreadState /\ x.job = j /\ x.sub = s
    BY <1>b, NoThreadTyped DEF ThreadState, ThreadPcs
  <2>2. thread' = [thread EXCEPT ![t] = x]
    BY <1>3 DEF Begin
  <2> HIDE DEF x
  <2>3. ThreadsTyped'
    BY <2>1, <2>2, ThreadPlaced
  <2> QED  BY <1>3, <2>3, <1>t, <1>u, ServiceWhole DEF Receive, Begin
<1> QED
  BY <1>1, <1>2, <1>3 DEF Receive

LEMMA LoaderStepTyped ==
  ASSUME TInv, NEW r \in Recoverers, LoaderStep(r)
  PROVE  ServiceTyped'
<1> DEFINE j == loader[r].job
           s == loader[r].sub
<1>t. /\ JobsTypeOK /\ ThreadsTyped /\ LoadersTyped /\ JournalsTyped /\ ToldTyped
      /\ task \in {"todo", "done"} /\ publisher \in Threads \cup {NoThread}
      /\ crashes \in 0..MaxCrashes
  BY ServiceParts
<1>u. /\ UNCHANGED jobs => JobsTypeOK'
      /\ UNCHANGED journal => JournalsTyped'
      /\ UNCHANGED told => ToldTyped'
      /\ UNCHANGED thread => ThreadsTyped'
  BY <1>t DEF JobsTypeOK, JournalsTyped, ToldTyped, ThreadsTyped, ThreadBound
<1>c. loader[r] \in LoaderState /\ (loader[r].pc # "idle" => j \in Jobs /\ s \in Submissions)
  BY LoaderTypes
<1>l. \A x \in LoaderState :
        /\ x.pc # "idle" => x.job \in Jobs /\ x.sub \in Submissions
        /\ loader' = [loader EXCEPT ![r] = x]
        => LoadersTyped'
  BY <1>t DEF LoadersTyped, LoaderBound
<1>m. \A pc \in {"applying", "committing", "settling"} :
        loader[r].pc # "idle" /\ loader' = [loader EXCEPT ![r].pc = pc] => LoadersTyped'
  <2> TAKE pc \in {"applying", "committing", "settling"}
  <2> DEFINE x == [loader[r] EXCEPT !.pc = pc]
  <2>1. x \in LoaderState /\ x.job = j /\ x.sub = s
    BY <1>c DEF LoaderState
  <2> HIDE DEF x
  <2>2. loader[r].pc # "idle" /\ loader' = [loader EXCEPT ![r] = x] => LoadersTyped'
    BY <2>1, <1>c, <1>l
  <2> QED  BY <2>2 DEF x
<1>n. NoLoaderState \in LoaderState /\ NoLoaderState.pc = "idle"
  BY DEF NoLoaderState, LoaderState
<1> HIDE DEF j, s
<1>1. ASSUME NEW k \in Jobs, NEW u \in Submissions, RecoverPick(r, k, u) PROVE ServiceTyped'
  <2> DEFINE x == [pc |-> IF journal[k][u].status = "committed" THEN "settling" ELSE "applying",
                   job |-> k, sub |-> u]
  <2>1. x \in LoaderState /\ x.job = k /\ x.sub = u
    BY DEF LoaderState
  <2>2. loader' = [loader EXCEPT ![r] = x]
    BY <1>1 DEF RecoverPick
  <2> HIDE DEF x
  <2>3. LoadersTyped'
    BY <2>1, <2>2, <1>l
  <2> QED  BY <1>1, <2>3, <1>t, <1>u, ServiceWhole DEF RecoverPick
<1>2. CASE RecoverApply(r)
  BY <1>2, <1>m, <1>t, <1>u, ServiceWhole DEF RecoverApply
<1>3. CASE RecoverCommit(r)
  <2>1. JournalsTyped'
    BY <1>3, <1>c, JournalStatusSet DEF RecoverCommit, JournalStatuses, j, s
  <2> QED  BY <1>3, <2>1, <1>m, <1>t, <1>u, ServiceWhole DEF RecoverCommit
<1>4. CASE RecoverSettle(r)
  <2>1. j \in Jobs /\ s \in Submissions
    BY <1>4, <1>c DEF RecoverSettle
  <2>2. journal[j][s].answers \in [Submissions -> Answers]
    BY <2>1, <1>t DEF JournalsTyped, JournalRecord
  <2>3. UNCHANGED jobs \/ jobs' = [jobs EXCEPT ![j].status = "accepted",
                                              ![j].answers = journal[j][s].answers]
    BY <1>4 DEF RecoverSettle, j, s
  <2>4. JobsTypeOK'
    BY <2>1, <2>2, <2>3, <1>u, AnswerWritten DEF Statuses
  <2> QED  BY <1>4, <2>4, <1>l, <1>n, <1>t, <1>u, ServiceWhole DEF RecoverSettle
<1>5. CASE CrashLoader(r)
  <2>1. crashes' \in 0..MaxCrashes
    BY <1>5, <1>t, MaxCrashesAssumption DEF CrashLoader
  <2> QED  BY <1>5, <2>1, <1>l, <1>n, <1>t, <1>u, ServiceWhole DEF CrashLoader
<1> QED
  BY <1>1, <1>2, <1>3, <1>4, <1>5 DEF LoaderStep

-----------------------------------------------------------------------------
LEMMA ReconciledTyped ==
  ASSUME NEW r \in JobRecord
  PROVE  Reconciled(r) \in JobRecord
<1>1. Settled(r.records) \in [Numbers -> AttemptStatuses]
  BY DEF JobRecord, Settled, AttemptStatuses
<1> QED
  BY <1>1 DEF Reconciled, JobRecord, Statuses

LEMMA TInvParts == TInv <=>
    /\ JobsTypeOK
    /\ ExecutorTypeOK /\ ExecutorBound
    /\ ServiceTypeOK /\ ThreadBound /\ LoaderBound
    /\ host \in [Threads -> Executors \cup {NoExecutor}]
  BY DEF TInv, TypeOK

LEMMA TInvNext ==
  ASSUME JobsTypeOK', ExecutorTypeOK', ExecutorBound', ServiceTypeOK', ThreadBound', LoaderBound',
         host' \in [Threads -> Executors \cup {NoExecutor}]
  PROVE  TInv'
  BY DEF TInv, TypeOK

LEMMA EndpointDiesTyped ==
  ASSUME TInv, NEW e, EndpointDies(e), UNCHANGED <<task, journal, loader, told>>,
         crashes' \in 0..MaxCrashes
  PROVE  ServiceTypeOK' /\ ThreadBound' /\ LoaderBound'
         /\ host' \in [Threads -> Executors \cup {NoExecutor}]
<1>1. ThreadsTyped'
  BY ServiceParts, NoThreadTyped DEF EndpointDies, ThreadsTyped, ThreadBound
<1>2. publisher' \in Threads \cup {NoThread}
  BY ServiceParts DEF EndpointDies
<1>3. host' \in [Threads -> Executors \cup {NoExecutor}]
  BY DEF EndpointDies, TInv, TypeOK
<1> QED
  BY <1>1, <1>2, <1>3, ServiceParts
  DEF ServiceTypeOK, ThreadsTyped, LoadersTyped, JournalsTyped, ToldTyped, LoaderBound

LEMMA ExecutorDiesTyped ==
  ASSUME TInv, NEW e \in Executors, NEW pc \in {"idle", "down"}, ExecutorDies(e, pc),
         alive' \subseteq alive, UNCHANGED launches
  PROVE  ExecutorTypeOK' /\ ExecutorBound'
<1> DEFINE x == [IdleExecutor EXCEPT !.pc = pc]
<1>1. x \in ExecutorState /\ x.pc = pc
  BY IdleTyped DEF ExecutorState, ExecutorPcs
<1>2. exec' = [exec EXCEPT ![e] = x]
  BY DEF ExecutorDies
<1> HIDE DEF x
<1>3. claim' \in [Jobs -> Executors \cup {NoExecutor}] /\ alive' \subseteq Jobs /\ launches' \in Nat
  BY DEF TInv, TypeOK, ExecutorTypeOK, ExecutorDies
<1> QED
  BY <1>1, <1>2, <1>3, ExecutorPlaced

LEMMA StepTyped ==
  ASSUME TInv, [Next]_vars
  PROVE  TInv'
<1>t. /\ JobsTypeOK /\ ExecutorTypeOK /\ ExecutorBound
      /\ ServiceTypeOK /\ ThreadBound /\ LoaderBound
      /\ host \in [Threads -> Executors \cup {NoExecutor}]
      /\ claim \in [Jobs -> Executors \cup {NoExecutor}] /\ alive \subseteq Jobs
      /\ launches \in Nat
  BY TInvParts DEF ExecutorTypeOK
<1>j. UNCHANGED jobs => JobsTypeOK'
  BY <1>t DEF JobsTypeOK
<1>e. UNCHANGED executorVars => ExecutorTypeOK' /\ ExecutorBound'
  BY <1>t DEF ExecutorTypeOK, ExecutorBound, executorVars
<1>s. UNCHANGED serviceVars => ServiceTypeOK' /\ ThreadBound' /\ LoaderBound'
  BY <1>t DEF ServiceTypeOK, ThreadBound, LoaderBound, serviceVars
<1>d. \A d \in Daemons : d \in Executors
  BY DaemonsAssumption
<1>1. ASSUME NEW d \in Daemons, NEW j \in Jobs, ScheduleRepair(d, j) \/ ScheduleDecide(d, j)
      PROVE  TInv'
  <2>1. PICK pc \in {"handed", "creating"} :
            exec' = [exec EXCEPT ![d] = [IdleExecutor EXCEPT !.pc = pc, !.job = j]]
    BY <1>1 DEF ScheduleRepair, ScheduleDecide
  <2> DEFINE x == [IdleExecutor EXCEPT !.pc = pc, !.job = j]
  <2>p. pc \in ExecutorPcs
    BY DEF ExecutorPcs
  <2>2. x \in ExecutorState /\ x.pc = pc /\ x.job = j
    BY <2>p, IdlePlaced
  <2>3. exec' = [exec EXCEPT ![d] = x]
    BY <2>1
  <2> HIDE DEF x
  <2>4. UNCHANGED <<jobs, claim, alive, launches, host>> /\ UNCHANGED serviceVars
    BY <1>1 DEF ScheduleRepair, ScheduleDecide
  <2>5. ExecutorTypeOK' /\ ExecutorBound'
    BY <2>2, <2>3, <2>4, <1>t, <1>d, ExecutorPlaced
  <2> QED  BY <2>4, <2>5, <1>t, <1>j, <1>s, TInvNext
<1>2. ASSUME NEW d \in Daemons, ScheduleCreate(d) PROVE TInv'
  <2>1. exec[d].pc = "creating" /\ exec[d].job \in Jobs
    BY <1>2, <1>d, ExecutorTypes DEF ScheduleCreate, On
  <2>2. UNCHANGED <<claim, alive, launches, host>> /\ UNCHANGED serviceVars
    BY <1>2 DEF ScheduleCreate
  <2>3. ExecutorTypeOK' /\ ExecutorBound'
    <3>1. CASE exec' = [exec EXCEPT ![d].pc = "handed"]
      BY <3>1, <2>1, <2>2, <1>t, <1>d, ExecutorMoves DEF ExecutorPcs
    <3>2. CASE exec' = [exec EXCEPT ![d] = IdleExecutor]
      BY <3>2, <2>2, <1>t, <1>d, IdleTyped, ExecutorPlaced DEF IdleExecutor
    <3> QED  BY <1>2, <3>1, <3>2 DEF ScheduleCreate
  <2>4. JobsTypeOK'
    <3>1. UNCHANGED jobs \/ UpdateStatus(exec[d].job, "pending")
      BY <1>2 DEF ScheduleCreate, CreateJob, UpdateStatus, JobOf
    <3> QED  BY <3>1, <2>1, <1>t, <1>j, StatusTyped DEF Statuses
  <2> QED  BY <2>2, <2>3, <2>4, <1>t, <1>s, TInvNext
<1>3. ASSUME NEW d \in Daemons, RuntimeStart(d) PROVE TInv'
  <2>1. UNCHANGED <<claim, alive, launches, host>> /\ UNCHANGED serviceVars
    BY <1>3 DEF RuntimeStart
  <2>2. JobsTypeOK'
    BY <1>3, <1>t, ReconciledTyped DEF RuntimeStart, JobsTypeOK
  <2>3. ExecutorTypeOK' /\ ExecutorBound'
    BY <1>3, <2>1, <1>t, <1>d, IdleTyped, ExecutorPlaced DEF RuntimeStart, IdleExecutor
  <2> QED  BY <2>1, <2>2, <2>3, <1>t, <1>s, TInvNext
<1>4. ASSUME NEW d \in Daemons, RuntimeStop(d) PROVE TInv'
  <2>1. crashes' \in 0..MaxCrashes
    BY <1>4, MaxCrashesAssumption, ServiceParts DEF RuntimeStop
  <2>2. JobsTypeOK'
    BY <1>4, <1>t, ReconciledTyped DEF RuntimeStop, JobsTypeOK
  <2>3. ExecutorTypeOK' /\ ExecutorBound'
    BY <1>4, <1>d, ExecutorDiesTyped DEF RuntimeStop
  <2>4. ServiceTypeOK' /\ ThreadBound' /\ LoaderBound'
        /\ host' \in [Threads -> Executors \cup {NoExecutor}]
    BY <1>4, <2>1, EndpointDiesTyped DEF RuntimeStop
  <2> QED  BY <2>2, <2>3, <2>4, TInvNext
<1>5. ASSUME NEW e \in Executors, RunJob(e) PROVE TInv'
  <2>1. JobsTypeOK' /\ ExecutorTypeOK' /\ ExecutorBound'
    BY <1>5, RunStepTyped DEF RunJob
  <2>2. UNCHANGED <<task, journal, loader, told>> /\ UNCHANGED crashes
        /\ crashes' \in 0..MaxCrashes
    BY <1>5, ServiceParts DEF RunJob
  <2>3. CASE EndpointDies(e)
    BY <2>1, <2>2, <2>3, EndpointDiesTyped, TInvNext
  <2>4. CASE UNCHANGED <<thread, publisher, host>>
    BY <2>1, <2>2, <2>4, <1>t, <1>s, TInvNext DEF serviceVars
  <2> QED  BY <1>5, <2>3, <2>4 DEF RunJob
<1>6. ASSUME NEW e \in Executors, Crash(e) PROVE TInv'
  <2>1. crashes' \in 0..MaxCrashes
    BY <1>6, MaxCrashesAssumption, ServiceParts DEF Crash
  <2>2. UNCHANGED jobs /\ UNCHANGED <<task, journal, loader, told>> /\ UNCHANGED <<alive, launches>>
    BY <1>6 DEF Crash
  <2>3. PICK pc \in {"idle", "down"} : ExecutorDies(e, pc)
    BY <1>6 DEF Crash
  <2>4. ExecutorTypeOK' /\ ExecutorBound'
    BY <2>2, <2>3, ExecutorDiesTyped
  <2>5. ServiceTypeOK' /\ ThreadBound' /\ LoaderBound'
        /\ host' \in [Threads -> Executors \cup {NoExecutor}]
    BY <1>6, <2>1, <2>2, EndpointDiesTyped DEF Crash
  <2> QED  BY <2>2, <2>4, <2>5, <1>j, TInvNext
<1>7. ASSUME NEW t \in Threads, Serve(t) PROVE TInv'
  <2>1. ServiceTyped'
    BY <1>7, ThreadStepTyped DEF Serve
  <2>2. UNCHANGED executorVars /\ host' \in [Threads -> Executors \cup {NoExecutor}]
    BY <1>7, <1>t DEF Serve
  <2> QED  BY <2>1, <2>2, <1>e, TInvNext DEF ServiceTyped
<1>8. ASSUME NEW t \in Threads, NEW j \in Jobs, NEW s \in Submissions, Post(t, j, s) PROVE TInv'
  <2>1. ServiceTyped'
    BY <1>8, ReceiveTyped DEF Post
  <2>2. UNCHANGED executorVars /\ host' \in [Threads -> Executors \cup {NoExecutor}]
    BY <1>8, <1>t DEF Post
  <2> QED  BY <2>1, <2>2, <1>e, TInvNext DEF ServiceTyped
<1>9. ASSUME NEW r \in Recoverers, LoadContext(r) PROVE TInv'
  BY <1>9, <1>t, <1>e, LoaderStepTyped, TInvNext DEF LoadContext, ServiceTyped
<1>10. ASSUME NEW j \in Jobs, NEW s \in OperatorSets, Operate(j, s) PROVE TInv'
  <2>1. JobsTypeOK'
    BY <1>10, <1>t, OperatorAssumption, StatusTyped DEF Operate, Statuses
  <2> QED  BY <1>10, <2>1, <1>t, <1>e, <1>s, TInvNext DEF Operate
<1>11. ASSUME NEW j \in Jobs, OrphanEnds(j), UNCHANGED host, UNCHANGED serviceVars PROVE TInv'
  <2>1. ExecutorTypeOK' /\ ExecutorBound' /\ UNCHANGED jobs
    BY <1>11, <1>t DEF OrphanEnds, ExecutorTypeOK, ExecutorBound
  <2> QED  BY <1>11, <2>1, <1>t, <1>j, <1>s, TInvNext
<1>12. CASE UNCHANGED vars
  BY <1>12, <1>t, <1>j, <1>e, <1>s, TInvNext DEF vars, executorVars, serviceVars
<1> QED
  BY <1>1, <1>2, <1>3, <1>4, <1>5, <1>6, <1>7, <1>8, <1>9, <1>10, <1>11, <1>12 DEF Next

THEOREM TypedAlways == Spec => []TInv
<1>1. Init => TInv
  BY InitTyped
<1>2. TInv /\ [Next]_vars => TInv'
  BY StepTyped
<1> QED
  BY <1>1, <1>2, PTL DEF Spec

(* Every job record, executor, thread, journal and loader keeps to the       *)
(* values the code gives it, whatever fails, dies or is operated.            *)
THEOREM Typed == Spec => []TypeOK
<1>1. TInv => TypeOK
  BY DEF TInv
<1> QED
  BY <1>1, TypedAlways, PTL

-----------------------------------------------------------------------------
(* The budget of worker starts, for one executor.  An attempt is spent when *)
(* the counter of its job has passed its number; every start spends one     *)
(* before it happens, and whatever is spent has a record, which nothing     *)
(* removes.                                                                 *)
Spent == {a \in Jobs \X Numbers : a[2] <= jobs[a[1]].attempts}
Recorded == {a \in Jobs \X Numbers : a[2] \in AdmittedNumbers(a[1])}

Hot == {"budget", "leasing", "admitting", "marking", "environment", "launching"}

ExecutorWithinBudget(e) ==
    LET j == exec[e].job
        pc == exec[e].pc
    IN  /\ pc = "budget" =>
             exec[e].number = IF jobs[j].attempts < MaxNumber THEN jobs[j].attempts + 1
                              ELSE MaxNumber
        /\ pc \in {"leasing", "admitting", "marking"} => exec[e].number = jobs[j].attempts + 1
        /\ pc \in {"leasing", "admitting"} => Cardinality(Recorded) < MaxTotal
        /\ pc = "marking" => Cardinality(Recorded) <= MaxTotal /\ <<j, exec[e].number>> \in Recorded
        /\ pc \in {"environment", "launching"} => launches < Cardinality(Spent)

BudgetInv ==
    /\ Spent \subseteq Recorded
    /\ launches <= Cardinality(Spent)
    /\ Cardinality(Spent) <= MaxTotal
    /\ \A e \in Executors : ExecutorWithinBudget(e)

OneExecutor == \A e, f \in Executors : e = f

(* What leaves the account as it is.                                        *)
AccountKept ==
    /\ UNCHANGED launches
    /\ \A j \in Jobs :
         /\ jobs'[j].attempts = jobs[j].attempts
         /\ \A n \in Numbers : (jobs'[j].records[n] # "none") = (jobs[j].records[n] # "none")

LEMMA Sizes ==
  /\ IsFiniteSet(Numbers) /\ Cardinality(Numbers) = MaxNumber
  /\ IsFiniteSet(Jobs \X Numbers)
  /\ \A S \in SUBSET (Jobs \X Numbers) : IsFiniteSet(S) /\ Cardinality(S) \in Nat
  /\ \A T \in SUBSET (Jobs \X Numbers) : \A S \in SUBSET T : Cardinality(S) <= Cardinality(T)
<1>1. IsFiniteSet(Numbers) /\ Cardinality(Numbers) = MaxNumber
  BY FS_Interval, MaxNumberAssumption DEF Numbers
<1>2. IsFiniteSet(Jobs \X Numbers)
  BY <1>1, JobsAssumption, FS_Product
<1>3. \A S \in SUBSET (Jobs \X Numbers) : IsFiniteSet(S) /\ Cardinality(S) \in Nat
  BY <1>2, FS_Subset, FS_CardinalityType
<1>4. \A T \in SUBSET (Jobs \X Numbers) : \A S \in SUBSET T : Cardinality(S) <= Cardinality(T)
  BY <1>3, FS_Subset
<1> QED
  BY <1>1, <1>2, <1>3, <1>4

LEMMA AccountSizes ==
  /\ Spent \subseteq Jobs \X Numbers /\ Cardinality(Spent) \in Nat
  /\ Recorded \subseteq Jobs \X Numbers /\ Cardinality(Recorded) \in Nat
  /\ ConsumedAttempts \in Nat /\ Cardinality(Recorded) <= ConsumedAttempts
<1> DEFINE C == {a \in Jobs \X Numbers : a[2] \in Charged(a[1])}
<1>1. Spent \subseteq Jobs \X Numbers /\ Recorded \subseteq Jobs \X Numbers
      /\ C \subseteq Jobs \X Numbers
  BY DEF Spent, Recorded
<1>2. Recorded \subseteq C
  BY DEF Recorded, Charged
<1> HIDE DEF C
<1>3. ConsumedAttempts = Cardinality(C)
  BY DEF ConsumedAttempts, C
<1> QED
  BY <1>1, <1>2, <1>3, Sizes

(* An account with room leaves the next attempt of any job a number.        *)
LEMMA NumberLeft ==
  ASSUME TInv, NEW j \in Jobs, Spent \subseteq Recorded, Cardinality(Recorded) < MaxTotal
  PROVE  jobs[j].attempts < MaxNumber
<1> SUFFICES ASSUME ~ (jobs[j].attempts < MaxNumber) PROVE FALSE
  OBVIOUS
<1>1. jobs[j].attempts = MaxNumber
  BY RecordTypes, MaxNumberAssumption
<1>2. {j} \X Numbers \subseteq Spent
  BY <1>1, MaxNumberAssumption DEF Spent, Numbers
<1>s. IsFiniteSet({j}) /\ Cardinality({j}) = 1
  BY FS_Singleton
<1>n. IsFiniteSet(Numbers) /\ Cardinality(Numbers) = MaxNumber
  BY Sizes
<1>p. Cardinality({j} \X Numbers) = Cardinality({j}) * Cardinality(Numbers)
  BY <1>s, <1>n, FS_Product
<1>3. Cardinality({j} \X Numbers) = 1 * MaxNumber
  BY <1>s, <1>n, <1>p
<1>4. Cardinality({j} \X Numbers) <= Cardinality(Recorded)
  BY <1>2, Sizes, AccountSizes
<1> QED
  BY <1>3, <1>4, MaxTotalAssumption, MaxNumberAssumption, AccountSizes

LEMMA AccountStays ==
  ASSUME AccountKept
  PROVE  Spent' = Spent /\ Recorded' = Recorded /\ launches' = launches
<1>1. \A a \in Jobs \X Numbers : a[1] \in Jobs /\ a[2] \in Numbers
  OBVIOUS
<1>2. Spent' = Spent
  BY <1>1 DEF AccountKept, Spent
<1>3. Recorded' = Recorded
  BY <1>1 DEF AccountKept, Recorded, AdmittedNumbers
<1> QED
  BY <1>2, <1>3 DEF AccountKept

(* A step that neither changes the account nor takes an executor to or      *)
(* within the way to a start.                                               *)
LEMMA BudgetQuiet ==
  ASSUME TInv, BudgetInv, AccountKept,
         \A e \in Executors : exec'[e].pc \in Hot =>
             /\ exec'[e].pc = exec[e].pc /\ exec'[e].job = exec[e].job
             /\ exec'[e].number = exec[e].number
  PROVE  BudgetInv'
<1>1. Spent' = Spent /\ Recorded' = Recorded /\ launches' = launches
  BY AccountStays
<1>2. ASSUME NEW e \in Executors PROVE ExecutorWithinBudget(e)'
  <2>1. CASE exec'[e].pc \in Hot
    <3>1. exec[e].job \in Jobs
      BY <2>1, ExecutorTypes DEF Hot
    <3> QED  BY <1>1, <2>1, <3>1 DEF BudgetInv, ExecutorWithinBudget, AccountKept
  <2>2. CASE exec'[e].pc \notin Hot
    BY <2>2 DEF ExecutorWithinBudget, Hot
  <2> QED  BY <2>1, <2>2
<1> QED
  BY <1>1, <1>2 DEF BudgetInv

LEMMA StatusKeepsAccount ==
  ASSUME TInv, NEW j \in Jobs, NEW s, UpdateStatus(j, s), UNCHANGED launches
  PROVE  AccountKept
  BY DEF TInv, TypeOK, JobsTypeOK, UpdateStatus, AccountKept

LEMMA NothingKeepsAccount ==
  ASSUME UNCHANGED <<jobs, launches>>
  PROVE  AccountKept
  BY DEF AccountKept

LEMMA AnswerKeepsAccount ==
  ASSUME TInv, UNCHANGED launches, NEW j, NEW st, NEW ready, NEW a,
         jobs' = [jobs EXCEPT ![j].status = st, ![j].repair_ready = ready, ![j].answers = a]
  PROVE  AccountKept
<1>1. ASSUME NEW k \in Jobs
      PROVE  jobs'[k].attempts = jobs[k].attempts /\ jobs'[k].records = jobs[k].records
  <2>1. jobs[k] \in JobRecord /\ jobs \in [Jobs -> JobRecord]
    BY RecordTypes, ServiceParts DEF JobsTypeOK
  <2>2. CASE k = j
    BY <2>1, <2>2 DEF JobRecord
  <2>3. CASE k # j
    BY <2>1, <2>3
  <2> QED  BY <2>2, <2>3
<1> QED
  BY <1>1 DEF AccountKept

LEMMA AcceptKeepsAccount ==
  ASSUME TInv, UNCHANGED launches, NEW j, NEW st, NEW a,
         jobs' = [jobs EXCEPT ![j].status = st, ![j].answers = a]
  PROVE  AccountKept
<1>1. ASSUME NEW k \in Jobs
      PROVE  jobs'[k].attempts = jobs[k].attempts /\ jobs'[k].records = jobs[k].records
  <2>1. jobs[k] \in JobRecord /\ jobs \in [Jobs -> JobRecord]
    BY RecordTypes, ServiceParts DEF JobsTypeOK
  <2>2. CASE k = j
    BY <2>1, <2>2 DEF JobRecord
  <2>3. CASE k # j
    BY <2>1, <2>3
  <2> QED  BY <2>2, <2>3
<1> QED
  BY <1>1 DEF AccountKept

LEMMA ServiceKeepsAccount ==
  ASSUME TInv, UNCHANGED launches,
         \/ \E t \in Threads : ThreadStep(t)
         \/ \E r \in Recoverers : LoaderStep(r)
         \/ \E t \in Threads, j \in Jobs, s \in Submissions : Receive(t, j, s)
  PROVE  AccountKept
<1>t. JobsTypeOK
  BY ServiceParts
<1>1. ASSUME NEW t \in Threads, ThreadStep(t) PROVE AccountKept
  <2>1. CASE UNCHANGED jobs
    BY <2>1, NothingKeepsAccount
  <2>2. CASE \E s : UpdateStatus(thread[t].job, s)
    BY <2>2, <1>t DEF JobsTypeOK, UpdateStatus, AccountKept
  <2>3. CASE RejectCapture(t) \/ RejectWrite(t) \/ MarkAccepted(t)
    <3> DEFINE j == thread[t].job
               no == [thread[t].answers EXCEPT ![thread[t].sub] = "rejected"]
               yes == [thread[t].answers EXCEPT ![thread[t].sub] = "accepted"]
    <3>1. CASE RejectCapture(t)
      <4>1. jobs' = [jobs EXCEPT ![j].status = "completion_rejected", ![j].repair_ready = TRUE,
                                 ![j].answers = no]
        BY <3>1 DEF RejectCapture
      <4> HIDE DEF j, no
      <4> QED  BY <4>1, AnswerKeepsAccount
    <3>2. CASE RejectWrite(t)
      <4>1. PICK ready \in BOOLEAN : jobs' = [jobs EXCEPT
               ![j].status = IF ready THEN "completion_rejected" ELSE "failed",
               ![j].repair_ready = ready, ![j].answers = no]
        BY <3>2 DEF RejectWrite
      <4> DEFINE st == IF ready THEN "completion_rejected" ELSE "failed"
      <4>2. jobs' = [jobs EXCEPT ![j].status = st, ![j].repair_ready = ready, ![j].answers = no]
        BY <4>1
      <4> HIDE DEF j, no, st
      <4> QED  BY <4>2, AnswerKeepsAccount
    <3>3. CASE MarkAccepted(t)
      <4>1. jobs' = [jobs EXCEPT ![j].status = "accepted", ![j].answers = yes]
        BY <3>3 DEF MarkAccepted
      <4> HIDE DEF j, yes
      <4> QED  BY <4>1, AcceptKeepsAccount
    <3> QED  BY <2>3, <3>1, <3>2, <3>3
  <2>4. UNCHANGED jobs \/ (\E s : UpdateStatus(thread[t].job, s))
        \/ RejectCapture(t) \/ RejectWrite(t) \/ MarkAccepted(t)
    BY <1>1 DEF ThreadStep, MarkSubmitted, CaptureRead, CaptureWrite, CaptureFails,
           Verify, RecordVerdict, IgnoreRejection, RejectRead, Prepare, ApplyEffects,
           ApplyFails, CommitJournal, MarkFailed
  <2> QED  BY <2>1, <2>2, <2>3, <2>4
<1>2. ASSUME NEW r \in Recoverers, LoaderStep(r) PROVE AccountKept
  <2>1. UNCHANGED jobs \/ jobs' = [jobs EXCEPT ![loader[r].job].status = "accepted",
                  ![loader[r].job].answers = journal[loader[r].job][loader[r].sub].answers]
    BY <1>2 DEF LoaderStep, RecoverPick, RecoverApply, RecoverCommit, RecoverSettle, CrashLoader
  <2>2. CASE UNCHANGED jobs
    BY <2>2, NothingKeepsAccount
  <2>3. CASE ~ UNCHANGED jobs
    <3> DEFINE j == loader[r].job
               a == journal[loader[r].job][loader[r].sub].answers
    <3>1. jobs' = [jobs EXCEPT ![j].status = "accepted", ![j].answers = a]
      BY <2>1, <2>3
    <3> HIDE DEF j, a
    <3> QED  BY <3>1, AcceptKeepsAccount
  <2> QED  BY <2>2, <2>3
<1>3. ASSUME NEW t \in Threads, NEW j \in Jobs, NEW s \in Submissions, Receive(t, j, s)
      PROVE  AccountKept
  BY <1>3, NothingKeepsAccount DEF Receive
<1> QED
  BY <1>1, <1>2, <1>3

LEMMA ReconcilingKeepsAccount ==
  ASSUME TInv, jobs' = [j \in Jobs |-> Reconciled(jobs[j])], UNCHANGED launches
  PROVE  AccountKept
<1>1. ASSUME NEW j \in Jobs
      PROVE  /\ Reconciled(jobs[j]).attempts = jobs[j].attempts
             /\ \A n \in Numbers :
                  (Reconciled(jobs[j]).records[n] # "none") = (jobs[j].records[n] # "none")
  BY <1>1, RecordTypes DEF Reconciled, Settled, JobRecord
<1> QED
  BY <1>1 DEF AccountKept

(* The way of an executor from its claim to the start of a container.       *)
LEMMA BudgetRunStep ==
  ASSUME TInv, BudgetInv, OneExecutor, NEW e \in Executors,
         RunStep(e) \/ \E j \in Jobs : Claim(e, j)
  PROVE  BudgetInv'
<1> DEFINE j == exec[e].job
           n == exec[e].number
<1>t. JobsTypeOK /\ exec \in [Executors -> ExecutorState] /\ launches \in Nat
  BY DEF TInv, TypeOK, ExecutorTypeOK
<1>o. \A f \in Executors : f = e
  BY DEF OneExecutor
<1>c. /\ Cardinality(Spent) \in Nat /\ Cardinality(Recorded) \in Nat
      /\ Spent \subseteq Jobs \X Numbers /\ Recorded \subseteq Jobs \X Numbers
  BY AccountSizes
<1>b. ExecutorWithinBudget(e)
  BY DEF BudgetInv
<1>q. (AccountKept /\ exec'[e].pc \notin Hot) => BudgetInv'
  BY <1>o, BudgetQuiet
<1>k. /\ UNCHANGED <<jobs, launches>> => AccountKept
      /\ \A s : exec[e].job \in Jobs /\ UpdateStatus(exec[e].job, s) /\ UNCHANGED launches
           => AccountKept
  BY NothingKeepsAccount, StatusKeepsAccount
<1>w. ASSUME Spent' \subseteq Recorded', launches' <= Cardinality(Spent'),
             Cardinality(Spent') <= MaxTotal, ExecutorWithinBudget(e)'
      PROVE  BudgetInv'
  BY <1>w, <1>o DEF BudgetInv
<1>1. ASSUME NEW k \in Jobs, Claim(e, k) PROVE BudgetInv'
  <2>1. exec'[e].pc = "loading" /\ UNCHANGED <<jobs, launches>>
    BY <1>1, <1>t DEF Claim, IdleExecutor
  <2> QED  BY <2>1, <1>q, <1>k DEF Hot
<1>2. CASE ClaimRefused(e) \/ LoadTerminal(e) \/ LoadRefused(e) \/ LeaseRefused(e)
           \/ WaitEnds(e) \/ FailWorkerRead(e) \/ Breaks(e) \/ EvidenceSkipped(e)
  <2>1. \/ exec' = [exec EXCEPT ![e] = IdleExecutor]
        \/ \E pc \in {"finishing", "refused", "reading", "fail_write", "broken"} :
              exec' = [exec EXCEPT ![e].pc = pc]
    BY <1>2 DEF ClaimRefused, LoadTerminal, LoadRefused, LeaseRefused, WaitEnds, FailWorkerRead,
       Breaks, EvidenceSkipped, Move
  <2>2. UNCHANGED <<jobs, launches>>
    BY <1>2 DEF ClaimRefused, LoadTerminal, LoadRefused, LeaseRefused, WaitEnds, FailWorkerRead,
       Breaks, EvidenceSkipped
  <2>3. exec'[e].pc \in {"idle", "finishing", "refused", "reading", "fail_write", "broken"}
    BY <2>1, <1>t DEF IdleExecutor, ExecutorState
  <2> QED  BY <2>2, <2>3, <1>q, <1>k DEF Hot
<1>3. CASE ReadOutcome(e) \/ WorkerEnds(e)
  <2>1. \E pc \in {"finishing", "evidence", "failing", "loading", "bound", "waiting", "reading"} :
              exec' = [exec EXCEPT ![e].pc = pc]
    BY <1>3 DEF ReadOutcome, Move, WorkerEnds
  <2>2. UNCHANGED <<jobs, launches>>
    BY <1>3 DEF ReadOutcome, WorkerEnds
  <2>3. exec'[e].pc \in {"finishing", "evidence", "failing", "loading", "bound", "waiting",
                         "reading"}
    BY <2>1, <1>t DEF ExecutorState
  <2> QED  BY <2>2, <2>3, <1>q, <1>k DEF Hot
<1>4. CASE Load(e)
  <2>1. j \in Jobs /\ AccountKept
    BY <1>4, <1>k, ExecutorTypes DEF Load, On
  <2>2. /\ exec'[e].pc = "budget" /\ exec'[e].job = j
        /\ exec'[e].number = IF jobs[j].attempts < MaxNumber THEN jobs[j].attempts + 1
                             ELSE MaxNumber
    BY <1>4, <1>t DEF Load, JobOf, ExecutorState
  <2>3. Spent' = Spent /\ Recorded' = Recorded /\ launches' = launches
    BY <2>1, AccountStays
  <2>4. ExecutorWithinBudget(e)'
    BY <2>1, <2>2 DEF ExecutorWithinBudget, AccountKept
  <2> QED  BY <2>3, <2>4, <1>w DEF BudgetInv
<1>5. CASE CheckBudget(e)
  <2>1. j \in Jobs /\ AccountKept /\ exec[e].pc = "budget"
    BY <1>5, <1>k, ExecutorTypes DEF CheckBudget, On
  <2>2. CASE ~ WithinBudget
    <3>1. exec'[e].pc = "bound"
      BY <1>5, <2>2, <1>t DEF CheckBudget
    <3> QED  BY <3>1, <2>1, <1>q DEF Hot
  <2>3. CASE WithinBudget
    <3>1. exec'[e].pc = "leasing" /\ exec'[e].job = j /\ exec'[e].number = n
      BY <1>5, <2>3, <1>t DEF CheckBudget, ExecutorState
    <3>2. Spent' = Spent /\ Recorded' = Recorded /\ launches' = launches
      BY <2>1, AccountStays
    <3>3. Cardinality(Recorded) < MaxTotal
      BY <2>3, AccountSizes, MaxTotalAssumption DEF WithinBudget
    <3>4. jobs[j].attempts < MaxNumber
      BY <2>1, <3>3, NumberLeft DEF BudgetInv
    <3>5. n = jobs[j].attempts + 1
      BY <2>1, <3>4, <1>b DEF ExecutorWithinBudget
    <3>6. ExecutorWithinBudget(e)'
      BY <2>1, <3>1, <3>2, <3>3, <3>5 DEF ExecutorWithinBudget, AccountKept
    <3> QED  BY <3>2, <3>6, <1>w DEF BudgetInv
  <2> QED  BY <2>2, <2>3
<1>6. CASE Leased(e)
  <2>1. j \in Jobs /\ AccountKept /\ exec[e].pc = "leasing"
    BY <1>6, <1>k, ExecutorTypes DEF Leased, Move, On
  <2>2. exec'[e].pc = "admitting" /\ exec'[e].job = j /\ exec'[e].number = n
    BY <1>6, <1>t DEF Leased, Move, ExecutorState
  <2>3. Spent' = Spent /\ Recorded' = Recorded /\ launches' = launches
    BY <2>1, AccountStays
  <2>4. ExecutorWithinBudget(e)'
    BY <2>1, <2>2, <2>3, <1>b DEF ExecutorWithinBudget, AccountKept
  <2> QED  BY <2>3, <2>4, <1>w DEF BudgetInv
<1>7. CASE AdmitAttempt(e)
  <2>1. j \in Jobs /\ n \in Numbers /\ exec[e].pc = "admitting"
    BY <1>7, ExecutorTypes DEF AdmitAttempt, On
  <2>2. exec'[e].pc = "marking" /\ exec'[e].job = j /\ exec'[e].number = n
    BY <1>7, <1>t DEF AdmitAttempt, ExecutorState
  <2>3. /\ \A k \in Jobs : jobs'[k].attempts = jobs[k].attempts
        /\ \A k \in Jobs : \A i \in Numbers :
             jobs'[k].records[i] = IF k = j /\ i = n THEN "admitted" ELSE jobs[k].records[i]
    BY <1>7, <1>t, <2>1, RecordTypes DEF AdmitAttempt, RecordAttempt, JobOf, JobsTypeOK, JobRecord
  <2>4. Spent' = Spent /\ launches' = launches
    BY <1>7, <2>3 DEF Spent, AdmitAttempt
  <2>5. Recorded' = Recorded \cup {<<j, n>>}
    BY <2>1, <2>3 DEF Recorded, AdmittedNumbers
  <2>a. IsFiniteSet(Recorded)
    BY <1>c, Sizes
  <2>6. Cardinality(Recorded') <= Cardinality(Recorded) + 1
    <3>1. Cardinality(Recorded \cup {<<j, n>>}) = IF <<j, n>> \in Recorded
             THEN Cardinality(Recorded) ELSE Cardinality(Recorded) + 1
      BY <2>a, FS_AddElement
    <3> QED  BY <3>1, <2>5, <1>c
  <2>7. Cardinality(Recorded') \in Nat
    BY <2>1, <2>5, <1>c, Sizes
  <2>8. Cardinality(Recorded) < MaxTotal /\ n = jobs[j].attempts + 1
    BY <1>b, <2>1 DEF ExecutorWithinBudget
  <2>9. ExecutorWithinBudget(e)'
    BY <2>1, <2>2, <2>3, <2>5, <2>6, <2>7, <2>8, <1>c, MaxTotalAssumption
    DEF ExecutorWithinBudget
  <2> QED  BY <2>4, <2>5, <2>9, <1>w DEF BudgetInv
<1>8. CASE MarkRunning(e)
  <2>1. j \in Jobs /\ n \in Numbers /\ exec[e].pc = "marking"
    BY <1>8, ExecutorTypes DEF MarkRunning, Move, On
  <2>2. exec'[e].pc = "environment" /\ launches' = launches
    BY <1>8, <1>t DEF MarkRunning, Move
  <2>3. /\ n = jobs[j].attempts + 1 /\ Cardinality(Recorded) <= MaxTotal
        /\ <<j, n>> \in Recorded
    BY <1>b, <2>1 DEF ExecutorWithinBudget
  <2>4. jobs[j].attempts < MaxNumber
    BY <2>1, <2>3, RecordTypes, MaxNumberAssumption DEF Numbers
  <2>5. /\ \A k \in Jobs : jobs'[k].attempts = IF k = j THEN n ELSE jobs[k].attempts
        /\ \A k \in Jobs : jobs'[k].records = jobs[k].records
    <3> DEFINE new == [jobs[j] EXCEPT
                 !.status = "running",
                 !.attempts = IF @ < MaxNumber THEN @ + 1 ELSE @,
                 !.repair_ready = IF exec[e].repair THEN FALSE ELSE @,
                 !.repairs = IF exec[e].repair THEN exec[e].repairs + 1 ELSE @]
    <3>1. jobs[j] \in JobRecord
      BY <2>1, RecordTypes
    <3>2. new.records = jobs[j].records /\ new.attempts = n
      BY <2>3, <2>4, <3>1 DEF JobRecord
    <3>3. jobs' = [jobs EXCEPT ![j] = new]
      BY <1>8, <1>t, <2>1 DEF MarkRunning, JobOf, JobsTypeOK
    <3> HIDE DEF new
    <3> QED  BY <1>t, <2>1, <3>2, <3>3 DEF JobsTypeOK
  <2>6. Recorded' = Recorded
    BY <2>5 DEF Recorded, AdmittedNumbers
  <2>7. Spent' = Spent \cup {<<j, n>>} /\ <<j, n>> \notin Spent
    BY <2>1, <2>3, <2>5, RecordTypes DEF Spent, Numbers
  <2>8. Cardinality(Spent') = Cardinality(Spent) + 1
    BY <2>7, <1>c, Sizes, FS_AddElement
  <2>9. Spent' \subseteq Recorded'
    BY <2>3, <2>6, <2>7 DEF BudgetInv
  <2>10. Cardinality(Spent') <= MaxTotal
    BY <2>3, <2>6, <2>8, <2>9, <1>c, Sizes, MaxTotalAssumption
  <2>11. launches' < Cardinality(Spent')
    BY <2>2, <2>8, <1>c, <1>t DEF BudgetInv
  <2>12. ExecutorWithinBudget(e)'
    BY <2>2, <2>11 DEF ExecutorWithinBudget
  <2> QED  BY <2>2, <2>8, <2>9, <2>10, <2>11, <2>12, <1>c, <1>t, <1>w
<1>9. CASE SaveEnvironment(e)
  <2>1. j \in Jobs /\ exec[e].pc = "environment"
    BY <1>9, ExecutorTypes DEF SaveEnvironment, Move, On
  <2>2. AccountKept
    BY <1>9, <1>k, <2>1 DEF SaveEnvironment, JobOf
  <2>3. exec'[e].pc = "launching"
    BY <1>9, <1>t DEF SaveEnvironment, Move
  <2>4. Spent' = Spent /\ Recorded' = Recorded /\ launches' = launches
    BY <2>2, AccountStays
  <2>5. ExecutorWithinBudget(e)'
    BY <2>1, <2>3, <2>4, <1>b DEF ExecutorWithinBudget
  <2> QED  BY <2>4, <2>5, <1>w DEF BudgetInv
<1>10. CASE Launch(e)
  <2>1. j \in Jobs /\ n \in Numbers /\ exec[e].pc = "launching"
    BY <1>10, ExecutorTypes DEF Launch, On
  <2>p. launches' \in {launches, launches + 1}
        /\ \E pc \in {"reading", "working"} : exec' = [exec EXCEPT ![e].pc = pc]
    BY <1>10 DEF Launch
  <2>2. exec'[e].pc \in {"reading", "working"} /\ launches' \in {launches, launches + 1}
    BY <2>p, <1>t DEF ExecutorState
  <2>3. /\ \A k \in Jobs : jobs'[k].attempts = jobs[k].attempts
        /\ \A k \in Jobs : \A i \in Numbers :
             jobs'[k].records[i] = IF k = j /\ i = n THEN "running" ELSE jobs[k].records[i]
    BY <1>10, <1>t, <2>1, RecordTypes DEF Launch, RecordAttempt, JobOf, JobsTypeOK, JobRecord
  <2>4. Spent' = Spent
    BY <2>3 DEF Spent
  <2>5. Recorded \subseteq Recorded'
    BY <2>1, <2>3 DEF Recorded, AdmittedNumbers
  <2>6. launches < Cardinality(Spent)
    BY <1>b, <2>1 DEF ExecutorWithinBudget
  <2>7. ExecutorWithinBudget(e)'
    BY <2>2 DEF ExecutorWithinBudget
  <2> QED  BY <2>2, <2>4, <2>5, <2>6, <2>7, <1>c, <1>t, <1>w DEF BudgetInv
<1>11. CASE WriteFailed(e)
  <2>1. j \in Jobs
    BY <1>11, ExecutorTypes DEF WriteFailed
  <2>2. exec'[e].pc \in {"evidence", "finishing"} /\ AccountKept
    BY <1>11, <1>t, <1>k, <2>1 DEF WriteFailed, JobOf, ExecutorState
  <2> QED  BY <2>2, <1>q DEF Hot
<1>13. CASE EvidenceRead(e) \/ EvidenceWrite(e)
  <2>1. j \in Jobs
    BY <1>13, ExecutorTypes DEF EvidenceRead, EvidenceWrite, On
  <2>2. exec'[e].pc \in {"evidence_write", "finishing"}
    BY <1>13, <1>t DEF EvidenceRead, EvidenceWrite, ExecutorState
  <2>3. AccountKept
    BY <1>13, <1>k, <2>1 DEF EvidenceRead, EvidenceWrite, JobOf
  <2> QED  BY <2>2, <2>3, <1>q DEF Hot
<1>12. CASE Finish(e)
  <2>1. j \in Jobs /\ exec'[e].pc = "idle"
    BY <1>12, <1>t, ExecutorTypes DEF Finish, IdleExecutor
  <2>2. /\ \A k \in Jobs : jobs'[k].attempts = jobs[k].attempts
        /\ \A k \in Jobs : \A i \in Numbers :
             jobs[k].records[i] # "none" => jobs'[k].records[i] # "none"
    BY <1>12, <1>t, <2>1, RecordTypes DEF Finish, JobOf, JobsTypeOK, JobRecord
  <2>3. Spent' = Spent /\ Recorded \subseteq Recorded' /\ launches' = launches
    BY <1>12, <2>2 DEF Spent, Recorded, AdmittedNumbers, Finish
  <2>4. ExecutorWithinBudget(e)'
    BY <2>1 DEF ExecutorWithinBudget
  <2> QED  BY <2>3, <2>4, <1>w DEF BudgetInv
<1> QED
  BY <1>1, <1>2, <1>3, <1>4, <1>5, <1>6, <1>7, <1>8, <1>9, <1>10, <1>11, <1>12, <1>13
  DEF RunStep

LEMMA BudgetStep ==
  ASSUME TInv, BudgetInv, OneExecutor, [Next]_vars
  PROVE  BudgetInv'
<1>t. JobsTypeOK /\ exec \in [Executors -> ExecutorState]
  BY DEF TInv, TypeOK, ExecutorTypeOK
<1>s. UNCHANGED exec /\ AccountKept => BudgetInv'
  BY BudgetQuiet
<1>q. \A e \in Executors : exec'[e].pc \notin Hot /\ AccountKept => BudgetInv'
  BY BudgetQuiet DEF OneExecutor
<1>d. \A d \in Daemons : d \in Executors
  BY DaemonsAssumption
<1>1. ASSUME NEW d \in Daemons, NEW j \in Jobs, ScheduleRepair(d, j) \/ ScheduleDecide(d, j)
      PROVE  BudgetInv'
  <2>1. exec'[d].pc \in {"handed", "creating"} /\ UNCHANGED <<jobs, launches>>
    <3> DEFINE handed == [IdleExecutor EXCEPT !.pc = "handed", !.job = j]
               creating == [IdleExecutor EXCEPT !.pc = "creating", !.job = j]
    <3>1. handed.pc = "handed" /\ creating.pc = "creating"
      BY DEF IdleExecutor
    <3>2. /\ exec' = [exec EXCEPT ![d] = handed] \/ exec' = [exec EXCEPT ![d] = creating]
          /\ UNCHANGED <<jobs, launches>>
      BY <1>1 DEF ScheduleRepair, ScheduleDecide
    <3> HIDE DEF handed, creating
    <3> QED  BY <3>1, <3>2, <1>t, <1>d
  <2> QED  BY <2>1, <1>d, <1>q, NothingKeepsAccount DEF Hot
<1>2. ASSUME NEW d \in Daemons, ScheduleCreate(d) PROVE BudgetInv'
  <2>1. exec[d].job \in Jobs /\ UNCHANGED launches
    BY <1>2, <1>d, ExecutorTypes DEF ScheduleCreate, On
  <2>2. exec'[d].pc \in {"handed", "idle"}
    BY <1>2, <1>t, <1>d DEF ScheduleCreate, IdleExecutor, ExecutorState
  <2>3. UNCHANGED jobs \/ UpdateStatus(exec[d].job, "pending")
    BY <1>2 DEF ScheduleCreate, CreateJob, UpdateStatus, JobOf
  <2>4. AccountKept
    BY <2>1, <2>3, NothingKeepsAccount, StatusKeepsAccount
  <2> QED  BY <2>2, <2>4, <1>d, <1>q DEF Hot
<1>3. ASSUME NEW d \in Daemons, RuntimeStart(d) \/ RuntimeStop(d) PROVE BudgetInv'
  <2>1. jobs' = [j \in Jobs |-> Reconciled(jobs[j])] /\ UNCHANGED launches
    BY <1>3 DEF RuntimeStart, RuntimeStop
  <2>2. exec'[d].pc \in {"idle", "down"}
    BY <1>3, <1>t, <1>d DEF RuntimeStart, RuntimeStop, ExecutorDies, IdleExecutor
  <2> QED  BY <2>1, <2>2, <1>d, <1>q, ReconcilingKeepsAccount DEF Hot
<1>4. ASSUME NEW e \in Executors, RunJob(e) PROVE BudgetInv'
  BY <1>4, BudgetRunStep DEF RunJob
<1>5. ASSUME NEW e \in Executors, Crash(e) PROVE BudgetInv'
  <2>1. UNCHANGED <<jobs, launches>>
    BY <1>5 DEF Crash
  <2>2. exec'[e].pc \in {"idle", "down"}
    BY <1>5, <1>t DEF Crash, ExecutorDies, IdleExecutor
  <2> QED  BY <2>1, <2>2, <1>q, NothingKeepsAccount DEF Hot
<1>6. ASSUME \/ \E t \in Threads : Serve(t)
             \/ \E t \in Threads, j \in Jobs, s \in Submissions : Post(t, j, s)
             \/ \E r \in Recoverers : LoadContext(r)
      PROVE  BudgetInv'
  <2>1. UNCHANGED exec /\ UNCHANGED launches
    BY <1>6 DEF Serve, Post, LoadContext, executorVars
  <2>2. AccountKept
    BY <1>6, <2>1, ServiceKeepsAccount DEF Serve, Post, LoadContext
  <2> QED  BY <2>1, <2>2, <1>s
<1>7. ASSUME NEW j \in Jobs, NEW s \in OperatorSets, Operate(j, s) PROVE BudgetInv'
  BY <1>7, <1>s, StatusKeepsAccount DEF Operate, executorVars
<1>8. ASSUME NEW j \in Jobs, OrphanEnds(j) PROVE BudgetInv'
  BY <1>8, <1>s, NothingKeepsAccount DEF OrphanEnds
<1>9. CASE UNCHANGED vars
  BY <1>9, <1>s, NothingKeepsAccount DEF vars
<1> QED
  BY <1>1, <1>2, <1>3, <1>4, <1>5, <1>6, <1>7, <1>8, <1>9 DEF Next

LEMMA BudgetInit == Init => BudgetInv
<1> SUFFICES ASSUME Init PROVE BudgetInv
  OBVIOUS
<1>1. \A j \in Jobs : jobs[j].attempts = 0
  BY DEF Init, JobsInit, NewRecord
<1>2. Spent = {}
  BY <1>1, MaxNumberAssumption DEF Spent, Numbers
<1>3. Cardinality(Spent) = 0
  BY <1>2, FS_EmptySet
<1>4. \A e \in Executors : ExecutorWithinBudget(e)
  BY DEF Init, ExecutorInit, IdleExecutor, ExecutorWithinBudget
<1> QED
  BY <1>2, <1>3, <1>4, MaxTotalAssumption DEF BudgetInv, Init, ExecutorInit

LEMMA BudgetAlways == ASSUME OneExecutor PROVE Spec => []BudgetInv
<1>1. Init => BudgetInv
  BY BudgetInit
<1>2. TInv /\ BudgetInv /\ [Next]_vars => BudgetInv'
  BY BudgetStep
<1> QED
  BY <1>1, <1>2, TypedAlways, PTL DEF Spec

(* One executor never starts more containers for the transition than        *)
(* max_total_attempts_per_transition, whatever fails, whoever crashes, and  *)
(* however often operators fail, cancel or restart its jobs.                *)
THEOREM WithinLaunchBudget == ASSUME OneExecutor PROVE Spec => []LaunchBudget
<1>1. TInv /\ BudgetInv => LaunchBudget
  BY AccountSizes, MaxTotalAssumption DEF BudgetInv, LaunchBudget, TInv, TypeOK, ExecutorTypeOK
<1> QED
  BY <1>1, TypedAlways, BudgetAlways, PTL

(* Every start has an attempt record of its own, which no crash and no       *)
(* settlement removes: the account can be trusted after a restart.          *)
THEOREM LaunchesAccountedFor == ASSUME OneExecutor PROVE Spec => []LaunchesCounted
<1>1. TInv /\ BudgetInv => LaunchesCounted
  <2> SUFFICES ASSUME TInv, BudgetInv PROVE LaunchesCounted
    OBVIOUS
  <2>1. Cardinality(Spent) <= Cardinality(Recorded)
    BY Sizes, AccountSizes DEF BudgetInv
  <2>2. launches <= Cardinality(Recorded)
    BY <2>1, AccountSizes DEF BudgetInv, TInv, TypeOK, ExecutorTypeOK
  <2> QED  BY <2>2 DEF Recorded, LaunchesCounted
<1> QED
  BY <1>1, TypedAlways, BudgetAlways, PTL

-----------------------------------------------------------------------------
(* Whoever runs a job holds its execution lock.                             *)
Claimed(e) == exec[e].pc \in Claiming => claim[exec[e].job] = e

ClaimsHeld == \A e \in Executors : Claimed(e)

LEMMA ClaimingPcs ==
  Claiming = {"loading", "budget", "bound", "leasing", "admitting", "marking", "environment",
              "launching", "working", "waiting", "reading", "failing", "fail_write", "broken",
              "evidence", "evidence_write", "refused", "finishing"}
  BY DEF Claiming, ExecutorPcs

(* A step of one executor under its claim.                                  *)
LEMMA ClaimsKept ==
  ASSUME TInv, ClaimsHeld, NEW e \in Executors, UNCHANGED claim,
         \A f \in Executors : f # e => exec'[f] = exec[f],
         exec'[e].pc \in Claiming => exec[e].pc \in Claiming /\ exec'[e].job = exec[e].job
  PROVE  ClaimsHeld'
  BY DEF ClaimsHeld, Claimed

(* Where a step of a run takes its executor.                                *)
LEMMA RunStepClaims ==
  ASSUME TInv, NEW e \in Executors, RunStep(e)
  PROVE  /\ \A f \in Executors : f # e => exec'[f] = exec[f]
         /\ \/ /\ exec[e].pc \in Claiming /\ exec'[e].job = exec[e].job
               /\ UNCHANGED claim
            \/ exec'[e].pc = "idle" /\ UNCHANGED claim
            \/ /\ exec'[e].pc = "idle" /\ exec[e].pc \in Claiming /\ exec[e].job \in Jobs
               /\ claim' = [claim EXCEPT ![exec[e].job] = NoExecutor]
<1>t. exec \in [Executors -> ExecutorState]
  BY DEF TInv, TypeOK, ExecutorTypeOK
<1>i. IdleExecutor.pc = "idle"
  BY DEF IdleExecutor
<1>0. \A f \in Executors : f # e => exec'[f] = exec[f]
  BY <1>t DEF RunStep, ClaimRefused, LoadTerminal, LoadRefused, Load, CheckBudget, LeaseRefused,
     Leased, AdmitAttempt, MarkRunning, SaveEnvironment, Launch, WorkerEnds, WaitEnds, ReadOutcome,
     FailWorkerRead, Breaks, WriteFailed, EvidenceRead, EvidenceSkipped, EvidenceWrite, Finish, Move
<1>1. CASE ClaimRefused(e)
  BY <1>0, <1>1, <1>t, <1>i DEF ClaimRefused
<1>2. CASE Finish(e)
  <2>1. exec[e].pc \in Claiming /\ exec[e].job \in Jobs
    BY <1>2, ExecutorTypes, ClaimingPcs DEF Finish
  <2> QED  BY <1>0, <1>2, <2>1, <1>t, <1>i DEF Finish, JobOf
<1>3. CASE LoadTerminal(e) \/ LoadRefused(e) \/ CheckBudget(e) \/ LeaseRefused(e) \/ Leased(e)
           \/ MarkRunning(e) \/ SaveEnvironment(e) \/ Launch(e) \/ WorkerEnds(e) \/ WaitEnds(e)
           \/ ReadOutcome(e) \/ FailWorkerRead(e) \/ Breaks(e) \/ WriteFailed(e)
           \/ EvidenceSkipped(e)
  <2>1. exec[e].pc \in Claiming /\ UNCHANGED claim
    BY <1>3, ClaimingPcs DEF LoadTerminal, LoadRefused, CheckBudget, LeaseRefused, Leased,
       MarkRunning, SaveEnvironment, Launch, WorkerEnds, WaitEnds, ReadOutcome, FailWorkerRead,
       Breaks, WriteFailed, EvidenceSkipped, Move, On
  <2>2. \E pc : exec' = [exec EXCEPT ![e].pc = pc]
    BY <1>3 DEF LoadTerminal, LoadRefused, CheckBudget, LeaseRefused, Leased,
       MarkRunning, SaveEnvironment, Launch, WorkerEnds, WaitEnds, ReadOutcome, FailWorkerRead,
       Breaks, WriteFailed, EvidenceSkipped, Move
  <2>3. exec'[e].job = exec[e].job
    BY <2>2, <1>t DEF ExecutorState
  <2> QED  BY <1>0, <2>1, <2>3
<1>4. CASE Load(e) \/ AdmitAttempt(e) \/ EvidenceRead(e) \/ EvidenceWrite(e)
  <2>1. exec[e].pc \in Claiming /\ UNCHANGED claim
    BY <1>4, ClaimingPcs DEF Load, AdmitAttempt, EvidenceRead, EvidenceWrite, On
  <2>2. exec'[e].job = exec[e].job
    BY <1>4, <1>t DEF Load, AdmitAttempt, EvidenceRead, EvidenceWrite, ExecutorState
  <2> QED  BY <1>0, <2>1, <2>2
<1> QED
  BY <1>1, <1>2, <1>3, <1>4 DEF RunStep

(* Where the scheduler and runtime start take their daemon.                 *)
LEMMA DaemonMoves ==
  ASSUME TInv, NEW d \in Daemons,
         \/ \E j \in Jobs : ScheduleRepair(d, j) \/ ScheduleDecide(d, j)
         \/ ScheduleCreate(d)
         \/ RuntimeStart(d)
  PROVE  /\ d \in Executors /\ UNCHANGED claim
         /\ exec'[d].pc \in {"idle", "creating", "handed"}
         /\ \A f \in Executors : f # d => exec'[f] = exec[f]
<1>t. exec \in [Executors -> ExecutorState] /\ d \in Executors
  BY DaemonsAssumption DEF TInv, TypeOK, ExecutorTypeOK
<1>i. IdleExecutor.pc = "idle"
  BY DEF IdleExecutor
<1>1. UNCHANGED claim
  BY DEF ScheduleRepair, ScheduleDecide, ScheduleCreate, RuntimeStart
<1>2. \E x : /\ exec' = [exec EXCEPT ![d] = x]
             /\ x.pc \in {"idle", "creating", "handed"}
  <2>1. ASSUME NEW j \in Jobs, ScheduleRepair(d, j) \/ ScheduleDecide(d, j)
        PROVE  \E pc \in {"creating", "handed"} :
                 exec' = [exec EXCEPT ![d] = [IdleExecutor EXCEPT !.pc = pc, !.job = j]]
    BY <2>1 DEF ScheduleRepair, ScheduleDecide
  <2>2. \A j \in Jobs : \A pc \in {"creating", "handed"} :
          [IdleExecutor EXCEPT !.pc = pc, !.job = j].pc = pc
    BY DEF IdleExecutor
  <2>3. CASE exec' = [exec EXCEPT ![d] = IdleExecutor]
    BY <2>3, <1>i
  <2>4. CASE exec' = [exec EXCEPT ![d].pc = "handed"]
    <3>1. exec' = [exec EXCEPT ![d] = [exec[d] EXCEPT !.pc = "handed"]]
      BY <2>4
    <3>2. [exec[d] EXCEPT !.pc = "handed"].pc = "handed"
      BY <1>t DEF ExecutorState
    <3> QED  BY <3>1, <3>2
  <2>5. ASSUME ScheduleCreate(d) \/ RuntimeStart(d)
        PROVE  \/ exec' = [exec EXCEPT ![d] = IdleExecutor]
               \/ exec' = [exec EXCEPT ![d].pc = "handed"]
    <3>1. CASE ScheduleCreate(d)
      BY <3>1 DEF ScheduleCreate
    <3>2. CASE RuntimeStart(d)
      BY <3>2 DEF RuntimeStart
    <3> QED  BY <2>5, <3>1, <3>2
  <2>6. CASE \E j \in Jobs : ScheduleRepair(d, j) \/ ScheduleDecide(d, j)
    <3>1. PICK j \in Jobs : ScheduleRepair(d, j) \/ ScheduleDecide(d, j)
      BY <2>6
    <3>2. PICK pc \in {"creating", "handed"} :
            exec' = [exec EXCEPT ![d] = [IdleExecutor EXCEPT !.pc = pc, !.job = j]]
      BY <2>1, <3>1
    <3> DEFINE x == [IdleExecutor EXCEPT !.pc = pc, !.job = j]
    <3>3. exec' = [exec EXCEPT ![d] = x] /\ x.pc = pc
      BY <2>2, <3>2
    <3> HIDE DEF x
    <3> QED  BY <3>3
  <2>7. CASE ScheduleCreate(d) \/ RuntimeStart(d)
    BY <2>3, <2>4, <2>5, <2>7
  <2> QED  BY <2>6, <2>7
<1> QED
  BY <1>t, <1>1, <1>2

LEMMA ClaimsStep ==
  ASSUME TInv, ClaimsHeld, [Next]_vars
  PROVE  ClaimsHeld'
<1>t. exec \in [Executors -> ExecutorState] /\ claim \in [Jobs -> Executors \cup {NoExecutor}]
  BY DEF TInv, TypeOK, ExecutorTypeOK
<1>i. IdleExecutor.pc = "idle" /\ {"idle", "creating", "handed", "down"} \cap Claiming = {}
  BY ClaimingPcs DEF IdleExecutor
<1>x. NoExecutor \notin Executors
  BY ExecutorSentinelAssumption
<1>q. UNCHANGED executorVars => ClaimsHeld'
  BY DEF executorVars, ClaimsHeld, Claimed
<1>d. ASSUME NEW e \in Executors, NEW pc \in {"idle", "down"}, ExecutorDies(e, pc) PROVE ClaimsHeld'
  <2>1. exec'[e].pc = pc /\ \A f \in Executors : f # e => exec'[f] = exec[f]
    BY <1>d, <1>t DEF ExecutorDies, IdleExecutor
  <2>2. \A j \in Jobs : claim[j] # e => claim'[j] = claim[j]
    BY <1>d DEF ExecutorDies
  <2>3. \A f \in Executors : exec[f].pc \in Claiming => exec[f].job \in Jobs
    BY ExecutorTypes, ClaimingPcs
  <2> QED  BY <1>d, <1>i, <2>1, <2>2, <2>3 DEF ClaimsHeld, Claimed
<1>1. ASSUME NEW d \in Daemons,
             (\E j \in Jobs : ScheduleRepair(d, j) \/ ScheduleDecide(d, j)) \/ ScheduleCreate(d)
             \/ RuntimeStart(d)
      PROVE  ClaimsHeld'
  BY <1>1, <1>i, DaemonMoves, ClaimsKept
<1>2. ASSUME NEW d \in Daemons, RuntimeStop(d) PROVE ClaimsHeld'
  BY <1>2, <1>d, DaemonsAssumption DEF RuntimeStop
<1>3. ASSUME NEW e \in Executors, RunJob(e) PROVE ClaimsHeld'
  <2>1. CASE RunStep(e)
    <3>0. \A f \in Executors : f # e => exec'[f] = exec[f]
      BY <2>1, RunStepClaims
    <3>1. CASE UNCHANGED claim
      BY <3>0, <3>1, <2>1, <1>i, RunStepClaims, ClaimsKept
    <3>2. CASE /\ exec'[e].pc = "idle" /\ exec[e].pc \in Claiming /\ exec[e].job \in Jobs
               /\ claim' = [claim EXCEPT ![exec[e].job] = NoExecutor]
      <4>1. \A j \in Jobs : claim[j] # e => claim'[j] = claim[j]
        BY <3>2, <1>t DEF ClaimsHeld, Claimed
      <4>2. \A f \in Executors : exec[f].pc \in Claiming => exec[f].job \in Jobs
        BY ExecutorTypes, ClaimingPcs
      <4> QED  BY <3>0, <3>2, <4>1, <4>2, <1>i DEF ClaimsHeld, Claimed
    <3> QED  BY <2>1, <3>1, <3>2, RunStepClaims
  <2>2. ASSUME NEW j \in Jobs, Claim(e, j) PROVE ClaimsHeld'
    <3>1. claim' = [claim EXCEPT ![j] = e] /\ claim[j] = NoExecutor
      BY <2>2 DEF Claim
    <3>2. exec'[e].job = j /\ \A f \in Executors : f # e => exec'[f] = exec[f]
      BY <2>2, <1>t DEF Claim, IdleExecutor
    <3>3. \A f \in Executors : exec[f].pc \in Claiming => exec[f].job \in Jobs
      BY ExecutorTypes, ClaimingPcs
    <3> QED  BY <3>1, <3>2, <3>3, <1>t, <1>x DEF ClaimsHeld, Claimed
  <2> QED  BY <1>3, <2>1, <2>2 DEF RunJob
<1>4. ASSUME NEW e \in Executors, Crash(e) PROVE ClaimsHeld'
  BY <1>4, <1>d DEF Crash
<1>5. CASE \/ \E t \in Threads : Serve(t) \/ \E j \in Jobs, s \in Submissions : Post(t, j, s)
           \/ \E r \in Recoverers : LoadContext(r)
           \/ \E j \in Jobs, s \in OperatorSets : Operate(j, s)
           \/ UNCHANGED vars
  BY <1>5, <1>q DEF Serve, Post, LoadContext, Operate, vars, executorVars
<1>6. ASSUME NEW j \in Jobs, OrphanEnds(j) PROVE ClaimsHeld'
  BY <1>6 DEF OrphanEnds, ClaimsHeld, Claimed
<1> QED
  BY <1>1, <1>2, <1>3, <1>4, <1>5, <1>6 DEF Next

LEMMA ClaimsAlways == Spec => []ClaimsHeld
<1>1. Init => ClaimsHeld
  BY ClaimingPcs DEF Init, ExecutorInit, IdleExecutor, ClaimsHeld, Claimed
<1>2. TInv /\ ClaimsHeld /\ [Next]_vars => ClaimsHeld'
  BY ClaimsStep
<1> QED
  BY <1>1, <1>2, TypedAlways, PTL DEF Spec

-----------------------------------------------------------------------------
(* An accepted job is a delivered one, when the submissions of a job come   *)
(* in turn and no context is loaded while one is in submit.                 *)
InTurn == \A t, u \in Threads :
    thread[t].pc # "idle" /\ thread[u].pc # "idle" /\ thread[t].job = thread[u].job => t = u

(* A thread that is in submit works on a job that is not accepted, and will *)
(* not write an accepted status it has read before.                         *)
ThreadOpen(t) ==
    thread[t].pc # "idle" => Status(thread[t].job) # "accepted" /\ thread[t].saw # "accepted"

ThreadDelivers(t) ==
    /\ thread[t].pc \in {"committing", "accepting"} => task = "done"
    /\ thread[t].pc = "accepting" => journal[thread[t].job][thread[t].sub].status = "committed"

LoaderDelivers(r) ==
    /\ loader[r].pc \in {"committing", "settling"} => task = "done"
    /\ loader[r].pc = "settling" => journal[loader[r].job][loader[r].sub].status = "committed"

AcceptanceInv ==
    /\ NoThreadActive \/ NoLoaderActive
    /\ \A t \in Threads : ThreadOpen(t) /\ ThreadDelivers(t)
    /\ \A r \in Recoverers : LoaderDelivers(r)
    /\ AcceptedIsDelivered

(* A job whose accepted status an executor is about to write back with its  *)
(* evidence is a delivered one, and in nobody's submit.                     *)
Delivered(j) ==
    /\ task = "done" /\ Committed(j) # {}
    /\ \A t \in Threads : thread[t].pc # "idle" => thread[t].job # j

Restores(e, j) == exec[e].pc = "evidence_write" /\ exec[e].saw = "accepted" /\ exec[e].job = j

RestoresDelivered == \A e \in Executors, j \in Jobs : Restores(e, j) => Delivered(j)

(* A step that makes no job accepted but such a one, and does nothing for   *)
(* the service but to end threads.                                          *)
LEMMA AcceptanceQuiet ==
  ASSUME TInv, AcceptanceInv, UNCHANGED <<task, journal, loader>>,
         \A j \in Jobs : jobs'[j].status = "accepted" =>
            jobs[j].status = "accepted" \/ Delivered(j),
         \A t \in Threads : thread'[t] = thread[t] \/ thread'[t] = NoThreadState
  PROVE  AcceptanceInv'
<1>1. ASSUME NEW t \in Threads PROVE ThreadOpen(t)' /\ ThreadDelivers(t)'
  <2>1. CASE thread'[t] = NoThreadState
    BY <2>1, NoThreadTyped DEF ThreadOpen, ThreadDelivers
  <2>2. CASE thread'[t] = thread[t]
    BY <2>2, ThreadTypes DEF AcceptanceInv, ThreadOpen, ThreadDelivers, Status, Delivered
  <2> QED  BY <2>1, <2>2
<1>2. \A r \in Recoverers : LoaderDelivers(r)'
  BY DEF AcceptanceInv, LoaderDelivers
<1>3. (NoThreadActive \/ NoLoaderActive)'
  BY NoThreadTyped DEF AcceptanceInv, NoThreadActive, NoLoaderActive, At
<1>4. AcceptedIsDelivered'
  BY DEF AcceptanceInv, AcceptedIsDelivered, Committed, Status, Delivered
<1> QED
  BY <1>1, <1>2, <1>3, <1>4 DEF AcceptanceInv

(* What a step of submit leaves alone.                                      *)
LEMMA ThreadStepLocal ==
  ASSUME TInv, NEW t \in Threads, ThreadStep(t)
  PROVE  /\ thread[t].pc # "idle" /\ thread[t].job \in Jobs /\ thread[t].sub \in Submissions
         /\ UNCHANGED loader /\ task' \in {task, "done"}
         /\ \A k \in Jobs : k # thread[t].job => jobs'[k] = jobs[k] /\ journal'[k] = journal[k]
         /\ \A u \in Threads : u # t => thread'[u] = thread[u]
         /\ thread'[t].pc = "idle" \/ (thread'[t].job = thread[t].job /\ thread'[t].sub = thread[t].sub)
<1>t. /\ JobsTypeOK /\ JournalsTyped /\ thread \in [Threads -> ThreadState]
  BY ServiceParts DEF ThreadsTyped
<1>1. thread[t].pc # "idle"
  BY DEF ThreadStep, MarkSubmitted, CaptureRead, CaptureWrite, CaptureFails, RejectCapture,
         Verify, RecordVerdict, IgnoreRejection, RejectRead, RejectWrite, Prepare, ApplyEffects,
         ApplyFails, CommitJournal, MarkFailed, MarkAccepted, At
<1>2. UNCHANGED loader /\ task' \in {task, "done"}
  BY DEF ThreadStep, MarkSubmitted, CaptureRead, CaptureWrite, CaptureFails, RejectCapture,
         Verify, RecordVerdict, IgnoreRejection, RejectRead, RejectWrite, Prepare, ApplyEffects,
         ApplyFails, CommitJournal, MarkFailed, MarkAccepted
<1>3. ASSUME NEW k \in Jobs, k # thread[t].job PROVE jobs'[k] = jobs[k]
  BY <1>3, <1>t DEF JobsTypeOK, UpdateStatus, ThreadStep, MarkSubmitted, CaptureRead, CaptureWrite,
         CaptureFails, RejectCapture, Verify, RecordVerdict, IgnoreRejection, RejectRead,
         RejectWrite, Prepare, ApplyEffects, ApplyFails, CommitJournal, MarkFailed, MarkAccepted
<1>4. ASSUME NEW k \in Jobs, k # thread[t].job PROVE journal'[k] = journal[k]
  BY <1>4, <1>t DEF JournalsTyped, JournalSet, ThreadStep, MarkSubmitted, CaptureRead, CaptureWrite,
         CaptureFails, RejectCapture, Verify, RecordVerdict, IgnoreRejection, RejectRead,
         RejectWrite, Prepare, ApplyEffects, ApplyFails, CommitJournal, MarkFailed, MarkAccepted
<1>5. \A u \in Threads : u # t => thread'[u] = thread[u]
  BY <1>t DEF Goto, Done, ThreadStep, MarkSubmitted, CaptureRead, CaptureWrite,
         CaptureFails, RejectCapture, Verify, RecordVerdict, IgnoreRejection, RejectRead,
         RejectWrite, Prepare, ApplyEffects, ApplyFails, CommitJournal, MarkFailed, MarkAccepted
<1>6. thread'[t].pc = "idle" \/ (thread'[t].job = thread[t].job /\ thread'[t].sub = thread[t].sub)
  <2>1. CASE Done(t)
    BY <2>1, <1>t, NoThreadTyped DEF Done
  <2>2. CASE \E pc : Goto(t, pc)
    BY <2>2, <1>t DEF Goto, ThreadState
  <2>3. CASE CaptureRead(t) \/ CaptureWrite(t) \/ CaptureFails(t) \/ RejectRead(t)
    BY <2>3, <1>t DEF CaptureRead, CaptureWrite, CaptureFails, RejectRead, ThreadState
  <2>4. CASE Verify(t)
    BY <2>4, <1>t DEF Verify, ThreadState
  <2>5. CASE RecordVerdict(t)
    BY <2>5, <2>1, <1>t DEF RecordVerdict, ThreadState
  <2> QED
    BY <2>1, <2>2, <2>3, <2>4, <2>5 DEF ThreadStep, MarkSubmitted, RejectCapture, IgnoreRejection,
       RejectWrite, Prepare, ApplyEffects, ApplyFails, CommitJournal, MarkFailed, MarkAccepted
<1> QED
  BY <1>1, <1>2, <1>3, <1>4, <1>5, <1>6, ThreadTypes

LEMMA AcceptanceOwn ==
  ASSUME TInv, AcceptanceInv, NEW t \in Threads, ThreadStep(t)
  PROVE  LET j == thread[t].job
             s == thread[t].sub
         IN  /\ thread'[t].pc # "idle" =>
                    jobs'[j].status # "accepted" /\ thread'[t].saw # "accepted"
             /\ thread'[t].pc \in {"committing", "accepting"} => task' = "done"
             /\ thread'[t].pc = "accepting" => journal'[j][s].status = "committed"
             /\ jobs'[j].status = "accepted" => task' = "done" /\ journal'[j][s].status = "committed"
<1> DEFINE j == thread[t].job
           s == thread[t].sub
           Own == /\ thread'[t].pc # "idle" =>
                         jobs'[j].status # "accepted" /\ thread'[t].saw # "accepted"
                  /\ thread'[t].pc \in {"committing", "accepting"} => task' = "done"
                  /\ thread'[t].pc = "accepting" => journal'[j][s].status = "committed"
                  /\ jobs'[j].status = "accepted"
                        => task' = "done" /\ journal'[j][s].status = "committed"
<1> SUFFICES Own
  OBVIOUS
<1>t. /\ jobs \in [Jobs -> JobRecord] /\ journal \in [Jobs -> [Submissions -> JournalRecord]]
      /\ thread \in [Threads -> ThreadState]
  BY ServiceParts DEF JobsTypeOK, JournalsTyped, ThreadsTyped
<1>a. /\ thread[t].pc # "idle" /\ j \in Jobs /\ s \in Submissions
      /\ thread[t] \in ThreadState /\ jobs[j] \in JobRecord /\ journal[j][s] \in JournalRecord
  BY <1>t, ThreadStepLocal
<1>b. jobs[j].status # "accepted" /\ thread[t].saw # "accepted"
  BY <1>a DEF AcceptanceInv, ThreadOpen, Status
<1>d. ThreadDelivers(t)
  BY DEF AcceptanceInv
<1>n. NoThreadState.pc = "idle"
  BY NoThreadTyped
<1> HIDE DEF j, s
<1>s. ASSUME NEW st, UpdateStatus(j, st) PROVE jobs'[j].status = st
  BY <1>s, <1>t, <1>a DEF UpdateStatus, JobRecord
<1>e. Done(t) => thread'[t].pc = "idle"
  BY <1>t, <1>n DEF Done
<1>g. ASSUME NEW pc, Goto(t, pc) PROVE thread'[t].pc = pc /\ thread'[t].saw = thread[t].saw
  BY <1>g, <1>t, <1>a DEF Goto, ThreadState
<1>1. CASE MarkSubmitted(t)
  <2>1. jobs'[j].status = "completion_submitted"
    BY <1>1, <1>s DEF MarkSubmitted, j
  <2>2. thread'[t].pc = "capturing" /\ thread'[t].saw = thread[t].saw
    BY <1>1, <1>g DEF MarkSubmitted
  <2> QED  BY <2>1, <2>2, <1>b
<1>2. CASE CaptureRead(t) \/ CaptureFails(t) \/ RejectRead(t)
  <2>1. thread'[t].pc \in {"capture_write", "capture_reject", "reject_write"}
        /\ thread'[t].saw \in {thread[t].saw, jobs[j].status} /\ UNCHANGED jobs
    BY <1>2, <1>t, <1>a DEF CaptureRead, CaptureFails, RejectRead, ThreadState, Status, j
  <2> QED  BY <2>1, <1>b
<1>3. CASE CaptureWrite(t)
  <2>1. jobs'[j].status = thread[t].saw
    BY <1>3, <1>s DEF CaptureWrite, j
  <2>2. thread'[t].pc = "verifying" /\ thread'[t].saw = "absent"
    BY <1>3, <1>t, <1>a DEF CaptureWrite, ThreadState
  <2> QED  BY <2>1, <2>2, <1>b
<1>4. CASE RejectCapture(t)
  <2>1. jobs'[j].status = "completion_rejected" /\ thread'[t].pc = "idle"
    BY <1>4, <1>t, <1>a, <1>e DEF RejectCapture, j, JobRecord
  <2> QED  BY <2>1
<1>5. CASE Verify(t)
  <2>1. thread'[t].pc = "verify_write" /\ thread'[t].saw = jobs[j].status /\ UNCHANGED jobs
    BY <1>5, <1>t, <1>a DEF Verify, ThreadState, Status, j
  <2> QED  BY <2>1, <1>b
<1>6. CASE RecordVerdict(t)
  <2>1. jobs'[j].status = thread[t].saw
    BY <1>6, <1>s DEF RecordVerdict, j
  <2>2. thread'[t].pc = "idle" \/ (thread'[t].pc \in {"rejecting", "publishing"}
                                  /\ thread'[t].saw = "absent")
    BY <1>6, <1>t, <1>a, <1>e DEF RecordVerdict, ThreadState
  <2> QED  BY <2>1, <2>2, <1>b
<1>7. CASE IgnoreRejection(t)
  <2>1. thread'[t].pc = "idle" /\ UNCHANGED jobs
    BY <1>7, <1>e DEF IgnoreRejection
  <2> QED  BY <2>1, <1>b
<1>8. CASE RejectWrite(t)
  <2>1. jobs'[j].status \in {"completion_rejected", "failed"} /\ thread'[t].pc = "idle"
    BY <1>8, <1>t, <1>a, <1>e DEF RejectWrite, j, JobRecord
  <2> QED  BY <2>1
<1>9. CASE Prepare(t)
  <2>1. thread'[t].pc = "applying" /\ thread'[t].saw = thread[t].saw /\ UNCHANGED jobs
    BY <1>9, <1>g DEF Prepare
  <2> QED  BY <2>1, <1>b
<1>10. CASE ApplyEffects(t)
  <2>1. thread'[t].pc = "committing" /\ thread'[t].saw = thread[t].saw /\ UNCHANGED jobs
        /\ task' = "done"
    BY <1>10, <1>g DEF ApplyEffects
  <2> QED  BY <2>1, <1>b
<1>11. CASE ApplyFails(t)
  <2>1. thread'[t].pc = "failing" /\ thread'[t].saw = thread[t].saw /\ UNCHANGED jobs
    BY <1>11, <1>g DEF ApplyFails
  <2> QED  BY <2>1, <1>b
<1>12. CASE CommitJournal(t)
  <2>1. thread'[t].pc = "accepting" /\ thread'[t].saw = thread[t].saw /\ UNCHANGED <<jobs, task>>
    BY <1>12, <1>g DEF CommitJournal
  <2>2. task = "done"
    BY <1>12, <1>d DEF CommitJournal, At, ThreadDelivers
  <2>3. journal'[j][s].status = "committed"
    BY <1>12, <1>t, <1>a DEF CommitJournal, JournalSet, JournalRecord, j, s
  <2> QED  BY <2>1, <2>2, <2>3, <1>b
<1>13. CASE MarkFailed(t)
  <2>1. jobs'[j].status = "failed" /\ thread'[t].pc = "idle"
    BY <1>13, <1>s, <1>e DEF MarkFailed, j
  <2> QED  BY <2>1
<1>14. CASE MarkAccepted(t)
  <2>1. thread'[t].pc = "idle" /\ UNCHANGED <<journal, task>>
    BY <1>14, <1>e DEF MarkAccepted
  <2>2. task = "done" /\ journal[j][s].status = "committed"
    BY <1>14, <1>d DEF MarkAccepted, At, ThreadDelivers, j, s
  <2> QED  BY <2>1, <2>2
<1> QED
  BY <1>1, <1>2, <1>3, <1>4, <1>5, <1>6, <1>7, <1>8, <1>9, <1>10, <1>11, <1>12, <1>13, <1>14
  DEF ThreadStep

LEMMA AcceptanceServe ==
  ASSUME TInv, AcceptanceInv, InTurn, NEW t \in Threads, ThreadStep(t)
  PROVE  AcceptanceInv'
<1> DEFINE j == thread[t].job
<1>l. /\ thread[t].pc # "idle" /\ j \in Jobs /\ thread[t].sub \in Submissions
      /\ UNCHANGED loader /\ task' \in {task, "done"}
      /\ \A k \in Jobs : k # j => jobs'[k] = jobs[k] /\ journal'[k] = journal[k]
      /\ \A u \in Threads : u # t => thread'[u] = thread[u]
      /\ thread'[t].pc = "idle" \/ (thread'[t].job = j /\ thread'[t].sub = thread[t].sub)
  BY ThreadStepLocal
<1>o. /\ thread'[t].pc # "idle" => jobs'[j].status # "accepted" /\ thread'[t].saw # "accepted"
      /\ thread'[t].pc \in {"committing", "accepting"} => task' = "done"
      /\ thread'[t].pc = "accepting" => journal'[j][thread[t].sub].status = "committed"
      /\ jobs'[j].status = "accepted"
            => task' = "done" /\ journal'[j][thread[t].sub].status = "committed"
  BY AcceptanceOwn
<1> HIDE DEF j
<1>1. NoLoaderActive /\ NoLoaderActive'
  BY <1>l DEF AcceptanceInv, NoThreadActive, NoLoaderActive, At
<1>2. ASSUME NEW u \in Threads PROVE ThreadOpen(u)' /\ ThreadDelivers(u)'
  <2>1. CASE u = t
    BY <2>1, <1>l, <1>o DEF ThreadOpen, ThreadDelivers, Status
  <2>2. CASE u # t
    <3>1. thread'[u] = thread[u]
      BY <2>2, <1>l
    <3>2. CASE thread[u].pc = "idle"
      BY <3>1, <3>2 DEF ThreadOpen, ThreadDelivers
    <3>3. CASE thread[u].pc # "idle"
      <4>1. thread[u].job # j /\ thread[u].job \in Jobs
        BY <2>2, <3>3, <1>l, ThreadTypes DEF InTurn, j
      <4>2. ThreadOpen(u) /\ ThreadDelivers(u)
        BY DEF AcceptanceInv
      <4> QED  BY <3>1, <4>1, <4>2, <1>l DEF ThreadOpen, ThreadDelivers, Status
    <3> QED  BY <3>2, <3>3
  <2> QED  BY <2>1, <2>2
<1>3. \A r \in Recoverers : LoaderDelivers(r)'
  BY <1>1 DEF NoLoaderActive, LoaderDelivers
<1>4. AcceptedIsDelivered'
  <2> SUFFICES ASSUME NEW k \in Jobs, jobs'[k].status = "accepted"
               PROVE  task' = "done" /\ Committed(k)' # {}
    BY DEF AcceptedIsDelivered, Status
  <2>1. CASE k = j
    BY <2>1, <1>l, <1>o DEF Committed
  <2>2. CASE k # j
    BY <2>2, <1>l DEF AcceptanceInv, AcceptedIsDelivered, Status, Committed
  <2> QED  BY <2>1, <2>2
<1> QED
  BY <1>1, <1>2, <1>3, <1>4 DEF AcceptanceInv

LEMMA AcceptancePost ==
  ASSUME TInv, AcceptanceInv, ConcurrentLoads = FALSE,
         NEW t \in Threads, NEW j \in Jobs, NEW s \in Submissions, Receive(t, j, s)
  PROVE  AcceptanceInv'
<1>1. UNCHANGED <<jobs, task, journal, publisher, loader, crashes>> /\ NoLoaderActive
  BY DEF Receive
<1>2. CASE UNCHANGED thread
  BY <1>1, <1>2, AcceptanceQuiet
<1>3. CASE Begin(t, j, s)
  <2>t. thread \in [Threads -> ThreadState]
    BY ServiceParts DEF ThreadsTyped
  <2>1. thread'[t].pc = "marking" /\ thread'[t].job = j /\ thread'[t].saw = "absent"
    BY <1>3, <2>t DEF Begin, NoThreadState
  <2>2. jobs[j].status # "accepted"
    BY <1>3 DEF Begin, Status
  <2>3. \A u \in Threads : u # t => thread'[u] = thread[u]
    BY <1>3, <2>t DEF Begin
  <2>4. ASSUME NEW u \in Threads PROVE ThreadOpen(u)' /\ ThreadDelivers(u)'
    <3>1. CASE u = t
      BY <3>1, <2>1, <2>2, <1>1 DEF ThreadOpen, ThreadDelivers, Status
    <3>2. CASE u # t
      BY <3>2, <2>3, <1>1 DEF ThreadOpen, ThreadDelivers, Status, AcceptanceInv
    <3> QED  BY <3>1, <3>2
  <2> QED
    BY <1>1, <2>4 DEF AcceptanceInv, NoLoaderActive, LoaderDelivers, AcceptedIsDelivered,
       Committed, Status
<1> QED
  BY <1>2, <1>3 DEF Receive, ReplayAnswer, RepeatAccepted

LEMMA AcceptanceLoad ==
  ASSUME TInv, AcceptanceInv, ConcurrentLoads = FALSE, NEW r \in Recoverers, LoaderStep(r)
  PROVE  AcceptanceInv'
<1>t. /\ jobs \in [Jobs -> JobRecord] /\ journal \in [Jobs -> [Submissions -> JournalRecord]]
      /\ loader \in [Recoverers -> LoaderState]
  BY ServiceParts DEF JobsTypeOK, JournalsTyped, LoadersTyped
<1>a. loader[r].pc # "idle" => loader[r].job \in Jobs /\ loader[r].sub \in Submissions
  BY LoaderTypes
<1>1. NoThreadActive /\ UNCHANGED thread
  BY DEF AcceptanceInv, NoLoaderActive, LoaderStep, RecoverPick, RecoverApply, RecoverCommit,
         RecoverSettle, CrashLoader
<1>2. NoThreadActive' /\ \A t \in Threads : ThreadOpen(t)' /\ ThreadDelivers(t)'
  BY <1>1 DEF NoThreadActive, At, ThreadOpen, ThreadDelivers
<1>q. ASSUME AcceptedIsDelivered', \A q \in Recoverers : LoaderDelivers(q)' PROVE AcceptanceInv'
  BY <1>2, <1>q DEF AcceptanceInv
<1>i. LoaderDelivers(r) /\ \A q \in Recoverers : LoaderDelivers(q)
  BY DEF AcceptanceInv
<1>d. AcceptedIsDelivered
  BY DEF AcceptanceInv
<1>3. ASSUME NEW j \in Jobs, NEW s \in Submissions, RecoverPick(r, j, s) PROVE AcceptanceInv'
  <2>1. UNCHANGED <<jobs, task, journal>>
    BY <1>3 DEF RecoverPick
  <2>2. AcceptedIsDelivered'
    BY <2>1, <1>d DEF AcceptedIsDelivered, Committed, Status
  <2>3. LoaderDelivers(r)'
    BY <1>3, <1>t, <2>1 DEF RecoverPick, LoaderDelivers
  <2>4. \A q \in Recoverers : q # r => LoaderDelivers(q)'
    BY <1>3, <1>t, <1>i, <2>1 DEF RecoverPick, LoaderDelivers
  <2> QED  BY <2>2, <2>3, <2>4, <1>q
<1>4. CASE RecoverApply(r)
  <2>1. UNCHANGED <<jobs, journal>> /\ task' = "done" /\ loader'[r].pc = "committing"
        /\ \A q \in Recoverers : q # r => loader'[q] = loader[q]
    BY <1>4, <1>t DEF RecoverApply, LoaderState
  <2>2. AcceptedIsDelivered'
    BY <2>1, <1>d DEF AcceptedIsDelivered, Committed, Status
  <2>3. \A q \in Recoverers : LoaderDelivers(q)'
    BY <1>i, <2>1 DEF LoaderDelivers
  <2> QED  BY <2>2, <2>3, <1>q
<1>5. CASE RecoverCommit(r)
  <2> DEFINE j == loader[r].job
             s == loader[r].sub
  <2>1. j \in Jobs /\ s \in Submissions /\ task = "done"
    BY <1>5, <1>a, <1>i DEF RecoverCommit, LoaderDelivers
  <2>2. /\ UNCHANGED <<jobs, task>> /\ loader'[r].pc = "settling"
        /\ loader'[r].job = j /\ loader'[r].sub = s
        /\ \A q \in Recoverers : q # r => loader'[q] = loader[q]
    BY <1>5, <1>t DEF RecoverCommit, LoaderState
  <2>3. journal' = [journal EXCEPT ![j][s].status = "committed"]
    BY <1>5 DEF RecoverCommit, JournalSet
  <2> HIDE DEF j, s
  <2>4. journal'[j][s].status = "committed"
    BY <2>1, <2>3, <1>t DEF JournalRecord
  <2>5. \A k \in Jobs : \A u \in Submissions :
          journal[k][u].status = "committed" => journal'[k][u].status = "committed"
    BY <2>1, <2>3, <1>t DEF JournalRecord
  <2>6. AcceptedIsDelivered'
    BY <2>2, <2>5, <1>d DEF AcceptedIsDelivered, Committed, Status
  <2>7. ASSUME NEW q \in Recoverers PROVE LoaderDelivers(q)'
    <3>1. CASE q = r
      BY <3>1, <2>1, <2>2, <2>4 DEF LoaderDelivers
    <3>2. CASE q # r
      BY <3>2, <2>2, <2>5, <1>i, LoaderTypes DEF LoaderDelivers
    <3> QED  BY <3>1, <3>2
  <2> QED  BY <2>6, <2>7, <1>q
<1>6. CASE RecoverSettle(r)
  <2> DEFINE j == loader[r].job
             s == loader[r].sub
  <2>1. j \in Jobs /\ s \in Submissions /\ task = "done" /\ journal[j][s].status = "committed"
    BY <1>6, <1>a, <1>i DEF RecoverSettle, LoaderDelivers
  <2>2. UNCHANGED <<task, journal>> /\ \A k \in Jobs : k # j => jobs'[k] = jobs[k]
    BY <1>6, <1>t DEF RecoverSettle
  <2>3. loader'[r] = NoLoaderState /\ \A q \in Recoverers : q # r => loader'[q] = loader[q]
    BY <1>6, <1>t DEF RecoverSettle
  <2> HIDE DEF j, s
  <2>4. AcceptedIsDelivered'
    BY <2>1, <2>2, <1>d DEF AcceptedIsDelivered, Committed, Status
  <2>5. \A q \in Recoverers : LoaderDelivers(q)'
    BY <2>2, <2>3, <1>i DEF LoaderDelivers, NoLoaderState
  <2> QED  BY <2>4, <2>5, <1>q
<1>7. CASE CrashLoader(r)
  <2>1. UNCHANGED <<jobs, task, journal>> /\ loader'[r] = NoLoaderState
        /\ \A q \in Recoverers : q # r => loader'[q] = loader[q]
    BY <1>7, <1>t DEF CrashLoader
  <2>2. AcceptedIsDelivered'
    BY <2>1, <1>d DEF AcceptedIsDelivered, Committed, Status
  <2>3. \A q \in Recoverers : LoaderDelivers(q)'
    BY <2>1, <1>i DEF LoaderDelivers, NoLoaderState
  <2> QED  BY <2>2, <2>3, <1>q
<1> QED
  BY <1>3, <1>4, <1>5, <1>6, <1>7 DEF LoaderStep

(* Executors, the scheduler, operators and the runtime commands make no job  *)
(* accepted, but for an accepted status written back.                       *)
LEMMA OthersAcceptNothing ==
  ASSUME TInv,
         \/ \E d \in Daemons : \/ \E j \in Jobs : ScheduleRepair(d, j) \/ ScheduleDecide(d, j)
                               \/ ScheduleCreate(d) \/ RuntimeStart(d) \/ RuntimeStop(d)
         \/ \E e \in Executors : RunJob(e) \/ Crash(e)
         \/ \E j \in Jobs, s \in OperatorSets : Operate(j, s)
         \/ \E j \in Jobs : OrphanEnds(j) /\ UNCHANGED host /\ UNCHANGED serviceVars
         \/ UNCHANGED vars
  PROVE  /\ UNCHANGED <<task, journal, loader>>
         /\ \A k \in Jobs : jobs'[k].status = "accepted" =>
               jobs[k].status = "accepted" \/ \E e \in Executors : Restores(e, k)
         /\ \A t \in Threads : thread'[t] = thread[t] \/ thread'[t] = NoThreadState
<1> DEFINE Same == UNCHANGED <<task, journal, loader>>
           None == \A k \in Jobs : jobs'[k].status = "accepted" =>
                     jobs[k].status = "accepted" \/ \E e \in Executors : Restores(e, k)
           Threaded == \A t \in Threads : thread'[t] = thread[t] \/ thread'[t] = NoThreadState
<1>t. jobs \in [Jobs -> JobRecord]
  BY ServiceParts DEF JobsTypeOK
<1>k. UNCHANGED jobs => None
  OBVIOUS
<1>u. ASSUME NEW j, NEW st, st # "accepted", UpdateStatus(j, st) PROVE None
  BY <1>u, <1>t DEF UpdateStatus, JobRecord
<1>r. ASSUME jobs' = [j \in Jobs |-> Reconciled(jobs[j])] PROVE None
  <2>1. \A j \in Jobs : Reconciled(jobs[j]).status \in {jobs[j].status, "failed"}
    BY <1>t DEF Reconciled, JobRecord
  <2> QED  BY <1>r, <2>1
<1>d. \A e : EndpointDies(e) => Threaded
  BY DEF EndpointDies
<1>s. UNCHANGED serviceVars => Same /\ Threaded
  BY DEF serviceVars
<1> HIDE DEF Same, None, Threaded
<1> SUFFICES Same /\ None /\ Threaded
  BY DEF Same, None, Threaded
<1>1. ASSUME NEW d \in Daemons, NEW j \in Jobs, ScheduleRepair(d, j) \/ ScheduleDecide(d, j)
      PROVE  Same /\ None /\ Threaded
  BY <1>1, <1>k, <1>s DEF ScheduleRepair, ScheduleDecide
<1>2. ASSUME NEW d \in Daemons, ScheduleCreate(d) PROVE Same /\ None /\ Threaded
  <2>1. UNCHANGED jobs \/ UpdateStatus(exec[d].job, "pending")
    BY <1>2 DEF ScheduleCreate, CreateJob, UpdateStatus, JobOf
  <2> QED  BY <1>2, <2>1, <1>k, <1>u, <1>s DEF ScheduleCreate
<1>3. ASSUME NEW d \in Daemons, RuntimeStart(d) PROVE Same /\ None /\ Threaded
  BY <1>3, <1>r, <1>s DEF RuntimeStart
<1>4. ASSUME NEW d \in Daemons, RuntimeStop(d) PROVE Same /\ None /\ Threaded
  <2>1. Same
    BY <1>4 DEF RuntimeStop, Same
  <2> QED  BY <1>4, <2>1, <1>r, <1>d DEF RuntimeStop
<1>5. ASSUME NEW e \in Executors, RunJob(e) PROVE Same /\ None /\ Threaded
  <2>1. Same
    BY <1>5 DEF RunJob, Same
  <2>2. Threaded
    <3>1. UNCHANGED thread => Threaded
      BY DEF Threaded
    <3> QED  BY <1>5, <3>1, <1>d DEF RunJob
  <2>3. RunStep(e) \/ \E j \in Jobs : Claim(e, j)
    BY <1>5 DEF RunJob
  <2>4. CASE UNCHANGED jobs
    BY <2>4, <2>1, <2>2, <1>k
  <2>5. CASE WriteFailed(e)
    BY <2>5, <2>1, <2>2, <1>u DEF WriteFailed
  <2>6. CASE SaveEnvironment(e)
    BY <2>6, <2>1, <2>2, <1>u, <1>k DEF SaveEnvironment
  <2>7. CASE AdmitAttempt(e) \/ Launch(e) \/ Finish(e)
    <3>1. CASE AdmitAttempt(e) \/ Launch(e)
      <4>1. \E j, f : jobs' = [jobs EXCEPT ![j].records = f]
        BY <3>1 DEF AdmitAttempt, Launch, RecordAttempt
      <4>2. None
        BY <4>1, <1>t DEF JobRecord, None
      <4> QED  BY <4>2, <2>1, <2>2
    <3>2. CASE Finish(e)
      <4>1. \E f : jobs' = [jobs EXCEPT ![exec[e].job].records = f]
        BY <3>2 DEF Finish, JobOf
      <4>2. None
        BY <4>1, <1>t DEF JobRecord, None
      <4> QED  BY <4>2, <2>1, <2>2
    <3> QED  BY <2>7, <3>1, <3>2
  <2>8. CASE MarkRunning(e)
    <3>1. None
      BY <2>8, <1>t DEF MarkRunning, JobRecord, None
    <3> QED  BY <3>1, <2>1, <2>2
  <2>9. CASE EvidenceWrite(e)
    <3> DEFINE j == exec[e].job
               st == exec[e].saw
    <3>1. exec[e].pc = "evidence_write" /\ jobs' = [jobs EXCEPT ![j].status = st]
      BY <2>9 DEF EvidenceWrite, On, UpdateStatus, JobOf
    <3>2. j \in Jobs
      BY <3>1, ExecutorTypes
    <3>3. \A k \in Jobs : jobs'[k].status = IF k = j THEN st ELSE jobs[k].status
      BY <3>1, <3>2, <1>t DEF JobRecord
    <3>4. None
      BY <3>1, <3>2, <3>3 DEF None, Restores
    <3> QED  BY <3>4, <2>1, <2>2
  <2> QED
    BY <2>3, <2>4, <2>5, <2>6, <2>7, <2>8, <2>9 DEF RunStep, Claim, ClaimRefused, LoadTerminal,
       LoadRefused, Load, CheckBudget, LeaseRefused, Leased, WorkerEnds, WaitEnds, ReadOutcome,
       FailWorkerRead, Breaks, EvidenceRead, EvidenceSkipped
<1>6. ASSUME NEW e \in Executors, Crash(e) PROVE Same /\ None /\ Threaded
  <2>1. Same /\ UNCHANGED jobs
    BY <1>6 DEF Crash, Same
  <2> QED  BY <1>6, <2>1, <1>k, <1>d DEF Crash
<1>7. ASSUME NEW j \in Jobs, NEW st \in OperatorSets, Operate(j, st)
      PROVE  Same /\ None /\ Threaded
  BY <1>7, <1>u, <1>s, OperatorAssumption DEF Operate
<1>8. ASSUME NEW j \in Jobs, OrphanEnds(j), UNCHANGED serviceVars PROVE Same /\ None /\ Threaded
  BY <1>8, <1>k, <1>s DEF OrphanEnds
<1>9. CASE UNCHANGED vars
  <2>1. UNCHANGED serviceVars /\ UNCHANGED jobs
    BY <1>9 DEF vars, serviceVars
  <2> QED  BY <2>1, <1>k, <1>s
<1> QED
  BY <1>1, <1>2, <1>3, <1>4, <1>5, <1>6, <1>7, <1>8, <1>9

LEMMA AcceptanceStep ==
  ASSUME TInv, AcceptanceInv, RestoresDelivered, InTurn, ConcurrentLoads = FALSE, [Next]_vars
  PROVE  AcceptanceInv'
<1>1. ASSUME NEW t \in Threads, Serve(t) PROVE AcceptanceInv'
  BY <1>1, AcceptanceServe DEF Serve
<1>2. ASSUME NEW t \in Threads, NEW j \in Jobs, NEW s \in Submissions, Post(t, j, s)
      PROVE  AcceptanceInv'
  BY <1>2, AcceptancePost DEF Post
<1>3. ASSUME NEW r \in Recoverers, LoadContext(r) PROVE AcceptanceInv'
  BY <1>3, AcceptanceLoad DEF LoadContext
<1>4. CASE \/ \E d \in Daemons : \/ \E j \in Jobs : ScheduleRepair(d, j) \/ ScheduleDecide(d, j)
                                 \/ ScheduleCreate(d) \/ RuntimeStart(d) \/ RuntimeStop(d)
           \/ \E e \in Executors : RunJob(e) \/ Crash(e)
           \/ \E j \in Jobs, s \in OperatorSets : Operate(j, s)
           \/ \E j \in Jobs : OrphanEnds(j) /\ UNCHANGED host /\ UNCHANGED serviceVars
           \/ UNCHANGED vars
  <2>1. \A k \in Jobs : jobs'[k].status = "accepted" => jobs[k].status = "accepted" \/ Delivered(k)
    BY <1>4, OthersAcceptNothing DEF RestoresDelivered
  <2> QED  BY <1>4, <2>1, OthersAcceptNothing, AcceptanceQuiet
<1> QED
  BY <1>1, <1>2, <1>3, <1>4 DEF Next

(* A delivered job stays one until its worker posts again.                  *)
LEMMA DeliveredStays ==
  ASSUME TInv, NEW j \in Jobs, Delivered(j), [Next]_vars,
         \A e \in Executors : ~ (exec[e].pc = "working" /\ exec[e].job = j)
  PROVE  Delivered(j)'
<1>t. /\ journal \in [Jobs -> [Submissions -> JournalRecord]] /\ thread \in [Threads -> ThreadState]
  BY ServiceParts DEF JournalsTyped, ThreadsTyped
<1>n. NoThreadState.pc = "idle"
  BY NoThreadTyped
<1>1. ASSUME NEW t \in Threads, ThreadStep(t) PROVE Delivered(j)'
  <2>1. /\ thread[t].pc # "idle" /\ task' \in {task, "done"}
        /\ \A k \in Jobs : k # thread[t].job => journal'[k] = journal[k]
        /\ \A u \in Threads : u # t => thread'[u] = thread[u]
        /\ thread'[t].pc = "idle" \/ thread'[t].job = thread[t].job
    BY <1>1, ThreadStepLocal
  <2>2. thread[t].job # j
    BY <2>1 DEF Delivered
  <2> QED  BY <2>1, <2>2 DEF Delivered, Committed
<1>2. ASSUME NEW t \in Threads, NEW k \in Jobs, NEW s \in Submissions, Post(t, k, s)
      PROVE  Delivered(j)'
  <2>1. k # j /\ UNCHANGED <<task, journal>>
    BY <1>2 DEF Post, On, JobOf, Receive
  <2>2. UNCHANGED thread \/ Begin(t, k, s)
    BY <1>2 DEF Post, Receive, ReplayAnswer, RepeatAccepted
  <2>3. Begin(t, k, s) => /\ thread'[t].job = k
                          /\ \A u \in Threads : u # t => thread'[u] = thread[u]
    BY <1>t DEF Begin, NoThreadState
  <2> QED  BY <2>1, <2>2, <2>3 DEF Delivered, Committed
<1>3. ASSUME NEW r \in Recoverers, LoaderStep(r) PROVE Delivered(j)'
  <2>1. UNCHANGED thread /\ task' \in {task, "done"}
    BY <1>3 DEF LoaderStep, RecoverPick, RecoverApply, RecoverCommit, RecoverSettle, CrashLoader
  <2>2. UNCHANGED journal \/ \E k \in Jobs, s \in Submissions : JournalSet(k, s, "committed")
    BY <1>3, LoaderTypes DEF LoaderStep, RecoverPick, RecoverApply, RecoverCommit, RecoverSettle,
       CrashLoader
  <2>3. \A s \in Submissions :
          journal[j][s].status = "committed" => journal'[j][s].status = "committed"
    <3>1. CASE UNCHANGED journal
      BY <3>1
    <3>2. ASSUME NEW k \in Jobs, NEW u \in Submissions, JournalSet(k, u, "committed")
          PROVE  \A s \in Submissions :
                   journal[j][s].status = "committed" => journal'[j][s].status = "committed"
      <4>1. journal' = [journal EXCEPT ![k][u].status = "committed"]
        BY <3>2 DEF JournalSet
      <4> QED  BY <4>1, <1>t DEF JournalRecord
    <3> QED  BY <2>2, <3>1, <3>2
  <2> QED  BY <2>1, <2>3 DEF Delivered, Committed
<1>4. CASE \/ \E d \in Daemons : \/ \E k \in Jobs : ScheduleRepair(d, k) \/ ScheduleDecide(d, k)
                                 \/ ScheduleCreate(d) \/ RuntimeStart(d) \/ RuntimeStop(d)
           \/ \E e \in Executors : RunJob(e) \/ Crash(e)
           \/ \E k \in Jobs, s \in OperatorSets : Operate(k, s)
           \/ \E k \in Jobs : OrphanEnds(k) /\ UNCHANGED host /\ UNCHANGED serviceVars
           \/ UNCHANGED vars
  BY <1>4, <1>n, OthersAcceptNothing DEF Delivered, Committed
<1> QED
  BY <1>1, <1>2, <1>3, <1>4 DEF Next, Serve, LoadContext

(* An accepted status that is about to be written back has been read.       *)
LEMMA RestoresRead ==
  ASSUME TInv, NEW e \in Executors, NEW j \in Jobs, [Next]_vars, Restores(e, j)'
  PROVE  Restores(e, j) \/ (EvidenceRead(e) /\ exec[e].job = j /\ jobs[j].status = "accepted")
<1>t. exec \in [Executors -> ExecutorState]
  BY DEF TInv, TypeOK, ExecutorTypeOK
<1>i. IdleExecutor.pc = "idle" /\ \A pc : [IdleExecutor EXCEPT !.pc = pc].saw = "absent"
  BY DEF IdleExecutor
<1>k. exec'[e] = exec[e] => Restores(e, j)
  BY DEF Restores
<1>d. ASSUME NEW f \in Executors, NEW pc \in {"idle", "down"}, ExecutorDies(f, pc)
      PROVE  exec'[e] = exec[e]
  BY <1>d, <1>t DEF ExecutorDies, IdleExecutor, Restores
<1>1. ASSUME NEW d \in Daemons,
             (\E k \in Jobs : ScheduleRepair(d, k) \/ ScheduleDecide(d, k)) \/ ScheduleCreate(d)
             \/ RuntimeStart(d)
      PROVE  exec'[e] = exec[e]
  BY <1>1, DaemonMoves DEF Restores
<1>2. ASSUME NEW f \in Executors, f # e, RunJob(f) PROVE exec'[e] = exec[e]
  BY <1>2, <1>t, RunStepClaims DEF RunJob, Claim
<1>3. CASE RunJob(e)
  <2>1. ~ (\E k \in Jobs : Claim(e, k)) /\ ~ ClaimRefused(e) /\ ~ Finish(e)
    BY <1>t, <1>i DEF Claim, ClaimRefused, Finish, IdleExecutor, Restores
  <2>2. ~ (Load(e) \/ AdmitAttempt(e) \/ EvidenceWrite(e))
    BY <1>t DEF Load, AdmitAttempt, EvidenceWrite, ExecutorState, Restores
  <2>3. ~ (LoadTerminal(e) \/ LoadRefused(e) \/ CheckBudget(e) \/ LeaseRefused(e) \/ Leased(e)
           \/ MarkRunning(e) \/ SaveEnvironment(e) \/ Launch(e) \/ WorkerEnds(e) \/ WaitEnds(e)
           \/ ReadOutcome(e) \/ FailWorkerRead(e) \/ Breaks(e) \/ WriteFailed(e)
           \/ EvidenceSkipped(e))
    <3> SUFFICES ASSUME NEW pc, pc # "evidence_write", exec' = [exec EXCEPT ![e].pc = pc]
                 PROVE  FALSE
      BY DEF LoadTerminal, LoadRefused, CheckBudget, LeaseRefused, Leased, MarkRunning,
         SaveEnvironment, Launch, WorkerEnds, WaitEnds, ReadOutcome, FailWorkerRead, Breaks,
         WriteFailed, EvidenceSkipped, Move
    <3> QED  BY <1>t DEF ExecutorState, Restores
  <2>4. EvidenceRead(e)
    BY <1>3, <2>1, <2>2, <2>3 DEF RunJob, RunStep
  <2>5. exec[e].job = j /\ jobs[j].status = "accepted"
    BY <2>4, <1>t DEF EvidenceRead, Restores, ExecutorState, Status, JobOf
  <2> QED  BY <2>4, <2>5
<1>4. ASSUME NEW f \in Executors, Crash(f) PROVE exec'[e] = exec[e]
  BY <1>4, <1>d DEF Crash
<1>5. ASSUME NEW d \in Daemons, RuntimeStop(d) PROVE exec'[e] = exec[e]
  BY <1>5, <1>d, DaemonsAssumption DEF RuntimeStop
<1>6. CASE \/ \E t \in Threads : Serve(t) \/ \E k \in Jobs, s \in Submissions : Post(t, k, s)
           \/ \E r \in Recoverers : LoadContext(r)
           \/ \E k \in Jobs, s \in OperatorSets : Operate(k, s)
           \/ \E k \in Jobs : OrphanEnds(k)
           \/ UNCHANGED vars
  BY <1>6, <1>k DEF Serve, Post, LoadContext, Operate, OrphanEnds, vars, executorVars
<1> QED
  BY <1>k, <1>1, <1>2, <1>3, <1>4, <1>5, <1>6 DEF Next

LEMMA RestoresStep ==
  ASSUME TInv, ClaimsHeld, AcceptanceInv, RestoresDelivered, [Next]_vars
  PROVE  RestoresDelivered'
<1> SUFFICES ASSUME NEW e \in Executors, NEW j \in Jobs, Restores(e, j)' PROVE Delivered(j)'
  BY DEF RestoresDelivered
<1>1. Restores(e, j) \/ (EvidenceRead(e) /\ exec[e].job = j /\ jobs[j].status = "accepted")
  BY RestoresRead
<1>2. Delivered(j)
  <2>1. CASE Restores(e, j)
    BY <2>1 DEF RestoresDelivered
  <2>2. CASE jobs[j].status = "accepted"
    BY <2>2 DEF AcceptanceInv, AcceptedIsDelivered, ThreadOpen, Status, Delivered
  <2> QED  BY <1>1, <2>1, <2>2
<1>3. exec[e].pc \in Claiming \ {"working"} /\ exec[e].job = j
  BY <1>1, ClaimingPcs DEF Restores, EvidenceRead, On
<1>4. \A f \in Executors : ~ (exec[f].pc = "working" /\ exec[f].job = j)
  BY <1>3, ClaimingPcs DEF ClaimsHeld, Claimed
<1> QED
  BY <1>2, <1>4, DeliveredStays

LEMMA AcceptanceInit == Init => AcceptanceInv
<1> SUFFICES ASSUME Init PROVE AcceptanceInv
  OBVIOUS
<1>1. NoThreadActive /\ NoLoaderActive
  BY NoThreadTyped DEF Init, ServiceInit, NoThreadActive, NoLoaderActive, At, NoLoaderState
<1>2. \A j \in Jobs : jobs[j].status = "absent"
  BY DEF Init, JobsInit, NewRecord
<1> QED
  BY <1>1, <1>2 DEF AcceptanceInv, NoThreadActive, NoLoaderActive, At, ThreadOpen, ThreadDelivers,
     LoaderDelivers, AcceptedIsDelivered, Status

LEMMA RestoresInit == Init => RestoresDelivered
  BY DEF Init, ExecutorInit, IdleExecutor, RestoresDelivered, Restores

(* An accepted job has its acceptance journal committed and its task moved, *)
(* with any number of daemons, commands, threads and context loads, through *)
(* every failure, crash, late status write and operator command, as long as *)
(* the submissions of one job come in turn and nobody loads a context while *)
(* one is in submit.                                                        *)
THEOREM AcceptedMeansDelivered ==
  ASSUME ConcurrentLoads = FALSE
  PROVE  Spec /\ []InTurn => []AcceptedIsDelivered
<1>1. Init => AcceptanceInv /\ RestoresDelivered
  BY AcceptanceInit, RestoresInit
<1>2. TInv /\ ClaimsHeld /\ AcceptanceInv /\ RestoresDelivered /\ InTurn /\ [Next]_vars
        => AcceptanceInv' /\ RestoresDelivered'
  BY AcceptanceStep, RestoresStep
<1>3. AcceptanceInv => AcceptedIsDelivered
  BY DEF AcceptanceInv
<1> QED
  BY <1>1, <1>2, <1>3, TypedAlways, ClaimsAlways, PTL DEF Spec
=============================================================================
