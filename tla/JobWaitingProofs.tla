-------------------------- MODULE JobWaitingProofs --------------------------
(***************************************************************************)
(* Proofs about JobRuntime while nothing fails, dies or is operated: then  *)
(* a worker waits for the replies to what it has posted, and submit and the *)
(* executor never write one job at a time, however many daemons, commands, *)
(* handler threads and context loads there are.  A verifier may still raise *)
(* and a lease be busy, and a recovery may overtake an acceptance.          *)
(***************************************************************************)
EXTENDS JobRuntimeProofs

Orderly ==
    /\ MaxCrashes = 0 /\ OperatorSets = {}
    /\ EffectsFail = FALSE /\ RunFails = FALSE /\ WorkerMayQuit = FALSE

(* Where an executor keeps its job active.                                  *)
HoldsActive == {"budget", "bound", "leasing", "admitting", "marking", "environment", "launching",
                "failing", "fail_write"}

(* Where a thread is in submit: before its journal is prepared, and after.  *)
Before == {"capturing", "capture_write", "capture_reject", "verifying", "verify_write",
           "rejecting", "reject_write", "publishing"}
After == {"applying", "committing", "accepting"}

Journaled(j, s) == journal[j][s].status # "none"

(* Executors: who runs a job has its lock and it is not absent; one that    *)
(* has not launched its worker or is about to fail it has it active; the    *)
(* status that is written back is the job's; and one scheduler creates,     *)
(* while nothing is active or delivered.                                    *)
Holding(e) ==
    LET j == exec[e].job
        pc == exec[e].pc
    IN  /\ pc \notin {"broken", "down"}
        /\ pc \notin {"idle", "creating", "down"} => jobs[j].status # "absent"
        /\ pc \in HoldsActive => jobs[j].status \in Active
        /\ pc = "evidence_write" => exec[e].saw = jobs[j].status
        /\ pc = "creating" => /\ e \in Daemons
                              /\ \A k \in Jobs : jobs[k].status \notin Active
                              /\ \A k \in Jobs, s \in Submissions : ~ Journaled(k, s)

OneCreates == \A d, e \in Executors : On(d, "creating") /\ On(e, "creating") => d = e

ExecutorsOrder == OneCreates /\ \A e \in Executors : Claimed(e) /\ Holding(e)

(* Threads: the worker of the job is up until submit returns.  Up to the    *)
(* journal the job is as submit has left it, and the submission is not      *)
(* answered; from then on the journal says what the job will be given, by   *)
(* the thread or by a recovery before it.                                   *)
Hosted(t) == thread[t].pc # "idle" =>
    /\ host[t] \in Executors
    /\ exec[host[t]].pc = "working" /\ exec[host[t]].job = thread[t].job

Submitting(t) ==
    LET j == thread[t].job
        s == thread[t].sub
        pc == thread[t].pc
    IN  /\ pc # "failing"
        /\ pc = "marking" => jobs[j].status \in {"pending", "running", "completion_rejected"}
        /\ pc \in Before => jobs[j].status = "completion_submitted"
        /\ pc \in {"capture_write", "verify_write"} => thread[t].saw = "completion_submitted"
        /\ pc \in Before \cup {"marking"} =>
             /\ \A u \in Submissions : ~ Journaled(j, u)
             /\ jobs[j].answers[s] = "none"
        /\ pc \in (Before \ {"rejecting"}) \cup {"marking"} => thread[t].answers = jobs[j].answers

Accepting(t) ==
    LET j == thread[t].job
        s == thread[t].sub
        pc == thread[t].pc
        new == [thread[t].answers EXCEPT ![s] = "accepted"]
    IN  /\ pc \in After =>
             /\ Journaled(j, s) /\ journal[j][s].answers = new
             /\ thread[t].answers[s] = "none"
             /\ \/ jobs[j].status = "completion_submitted" /\ jobs[j].answers = thread[t].answers
                \/ jobs[j].status = "accepted" /\ jobs[j].answers = new
        /\ pc \in {"committing", "accepting"} => task = "done"
        /\ pc = "accepting" => journal[j][s].status = "committed"

ThreadOrder(t) == Hosted(t) /\ Submitting(t) /\ Accepting(t)

(* Journals: there is one of all jobs and submissions, its job is accepted  *)
(* or its thread at work, and no other job is active.                       *)
Owned(j, s) == Journaled(j, s) =>
    \/ jobs[j].status = "accepted"
    \/ \E t \in Threads : thread[t].pc \in After /\ thread[t].job = j /\ thread[t].sub = s

Alone(j, s) == Journaled(j, s) =>
    /\ \A k \in Jobs, u \in Submissions : Journaled(k, u) => k = j /\ u = s
    /\ \A k \in Jobs : k # j => jobs[k].status \notin Active

Loading(r) ==
    /\ loader[r].pc # "idle" => Journaled(loader[r].job, loader[r].sub)
    /\ loader[r].pc \in {"committing", "settling"} => task = "done"
    /\ loader[r].pc = "settling" => journal[loader[r].job][loader[r].sub].status = "committed"

(* What was replied is what is recorded, or the job is accepted without an  *)
(* answer to this submission and the reply says so.                         *)
Told(j, s) == \A v \in told[j][s] :
    \/ jobs[j].answers[s] = v
    \/ jobs[j].answers[s] = "none" /\ jobs[j].status = "accepted" /\ v = "accepted"

ServiceOrder ==
    /\ \A t \in Threads : ThreadOrder(t)
    /\ \A j \in Jobs, s \in Submissions : Owned(j, s) /\ Alone(j, s) /\ Told(j, s)
    /\ \A r \in Recoverers : Loading(r)
    /\ AtMostOneActive /\ AcceptedIsDelivered

WInv == ExecutorsOrder /\ ServiceOrder

(* What no step does to a record.                                           *)
Stands(j) ==
    /\ jobs[j].status = "accepted" => jobs'[j].status = "accepted"
    /\ jobs[j].status \in Terminal => jobs'[j].status \in Terminal
    /\ \A s \in Submissions :
         jobs[j].answers[s] # "none" => jobs'[j].answers[s] = jobs[j].answers[s]

-----------------------------------------------------------------------------
Serving(j) == \E t \in Threads : thread[t].pc # "idle" /\ thread[t].job = j

(* While an executor is not waiting for its worker, no thread serves its    *)
(* job.                                                                     *)
LEMMA HeldAlone ==
  ASSUME TInv, WInv, NEW e \in Executors, exec[e].pc \in Claiming \ {"working"}
  PROVE  ~ Serving(exec[e].job)
<1> SUFFICES ASSUME NEW t \in Threads, thread[t].pc # "idle", thread[t].job = exec[e].job
             PROVE  FALSE
  BY DEF Serving
<1>1. host[t] \in Executors /\ exec[host[t]].pc = "working" /\ exec[host[t]].job = exec[e].job
  BY DEF WInv, ServiceOrder, ThreadOrder, Hosted
<1>2. claim[exec[e].job] = host[t]
  BY <1>1, ClaimingPcs DEF WInv, ExecutorsOrder, Claimed
<1>3. claim[exec[e].job] = e
  BY DEF WInv, ExecutorsOrder, Claimed
<1> QED
  BY <1>1, <1>2, <1>3

LEMMA ActiveUnserved ==
  ASSUME TInv, WInv, NEW j \in Jobs, ~ Serving(j), jobs[j].status # "accepted"
  PROVE  \A s \in Submissions : ~ Journaled(j, s)
  BY DEF WInv, ServiceOrder, Owned, Serving, After

-----------------------------------------------------------------------------
(* A step of an executor or a scheduler: of the service it lets everything  *)
(* be, it writes no answer, and a status only of a job without a thread.    *)
Steers ==
    /\ UNCHANGED <<task, journal, loader, told>>
    /\ \A t \in Threads :
         \/ thread[t].pc = "idle" /\ thread'[t].pc = "idle"
         \/ thread'[t] = thread[t] /\ host'[t] = host[t] /\ exec'[host[t]] = exec[host[t]]
    /\ \A k \in Jobs : jobs'[k].answers = jobs[k].answers
    /\ \A k \in Jobs : jobs'[k].status # jobs[k].status =>
         /\ ~ Serving(k)
         /\ jobs[k].status \in Active \cup {"absent"}
         /\ jobs'[k].status \in Active \cup {"failed"}
    /\ \A k \in Jobs : jobs'[k].status \in Active =>
         \/ jobs[k].status \in Active
         \/ \A l \in Jobs, s \in Submissions : ~ Journaled(l, s)

LEMMA SteersService ==
  ASSUME TInv, WInv, Steers, AtMostOneActive'
  PROVE  ServiceOrder' /\ \A j \in Jobs : Stands(j)
<1>a. "accepted" \notin Active /\ "absent" \notin Active /\ "failed" \notin Active
      /\ Active \cap Terminal = {} /\ "absent" \notin Terminal
  BY DEF Active, Terminal
<1>1. ASSUME NEW t \in Threads PROVE ThreadOrder(t)'
  <2>0. ThreadOrder(t)
    BY DEF WInv, ServiceOrder
  <2>1. CASE thread'[t].pc = "idle"
    BY <2>1 DEF ThreadOrder, Hosted, Submitting, Accepting, Before, After
  <2>2. CASE thread'[t].pc # "idle"
    <3>1. thread'[t] = thread[t] /\ host'[t] = host[t] /\ exec'[host[t]] = exec[host[t]]
      BY <2>2 DEF Steers
    <3>2. thread[t].job \in Jobs /\ thread[t].sub \in Submissions
      BY <2>2, <3>1, ThreadTypes
    <3>3. jobs'[thread[t].job].status = jobs[thread[t].job].status
          /\ jobs'[thread[t].job].answers = jobs[thread[t].job].answers
      BY <2>2, <3>1, <3>2 DEF Steers, Serving
    <3>4. UNCHANGED <<task, journal>>
      BY DEF Steers
    <3>5. Hosted(t)'
      BY <2>0, <3>1 DEF ThreadOrder, Hosted
    <3>6. Submitting(t)'
      BY <2>0, <3>1, <3>2, <3>3, <3>4 DEF ThreadOrder, Submitting, Journaled
    <3>7. Accepting(t)'
      BY <2>0, <3>1, <3>2, <3>3, <3>4 DEF ThreadOrder, Accepting, Journaled
    <3> QED  BY <3>5, <3>6, <3>7 DEF ThreadOrder
  <2> QED  BY <2>1, <2>2
<1>2. ASSUME NEW j \in Jobs, NEW s \in Submissions PROVE Owned(j, s)' /\ Alone(j, s)' /\ Told(j, s)'
  <2>0. Owned(j, s) /\ Alone(j, s) /\ Told(j, s)
    BY DEF WInv, ServiceOrder
  <2>1. Owned(j, s)'
    <3> SUFFICES ASSUME Journaled(j, s) PROVE Owned(j, s)'
      BY DEF Steers, Owned, Journaled
    <3>1. CASE jobs[j].status = "accepted"
      BY <3>1, <1>a DEF Steers, Owned
    <3>2. CASE \E t \in Threads : thread[t].pc \in After /\ thread[t].job = j /\ thread[t].sub = s
      <4>1. PICK t \in Threads : thread[t].pc \in After /\ thread[t].job = j /\ thread[t].sub = s
        BY <3>2
      <4>2. thread'[t] = thread[t]
        BY <4>1 DEF Steers, After
      <4> QED  BY <4>1, <4>2 DEF Owned
    <3> QED  BY <2>0, <3>1, <3>2 DEF Owned
  <2>2. Alone(j, s)'
    BY <2>0 DEF Steers, Alone, Journaled
  <2>3. Told(j, s)'
    BY <2>0, <1>a DEF Steers, Told
  <2> QED  BY <2>1, <2>2, <2>3
<1>3. \A r \in Recoverers : Loading(r)'
  BY DEF WInv, ServiceOrder, Steers, Loading, Journaled
<1>4. AcceptedIsDelivered'
  <2>1. \A j \in Jobs : jobs'[j].status = "accepted" => jobs[j].status = "accepted"
    BY <1>a DEF Steers
  <2> QED  BY <2>1 DEF WInv, ServiceOrder, Steers, AcceptedIsDelivered, Status, Committed
<1>5. ASSUME NEW j \in Jobs PROVE Stands(j)
  BY <1>a DEF Steers, Stands
<1> QED
  BY <1>1, <1>2, <1>3, <1>4, <1>5 DEF ServiceOrder

(* The executors: the one that moves is in order again, and what it does    *)
(* touches no other's job.                                                  *)
MovesOne(e) ==
    /\ \A f \in Executors : f # e => exec'[f] = exec[f]
    /\ \A k \in Jobs : claim'[k] = claim[k] \/ claim[k] \in {e, NoExecutor}
    /\ \A k \in Jobs : jobs'[k].status # jobs[k].status =>
         /\ k = exec[e].job /\ exec[e].pc \in Claiming \ {"working"}
         /\ jobs[k].status \in Active /\ jobs'[k].status \in {"running", "failed"}
    /\ (Claimed(e) /\ Holding(e))' /\ exec'[e].pc # "creating"

LEMMA MovesOneKeepsOrder ==
  ASSUME TInv, WInv, NEW e \in Executors, MovesOne(e), UNCHANGED journal
  PROVE  ExecutorsOrder'
<1>a. "absent" \notin Active /\ "failed" \notin Active /\ "running" \in Active
  BY DEF Active
<1>b. NoExecutor \notin Executors
  BY ExecutorSentinelAssumption
<1>1. ASSUME NEW f \in Executors, f # e PROVE Claimed(f)' /\ Holding(f)'
  <2>0. Claimed(f) /\ Holding(f) /\ Claimed(e) /\ exec'[f] = exec[f]
    BY <1>1 DEF WInv, ExecutorsOrder, MovesOne
  <2>1. Claimed(f)'
    <3> SUFFICES ASSUME exec[f].pc \in Claiming PROVE claim'[exec[f].job] = f
      BY <2>0 DEF Claimed
    <3>1. exec[f].job \in Jobs /\ claim[exec[f].job] = f
      BY <2>0, ExecutorTypes, ClaimingPcs DEF Claimed
    <3> QED  BY <3>1, <1>1, <1>b DEF MovesOne
  <2>2. ASSUME exec[f].pc \in Claiming PROVE jobs'[exec[f].job].status = jobs[exec[f].job].status
    <3>1. exec[f].job \in Jobs /\ claim[exec[f].job] = f
      BY <2>2, <2>0, ExecutorTypes, ClaimingPcs DEF Claimed
    <3> QED  BY <3>1, <1>1, <2>0 DEF MovesOne, Claimed
  <2>3. HoldsActive \subseteq Claiming
    BY ClaimingPcs DEF HoldsActive
  <2>4. exec[f].pc # "idle" => exec[f].job \in Jobs
    BY <2>0, ExecutorTypes DEF Holding
  <2>5. \A k \in Jobs : /\ jobs[k].status # "absent" => jobs'[k].status # "absent"
                        /\ jobs[k].status \notin Active => jobs'[k].status \notin Active
    BY <1>a DEF MovesOne
  <2>6. Holding(f)'
    <3>1. exec[f].pc \notin {"broken", "down"}
      BY <2>0 DEF Holding
    <3>2. exec[f].pc \notin {"idle", "creating", "down"} => jobs'[exec[f].job].status # "absent"
      BY <2>0, <2>4, <2>5 DEF Holding
    <3>3. exec[f].pc \in HoldsActive => jobs'[exec[f].job].status \in Active
      BY <2>0, <2>2, <2>3 DEF Holding
    <3>5. exec[f].pc = "evidence_write" => exec[f].saw = jobs'[exec[f].job].status
      BY <2>0, <2>2, ClaimingPcs DEF Holding
    <3>4. exec[f].pc = "creating" => /\ f \in Daemons
                                     /\ \A k \in Jobs : jobs'[k].status \notin Active
                                     /\ \A k \in Jobs, s \in Submissions : ~ Journaled(k, s)'
      BY <2>0, <2>5 DEF Holding, Journaled
    <3> QED  BY <2>0, <3>1, <3>2, <3>3, <3>4, <3>5 DEF Holding
  <2> QED  BY <2>1, <2>6
<1>2. OneCreates'
  BY DEF WInv, ExecutorsOrder, OneCreates, MovesOne, On
<1> QED
  BY <1>1, <1>2 DEF ExecutorsOrder, MovesOne

(* A step of the service writes a status only of an active job with a       *)
(* thread, and prepares a journal only while some job is active.            *)
LEMMA ServiceKeepsExecutors ==
  ASSUME TInv, WInv, UNCHANGED <<exec, claim>>,
         \A k \in Jobs : jobs'[k].status # jobs[k].status =>
            jobs[k].status \in Active /\ Serving(k) /\ jobs'[k].status # "absent",
         \A k \in Jobs : jobs'[k].status \in Active => jobs[k].status \in Active,
         \A k \in Jobs, s \in Submissions : Journaled(k, s)' =>
            Journaled(k, s) \/ \E l \in Jobs : jobs[l].status \in Active
  PROVE  ExecutorsOrder'
<1>1. ASSUME NEW e \in Executors PROVE Claimed(e)' /\ Holding(e)'
  <2>0. Claimed(e) /\ Holding(e)
    BY DEF WInv, ExecutorsOrder
  <2>1. Claimed(e)'
    BY <2>0 DEF Claimed
  <2>2. exec[e].pc # "idle" => exec[e].job \in Jobs
    BY <2>0, ExecutorTypes DEF Holding
  <2>3. exec[e].pc \in HoldsActive \cup {"evidence_write"} =>
           jobs'[exec[e].job].status = jobs[exec[e].job].status
    <3> SUFFICES ASSUME exec[e].pc \in HoldsActive \cup {"evidence_write"}
                 PROVE  jobs'[exec[e].job].status = jobs[exec[e].job].status
      OBVIOUS
    <3>1. exec[e].pc \in Claiming \ {"working"} /\ exec[e].job \in Jobs
      BY <2>2, ClaimingPcs DEF HoldsActive
    <3>2. ~ Serving(exec[e].job)
      BY <3>1, HeldAlone
    <3> QED  BY <3>1, <3>2
  <2>4. exec[e].pc \notin {"broken", "down"}
    BY <2>0 DEF Holding
  <2>5. exec[e].pc \notin {"idle", "creating", "down"} => jobs'[exec[e].job].status # "absent"
    BY <2>0, <2>2 DEF Holding
  <2>6. exec[e].pc \in HoldsActive => jobs'[exec[e].job].status \in Active
    BY <2>0, <2>3 DEF Holding
  <2>7. exec[e].pc = "creating" => /\ e \in Daemons
                                   /\ \A k \in Jobs : jobs'[k].status \notin Active
                                   /\ \A k \in Jobs, s \in Submissions : ~ Journaled(k, s)'
    BY <2>0 DEF Holding
  <2>9. exec[e].pc = "evidence_write" => exec[e].saw = jobs'[exec[e].job].status
    BY <2>0, <2>3 DEF Holding
  <2>8. Holding(e)'
    BY <2>4, <2>5, <2>6, <2>7, <2>9 DEF Holding
  <2> QED  BY <2>1, <2>8
<1>2. OneCreates'
  BY DEF WInv, ExecutorsOrder, OneCreates, On
<1> QED
  BY <1>1, <1>2 DEF ExecutorsOrder

-----------------------------------------------------------------------------
(* The steps of a run.                                                      *)
LEMMA RunMovesOne ==
  ASSUME TInv, WInv, Orderly, NEW e \in Executors,
         RunStep(e) \/ \E j \in Jobs : Claim(e, j)
  PROVE  MovesOne(e) /\ \A k \in Jobs : jobs'[k].answers = jobs[k].answers
<1> DEFINE j == exec[e].job
           Rest == /\ \A f \in Executors : f # e => exec'[f] = exec[f]
                   /\ \A k \in Jobs : jobs'[k].answers = jobs[k].answers
           Same == \A k \in Jobs : jobs'[k].status = jobs[k].status
           Writes == /\ exec[e].pc \in Claiming \ {"working"} /\ jobs[j].status \in Active
                     /\ jobs'[j].status \in {"running", "failed"}
                     /\ \A k \in Jobs : k # j => jobs'[k].status = jobs[k].status
           Locks == \A k \in Jobs : claim'[k] = claim[k] \/ claim[k] \in {e, NoExecutor}
           Goes(pc) == exec'[e].pc = pc /\ exec'[e].job = j
<1>t. /\ jobs \in [Jobs -> JobRecord] /\ exec \in [Executors -> ExecutorState]
      /\ claim \in [Jobs -> Executors \cup {NoExecutor}]
  BY DEF TInv, TypeOK, JobsTypeOK, ExecutorTypeOK
<1>h. Claimed(e) /\ Holding(e)
  BY DEF WInv, ExecutorsOrder
<1>m. ASSUME NEW pc \in ExecutorPcs, exec' = [exec EXCEPT ![e].pc = pc] PROVE Goes(pc)
  BY <1>m, <1>t DEF ExecutorState
<1>r. ASSUME Rest, Same \/ Writes, Locks, (Claimed(e) /\ Holding(e))', exec'[e].pc # "creating"
      PROVE  MovesOne(e) /\ \A k \in Jobs : jobs'[k].answers = jobs[k].answers
  BY <1>r DEF MovesOne
<1>u. UNCHANGED jobs => Same /\ \A k \in Jobs : jobs'[k].answers = jobs[k].answers
  OBVIOUS
<1>i. /\ IdleExecutor.pc = "idle" /\ "idle" \notin Claiming
      /\ exec'[e].pc = "idle" => (Claimed(e) /\ Holding(e))'
  BY ClaimingPcs DEF IdleExecutor, Claimed, Holding, HoldsActive
<1>c. ASSUME NEW pc \in Claiming \ {"broken"}, Goes(pc), claim'[j] = e,
             jobs'[j].status # "absent", pc \in HoldsActive => jobs'[j].status \in Active,
             pc = "evidence_write" => exec'[e].saw = jobs'[j].status
      PROVE  (Claimed(e) /\ Holding(e))' /\ exec'[e].pc # "creating"
  <2>1. pc \notin {"idle", "creating", "down", "broken"}
    BY ClaimingPcs
  <2>2. exec'[e].pc = pc /\ exec'[e].job = j
    BY <1>c
  <2>3. Claimed(e)'
    BY <1>c, <2>2 DEF Claimed
  <2>4. Holding(e)'
    BY <1>c, <2>1, <2>2 DEF Holding
  <2> QED  BY <2>1, <2>2, <2>3, <2>4
(* A step that changes no status and stays under the claim.                 *)
<1>k. ASSUME exec[e].pc \in Claiming, NEW pc \in Claiming \ {"broken", "evidence_write"},
             exec' = [exec EXCEPT ![e].pc = pc], UNCHANGED <<jobs, claim>>,
             pc \in HoldsActive => jobs[j].status \in Active
      PROVE  MovesOne(e) /\ \A k \in Jobs : jobs'[k].answers = jobs[k].answers
  <2>1. pc \in ExecutorPcs /\ j \in Jobs
    BY <1>k, ClaimingPcs, ExecutorTypes DEF Claiming
  <2>2. Goes(pc)
    BY <1>k, <1>m, <2>1
  <2>3. claim[j] = e /\ jobs[j].status # "absent"
    BY <1>k, <1>h, ClaimingPcs DEF Claimed, Holding
  <2>4. (Claimed(e) /\ Holding(e))' /\ exec'[e].pc # "creating"
    BY <1>k, <1>c, <2>2, <2>3
  <2>5. Rest /\ Same /\ Locks
    BY <1>k, <1>t
  <2> QED  BY <1>r, <2>4, <2>5
(* A step that writes a status under the claim.                             *)
<1>w. ASSUME exec[e].pc \in HoldsActive, NEW pc \in Claiming \ {"broken", "evidence_write"},
             exec' = [exec EXCEPT ![e].pc = pc], UNCHANGED claim,
             \A k \in Jobs : /\ jobs'[k].answers = jobs[k].answers
                             /\ k # j => jobs'[k].status = jobs[k].status,
             jobs'[j].status \in {"running", "failed"},
             pc \in HoldsActive => jobs'[j].status \in Active
      PROVE  MovesOne(e) /\ \A k \in Jobs : jobs'[k].answers = jobs[k].answers
  <2>1. pc \in ExecutorPcs /\ j \in Jobs /\ exec[e].pc \in Claiming \ {"working"}
    BY <1>w, ClaimingPcs, ExecutorTypes DEF Claiming, HoldsActive
  <2>2. Goes(pc)
    BY <1>w, <1>m, <2>1
  <2>3. claim[j] = e /\ jobs[j].status \in Active
    BY <1>w, <1>h, <2>1 DEF Claimed, Holding
  <2>4. (Claimed(e) /\ Holding(e))' /\ exec'[e].pc # "creating"
    BY <1>w, <1>c, <2>2, <2>3
  <2>5. Rest /\ Writes /\ Locks
    BY <1>w, <1>t, <2>1, <2>3
  <2> QED  BY <1>r, <2>4, <2>5
<1> HIDE DEF Goes
<1>p. \A pc : pc \in {"loading", "budget", "bound", "leasing", "admitting", "marking",
              "environment", "launching", "working", "waiting", "reading", "failing",
              "fail_write", "evidence", "refused", "finishing"}
              => pc \in Claiming \ {"broken", "evidence_write"}
  BY ClaimingPcs
<1>1. ASSUME NEW k \in Jobs, Claim(e, k)
      PROVE  MovesOne(e) /\ \A l \in Jobs : jobs'[l].answers = jobs[l].answers
  <2> DEFINE x == [IdleExecutor EXCEPT !.pc = "loading", !.job = k]
  <2>1. x.pc = "loading" /\ x.job = k
    BY <1>p, IdlePlaced DEF Claiming
  <2>2. exec' = [exec EXCEPT ![e] = x] /\ claim' = [claim EXCEPT ![k] = e] /\ UNCHANGED jobs
        /\ claim[k] = NoExecutor
    BY <1>1 DEF Claim
  <2>3. jobs[k].status # "absent"
    BY <1>1, <1>h DEF Claim, Holding, On, Status, JobOf
  <2> HIDE DEF x
  <2>4. exec'[e].pc = "loading" /\ exec'[e].job = k /\ claim'[k] = e
    BY <1>t, <2>1, <2>2
  <2>5. (Claimed(e) /\ Holding(e))'
    BY <2>2, <2>3, <2>4 DEF Claimed, Holding, HoldsActive
  <2>6. Rest /\ Same /\ Locks
    BY <1>t, <2>2
  <2> QED  BY <1>r, <2>4, <2>5, <2>6
<1>2. CASE ClaimRefused(e)
  <2>1. exec' = [exec EXCEPT ![e] = IdleExecutor] /\ UNCHANGED <<jobs, claim>>
    BY <1>2 DEF ClaimRefused
  <2>2. exec'[e].pc = "idle" /\ Rest /\ Same /\ Locks
    BY <1>t, <1>i, <2>1
  <2> QED  BY <1>r, <1>i, <2>2
<1>3. CASE LoadTerminal(e) \/ LoadRefused(e) \/ LeaseRefused(e) \/ EvidenceSkipped(e)
  <2>1. PICK pc \in {"finishing", "refused"} : exec' = [exec EXCEPT ![e].pc = pc]
    BY <1>3 DEF LoadTerminal, LoadRefused, LeaseRefused, EvidenceSkipped, Move
  <2>2. exec[e].pc \in Claiming /\ UNCHANGED <<jobs, claim>>
    BY <1>3, ClaimingPcs DEF LoadTerminal, LoadRefused, LeaseRefused, EvidenceSkipped, Move, On
  <2> QED  BY <1>k, <1>p, <2>1, <2>2 DEF HoldsActive
<1>4. CASE Load(e)
  <2> DEFINE n == IF jobs[j].attempts < MaxNumber THEN jobs[j].attempts + 1 ELSE MaxNumber
             r == (jobs[j].status = "completion_rejected" /\ jobs[j].repair_ready)
             x == [exec[e] EXCEPT !.pc = "budget", !.number = n, !.repair = r,
                                  !.repairs = jobs[j].repairs]
  <2>1. exec' = [exec EXCEPT ![e] = x]
    BY <1>4 DEF Load, JobOf
  <2>2. x.pc = "budget" /\ x.job = j
    BY <1>t DEF ExecutorState
  <2> HIDE DEF x
  <2>3. Goes("budget")
    BY <1>t, <2>1, <2>2 DEF Goes
  <2>4. exec[e].pc = "loading" /\ UNCHANGED <<jobs, claim>> /\ jobs[j].status \notin Terminal
    BY <1>4 DEF Load, On, JobOf
  <2>5. j \in Jobs /\ claim[j] = e /\ jobs[j].status # "absent"
    BY <1>h, <1>p, <2>4, ExecutorTypes DEF Claimed, Holding
  <2>6. jobs[j].status \in Active
    BY <2>4, <2>5, RecordTypes DEF Statuses, Active, Terminal
  <2>7. (Claimed(e) /\ Holding(e))' /\ exec'[e].pc # "creating"
    BY <1>c, <1>p, <2>3, <2>4, <2>5, <2>6
  <2>8. Rest /\ Same /\ Locks
    BY <1>t, <2>1, <2>4
  <2> QED  BY <1>r, <2>7, <2>8
<1>5. CASE CheckBudget(e)
  <2> DEFINE pc == IF WithinBudget THEN "leasing" ELSE "bound"
  <2>1. exec' = [exec EXCEPT ![e].pc = pc] /\ pc \in {"leasing", "bound"}
    BY <1>5 DEF CheckBudget
  <2> HIDE DEF pc
  <2>2. exec[e].pc = "budget" /\ UNCHANGED <<jobs, claim>> /\ jobs[j].status \in Active
    BY <1>5, <1>h DEF CheckBudget, On, Holding, HoldsActive
  <2> QED  BY <1>k, <1>p, <2>1, <2>2
<1>6. CASE Leased(e) \/ WaitEnds(e)
  BY <1>6, <1>k, <1>p, <1>h DEF Leased, WaitEnds, Move, On, HoldsActive, Holding
<1>7. CASE AdmitAttempt(e)
  <2> DEFINE x == [exec[e] EXCEPT !.pc = "marking", !.owed = @ \cup {exec[e].number}]
  <2>1. exec' = [exec EXCEPT ![e] = x] /\ exec[e].pc = "admitting" /\ UNCHANGED claim
    BY <1>7 DEF AdmitAttempt, On
  <2>2. x.pc = "marking" /\ x.job = j
    BY <1>t DEF ExecutorState
  <2> HIDE DEF x
  <2>3. Goes("marking")
    BY <1>t, <2>1, <2>2 DEF Goes
  <2>4. \A k \in Jobs : jobs'[k].status = jobs[k].status /\ jobs'[k].answers = jobs[k].answers
    BY <1>7, <1>t DEF AdmitAttempt, RecordAttempt, JobOf, JobRecord
  <2>5. j \in Jobs /\ claim[j] = e /\ jobs[j].status \in Active /\ jobs[j].status # "absent"
    BY <1>h, <1>p, <2>1, ExecutorTypes DEF Claimed, Holding, HoldsActive
  <2>6. (Claimed(e) /\ Holding(e))' /\ exec'[e].pc # "creating"
    BY <1>c, <1>p, <2>1, <2>3, <2>4, <2>5
  <2>7. Rest /\ Same /\ Locks
    BY <1>t, <2>1, <2>4
  <2> QED  BY <1>r, <2>6, <2>7
<1>8. CASE MarkRunning(e) \/ (SaveEnvironment(e) /\ jobs' # jobs)
  <2>1. j \in Jobs /\ exec[e].pc \in HoldsActive
    BY <1>8, <1>t, ExecutorTypes DEF MarkRunning, SaveEnvironment, Move, On, HoldsActive
  <2>2. PICK pc \in {"environment", "launching"} : exec' = [exec EXCEPT ![e].pc = pc]
    BY <1>8 DEF MarkRunning, SaveEnvironment, Move
  <2>3. jobs'[j].status = "running" /\ UNCHANGED claim
    BY <1>8, <1>t, <2>1 DEF MarkRunning, SaveEnvironment, UpdateStatus, JobOf, JobRecord
  <2>4. \A k \in Jobs : /\ jobs'[k].answers = jobs[k].answers
                        /\ k # j => jobs'[k].status = jobs[k].status
    BY <1>8, <1>t, <2>1 DEF MarkRunning, SaveEnvironment, UpdateStatus, JobOf, JobRecord
  <2>5. pc \in Claiming \ {"broken", "evidence_write"} /\ "running" \in Active
    BY <2>2, <1>p DEF Active
  <2> QED  BY <1>w, <2>1, <2>2, <2>3, <2>4, <2>5
<1>9. CASE SaveEnvironment(e) /\ jobs' = jobs
  BY <1>9, <1>k, <1>p, <1>h DEF SaveEnvironment, Move, On, HoldsActive, Holding
<1>10. CASE Launch(e)
  <2>1. j \in Jobs /\ exec[e].pc = "launching" /\ UNCHANGED claim
    BY <1>10, ExecutorTypes DEF Launch, On
  <2>2. PICK pc \in {"reading", "working"} : exec' = [exec EXCEPT ![e].pc = pc]
    BY <1>10 DEF Launch
  <2>3. \A k \in Jobs : jobs'[k].status = jobs[k].status /\ jobs'[k].answers = jobs[k].answers
    BY <1>10, <1>t DEF Launch, RecordAttempt, JobOf, JobRecord
  <2>4. pc \in Claiming \ {"broken", "evidence_write"} /\ pc \in ExecutorPcs /\ pc \notin HoldsActive
    BY <2>2, <1>p DEF Claiming, HoldsActive
  <2>5. Goes(pc)
    BY <1>m, <2>2, <2>4
  <2>6. claim[j] = e /\ jobs[j].status # "absent"
    BY <1>h, <1>p, <2>1 DEF Claimed, Holding
  <2>7. (Claimed(e) /\ Holding(e))' /\ exec'[e].pc # "creating"
    BY <1>c, <2>1, <2>3, <2>4, <2>5, <2>6
  <2>8. Rest /\ Same /\ Locks
    BY <1>t, <2>1, <2>2, <2>3
  <2> QED  BY <1>r, <2>7, <2>8
<1>11. CASE WorkerEnds(e)
  <2>1. PICK pc \in {"waiting", "reading"} : exec' = [exec EXCEPT ![e].pc = pc]
    BY <1>11 DEF WorkerEnds
  <2> QED  BY <1>11, <1>k, <1>p, <2>1 DEF WorkerEnds, On, HoldsActive
<1>12. CASE ReadOutcome(e)
  <2>1. exec[e].pc = "reading" /\ UNCHANGED <<jobs, claim>>
    BY <1>12 DEF ReadOutcome, Move, On
  <2>2. j \in Jobs /\ jobs[j].status \in Statuses \ {"absent"}
    BY <1>h, <2>1, ExecutorTypes, RecordTypes DEF Holding
  <2>3. PICK pc \in {"finishing", "evidence", "failing", "loading", "bound"} :
            /\ exec' = [exec EXCEPT ![e].pc = pc]
            /\ pc \in {"failing", "bound"} => jobs[j].status \notin Terminal
    BY <1>12 DEF ReadOutcome, Move, JobOf, Terminal
  <2>4. pc \in HoldsActive => jobs[j].status \in Active
    BY <2>2, <2>3 DEF HoldsActive, Statuses, Terminal, Active
  <2> QED  BY <1>k, <1>p, <2>1, <2>3, <2>4
<1>13. CASE FailWorkerRead(e)
  <2>1. exec[e].pc = "failing" /\ UNCHANGED <<jobs, claim>> /\ jobs[j].status \in Active
    BY <1>13, <1>h DEF FailWorkerRead, On, Holding, HoldsActive
  <2>2. PICK pc \in {"finishing", "fail_write"} : exec' = [exec EXCEPT ![e].pc = pc]
    BY <1>13 DEF FailWorkerRead
  <2> QED  BY <1>k, <1>p, <2>1, <2>2
<1>14. CASE WriteFailed(e)
  <2>1. j \in Jobs /\ exec[e].pc \in HoldsActive /\ UNCHANGED claim
    BY <1>14, <1>h, ExecutorTypes DEF WriteFailed, Holding, HoldsActive
  <2>2. jobs'[j].status = "failed"
    BY <1>14, <1>t, <2>1 DEF WriteFailed, UpdateStatus, JobOf, JobRecord
  <2>3. \A k \in Jobs : /\ jobs'[k].answers = jobs[k].answers
                        /\ k # j => jobs'[k].status = jobs[k].status
    BY <1>14, <1>t, <2>1 DEF WriteFailed, UpdateStatus, JobOf, JobRecord
  <2>4. PICK pc \in {"evidence", "finishing"} : exec' = [exec EXCEPT ![e].pc = pc]
    BY <1>14 DEF WriteFailed
  <2>5. pc \in Claiming \ {"broken", "evidence_write"} /\ pc \notin HoldsActive
    BY <1>p, <2>4 DEF HoldsActive
  <2> QED  BY <1>w, <2>1, <2>2, <2>3, <2>4, <2>5
<1>17. CASE EvidenceRead(e)
  <2> DEFINE x == [exec[e] EXCEPT !.pc = "evidence_write", !.saw = jobs[j].status]
  <2>1. exec[e].pc = "evidence" /\ exec' = [exec EXCEPT ![e] = x] /\ UNCHANGED <<jobs, claim>>
    BY <1>17, <1>t DEF EvidenceRead, On, JobOf, Status
  <2>2. x.pc = "evidence_write" /\ x.job = j /\ x.saw = jobs[j].status
    BY <1>t DEF ExecutorState
  <2> HIDE DEF x
  <2>3. exec'[e] = x /\ Goes("evidence_write")
    BY <1>t, <2>1, <2>2 DEF Goes
  <2>4. claim[j] = e /\ jobs[j].status # "absent" /\ "evidence_write" \notin HoldsActive
        /\ "evidence_write" \in Claiming \ {"broken"}
    BY <1>h, <2>1, ClaimingPcs DEF Claimed, Holding, HoldsActive
  <2>5. (Claimed(e) /\ Holding(e))' /\ exec'[e].pc # "creating"
    BY <1>c, <2>1, <2>2, <2>3, <2>4
  <2>6. Rest /\ Same /\ Locks
    BY <1>t, <2>1
  <2> QED  BY <1>r, <2>5, <2>6
<1>18. CASE EvidenceWrite(e)
  <2> DEFINE x == [exec[e] EXCEPT !.pc = "finishing", !.saw = "absent"]
  <2>1. exec[e].pc = "evidence_write" /\ exec' = [exec EXCEPT ![e] = x] /\ UNCHANGED claim
    BY <1>18, <1>t DEF EvidenceWrite, On
  <2>2. x.pc = "finishing" /\ x.job = j
    BY <1>t DEF ExecutorState
  <2> HIDE DEF x
  <2>3. Goes("finishing")
    BY <1>t, <2>1, <2>2 DEF Goes
  <2>4. claim[j] = e /\ jobs[j].status # "absent" /\ exec[e].saw = jobs[j].status /\ j \in Jobs
    BY <1>h, <2>1, ClaimingPcs, ExecutorTypes DEF Claimed, Holding
  <2>5. \A k \in Jobs : jobs'[k].status = jobs[k].status /\ jobs'[k].answers = jobs[k].answers
    BY <1>18, <1>t, <2>4 DEF EvidenceWrite, UpdateStatus, JobOf, JobRecord
  <2>6. (Claimed(e) /\ Holding(e))' /\ exec'[e].pc # "creating"
    BY <1>c, <1>p, <2>1, <2>3, <2>4, <2>5 DEF HoldsActive
  <2>7. Rest /\ Same /\ Locks
    BY <1>t, <2>1, <2>5
  <2> QED  BY <1>r, <2>6, <2>7
<1>15. CASE Finish(e)
  <2>1. exec' = [exec EXCEPT ![e] = IdleExecutor] /\ claim' = [claim EXCEPT ![j] = NoExecutor]
        /\ exec[e].pc \in {"finishing", "refused"}
    BY <1>15 DEF Finish, JobOf
  <2>2. j \in Jobs /\ claim[j] = e
    BY <1>h, <1>p, <2>1, ExecutorTypes DEF Claimed
  <2>3. \A k \in Jobs : jobs'[k].status = jobs[k].status /\ jobs'[k].answers = jobs[k].answers
    BY <1>15, <1>t, <2>2 DEF Finish, JobOf, JobRecord
  <2>4. exec'[e].pc = "idle" /\ Rest /\ Same /\ Locks
    BY <1>t, <1>i, <2>1, <2>2, <2>3
  <2> QED  BY <1>r, <1>i, <2>4
<1>16. ~ Breaks(e)
  BY DEF Orderly, Breaks
<1> QED
  BY <1>1, <1>2, <1>3, <1>4, <1>5, <1>6, <1>7, <1>8, <1>9, <1>10, <1>11, <1>12, <1>13, <1>14,
     <1>15, <1>16, <1>17, <1>18 DEF RunStep

(* What an invariant and the records owe to a step.                         *)
InOrder == WInv' /\ \A j \in Jobs : Stands(j)

(* At most one job is active when no step but a creation makes one so.      *)
LEMMA NoneActivated ==
  ASSUME WInv, \A k \in Jobs : jobs'[k].status \in Active => jobs[k].status \in Active
  PROVE  AtMostOneActive'
  BY DEF WInv, ServiceOrder, AtMostOneActive, FindActive, Status

LEMMA OrderRun ==
  ASSUME TInv, WInv, Orderly, NEW e \in Executors, RunJob(e)
  PROVE  InOrder
<1>1. MovesOne(e) /\ \A k \in Jobs : jobs'[k].answers = jobs[k].answers
  BY RunMovesOne DEF RunJob
<1>2. UNCHANGED <<task, journal, loader, told>>
  BY DEF RunJob
<1>3. ASSUME NEW t \in Threads, thread[t].pc # "idle"
      PROVE  thread'[t] = thread[t] /\ host'[t] = host[t] /\ exec'[host[t]] = exec[host[t]]
  <2>1. host[t] \in Executors /\ exec[host[t]].pc = "working"
    BY <1>3 DEF WInv, ServiceOrder, ThreadOrder, Hosted
  <2>2. host[t] # e
    BY <2>1 DEF RunJob, Orderly, On, WorkerFree
  <2> QED  BY <2>1, <2>2, <1>1 DEF MovesOne, RunJob, EndpointDies
<1>4. \A t \in Threads : thread[t].pc = "idle" => thread'[t].pc = "idle"
  BY NoThreadTyped DEF RunJob, EndpointDies
<1>5. \A k \in Jobs : jobs'[k].status # jobs[k].status =>
         ~ Serving(k) /\ jobs[k].status \in Active /\ jobs'[k].status \in Active \cup {"failed"}
  BY <1>1, HeldAlone DEF MovesOne, Active
<1>6. \A k \in Jobs : jobs'[k].status \in Active => jobs[k].status \in Active
  BY <1>5
<1>7. Steers
  BY <1>1, <1>2, <1>3, <1>4, <1>5, <1>6 DEF Steers
<1>8. AtMostOneActive'
  BY <1>6, NoneActivated
<1> QED
  BY <1>1, <1>2, <1>7, <1>8, SteersService, MovesOneKeepsOrder DEF InOrder, WInv

(* A step that writes no record and nothing of the service.                 *)
LEMMA OrderQuiet ==
  ASSUME TInv, WInv, UNCHANGED <<jobs, task, journal, loader, told, thread, host>>,
         \A t \in Threads : thread[t].pc # "idle" => exec'[host[t]] = exec[host[t]],
         ExecutorsOrder'
  PROVE  InOrder
<1>1. AtMostOneActive'
  BY NoneActivated
<1>2. Steers
  BY DEF Steers
<1> QED
  BY <1>1, <1>2, SteersService DEF InOrder, WInv

LEMMA OrderSchedule ==
  ASSUME TInv, WInv, NEW d \in Daemons, NEW j \in Jobs,
         ScheduleRepair(d, j) \/ ScheduleDecide(d, j)
  PROVE  InOrder
<1>t. exec \in [Executors -> ExecutorState] /\ d \in Executors
  BY DaemonsAssumption DEF TInv, TypeOK, ExecutorTypeOK
<1>1. UNCHANGED <<jobs, claim, task, journal, loader, told, thread, host>> /\ exec[d].pc = "idle"
  BY DEF ScheduleRepair, ScheduleDecide, serviceVars, On
<1> DEFINE x == [IdleExecutor EXCEPT !.pc = "handed", !.job = j]
           y == [IdleExecutor EXCEPT !.pc = "creating", !.job = j]
<1>2. x.pc = "handed" /\ x.job = j /\ y.pc = "creating" /\ y.job = j
  <2>1. "handed" \in ExecutorPcs /\ "creating" \in ExecutorPcs /\ j \in Jobs \cup {NoTarget}
    BY DEF ExecutorPcs
  <2>2. x.pc = "handed" /\ x.job = j
    BY <2>1, IdlePlaced
  <2>3. y.pc = "creating" /\ y.job = j
    BY <2>1, IdlePlaced
  <2> QED  BY <2>2, <2>3
<1>3. \/ ScheduleRepair(d, j) /\ exec' = [exec EXCEPT ![d] = x]
      \/ ScheduleDecide(d, j) /\ exec' = [exec EXCEPT ![d] = y]
  BY DEF ScheduleRepair, ScheduleDecide
<1> HIDE DEF x, y
<1>4. \A f \in Executors : f # d => exec'[f] = exec[f]
  BY <1>3, <1>t
<1>5. \A t \in Threads : thread[t].pc # "idle" => exec'[host[t]] = exec[host[t]]
  BY <1>1, <1>4 DEF WInv, ServiceOrder, ThreadOrder, Hosted
<1>6. CASE ScheduleRepair(d, j) /\ exec' = [exec EXCEPT ![d] = x]
  <2>1. exec'[d].pc = "handed" /\ exec'[d].job = j /\ jobs[j].status = "completion_rejected"
    BY <1>6, <1>t, <1>2 DEF ScheduleRepair, Status
  <2>2. (Claimed(d) /\ Holding(d))' /\ exec'[d].pc # "creating"
    BY <2>1, <1>1, ClaimingPcs DEF Claimed, Holding, HoldsActive
  <2>3. MovesOne(d)
    BY <1>1, <1>4, <2>2 DEF MovesOne
  <2> QED  BY <1>1, <1>5, <1>t, <2>3, MovesOneKeepsOrder, OrderQuiet
<1>7. CASE ScheduleDecide(d, j) /\ exec' = [exec EXCEPT ![d] = y]
  <2>1. exec'[d].pc = "creating" /\ exec'[d].job = j
    BY <1>7, <1>t, <1>2
  <2>2. task = "todo" /\ \A k \in Jobs : jobs[k].status \notin Active
    BY <1>7 DEF ScheduleDecide, FindActive, Status
  <2>3. \A k \in Jobs, s \in Submissions : ~ Journaled(k, s)
    <3> SUFFICES ASSUME NEW k \in Jobs, NEW s \in Submissions, Journaled(k, s) PROVE FALSE
      OBVIOUS
    <3>1. jobs[k].status # "accepted"
      BY <2>2 DEF WInv, ServiceOrder, AcceptedIsDelivered, Status
    <3>2. PICK t \in Threads : thread[t].pc \in After /\ thread[t].job = k
      BY <3>1 DEF WInv, ServiceOrder, Owned
    <3>3. jobs[k].status = "completion_submitted"
      BY <3>1, <3>2 DEF WInv, ServiceOrder, ThreadOrder, Accepting
    <3> QED  BY <3>3, <2>2 DEF Active
  <2>4. Claimed(d)' /\ Holding(d)'
    BY <1>1, <2>1, <2>2, <2>3, ClaimingPcs DEF Claimed, Holding, HoldsActive, Journaled
  <2>5. ASSUME NEW f \in Executors, f # d PROVE Claimed(f)' /\ Holding(f)' /\ exec[f].pc # "creating"
    <3>1. Claimed(f) /\ Holding(f) /\ exec'[f] = exec[f]
      BY <1>4, <2>5 DEF WInv, ExecutorsOrder
    <3>2. exec[f].pc # "creating"
      BY <1>7, <3>1 DEF ScheduleDecide, NoSchedulerDeciding, On, Holding
    <3>3. Claimed(f)'
      BY <1>1, <3>1 DEF Claimed
    <3>4. Holding(f)'
      BY <1>1, <3>1, <3>2 DEF Holding
    <3> QED  BY <3>2, <3>3, <3>4
  <2>6. OneCreates'
    BY <1>4, <2>5 DEF OneCreates, On
  <2>7. ExecutorsOrder'
    BY <2>4, <2>5, <2>6 DEF ExecutorsOrder
  <2> QED  BY <1>1, <1>5, <2>7, OrderQuiet
<1> QED
  BY <1>3, <1>6, <1>7

LEMMA OrderCreate ==
  ASSUME TInv, WInv, NEW d \in Daemons, ScheduleCreate(d)
  PROVE  InOrder
<1> DEFINE j == exec[d].job
<1>t. /\ exec \in [Executors -> ExecutorState] /\ d \in Executors
      /\ jobs \in [Jobs -> JobRecord]
  BY DaemonsAssumption DEF TInv, TypeOK, ExecutorTypeOK, JobsTypeOK
<1>1. UNCHANGED <<claim, task, journal, loader, told, thread, host>> /\ exec[d].pc = "creating"
      /\ j \in Jobs
  BY <1>t, ExecutorTypes DEF ScheduleCreate, serviceVars, On
<1>2. /\ \A k \in Jobs : jobs[k].status \notin Active
      /\ \A k \in Jobs, s \in Submissions : ~ Journaled(k, s)
  BY <1>t, <1>1 DEF WInv, ExecutorsOrder, Holding
<1>3. /\ jobs[j].status = "absent" /\ jobs' = [jobs EXCEPT ![j].status = "pending"]
      /\ exec' = [exec EXCEPT ![d].pc = "handed"]
  BY <1>1, <1>2 DEF ScheduleCreate, CreateJob, Status, JobOf, FindActive
<1>4. /\ jobs'[j].status = "pending" /\ \A k \in Jobs : k # j => jobs'[k] = jobs[k]
      /\ \A k \in Jobs : jobs'[k].answers = jobs[k].answers
  BY <1>t, <1>1, <1>3 DEF JobRecord
<1>5. /\ exec'[d].pc = "handed" /\ exec'[d].job = j
      /\ \A f \in Executors : f # d => exec'[f] = exec[f]
  BY <1>t, <1>3 DEF ExecutorState
<1> HIDE DEF j
<1>6. \A t \in Threads : thread[t].pc # "idle" => exec'[host[t]] = exec[host[t]]
  BY <1>1, <1>5 DEF WInv, ServiceOrder, ThreadOrder, Hosted
<1>7. ~ Serving(j)
  <2> SUFFICES ASSUME NEW t \in Threads, thread[t].pc # "idle", thread[t].job = j PROVE FALSE
    BY DEF Serving
  <2>1. ThreadOrder(t) /\ thread[t].sub \in Submissions /\ thread[t].pc \in ThreadPcs
    BY ThreadTypes DEF WInv, ServiceOrder
  <2>2. thread[t].pc \in Before \cup After \cup {"marking"}
    BY <2>1 DEF ThreadOrder, Submitting, ThreadPcs, Before, After
  <2>3. thread[t].pc \notin After
    BY <1>1, <1>2, <2>1 DEF ThreadOrder, Accepting
  <2> QED  BY <1>3, <2>1, <2>2, <2>3 DEF ThreadOrder, Submitting
<1>8. AtMostOneActive'
  BY <1>2, <1>4 DEF AtMostOneActive, FindActive, Status
<1>9. "pending" \in Active /\ "absent" \notin Active
  BY DEF Active
<1>10. Steers
  <2>1. \A k \in Jobs : jobs'[k].status # jobs[k].status => k = j
    BY <1>4
  <2> QED  BY <1>1, <1>2, <1>3, <1>4, <1>6, <1>7, <1>9, <2>1 DEF Steers
<1>11. ASSUME NEW f \in Executors PROVE Claimed(f)' /\ Holding(f)'
  <2>1. CASE f = d
    <3>1. Claimed(f)'
      BY <1>5, <2>1, ClaimingPcs DEF Claimed
    <3>2. Holding(f)'
      BY <1>4, <1>5, <2>1 DEF Holding, HoldsActive
    <3> QED  BY <3>1, <3>2
  <2>2. CASE f # d
    <3>0. exec'[f] = exec[f]
      BY <1>5, <2>2
    <3>1. Claimed(f)'
      BY <1>1, <3>0 DEF Claimed, WInv, ExecutorsOrder
    <3>2. exec[f].pc # "creating"
      BY <1>1, <1>t, <2>2 DEF WInv, ExecutorsOrder, OneCreates, On
    <3>3. Holding(f)
      BY DEF WInv, ExecutorsOrder
    <3>4. exec[f].pc \notin {"idle", "down"} => exec[f].job \in Jobs
      BY ExecutorTypes
    <3>5. exec[f].pc \notin HoldsActive
      BY <1>2, <3>3, <3>4 DEF Holding, HoldsActive
    <3>6. exec[f].pc \notin {"idle", "creating", "down"} => jobs'[exec[f].job].status # "absent"
      BY <1>4, <3>3, <3>4 DEF Holding
    <3>7. exec[f].pc = "evidence_write" => exec[f].saw = jobs'[exec[f].job].status
      BY <1>3, <1>4, <3>3, <3>4 DEF Holding
    <3>8. Holding(f)'
      BY <3>0, <3>2, <3>3, <3>5, <3>6, <3>7 DEF Holding
    <3> QED  BY <3>1, <3>8
  <2> QED  BY <2>1, <2>2
<1>12. OneCreates'
  BY <1>5 DEF WInv, ExecutorsOrder, OneCreates, On
<1> QED
  BY <1>8, <1>10, <1>11, <1>12, SteersService DEF InOrder, WInv, ExecutorsOrder

-----------------------------------------------------------------------------
(* The steps of a thread.  The submissions of a job come in turn, so no     *)
(* other thread works on its job; it goes on there or is done.              *)
Serves(t) ==
    /\ UNCHANGED <<exec, claim, loader>>
    /\ task' \in {task, "done"}
    /\ \A k \in Jobs : k # thread[t].job => jobs'[k] = jobs[k] /\ journal'[k] = journal[k]
    /\ \A u \in Threads : u # t => thread'[u] = thread[u] /\ host'[u] = host[u]
    /\ \/ thread'[t].pc = "idle"
       \/ thread'[t].job = thread[t].job /\ thread'[t].sub = thread[t].sub /\ host'[t] = host[t]

LEMMA ServeServes ==
  ASSUME TInv, NEW t \in Threads, Serve(t)
  PROVE  Serves(t) /\ thread[t].job \in Jobs /\ thread[t].sub \in Submissions
<1>1. host \in [Threads -> Executors \cup {NoExecutor}]
  BY DEF TInv, TypeOK
<1> QED
  BY <1>1, ThreadStepLocal DEF Serve, Serves, executorVars

LEMMA OtherThreads ==
  ASSUME TInv, WInv, InTurn, NEW t \in Threads, thread[t].pc # "idle", Serves(t)
  PROVE  \A u \in Threads : u # t => ThreadOrder(u)'
<1> SUFFICES ASSUME NEW u \in Threads, u # t PROVE ThreadOrder(u)'
  OBVIOUS
<1>0. ThreadOrder(u) /\ thread'[u] = thread[u] /\ host'[u] = host[u]
  BY DEF WInv, ServiceOrder, Serves
<1>1. CASE thread[u].pc = "idle"
  BY <1>0, <1>1 DEF ThreadOrder, Hosted, Submitting, Accepting, Before, After
<1>2. CASE thread[u].pc # "idle"
  <2>1. thread[u].job # thread[t].job /\ thread[u].job \in Jobs /\ thread[u].sub \in Submissions
    BY <1>2, ThreadTypes DEF InTurn
  <2>2. jobs'[thread[u].job] = jobs[thread[u].job] /\ journal'[thread[u].job] = journal[thread[u].job]
    BY <2>1 DEF Serves
  <2>3. Hosted(u)'
    BY <1>0 DEF ThreadOrder, Hosted, Serves
  <2>4. Submitting(u)'
    BY <1>0, <2>1, <2>2 DEF ThreadOrder, Submitting, Journaled
  <2>5. Accepting(u)'
    BY <1>0, <2>1, <2>2 DEF ThreadOrder, Accepting, Journaled, Serves
  <2> QED  BY <2>3, <2>4, <2>5 DEF ThreadOrder
<1> QED
  BY <1>1, <1>2

(* A step before the journal: the record stays as submit has it, or the     *)
(* submission is rejected and submit is done.                               *)
Submits(t) ==
    LET j == thread[t].job
        s == thread[t].sub
    IN  /\ UNCHANGED <<task, journal>>
        /\ jobs'[j].status \in {"completion_submitted", "completion_rejected", "failed"}
        /\ \/ jobs'[j].answers = jobs[j].answers /\ UNCHANGED told
           \/ /\ jobs'[j].answers = [jobs[j].answers EXCEPT ![s] = "rejected"]
              /\ told' = [told EXCEPT ![j][s] = @ \cup {"rejected"}]
        /\ thread'[t].pc \in Before \cup {"idle"}
        /\ Submitting(t)'

LEMMA SubmitsOrder ==
  ASSUME TInv, WInv, InTurn, NEW t \in Threads, thread[t].pc \in Before \cup {"marking"},
         thread[t].job \in Jobs, thread[t].sub \in Submissions, Serves(t), Submits(t)
  PROVE  InOrder
<1> DEFINE j == thread[t].job
           s == thread[t].sub
<1>t. /\ told \in [Jobs -> [Submissions -> SUBSET {"accepted", "rejected"}]]
      /\ jobs[j].answers \in [Submissions -> Answers]
  BY ServiceParts, RecordTypes DEF ToldTyped
<1>a. /\ "accepted" \notin Active /\ "accepted" \notin {"pending", "running", "completion_rejected"}
      /\ {"pending", "running", "completion_rejected", "completion_submitted"} = Active
      /\ Active \cap Terminal = {} /\ "idle" \notin After /\ Before \cap After = {}
      /\ "idle" \notin Before \cup {"marking", "failing", "capture_write", "verify_write"}
      /\ "marking" \notin After
  BY DEF Active, Terminal, Before, After
<1>b. /\ thread[t].pc # "idle" /\ jobs[j].status \in Active /\ jobs[j].answers[s] = "none"
      /\ \A u \in Submissions : ~ Journaled(j, u)
  <2>1. Submitting(t)
    BY DEF WInv, ServiceOrder, ThreadOrder
  <2> QED  BY <2>1, <1>a DEF Submitting, Before
<1>c. jobs[j].status # "accepted" /\ jobs'[j].status # "accepted" /\ jobs'[j].status # "absent"
  BY <1>a, <1>b DEF Submits
<1>d. told[j][s] = {}
  <2>1. Told(j, s)
    BY DEF WInv, ServiceOrder
  <2> QED  BY <1>b, <1>c, <1>t, <2>1 DEF Told
<1>e. UNCHANGED <<task, journal, exec, claim, loader>>
  BY DEF Submits, Serves
<1>f. \A k \in Jobs : k # j => jobs'[k] = jobs[k]
  BY DEF Serves
<1>g. /\ \A u \in Submissions : u # s => jobs'[j].answers[u] = jobs[j].answers[u]
      /\ \A k \in Jobs, u \in Submissions : (k # j \/ u # s) => told'[k][u] = told[k][u]
      /\ \/ jobs'[j].answers[s] = jobs[j].answers[s] /\ told'[j][s] = told[j][s]
         \/ jobs'[j].answers[s] = "rejected" /\ told'[j][s] = {"rejected"}
  <2>1. CASE jobs'[j].answers = jobs[j].answers /\ UNCHANGED told
    BY <2>1
  <2>2. CASE /\ jobs'[j].answers = [jobs[j].answers EXCEPT ![s] = "rejected"]
             /\ told' = [told EXCEPT ![j][s] = @ \cup {"rejected"}]
    <3>1. /\ \A u \in Submissions : u # s => jobs'[j].answers[u] = jobs[j].answers[u]
          /\ jobs'[j].answers[s] = "rejected"
      BY <1>t, <2>2
    <3>2. \A k \in Jobs, u \in Submissions : (k # j \/ u # s) => told'[k][u] = told[k][u]
      BY <1>t, <2>2
    <3>3. told'[j][s] = {"rejected"}
      BY <1>t, <1>d, <2>2
    <3> QED  BY <3>1, <3>2, <3>3
  <2> QED  BY <2>1, <2>2 DEF Submits
<1>h. thread'[t].pc \in Before \cup {"idle"}
      /\ (thread'[t].pc = "idle" \/ (thread'[t].job = j /\ host'[t] = host[t]))
  BY DEF Submits, Serves
<1>1. ThreadOrder(t)'
  <2>1. Hosted(t)'
    BY <1>b, <1>e, <1>h DEF WInv, ServiceOrder, ThreadOrder, Hosted
  <2>2. Submitting(t)'
    BY DEF Submits
  <2>3. Accepting(t)'
    BY <1>a, <1>h DEF Accepting, After
  <2> QED  BY <2>1, <2>2, <2>3 DEF ThreadOrder
<1>2. \A u \in Threads : ThreadOrder(u)'
  BY <1>b, <1>1, OtherThreads
<1> HIDE DEF j, s
<1>3. ASSUME NEW k \in Jobs, NEW u \in Submissions PROVE Owned(k, u)' /\ Alone(k, u)' /\ Told(k, u)'
  <2>0. Owned(k, u) /\ Alone(k, u) /\ Told(k, u)
    BY DEF WInv, ServiceOrder
  <2>1. Owned(k, u)' /\ Alone(k, u)'
    <3> SUFFICES ASSUME Journaled(k, u) PROVE Owned(k, u)' /\ Alone(k, u)'
      BY <1>e DEF Owned, Alone, Journaled
    <3>1. k # j
      BY <1>b
    <3>2. FALSE
      BY <1>b, <2>0, <3>1 DEF Alone, j
    <3> QED  BY <3>2
  <2>2. Told(k, u)'
    <3>1. CASE k # j
      BY <1>f, <1>g, <2>0, <3>1 DEF Told
    <3>2. CASE k = j /\ u # s
      BY <1>c, <1>g, <2>0, <3>2 DEF Told
    <3>3. CASE k = j /\ u = s
      BY <1>d, <1>g, <3>3 DEF Told
    <3> QED  BY <3>1, <3>2, <3>3
  <2> QED  BY <2>1, <2>2
<1>4. \A r \in Recoverers : Loading(r)'
  BY <1>e DEF WInv, ServiceOrder, Loading, Journaled
<1>5. \A k \in Jobs : jobs'[k].status \in Active => jobs[k].status \in Active
  BY <1>b, <1>f
<1>6. AtMostOneActive'
  BY <1>5, NoneActivated
<1>7. AcceptedIsDelivered'
  <2>1. \A k \in Jobs : jobs'[k].status = "accepted" => jobs[k].status = "accepted"
    BY <1>c, <1>f
  <2> QED  BY <1>e, <2>1 DEF WInv, ServiceOrder, AcceptedIsDelivered, Status, Committed
<1>8. ExecutorsOrder'
  <2>1. \A k \in Jobs : jobs'[k].status # jobs[k].status =>
            jobs[k].status \in Active /\ Serving(k) /\ jobs'[k].status # "absent"
    BY <1>b, <1>c, <1>f DEF Serving, j
  <2>2. \A k \in Jobs, u \in Submissions : Journaled(k, u)' => Journaled(k, u)
    BY <1>e DEF Journaled
  <2> QED  BY <1>e, <1>5, <2>1, <2>2, ServiceKeepsExecutors
<1>9. ASSUME NEW k \in Jobs PROVE Stands(k)
  <2>1. CASE k # j
    BY <1>f, <2>1 DEF Stands
  <2>2. CASE k = j
    <3>1. \A u \in Submissions :
             jobs[k].answers[u] # "none" => jobs'[k].answers[u] = jobs[k].answers[u]
      BY <1>b, <1>g, <2>2
    <3>2. jobs[k].status \notin Terminal
      BY <1>a, <1>b, <2>2
    <3> QED  BY <1>c, <2>2, <3>1, <3>2 DEF Stands
  <2> QED  BY <2>1, <2>2
<1> QED
  BY <1>2, <1>3, <1>4, <1>6, <1>7, <1>8, <1>9 DEF InOrder, WInv, ServiceOrder

LEMMA SubmitStep ==
  ASSUME TInv, WInv, NEW t \in Threads, ThreadStep(t),
         thread[t].pc \in Before \cup {"marking"}, ~ Prepare(t)
  PROVE  Submits(t)
<1> DEFINE j == thread[t].job
           s == thread[t].sub
           Keeps == jobs'[j].answers = jobs[j].answers /\ UNCHANGED told
           Rejects == /\ jobs'[j].answers = [jobs[j].answers EXCEPT ![s] = "rejected"]
                      /\ told' = [told EXCEPT ![j][s] = @ \cup {"rejected"}]
<1>t. /\ jobs \in [Jobs -> JobRecord] /\ thread \in [Threads -> ThreadState]
  BY ServiceParts DEF JobsTypeOK, ThreadsTyped
<1>a. /\ thread[t].pc # "idle" /\ j \in Jobs /\ s \in Submissions
      /\ thread[t] \in ThreadState /\ jobs[j] \in JobRecord
  BY <1>t, ThreadStepLocal
<1>b. Submitting(t)
  BY DEF WInv, ServiceOrder, ThreadOrder
<1>n. NoThreadState.pc = "idle"
  BY NoThreadTyped
<1>c. \A u \in Submissions : ~ Journaled(j, u)
  BY <1>b DEF Submitting
<1>d. jobs[j].answers[s] = "none"
  BY <1>b DEF Submitting
<1>e. thread[t].pc # "marking" => jobs[j].status = "completion_submitted"
  BY <1>b DEF Submitting
(* Either the record keeps its answers and submit goes on, or it is done.   *)
<1>g. ASSUME UNCHANGED <<task, journal>>, Keeps, thread'[t].pc \in Before,
             jobs'[j].status = "completion_submitted",
             thread'[t].job = j, thread'[t].sub = s,
             thread'[t].pc \in {"capture_write", "verify_write"}
                => thread'[t].saw = "completion_submitted",
             thread'[t].pc # "rejecting" => thread'[t].answers = jobs[j].answers
      PROVE  Submits(t)
  <2>1. \A u \in Submissions : ~ Journaled(j, u)'
    BY <1>c, <1>g DEF Journaled
  <2>2. Submitting(t)'
    BY <1>d, <1>g, <2>1 DEF Submitting, Before
  <2> QED  BY <1>g, <2>2 DEF Submits
<1>f. ASSUME UNCHANGED <<task, journal>>, Keeps \/ Rejects, thread'[t].pc = "idle",
             jobs'[j].status \in {"completion_submitted", "completion_rejected", "failed"}
      PROVE  Submits(t)
  <2>1. Submitting(t)'
    BY <1>f DEF Submitting, Before
  <2> QED  BY <1>f, <2>1 DEF Submits
<1> HIDE DEF j, s
<1>s. ASSUME NEW st, UpdateStatus(j, st)
      PROVE  jobs'[j].status = st /\ jobs'[j].answers = jobs[j].answers
  BY <1>s, <1>t, <1>a DEF UpdateStatus, JobRecord
<1>o. Done(t) => thread'[t].pc = "idle"
  BY <1>t, <1>n DEF Done
<1>1. CASE MarkSubmitted(t)
  <2>1. jobs'[j].status = "completion_submitted" /\ jobs'[j].answers = jobs[j].answers
    BY <1>1, <1>s DEF MarkSubmitted, j
  <2>2. /\ thread'[t].pc = "capturing" /\ thread'[t].job = j /\ thread'[t].sub = s
        /\ thread'[t].answers = thread[t].answers
    BY <1>1, <1>t, <1>a DEF MarkSubmitted, Goto, ThreadState, j, s
  <2>3. thread[t].answers = jobs[j].answers
    BY <1>1, <1>b DEF MarkSubmitted, At, Submitting, j
  <2> QED  BY <1>1, <1>g, <2>1, <2>2, <2>3 DEF MarkSubmitted, Before
<1>2. CASE CaptureRead(t)
  <2>1. thread[t].pc = "capturing"
    BY <1>2 DEF CaptureRead, At
  <2>2. /\ thread'[t].pc = "capture_write" /\ thread'[t].job = j /\ thread'[t].sub = s
        /\ thread'[t].saw = jobs[j].status /\ thread'[t].answers = thread[t].answers
    BY <1>2, <1>t, <1>a DEF CaptureRead, ThreadState, Status, j, s
  <2>3. thread[t].answers = jobs[j].answers
    BY <1>b, <2>1 DEF Submitting, Before, j
  <2> QED  BY <1>2, <1>e, <1>g, <2>1, <2>2, <2>3 DEF CaptureRead, Before
<1>3. CASE CaptureWrite(t)
  <2>1. thread[t].pc = "capture_write"
    BY <1>3 DEF CaptureWrite, At
  <2>2. thread[t].saw = "completion_submitted" /\ thread[t].answers = jobs[j].answers
    BY <1>b, <2>1 DEF Submitting, Before, j
  <2>3. jobs'[j].status = thread[t].saw /\ jobs'[j].answers = jobs[j].answers
    BY <1>3, <1>s DEF CaptureWrite, j
  <2>4. /\ thread'[t].pc = "verifying" /\ thread'[t].job = j /\ thread'[t].sub = s
        /\ thread'[t].answers = thread[t].answers
    BY <1>3, <1>t, <1>a DEF CaptureWrite, ThreadState, j, s
  <2> QED  BY <1>3, <1>g, <2>2, <2>3, <2>4 DEF CaptureWrite, Before
<1>4. CASE CaptureFails(t)
  <2>1. thread[t].pc = "capturing"
    BY <1>4 DEF CaptureFails, At
  <2>2. /\ thread'[t].pc = "capture_reject" /\ thread'[t].job = j /\ thread'[t].sub = s
        /\ thread'[t].answers = jobs[j].answers
    BY <1>4, <1>t, <1>a DEF CaptureFails, ThreadState, j, s
  <2> QED  BY <1>4, <1>e, <1>g, <2>1, <2>2 DEF CaptureFails, Before
<1>5. CASE RejectCapture(t)
  <2>1. thread[t].answers = jobs[j].answers
    BY <1>5, <1>b DEF RejectCapture, At, Submitting, Before, j
  <2>2. /\ jobs'[j].status = "completion_rejected"
        /\ jobs'[j].answers = [thread[t].answers EXCEPT ![s] = "rejected"]
    BY <1>5, <1>t, <1>a DEF RejectCapture, JobRecord, j, s
  <2>3. told' = [told EXCEPT ![j][s] = @ \cup {"rejected"}] /\ UNCHANGED <<task, journal>>
    BY <1>5 DEF RejectCapture, Tells, j, s
  <2>4. thread'[t].pc = "idle"
    BY <1>5, <1>o DEF RejectCapture
  <2> QED  BY <1>f, <2>1, <2>2, <2>3, <2>4
<1>6. CASE Verify(t)
  <2>1. thread[t].pc = "verifying"
    BY <1>6 DEF Verify, At
  <2>2. /\ thread'[t].pc = "verify_write" /\ thread'[t].job = j /\ thread'[t].sub = s
        /\ thread'[t].saw = jobs[j].status /\ thread'[t].answers = thread[t].answers
    BY <1>6, <1>t, <1>a DEF Verify, ThreadState, Status, j, s
  <2>3. thread[t].answers = jobs[j].answers
    BY <1>b, <2>1 DEF Submitting, Before, j
  <2> QED  BY <1>6, <1>e, <1>g, <2>1, <2>2, <2>3 DEF Verify, Before
<1>7. CASE RecordVerdict(t)
  <2>1. thread[t].pc = "verify_write"
    BY <1>7 DEF RecordVerdict, At
  <2>2. thread[t].saw = "completion_submitted" /\ thread[t].answers = jobs[j].answers
    BY <1>b, <2>1 DEF Submitting, Before, j
  <2>3. jobs'[j].status = "completion_submitted" /\ jobs'[j].answers = jobs[j].answers
    BY <1>7, <1>s, <2>2 DEF RecordVerdict, j
  <2>4. UNCHANGED <<task, journal, told>>
    BY <1>7 DEF RecordVerdict
  <2>5. CASE Done(t)
    BY <1>f, <1>o, <2>3, <2>4, <2>5
  <2>6. CASE thread' = [thread EXCEPT ![t].pc = "rejecting", ![t].saw = "absent",
                                      ![t].answers = NoAnswers]
    <3>1. thread'[t].pc = "rejecting" /\ thread'[t].job = j /\ thread'[t].sub = s
      BY <2>6, <1>t, <1>a DEF ThreadState, j, s
    <3> QED  BY <1>g, <2>3, <2>4, <3>1 DEF Before
  <2>7. CASE thread' = [thread EXCEPT ![t].pc = "publishing", ![t].saw = "absent"]
    <3>1. /\ thread'[t].pc = "publishing" /\ thread'[t].job = j /\ thread'[t].sub = s
          /\ thread'[t].answers = thread[t].answers
      BY <2>7, <1>t, <1>a DEF ThreadState, j, s
    <3> QED  BY <1>g, <2>2, <2>3, <2>4, <3>1 DEF Before
  <2> QED  BY <1>7, <2>5, <2>6, <2>7 DEF RecordVerdict
<1>8. CASE IgnoreRejection(t)
  <2>1. thread'[t].pc = "idle" /\ UNCHANGED <<jobs, task, journal, told>>
    BY <1>8, <1>o DEF IgnoreRejection
  <2>2. jobs[j].status = "completion_submitted"
    BY <1>8, <1>e DEF IgnoreRejection, At
  <2> QED  BY <1>f, <2>1, <2>2
<1>9. CASE RejectRead(t)
  <2>1. thread[t].pc = "rejecting"
    BY <1>9 DEF RejectRead, At
  <2>2. /\ thread'[t].pc = "reject_write" /\ thread'[t].job = j /\ thread'[t].sub = s
        /\ thread'[t].answers = jobs[j].answers
    BY <1>9, <1>t, <1>a DEF RejectRead, ThreadState, j, s
  <2> QED  BY <1>9, <1>e, <1>g, <2>1, <2>2 DEF RejectRead, Before
<1>10. CASE RejectWrite(t)
  <2>1. thread[t].answers = jobs[j].answers
    BY <1>10, <1>b DEF RejectWrite, At, Submitting, Before, j
  <2>2. /\ jobs'[j].status \in {"completion_rejected", "failed"}
        /\ jobs'[j].answers = [thread[t].answers EXCEPT ![s] = "rejected"]
    BY <1>10, <1>t, <1>a DEF RejectWrite, JobRecord, j, s
  <2>3. told' = [told EXCEPT ![j][s] = @ \cup {"rejected"}] /\ UNCHANGED <<task, journal>>
    BY <1>10 DEF RejectWrite, Tells, j, s
  <2>4. thread'[t].pc = "idle"
    BY <1>10, <1>o DEF RejectWrite
  <2> QED  BY <1>f, <2>1, <2>2, <2>3, <2>4
<1>11. ~ (ApplyEffects(t) \/ ApplyFails(t) \/ CommitJournal(t) \/ MarkFailed(t) \/ MarkAccepted(t))
  BY DEF ApplyEffects, ApplyFails, CommitJournal, MarkFailed, MarkAccepted, At, Before
<1> QED
  BY <1>1, <1>2, <1>3, <1>4, <1>5, <1>6, <1>7, <1>8, <1>9, <1>10, <1>11 DEF ThreadStep

(* The journal of a submission is prepared: there was none, of any job.     *)
LEMMA PrepareOrder ==
  ASSUME TInv, WInv, InTurn, NEW t \in Threads, Serves(t), Prepare(t),
         thread[t].job \in Jobs, thread[t].sub \in Submissions
  PROVE  InOrder
<1> DEFINE j == thread[t].job
           s == thread[t].sub
           new == [thread[t].answers EXCEPT ![s] = "accepted"]
<1>t. /\ thread \in [Threads -> ThreadState] /\ thread[t] \in ThreadState
      /\ journal \in [Jobs -> [Submissions -> JournalRecord]]
  BY ServiceParts DEF ThreadsTyped, JournalsTyped
<1>a. thread[t].pc = "publishing" /\ UNCHANGED <<jobs, task, loader, told, exec, claim>>
  BY DEF Prepare, At, Serves
<1>b. /\ jobs[j].status = "completion_submitted" /\ jobs[j].answers[s] = "none"
      /\ thread[t].answers = jobs[j].answers
      /\ \A u \in Submissions : ~ Journaled(j, u)
  BY <1>a DEF WInv, ServiceOrder, ThreadOrder, Submitting, Before
<1>c. \A k \in Jobs, u \in Submissions : ~ Journaled(k, u)
  BY <1>b DEF WInv, ServiceOrder, Alone, Active
<1>d. /\ journal'[j][s].status = "prepared" /\ journal'[j][s].answers = new
      /\ \A k \in Jobs, u \in Submissions : (k # j \/ u # s) => journal'[k][u] = journal[k][u]
  BY <1>t DEF Prepare
<1>e. /\ thread'[t].pc = "applying" /\ thread'[t].job = j /\ thread'[t].sub = s
      /\ thread'[t].answers = thread[t].answers /\ host'[t] = host[t]
  <2>1. /\ thread'[t].pc = "applying" /\ thread'[t].job = j /\ thread'[t].sub = s
        /\ thread'[t].answers = thread[t].answers
    BY <1>t DEF Prepare, Goto, ThreadState
  <2> QED  BY <2>1 DEF Serves
<1> HIDE DEF new
<1>1. ThreadOrder(t)'
  <2>1. Hosted(t)'
    BY <1>a, <1>e DEF WInv, ServiceOrder, ThreadOrder, Hosted
  <2>2. Submitting(t)'
    BY <1>e DEF Submitting, Before
  <2>3. Accepting(t)'
    BY <1>a, <1>b, <1>d, <1>e DEF Accepting, Journaled, new
  <2> QED  BY <2>1, <2>2, <2>3 DEF ThreadOrder
<1>2. \A u \in Threads : ThreadOrder(u)'
  BY <1>a, <1>1, OtherThreads
<1>3. \A k \in Jobs, u \in Submissions : Journaled(k, u)' => k = j /\ u = s
  BY <1>c, <1>d DEF Journaled
<1>4. \A k \in Jobs : k # j => jobs[k].status \notin Active
  BY <1>b DEF WInv, ServiceOrder, AtMostOneActive, FindActive, Status, Active
<1>5. ASSUME NEW k \in Jobs, NEW u \in Submissions PROVE Owned(k, u)' /\ Alone(k, u)' /\ Told(k, u)'
  <2>1. Told(k, u)'
    BY <1>a DEF WInv, ServiceOrder, Told
  <2>2. Owned(k, u)'
    BY <1>3, <1>e DEF Owned, After
  <2>3. Alone(k, u)'
    BY <1>3, <1>4, <1>a DEF Alone
  <2> QED  BY <2>1, <2>2, <2>3
<1>6. \A r \in Recoverers : Loading(r)'
  <2> SUFFICES ASSUME NEW r \in Recoverers PROVE Loading(r)'
    OBVIOUS
  <2>1. loader[r].pc = "idle"
    BY <1>c, LoaderTypes DEF WInv, ServiceOrder, Loading
  <2> QED  BY <1>a, <2>1 DEF Loading
<1>7. AtMostOneActive'
  BY <1>a, NoneActivated
<1>8. AcceptedIsDelivered'
  <2> SUFFICES ASSUME NEW k \in Jobs, jobs[k].status = "accepted" PROVE FALSE
    BY <1>a DEF AcceptedIsDelivered, Status
  <2>1. Committed(k) # {}
    BY DEF WInv, ServiceOrder, AcceptedIsDelivered, Status
  <2> QED  BY <1>c, <2>1 DEF Committed, Journaled
<1>9. ExecutorsOrder'
  BY <1>a, <1>b, ServiceKeepsExecutors DEF Active
<1>10. \A k \in Jobs : Stands(k)
  BY <1>a DEF Stands
<1> QED
  BY <1>2, <1>5, <1>6, <1>7, <1>8, <1>9, <1>10 DEF InOrder, WInv, ServiceOrder

(* A step with a prepared journal, of its thread or of a recovery: the      *)
(* journal goes forward, and the job is given what the journal says.        *)
Progresses ==
    /\ UNCHANGED <<exec, claim>>
    /\ task' \in {task, "done"}
    /\ \A k \in Jobs, u \in Submissions :
         /\ Journaled(k, u)' = Journaled(k, u)
         /\ journal'[k][u].answers = journal[k][u].answers
         /\ journal[k][u].status = "committed" => journal'[k][u].status = "committed"
    /\ \A t \in Threads : thread[t].pc \in After =>
         \/ /\ thread'[t].pc \in After
            /\ thread'[t].job = thread[t].job /\ thread'[t].sub = thread[t].sub
         \/ jobs'[thread[t].job].status = "accepted"

Settles(j, s) ==
    /\ \E t \in Threads : thread[t].pc \in After /\ thread[t].job = j /\ thread[t].sub = s
    /\ \A k \in Jobs : k # j => jobs'[k] = jobs[k]
    /\ jobs'[j].status = "accepted" /\ jobs'[j].answers = journal[j][s].answers
    /\ told' \in {told, [told EXCEPT ![j][s] = @ \cup {"accepted"}]}
    /\ task' = "done" /\ journal'[j][s].status = "committed"

LEMMA ProgressesOrder ==
  ASSUME TInv, WInv, Progresses, NEW j \in Jobs, NEW s \in Submissions,
         UNCHANGED <<jobs, told>> \/ Settles(j, s),
         \A t \in Threads : ThreadOrder(t)', \A r \in Recoverers : Loading(r)'
  PROVE  InOrder
<1>t. told \in [Jobs -> [Submissions -> SUBSET {"accepted", "rejected"}]]
  BY ServiceParts DEF ToldTyped
<1>a. /\ "accepted" \notin Active /\ "completion_submitted" \in Active /\ "accepted" \in Terminal
      /\ "completion_submitted" \notin Terminal
  BY DEF Active, Terminal
<1>b. ASSUME Settles(j, s)
      PROVE  /\ Serving(j)
             /\ jobs[j].status \in {"completion_submitted", "accepted"}
             /\ jobs[j].answers[s] \in {"none", "accepted"} /\ jobs'[j].answers[s] = "accepted"
             /\ \A u \in Submissions : u # s => jobs'[j].answers[u] = jobs[j].answers[u]
  <2>1. PICK t \in Threads : thread[t].pc \in After /\ thread[t].job = j /\ thread[t].sub = s
    BY <1>b DEF Settles
  <2>2. Accepting(t) /\ thread[t].answers \in [Submissions -> Answers]
    BY ThreadTypes DEF WInv, ServiceOrder, ThreadOrder
  <2>3. Serving(j)
    BY <2>1 DEF Serving, After
  <2> DEFINE new == [thread[t].answers EXCEPT ![s] = "accepted"]
  <2>4. new[s] = "accepted" /\ \A u \in Submissions : u # s => new[u] = thread[t].answers[u]
    BY <2>2
  <2> HIDE DEF new
  <2>5. /\ jobs[j].status \in {"completion_submitted", "accepted"}
        /\ jobs[j].answers \in {thread[t].answers, new} /\ thread[t].answers[s] = "none"
        /\ journal[j][s].answers = new
    BY <2>1, <2>2 DEF Accepting, new
  <2> QED  BY <1>b, <2>3, <2>4, <2>5 DEF Settles
<1>1. /\ \A k \in Jobs : jobs'[k].status # jobs[k].status =>
            jobs[k].status \in Active /\ Serving(k) /\ jobs'[k].status = "accepted"
      /\ \A k \in Jobs : jobs'[k].status \in Active => jobs[k].status \in Active
      /\ \A k \in Jobs : jobs[k].status = "accepted" => jobs'[k].status = "accepted"
  BY <1>a, <1>b DEF Settles
<1>2. ASSUME NEW k \in Jobs, NEW u \in Submissions PROVE Owned(k, u)' /\ Alone(k, u)' /\ Told(k, u)'
  <2>0. Owned(k, u) /\ Alone(k, u) /\ Told(k, u)
    BY DEF WInv, ServiceOrder
  <2>1. Owned(k, u)'
    <3> SUFFICES ASSUME Journaled(k, u) PROVE Owned(k, u)'
      BY DEF Progresses, Owned
    <3>1. CASE jobs[k].status = "accepted"
      BY <1>1, <3>1 DEF Owned
    <3>2. CASE \E t \in Threads : thread[t].pc \in After /\ thread[t].job = k /\ thread[t].sub = u
      <4>1. PICK t \in Threads : thread[t].pc \in After /\ thread[t].job = k /\ thread[t].sub = u
        BY <3>2
      <4> QED  BY <4>1 DEF Progresses, Owned
    <3> QED  BY <2>0, <3>1, <3>2 DEF Owned
  <2>2. Alone(k, u)'
    BY <1>1, <2>0 DEF Progresses, Alone
  <2>3. Told(k, u)'
    <3>1. CASE UNCHANGED <<jobs, told>>
      BY <2>0, <3>1 DEF Told
    <3>2. CASE Settles(j, s) /\ (k # j \/ u # s)
      <4>1. told'[k][u] = told[k][u]
        BY <1>t, <3>2 DEF Settles
      <4>2. jobs'[k].answers[u] = jobs[k].answers[u]
        BY <1>b, <3>2 DEF Settles
      <4> QED  BY <1>1, <2>0, <4>1, <4>2 DEF Told
    <3>3. CASE Settles(j, s) /\ k = j /\ u = s
      <4>1. told'[j][s] \subseteq told[j][s] \cup {"accepted"}
        BY <1>t, <3>3 DEF Settles
      <4>2. \A v \in told[j][s] : v \in {"accepted", "rejected"}
        BY <1>t
      <4>3. \A v \in told'[j][s] : v = "accepted"
        BY <1>b, <2>0, <3>3, <4>1, <4>2 DEF Told
      <4> QED  BY <1>b, <3>3, <4>3 DEF Told
    <3> QED  BY <3>1, <3>2, <3>3
  <2> QED  BY <2>1, <2>2, <2>3
<1>3. AtMostOneActive'
  BY <1>1, NoneActivated
<1>4. AcceptedIsDelivered'
  <2> SUFFICES ASSUME NEW k \in Jobs, jobs'[k].status = "accepted"
               PROVE  task' = "done" /\ Committed(k)' # {}
    BY DEF AcceptedIsDelivered, Status
  <2>1. CASE jobs[k].status = "accepted"
    <3>1. task = "done" /\ Committed(k) # {}
      BY <2>1 DEF WInv, ServiceOrder, AcceptedIsDelivered, Status
    <3> QED  BY <3>1 DEF Progresses, Committed
  <2>2. CASE jobs[k].status # "accepted"
    <3>1. Settles(j, s) /\ k = j
      BY <2>2 DEF Settles
    <3> QED  BY <3>1 DEF Settles, Committed
  <2> QED  BY <2>1, <2>2
<1>5. ExecutorsOrder'
  BY <1>1, ServiceKeepsExecutors DEF Progresses
<1>6. ASSUME NEW k \in Jobs PROVE Stands(k)
  <2>1. \A u \in Submissions : jobs[k].answers[u] # "none" => jobs'[k].answers[u] = jobs[k].answers[u]
    BY <1>b DEF Settles
  <2>2. jobs[k].status \in Terminal => jobs'[k].status \in Terminal
    BY <1>1, <1>a
  <2> QED  BY <1>1, <2>1, <2>2 DEF Stands
<1> QED
  BY <1>2, <1>3, <1>4, <1>5, <1>6 DEF InOrder, WInv, ServiceOrder

LEMMA LoadingKept ==
  ASSUME TInv, WInv, Progresses, NEW r \in Recoverers, loader'[r] = loader[r]
  PROVE  Loading(r)'
<1>1. Loading(r) /\ (loader[r].pc # "idle" => loader[r].job \in Jobs /\ loader[r].sub \in Submissions)
  BY LoaderTypes DEF WInv, ServiceOrder
<1> QED
  BY <1>1 DEF Loading, Progresses

(* What a thread does with its journal.                                     *)
LEMMA AcceptOrder ==
  ASSUME TInv, WInv, InTurn, Orderly, NEW t \in Threads, ThreadStep(t), Serves(t),
         thread[t].pc \in After, thread[t].job \in Jobs, thread[t].sub \in Submissions
  PROVE  InOrder
<1> DEFINE j == thread[t].job
           s == thread[t].sub
<1>t. /\ thread \in [Threads -> ThreadState] /\ thread[t] \in ThreadState
      /\ journal \in [Jobs -> [Submissions -> JournalRecord]] /\ jobs \in [Jobs -> JobRecord]
  BY ServiceParts DEF ThreadsTyped, JournalsTyped, JobsTypeOK
<1>a. Hosted(t) /\ Accepting(t) /\ thread[t].pc # "idle"
  BY DEF WInv, ServiceOrder, ThreadOrder, After
<1>b. UNCHANGED <<exec, claim, loader>> /\ task' \in {task, "done"}
      /\ \A u \in Threads : u # t => thread'[u] = thread[u]
  BY DEF Serves
<1>g. ASSUME NEW pc \in After, Goto(t, pc), UNCHANGED <<jobs, told>>,
             pc \in {"committing", "accepting"} => task' = "done",
             pc = "accepting" => journal'[j][s].status = "committed",
             \A k \in Jobs, u \in Submissions :
               /\ Journaled(k, u)' = Journaled(k, u)
               /\ journal'[k][u].answers = journal[k][u].answers
               /\ journal[k][u].status = "committed" => journal'[k][u].status = "committed"
      PROVE  InOrder
  <2>1. /\ thread'[t].pc = pc /\ thread'[t].job = j /\ thread'[t].sub = s
        /\ thread'[t].answers = thread[t].answers
    BY <1>g, <1>t DEF Goto, ThreadState
  <2>2. pc \notin Before \cup {"idle", "marking", "failing", "capture_write", "verify_write"}
        /\ host'[t] = host[t]
    BY <2>1 DEF After, Before, Serves
  <2>3. Progresses
    BY <1>b, <1>g, <2>1 DEF Progresses
  <2>4. Hosted(t)'
    BY <1>a, <1>b, <2>1, <2>2 DEF Hosted
  <2>5. Submitting(t)'
    BY <2>1, <2>2 DEF Submitting
  <2>6. Accepting(t)'
    BY <1>a, <1>g, <2>1 DEF Accepting
  <2>7. \A u \in Threads : ThreadOrder(u)'
    BY <1>a, <2>4, <2>5, <2>6, OtherThreads DEF ThreadOrder
  <2>8. \A r \in Recoverers : Loading(r)'
    BY <1>b, <2>3, LoadingKept
  <2> QED  BY <1>g, <2>3, <2>7, <2>8, ProgressesOrder
<1>1. CASE ApplyEffects(t)
  <2>1. Goto(t, "committing") /\ UNCHANGED <<jobs, told, journal>> /\ task' = "done"
    BY <1>1 DEF ApplyEffects
  <2> QED  BY <1>g, <2>1 DEF After, Journaled
<1>2. CASE CommitJournal(t)
  <2>1. Goto(t, "accepting") /\ UNCHANGED <<jobs, told, task>> /\ thread[t].pc = "committing"
    BY <1>2 DEF CommitJournal, At
  <2>2. task = "done" /\ Journaled(j, s)
    BY <1>a, <2>1 DEF Accepting, After
  <2>3. /\ journal'[j][s].status = "committed" /\ journal'[j][s].answers = journal[j][s].answers
        /\ \A k \in Jobs, u \in Submissions : (k # j \/ u # s) => journal'[k][u] = journal[k][u]
    BY <1>2, <1>t DEF CommitJournal, JournalSet, JournalRecord
  <2>4. \A k \in Jobs, u \in Submissions :
               /\ Journaled(k, u)' = Journaled(k, u)
               /\ journal'[k][u].answers = journal[k][u].answers
               /\ journal[k][u].status = "committed" => journal'[k][u].status = "committed"
    BY <2>2, <2>3 DEF Journaled
  <2> QED  BY <1>g, <2>1, <2>2, <2>3, <2>4 DEF After
<1>3. CASE MarkAccepted(t)
  <2>1. /\ thread[t].pc = "accepting" /\ UNCHANGED <<task, journal>> /\ Done(t)
        /\ told' = [told EXCEPT ![j][s] = @ \cup {"accepted"}]
    BY <1>3 DEF MarkAccepted, At, Tells
  <2>2. /\ jobs'[j].status = "accepted"
        /\ jobs'[j].answers = [thread[t].answers EXCEPT ![s] = "accepted"]
        /\ \A k \in Jobs : k # j => jobs'[k] = jobs[k]
    BY <1>3, <1>t DEF MarkAccepted, JobRecord
  <2>3. thread'[t].pc = "idle"
    BY <1>t, <2>1, NoThreadTyped DEF Done
  <2>4. /\ task = "done" /\ journal[j][s].status = "committed"
        /\ journal[j][s].answers = [thread[t].answers EXCEPT ![s] = "accepted"]
    BY <1>a, <2>1 DEF Accepting, After
  <2>5. Progresses
    BY <1>b, <2>1, <2>2 DEF Progresses, Journaled
  <2>6. Settles(j, s)
    BY <2>1, <2>2, <2>4 DEF Settles
  <2>7. ThreadOrder(t)'
    BY <2>3 DEF ThreadOrder, Hosted, Submitting, Accepting, Before, After
  <2>8. \A u \in Threads : ThreadOrder(u)'
    BY <1>a, <2>7, OtherThreads
  <2>9. \A r \in Recoverers : Loading(r)'
    BY <1>b, <2>5, LoadingKept
  <2> QED  BY <2>5, <2>6, <2>8, <2>9, ProgressesOrder
<1>4. ~ ApplyFails(t)
  BY DEF Orderly, ApplyFails
<1>5. thread[t].pc \in {"applying", "committing", "accepting"}
  BY DEF After
<1> QED
  BY <1>1, <1>2, <1>3, <1>4, <1>5 DEF ThreadStep, MarkSubmitted, CaptureRead, CaptureWrite,
     CaptureFails, RejectCapture, Verify, RecordVerdict, IgnoreRejection, RejectRead, RejectWrite,
     Prepare, MarkFailed, At

LEMMA OrderServe ==
  ASSUME TInv, WInv, InTurn, Orderly, NEW t \in Threads, Serve(t)
  PROVE  InOrder
<1>1. Serves(t) /\ ThreadStep(t) /\ thread[t].job \in Jobs /\ thread[t].sub \in Submissions
      /\ thread[t].pc # "idle" /\ thread[t].pc \in ThreadPcs
  BY ServeServes, ThreadStepLocal, ThreadTypes DEF Serve
<1>2. thread[t].pc \in Before \cup {"marking"} \cup After
  BY <1>1 DEF WInv, ServiceOrder, ThreadOrder, Submitting, ThreadPcs, Before, After
<1>3. CASE thread[t].pc \in After
  BY <1>1, <1>3, AcceptOrder
<1>4. CASE Prepare(t)
  BY <1>1, <1>4, PrepareOrder
<1>5. CASE thread[t].pc \in Before \cup {"marking"} /\ ~ Prepare(t)
  BY <1>1, <1>5, SubmitStep, SubmitsOrder
<1> QED
  BY <1>2, <1>3, <1>4, <1>5

-----------------------------------------------------------------------------
(* A context load leaves threads in order: the one whose acceptance it      *)
(* settles finds its job as it would have left it itself.                   *)
LEMMA LoadThreads ==
  ASSUME TInv, WInv, UNCHANGED <<thread, host>>, Progresses,
         NEW j \in Jobs, NEW s \in Submissions, Journaled(j, s),
         UNCHANGED jobs \/ Settles(j, s)
  PROVE  \A t \in Threads : ThreadOrder(t)'
<1> SUFFICES ASSUME NEW t \in Threads PROVE ThreadOrder(t)'
  OBVIOUS
<1>0. ThreadOrder(t)
  BY DEF WInv, ServiceOrder
<1>1. CASE thread[t].pc = "idle"
  BY <1>0, <1>1 DEF ThreadOrder, Hosted, Submitting, Accepting, Before, After
<1>2. CASE thread[t].pc # "idle"
  <2> DEFINE k == thread[t].job
             u == thread[t].sub
  <2>1. k \in Jobs /\ u \in Submissions
    BY <1>2, ThreadTypes
  <2>2. Hosted(t)'
    BY <1>0 DEF ThreadOrder, Hosted, Progresses
  <2>3. CASE jobs'[k] = jobs[k]
    <3>1. Submitting(t)'
      BY <1>0, <2>1, <2>3 DEF ThreadOrder, Submitting, Progresses
    <3>2. Accepting(t)'
      BY <1>0, <2>1, <2>3 DEF ThreadOrder, Accepting, Progresses
    <3> QED  BY <2>2, <3>1, <3>2 DEF ThreadOrder
  <2>4. CASE jobs'[k] # jobs[k]
    <3>1. Settles(j, s) /\ k = j
      BY <2>1, <2>4 DEF Settles
    <3>2. thread[t].pc \notin Before \cup {"marking", "failing"}
      BY <1>0, <3>1 DEF ThreadOrder, Submitting
    <3>3. thread[t].pc \in After
      BY <1>2, <3>2, ThreadTypes DEF ThreadPcs, Before, After
    <3>4. u = s
      BY <1>0, <2>1, <3>1, <3>3 DEF ThreadOrder, Accepting, WInv, ServiceOrder, Alone
    <3>5. Submitting(t)'
      BY <3>2 DEF Submitting, Before
    <3>6. Accepting(t)'
      BY <1>0, <2>1, <3>1, <3>3, <3>4 DEF ThreadOrder, Accepting, Progresses, Settles
    <3> QED  BY <2>2, <3>5, <3>6 DEF ThreadOrder
  <2> QED  BY <2>3, <2>4
<1> QED
  BY <1>1, <1>2

LEMMA OrderLoad ==
  ASSUME TInv, WInv, Orderly, NEW r \in Recoverers, LoadContext(r)
  PROVE  InOrder
<1>t. /\ loader \in [Recoverers -> LoaderState] /\ loader[r] \in LoaderState
      /\ journal \in [Jobs -> [Submissions -> JournalRecord]] /\ jobs \in [Jobs -> JobRecord]
      /\ crashes = 0
  BY ServiceParts DEF LoadersTyped, JournalsTyped, JobsTypeOK, Orderly
<1>a. UNCHANGED <<thread, host, exec, claim>> /\ LoaderStep(r)
  BY DEF LoadContext, executorVars, LoaderStep, RecoverPick, RecoverApply, RecoverCommit,
     RecoverSettle, CrashLoader
<1>b. Loading(r) /\ (loader[r].pc # "idle" => loader[r].job \in Jobs /\ loader[r].sub \in Submissions)
  BY LoaderTypes DEF WInv, ServiceOrder
(* It suffices to look at the job of the load.                              *)
<1>g. ASSUME NEW j \in Jobs, NEW s \in Submissions, Journaled(j, s), Progresses,
             UNCHANGED <<jobs, told>> \/ Settles(j, s),
             Loading(r)', \A q \in Recoverers : q # r => loader'[q] = loader[q]
      PROVE  InOrder
  <2>1. \A t \in Threads : ThreadOrder(t)'
    BY <1>a, <1>g, LoadThreads
  <2>2. \A q \in Recoverers : Loading(q)'
    BY <1>g, LoadingKept
  <2> QED  BY <1>g, <2>1, <2>2, ProgressesOrder
<1>1. ASSUME NEW j \in Jobs, NEW s \in Submissions, RecoverPick(r, j, s) PROVE InOrder
  <2>1. UNCHANGED <<jobs, task, journal, told>> /\ Journaled(j, s)
    BY <1>1 DEF RecoverPick, Journaled
  <2>2. /\ loader'[r].job = j /\ loader'[r].sub = s
        /\ \/ loader'[r].pc = "settling" /\ journal[j][s].status = "committed" /\ task = "done"
           \/ loader'[r].pc = "applying"
        /\ \A q \in Recoverers : q # r => loader'[q] = loader[q]
    BY <1>1, <1>t DEF RecoverPick
  <2>3. Progresses
    BY <1>a, <2>1 DEF Progresses, Journaled
  <2>4. Loading(r)'
    BY <2>1, <2>2 DEF Loading, Journaled
  <2> QED  BY <1>g, <2>1, <2>2, <2>3, <2>4
<1> DEFINE j == loader[r].job
           s == loader[r].sub
<1>2. CASE RecoverApply(r)
  <2>1. UNCHANGED <<jobs, journal, told>> /\ task' = "done" /\ loader[r].pc = "applying"
    BY <1>2 DEF RecoverApply
  <2>2. /\ loader'[r].job = j /\ loader'[r].sub = s /\ loader'[r].pc = "committing"
        /\ \A q \in Recoverers : q # r => loader'[q] = loader[q]
    BY <1>2, <1>t DEF RecoverApply, LoaderState
  <2>3. Journaled(j, s) /\ j \in Jobs /\ s \in Submissions
    BY <1>b, <2>1 DEF Loading
  <2>4. Progresses
    BY <1>a, <2>1 DEF Progresses, Journaled
  <2>5. Loading(r)'
    BY <2>1, <2>2, <2>3 DEF Loading, Journaled
  <2> QED  BY <1>g, <2>1, <2>2, <2>3, <2>4, <2>5
<1>3. CASE RecoverCommit(r)
  <2>1. UNCHANGED <<jobs, task, told>> /\ loader[r].pc = "committing"
    BY <1>3 DEF RecoverCommit
  <2>2. /\ loader'[r].job = j /\ loader'[r].sub = s /\ loader'[r].pc = "settling"
        /\ \A q \in Recoverers : q # r => loader'[q] = loader[q]
    BY <1>3, <1>t DEF RecoverCommit, LoaderState
  <2>3. Journaled(j, s) /\ j \in Jobs /\ s \in Submissions /\ task = "done"
    BY <1>b, <2>1 DEF Loading
  <2>4. /\ journal'[j][s].status = "committed" /\ journal'[j][s].answers = journal[j][s].answers
        /\ \A k \in Jobs, u \in Submissions : (k # j \/ u # s) => journal'[k][u] = journal[k][u]
    BY <1>3, <1>t, <2>3 DEF RecoverCommit, JournalSet, JournalRecord
  <2>5. Progresses
    BY <1>a, <2>1, <2>3, <2>4 DEF Progresses, Journaled
  <2>6. Loading(r)'
    BY <2>1, <2>2, <2>3, <2>4 DEF Loading, Journaled
  <2> QED  BY <1>g, <2>1, <2>2, <2>3, <2>5, <2>6
<1>4. CASE RecoverSettle(r)
  <2>1. UNCHANGED <<task, journal, told>> /\ loader[r].pc = "settling"
    BY <1>4 DEF RecoverSettle
  <2>2. loader'[r].pc = "idle" /\ \A q \in Recoverers : q # r => loader'[q] = loader[q]
    BY <1>4, <1>t DEF RecoverSettle, NoLoaderState
  <2>3. /\ Journaled(j, s) /\ j \in Jobs /\ s \in Submissions
        /\ task = "done" /\ journal[j][s].status = "committed"
    BY <1>b, <2>1 DEF Loading
  <2>4. Progresses
    <3>1. \A t \in Threads : thread[t].pc \in After => thread'[t].pc \in After
             /\ thread'[t].job = thread[t].job /\ thread'[t].sub = thread[t].sub
      BY <1>a
    <3> QED  BY <1>a, <2>1, <3>1 DEF Progresses, Journaled
  <2>5. Loading(r)'
    BY <2>2 DEF Loading
  <2>6. CASE jobs[j].status = "accepted"
    <3>1. UNCHANGED jobs
      BY <1>4, <2>6 DEF RecoverSettle, Status
    <3> QED  BY <1>g, <2>1, <2>2, <2>3, <2>4, <2>5, <3>1
  <2>7. CASE jobs[j].status # "accepted"
    <3>1. jobs' = [jobs EXCEPT ![j].status = "accepted", ![j].answers = journal[j][s].answers]
      BY <1>4, <2>7 DEF RecoverSettle, Status
    <3>2. /\ jobs'[j].status = "accepted" /\ jobs'[j].answers = journal[j][s].answers
          /\ \A k \in Jobs : k # j => jobs'[k] = jobs[k]
      BY <1>t, <2>3, <3>1 DEF JobRecord
    <3>3. \E t \in Threads : thread[t].pc \in After /\ thread[t].job = j /\ thread[t].sub = s
      BY <2>3, <2>7 DEF WInv, ServiceOrder, Owned
    <3>4. Settles(j, s)
      BY <2>1, <2>3, <3>2, <3>3 DEF Settles
    <3> QED  BY <1>g, <2>2, <2>3, <2>4, <2>5, <3>4
  <2> QED  BY <2>6, <2>7
<1>5. ~ CrashLoader(r)
  BY <1>t DEF CrashLoader, Orderly
<1> QED
  BY <1>a, <1>1, <1>2, <1>3, <1>4, <1>5 DEF LoaderStep

-----------------------------------------------------------------------------
(* A post: what is replied at once is what is recorded, and who begins finds*)
(* a job without a journal.                                                 *)
LEMMA OrderPost ==
  ASSUME TInv, WInv, NEW t \in Threads, NEW j \in Jobs, NEW s \in Submissions, Post(t, j, s)
  PROVE  InOrder
<1>t. /\ thread \in [Threads -> ThreadState] /\ host \in [Threads -> Executors \cup {NoExecutor}]
      /\ told \in [Jobs -> [Submissions -> SUBSET {"accepted", "rejected"}]]
  BY ServiceParts DEF ThreadsTyped, ToldTyped, TInv, TypeOK
<1>1. UNCHANGED <<exec, claim, jobs, task, journal, loader>> /\ thread[t].pc = "idle"
  BY DEF Post, executorVars, Receive, At
<1>2. PICK e \in Executors :
         /\ exec[e].job = j /\ exec[e].pc = "working" /\ Receive(t, j, s)
         /\ host' = [host EXCEPT ![t] = IF thread'[t].pc = "idle" THEN @ ELSE e]
  BY DEF Post, On, JobOf
<1>3. \A r \in Recoverers : Loading(r)'
  BY <1>1 DEF WInv, ServiceOrder, Loading, Journaled
<1>4. AtMostOneActive' /\ AcceptedIsDelivered' /\ \A k \in Jobs : Stands(k)
  BY <1>1, NoneActivated DEF WInv, ServiceOrder, AcceptedIsDelivered, Status, Committed, Stands
<1>5. ExecutorsOrder'
  BY <1>1, ServiceKeepsExecutors DEF Journaled
<1>6. \A k \in Jobs, u \in Submissions : Alone(k, u)'
  BY <1>1 DEF WInv, ServiceOrder, Alone, Journaled
<1>7. ASSUME NEW u \in Threads, thread'[u] = thread[u], host'[u] = host[u] PROVE ThreadOrder(u)'
  <2>0. ThreadOrder(u)
    BY DEF WInv, ServiceOrder
  <2>1. Hosted(u)'
    BY <1>1, <1>7, <2>0 DEF ThreadOrder, Hosted
  <2>2. Submitting(u)'
    BY <1>1, <1>7, <2>0 DEF ThreadOrder, Submitting, Journaled
  <2>3. Accepting(u)'
    BY <1>1, <1>7, <2>0 DEF ThreadOrder, Accepting, Journaled
  <2> QED  BY <2>1, <2>2, <2>3 DEF ThreadOrder
<1>8. ASSUME \A u \in Threads : thread[u].pc \in After => thread'[u] = thread[u]
      PROVE  \A k \in Jobs, u \in Submissions : Owned(k, u)'
  BY <1>1, <1>8 DEF WInv, ServiceOrder, Owned, Journaled
<1>9. CASE ReplayAnswer(t, j, s) \/ RepeatAccepted(t, j, s)
  <2>1. UNCHANGED thread /\ host' = host
    BY <1>t, <1>1, <1>2, <1>9 DEF ReplayAnswer, RepeatAccepted
  <2>2. PICK a \in {"accepted", "rejected"} :
           /\ told' = [told EXCEPT ![j][s] = @ \cup {a}]
           /\ \/ jobs[j].answers[s] = a
              \/ jobs[j].answers[s] = "none" /\ jobs[j].status = "accepted" /\ a = "accepted"
    <3>1. jobs[j].answers[s] \in Answers
      BY RecordTypes
    <3> QED  BY <1>9, <3>1 DEF ReplayAnswer, RepeatAccepted, Tells, Status, Answers
  <2>3. ASSUME NEW k \in Jobs, NEW u \in Submissions PROVE Told(k, u)'
    <3>1. Told(k, u)
      BY DEF WInv, ServiceOrder
    <3>2. told'[k][u] = IF k = j /\ u = s THEN told[k][u] \cup {a} ELSE told[k][u]
      BY <1>t, <2>2
    <3> QED  BY <1>1, <2>2, <3>1, <3>2 DEF Told
  <2> QED
    BY <1>3, <1>4, <1>5, <1>6, <1>7, <1>8, <2>1, <2>3 DEF InOrder, WInv, ServiceOrder
<1>10. CASE Begin(t, j, s)
  <2> DEFINE x == [NoThreadState EXCEPT !.pc = "marking", !.job = j, !.sub = s,
                                        !.answers = jobs[j].answers]
  <2>1. x.pc = "marking" /\ x.job = j /\ x.sub = s /\ x.answers = jobs[j].answers
    BY NoThreadTyped DEF NoThreadState
  <2>2. /\ thread' = [thread EXCEPT ![t] = x] /\ UNCHANGED told
        /\ jobs[j].answers[s] = "none"
        /\ jobs[j].status \in {"pending", "running", "completion_rejected"}
    BY <1>10 DEF Begin, Status
  <2> HIDE DEF x
  <2>3. thread'[t] = x /\ \A u \in Threads : u # t => thread'[u] = thread[u] /\ host'[u] = host[u]
    BY <1>t, <1>2, <2>2
  <2>4. host'[t] = e
    BY <1>t, <1>2, <2>1, <2>3
  <2>5. \A u \in Submissions : ~ Journaled(j, u)
    <3> SUFFICES ASSUME NEW u \in Submissions, Journaled(j, u) PROVE FALSE
      OBVIOUS
    <3>1. PICK v \in Threads : thread[v].pc \in After /\ thread[v].job = j
      BY <2>2 DEF WInv, ServiceOrder, Owned
    <3>2. jobs[j].status \in {"completion_submitted", "accepted"}
      BY <3>1 DEF WInv, ServiceOrder, ThreadOrder, Accepting
    <3> QED  BY <2>2, <3>2
  <2>6. ThreadOrder(t)'
    <3>1. Hosted(t)'
      BY <1>1, <1>2, <2>1, <2>3, <2>4 DEF Hosted
    <3>2. Submitting(t)'
      BY <1>1, <2>1, <2>2, <2>3, <2>5 DEF Submitting, Before, Journaled
    <3>3. Accepting(t)'
      BY <2>1, <2>3 DEF Accepting, After
    <3> QED  BY <3>1, <3>2, <3>3 DEF ThreadOrder
  <2>7. \A u \in Threads : ThreadOrder(u)'
    BY <1>7, <2>3, <2>6
  <2>8. \A k \in Jobs, u \in Submissions : Owned(k, u)'
    <3>1. thread[t].pc \notin After
      BY <1>1 DEF After
    <3> QED  BY <1>8, <2>3, <3>1
  <2>9. \A k \in Jobs, u \in Submissions : Told(k, u)'
    BY <1>1, <2>2 DEF WInv, ServiceOrder, Told
  <2> QED
    BY <1>3, <1>4, <1>5, <1>6, <2>7, <2>8, <2>9 DEF InOrder, WInv, ServiceOrder
<1> QED
  BY <1>2, <1>9, <1>10 DEF Receive

-----------------------------------------------------------------------------
LEMMA OrderStep ==
  ASSUME TInv, WInv, InTurn, Orderly, [Next]_vars
  PROVE  InOrder
<1>c. crashes = 0 /\ Daemons \subseteq Executors
  BY ServiceParts, DaemonsAssumption DEF Orderly
<1>q. ASSUME UNCHANGED <<jobs, exec, claim, task, journal, loader, told, thread, host>>
      PROVE  InOrder
  <2>1. ExecutorsOrder'
    BY <1>q, ServiceKeepsExecutors DEF Journaled
  <2> QED  BY <1>q, <2>1, OrderQuiet
<1>1. ASSUME NEW d \in Daemons, NEW j \in Jobs, ScheduleRepair(d, j) \/ ScheduleDecide(d, j)
      PROVE  InOrder
  BY <1>1, OrderSchedule
<1>2. ASSUME NEW d \in Daemons, ScheduleCreate(d) PROVE InOrder
  BY <1>2, OrderCreate
<1>3. ASSUME NEW d \in Daemons PROVE ~ RuntimeStart(d) /\ ~ RuntimeStop(d)
  <2>1. exec[d].pc # "down"
    BY <1>c DEF WInv, ExecutorsOrder, Holding
  <2> QED  BY <1>c, <2>1 DEF RuntimeStart, RuntimeStop, On, Orderly
<1>4. ASSUME NEW e \in Executors, RunJob(e) PROVE InOrder
  BY <1>4, OrderRun
<1>5. ASSUME NEW e \in Executors PROVE ~ Crash(e)
  BY <1>c DEF Crash, Orderly
<1>6. ASSUME NEW t \in Threads, Serve(t) PROVE InOrder
  BY <1>6, OrderServe
<1>7. ASSUME NEW t \in Threads, NEW j \in Jobs, NEW s \in Submissions, Post(t, j, s) PROVE InOrder
  BY <1>7, OrderPost
<1>8. ASSUME NEW r \in Recoverers, LoadContext(r) PROVE InOrder
  BY <1>8, OrderLoad
<1>9. OperatorSets = {}
  BY DEF Orderly
<1>10. ASSUME NEW j \in Jobs, OrphanEnds(j), UNCHANGED host, UNCHANGED serviceVars PROVE InOrder
  BY <1>10, <1>q DEF OrphanEnds, serviceVars
<1>11. CASE UNCHANGED vars
  BY <1>11, <1>q DEF vars
<1> QED
  BY <1>1, <1>2, <1>3, <1>4, <1>5, <1>6, <1>7, <1>8, <1>9, <1>10, <1>11 DEF Next

LEMMA OrderInit == Init => WInv
<1> SUFFICES ASSUME Init PROVE WInv
  OBVIOUS
<1>1. /\ \A e \in Executors : exec[e].pc = "idle"
      /\ \A t \in Threads : thread[t].pc = "idle"
      /\ \A r \in Recoverers : loader[r].pc = "idle"
      /\ \A j \in Jobs : jobs[j].status = "absent"
      /\ \A j \in Jobs, s \in Submissions : journal[j][s].status = "none" /\ told[j][s] = {}
  BY DEF Init, JobsInit, ExecutorInit, ServiceInit, NewRecord, IdleExecutor, NoThreadState,
     NoLoaderState
<1>2. ExecutorsOrder
  BY <1>1, ClaimingPcs DEF ExecutorsOrder, OneCreates, On, Claimed, Holding, HoldsActive
<1>3. \A t \in Threads : ThreadOrder(t)
  BY <1>1 DEF ThreadOrder, Hosted, Submitting, Accepting, Before, After
<1>4. \A j \in Jobs, s \in Submissions : Owned(j, s) /\ Alone(j, s) /\ Told(j, s)
  BY <1>1 DEF Owned, Alone, Told, Journaled
<1>5. \A r \in Recoverers : Loading(r)
  BY <1>1 DEF Loading
<1>6. AtMostOneActive /\ AcceptedIsDelivered
  BY <1>1 DEF AtMostOneActive, AcceptedIsDelivered, FindActive, Status, Active
<1> QED
  BY <1>2, <1>3, <1>4, <1>5, <1>6 DEF WInv, ServiceOrder

(* The order is kept, and no record loses what stands in it.                *)
LEMMA OrderAlways ==
  ASSUME Orderly
  PROVE  Spec /\ []InTurn => []WInv /\ [][\A j \in Jobs : Stands(j)]_vars
<1>1. Init => WInv
  BY OrderInit
<1>2. TInv /\ WInv /\ InTurn /\ [Next]_vars => WInv'
  BY OrderStep DEF InOrder
<1>3. TInv /\ WInv /\ InTurn /\ [Next]_vars => [\A j \in Jobs : Stands(j)]_vars
  BY OrderStep DEF InOrder
<1> QED
  BY <1>1, <1>2, <1>3, TypedAlways, PTL DEF Spec

-----------------------------------------------------------------------------
(* No two jobs of a task and transition are active, whoever creates, runs   *)
(* and recovers them.                                                       *)
THEOREM OneJobActive == ASSUME Orderly PROVE Spec /\ []InTurn => []AtMostOneActive
<1>1. WInv => AtMostOneActive
  BY DEF WInv, ServiceOrder
<1> QED
  BY <1>1, OrderAlways, PTL

(* The transition is accepted once, though recoveries take up the journals  *)
(* of submissions that are still at work.                                   *)
THEOREM OneAcceptance == ASSUME Orderly PROVE Spec /\ []InTurn => []CommittedOnce
<1>1. WInv => CommittedOnce
  <2> SUFFICES ASSUME WInv, NEW j \in Jobs, NEW k \in Jobs,
                      NEW s \in Committed(j), NEW u \in Committed(k)
               PROVE  j = k /\ s = u
    BY DEF CommittedOnce
  <2>1. s \in Submissions /\ u \in Submissions /\ Journaled(j, s) /\ Journaled(k, u)
    BY DEF Committed, Journaled
  <2> QED  BY <2>1 DEF WInv, ServiceOrder, Alone
<1> QED
  BY <1>1, OrderAlways, PTL

(* No submission is told accepted by one reply and rejected by another.     *)
THEOREM RepliesAgree == ASSUME Orderly PROVE Spec /\ []InTurn => []OneVerdict
<1>1. WInv => OneVerdict
  BY DEF WInv, ServiceOrder, Told, OneVerdict
<1> QED
  BY <1>1, OrderAlways, PTL

(* An accepted job has its journal committed and its task moved, also when  *)
(* a context is loaded inside submit and a recovery settles the job first.  *)
THEOREM OvertakenIsDelivered == ASSUME Orderly PROVE Spec /\ []InTurn => []AcceptedIsDelivered
<1>1. WInv => AcceptedIsDelivered
  BY DEF WInv, ServiceOrder
<1> QED
  BY <1>1, OrderAlways, PTL

(* An accepted job stays accepted, whatever its executor, its thread or a   *)
(* recovery writes after that.                                              *)
THEOREM AcceptanceStands == ASSUME Orderly PROVE Spec /\ []InTurn => AcceptedStands
<1>1. [\A j \in Jobs : Stands(j)]_vars =>
         [\A j \in Jobs : Status(j) = "accepted" => Status(j)' = "accepted"]_vars
  BY DEF Stands, Status
<1> QED
  BY <1>1, OrderAlways, PTL DEF AcceptedStands

(* A job that is over does not become active again.                         *)
THEOREM OverStaysOver == ASSUME Orderly PROVE Spec /\ []InTurn => TerminalStands
<1>1. [\A j \in Jobs : Stands(j)]_vars =>
         [\A j \in Jobs : Status(j) \in Terminal => Status(j)' \in Terminal]_vars
  BY DEF Stands, Status
<1> QED
  BY <1>1, OrderAlways, PTL DEF TerminalStands

(* A recorded answer is neither lost nor changed by a writer that works on  *)
(* a copy.                                                                  *)
THEOREM AnswersKept == ASSUME Orderly PROVE Spec /\ []InTurn => AnswersStand
<1>1. [\A j \in Jobs : Stands(j)]_vars =>
         [\A j \in Jobs, s \in Submissions :
            jobs[j].answers[s] # "none" => jobs'[j].answers[s] = jobs[j].answers[s]]_vars
  BY DEF Stands
<1> QED
  BY <1>1, OrderAlways, PTL DEF AnswersStand
=============================================================================
