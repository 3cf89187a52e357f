------------------------ MODULE ResourceLeasesProofs ------------------------
(***************************************************************************)
(* Proofs about ResourceLeases, for any resources, jobs, processes,        *)
(* capacities and needs: its type invariant, the discipline of its lock    *)
(* and that no interleaving and no crash oversubscribes a resource.        *)
(***************************************************************************)
EXTENDS ResourceLeases, FiniteSetTheorems, TLAPS

(* An operation that has passed its checks knows its job.                   *)
NamesJob == \A p \in Procs :
    op[p].pc \in {"writing", "creating", "committing", "releasing"} => op[p].job \in Jobs

(* The type invariant and what makes it inductive.                          *)
TInv == TypeOK /\ NamesJob

(* The program points inside a section of the flock.                        *)
Section == {"writing", "creating", "committing", "releasing", "reclaiming"}

(* Only the holder of the flock is in a section.                            *)
LockDiscipline == \A p \in Procs : op[p].pc \in Section => holder = p

(* The check that preceded the writes stays true of what is yet to write.   *)
Room == \A p \in Procs : op[p].pc = "writing" =>
            \A r \in op[p].todo : HasCapacity(r)

IInv == TInv /\ LockDiscipline /\ Room /\ CapacityRespected

-----------------------------------------------------------------------------
(* The initial state is typed: no lease, no job record, every process idle. *)
LEMMA InitTyped == Init => TInv
  BY CrashAssumption DEF Init, TInv, TypeOK, NamesJob, Statuses, Lease, Idle

(* Every step of the lease store, of a job or of a crash keeps the types.   *)
LEMMA NextTyped == TInv /\ [Next]_vars => TInv'
<1> SUFFICES ASSUME TInv, [Next]_vars PROVE TInv'
  OBVIOUS
<1> USE NeedsAssumption, CrashAssumption
<1> USE DEF TInv, TypeOK, NamesJob, Statuses, Lease
<1>1. CASE UNCHANGED vars
  BY <1>1 DEF vars
<1>2. ASSUME NEW p \in Procs, NEW j \in Jobs, TryAcquire(p, j) PROVE TInv'
  BY <1>2 DEF TryAcquire, StartWriting, Locks, Idle
<1>3. ASSUME NEW p \in Procs, NEW j \in Jobs, Admit(p, j) PROVE TInv'
  BY <1>3 DEF Admit, StartWriting, Locks, Idle
<1>4. ASSUME NEW p \in Procs, NEW j \in Jobs, Release(p, j) PROVE TInv'
  BY <1>4 DEF Release, Locks, Idle
<1>5. ASSUME NEW p \in Procs, WriteLease(p) PROVE TInv'
  BY <1>5 DEF WriteLease
<1>6. ASSUME NEW p \in Procs, AcquireDone(p) PROVE TInv'
  BY <1>6 DEF AcquireDone, WritesDone, Unlocks, Returns, Idle
<1>7. ASSUME NEW p \in Procs, AdmitPrepares(p) PROVE TInv'
  BY <1>7 DEF AdmitPrepares, WritesDone
<1>8. ASSUME NEW p \in Procs, AdmitCreates(p) PROVE TInv'
  BY <1>8 DEF AdmitCreates
<1>9. ASSUME NEW p \in Procs, AdmitCommits(p) PROVE TInv'
  BY <1>9 DEF AdmitCommits, Unlocks, Returns, Idle
<1>10. ASSUME NEW p \in Procs, AdmitFails(p) PROVE TInv'
  BY <1>10 DEF AdmitFails, WritesDone
<1>11. ASSUME NEW p \in Procs, Unlink(p) PROVE TInv'
  BY <1>11 DEF Unlink
<1>12. ASSUME NEW p \in Procs, ReleaseDone(p) PROVE TInv'
  BY <1>12 DEF ReleaseDone, Unlocks, Returns, Idle
<1>13. ASSUME NEW p \in Procs, Scan(p) PROVE TInv'
  BY <1>13 DEF Scan, Idle
<1>14. ASSUME NEW p \in Procs, StartReclaim(p) PROVE TInv'
  BY <1>14 DEF StartReclaim, Locks
<1>15. ASSUME NEW p \in Procs, UnlinkInactive(p) PROVE TInv'
  BY <1>15 DEF UnlinkInactive
<1>16. ASSUME NEW p \in Procs, ReclaimDone(p) PROVE TInv'
  BY <1>16 DEF ReclaimDone, Unlocks, Returns, Idle
<1>17. ASSUME NEW p \in Procs, Crash(p) PROVE TInv'
  BY <1>17 DEF Crash, Returns, Idle
<1>18. ASSUME NEW j \in Jobs, JobStep(j) PROVE TInv'
  BY <1>18 DEF JobStep, PassLeaseCheck, StartWorker, SubmitCompletion, WorkerExits,
               RejectCompletion, Settle, Moves
<1> QED
  BY <1>1, <1>2, <1>3, <1>4, <1>5, <1>6, <1>7, <1>8, <1>9, <1>10, <1>11, <1>12,
     <1>13, <1>14, <1>15, <1>16, <1>17, <1>18 DEF Next, StoreStep

(* TypeOK holds of every execution (the lease files, records and journals   *)
(* of resources.py keep their shapes).                                      *)
THEOREM Typed == Spec => []TypeOK
<1>1. Spec => []TInv
  BY InitTyped, NextTyped, PTL DEF Spec
<1>2. TInv => TypeOK
  BY DEF TInv
<1> QED
  BY <1>1, <1>2, PTL

-----------------------------------------------------------------------------
(* Two processes are never both inside a section of the flock: it is taken  *)
(* only when free, and dropped on the way out or by the kernel.             *)
LEMMA NextLocked == TInv /\ LockDiscipline /\ [Next]_vars => LockDiscipline'
<1> SUFFICES ASSUME TInv, LockDiscipline, [Next]_vars PROVE LockDiscipline'
  OBVIOUS
<1> USE SentinelAssumption
<1> USE DEF TInv, TypeOK, LockDiscipline, Section
<1>1. CASE UNCHANGED vars
  BY <1>1 DEF vars
<1>2. ASSUME NEW p \in Procs, NEW j \in Jobs, NEW k \in {"acquire", "admit"},
             StartWriting(p, j, k)
      PROVE LockDiscipline'
  BY <1>2 DEF StartWriting, Locks, Idle
<1>3. ASSUME NEW p \in Procs, NEW j \in Jobs, Release(p, j) PROVE LockDiscipline'
  BY <1>3 DEF Release, Locks, Idle
<1>4. ASSUME NEW p \in Procs, WriteLease(p) \/ AdmitPrepares(p) \/ AdmitCreates(p) \/ AdmitFails(p)
      PROVE LockDiscipline'
  BY <1>4 DEF WriteLease, AdmitPrepares, AdmitCreates, AdmitFails, WritesDone
<1>5. ASSUME NEW p \in Procs, AcquireDone(p) \/ AdmitCommits(p) \/ ReleaseDone(p) \/ ReclaimDone(p)
      PROVE LockDiscipline'
  BY <1>5 DEF AcquireDone, AdmitCommits, ReleaseDone, ReclaimDone, Unlocks, Returns, Idle
<1>6. ASSUME NEW p \in Procs, Unlink(p) \/ UnlinkInactive(p) PROVE LockDiscipline'
  BY <1>6 DEF Unlink, UnlinkInactive
<1>7. ASSUME NEW p \in Procs, Scan(p) PROVE LockDiscipline'
  BY <1>7 DEF Scan, Idle
<1>8. ASSUME NEW p \in Procs, StartReclaim(p) PROVE LockDiscipline'
  BY <1>8 DEF StartReclaim, Locks
<1>9. ASSUME NEW p \in Procs, Crash(p) PROVE LockDiscipline'
  BY <1>9 DEF Crash, Returns, Idle
<1>10. ASSUME NEW j \in Jobs, JobStep(j) PROVE LockDiscipline'
  BY <1>10 DEF JobStep, PassLeaseCheck, StartWorker, SubmitCompletion, WorkerExits,
               RejectCompletion, Settle, Moves
<1> QED
  BY <1>1, <1>2, <1>3, <1>4, <1>5, <1>6, <1>7, <1>8, <1>9, <1>10
     DEF Next, StoreStep, TryAcquire, Admit

-----------------------------------------------------------------------------
(* Removing lease files leaves no resource with more holders.               *)
LEMMA ShrinkingKeepsRoom ==
  ASSUME leases' \subseteq leases, CapacityRespected, TInv
  PROVE  /\ CapacityRespected'
         /\ \A r \in Resources : HasCapacity(r) => HasCapacity(r)'
<1> USE CapacityAssumption, FiniteAssumption
<1>1. ASSUME NEW r \in Resources
      PROVE  Cardinality(Holders(r)') \in Nat /\ Cardinality(Holders(r)) \in Nat
             /\ Cardinality(Holders(r)') <= Cardinality(Holders(r))
  <2>1. IsFiniteSet(Holders(r))
    BY FS_Subset DEF Holders
  <2>2. Holders(r)' \subseteq Holders(r)
    BY DEF Holders
  <2> QED
    BY <2>1, <2>2, FS_Subset, FS_CardinalityType
<1> QED
  BY <1>1 DEF CapacityRespected, HasCapacity

(* One more lease file, where there was room for it, stays within capacity. *)
LEMMA GrowingWithinCapacity ==
  ASSUME NEW r \in Resources, NEW j \in Jobs, HasCapacity(r), CapacityRespected,
         leases' = leases \cup {<<r, j>>}
  PROVE  CapacityRespected'
<1> USE CapacityAssumption, FiniteAssumption
<1> SUFFICES ASSUME NEW q \in Resources PROVE Cardinality(Holders(q)') <= Capacity[q]
  BY DEF CapacityRespected
<1>1. IsFiniteSet(Holders(q))
  BY FS_Subset DEF Holders
<1>2. CASE q = r
  <2>1. Holders(q)' = Holders(q) \cup {j}
    BY <1>2 DEF Holders
  <2>2. /\ Cardinality(Holders(q)) \in Nat
        /\ Cardinality(Holders(q) \cup {j}) \in
             {Cardinality(Holders(q)), Cardinality(Holders(q)) + 1}
    BY <1>1, FS_AddElement, FS_CardinalityType
  <2>3. Cardinality(Holders(q)) < Capacity[q] /\ Capacity[q] \in Nat
    BY <1>2 DEF HasCapacity
  <2> QED
    BY <2>1, <2>2, <2>3
<1>3. CASE q # r
  BY <1>3 DEF Holders, CapacityRespected
<1> QED
  BY <1>2, <1>3

(* Every step keeps the invariant: the lock makes the writer's check valid  *)
(* until its last write, for whatever the other processes do meanwhile.     *)
LEMMA NextKeepsCapacity == IInv /\ [Next]_vars => (Room /\ CapacityRespected)'
<1> SUFFICES ASSUME IInv, [Next]_vars PROVE (Room /\ CapacityRespected)'
  OBVIOUS
<1> USE SentinelAssumption
<1> USE DEF IInv, TInv, TypeOK, Room
<1>1. ASSUME UNCHANGED leases,
             \A p \in Procs : op'[p].pc = "writing" =>
                op[p].pc = "writing" /\ op'[p].todo = op[p].todo
      PROVE  (Room /\ CapacityRespected)'
  BY <1>1 DEF HasCapacity, Holders, CapacityRespected
<1>2. CASE UNCHANGED vars
  BY <1>1, <1>2 DEF vars
<1>3. ASSUME NEW p \in Procs, NEW j \in Jobs, NEW k \in {"acquire", "admit"},
             StartWriting(p, j, k)
      PROVE  (Room /\ CapacityRespected)'
  <2>1. \A q \in Procs : op[q].pc # "writing"
    BY <1>3 DEF StartWriting, Locks, LockDiscipline, Section
  <2>2. op'[p].todo = Needs[j] /\ \A q \in Procs \ {p} : op'[q] = op[q]
    BY <1>3 DEF StartWriting, Idle
  <2> QED
    BY <1>3, <2>1, <2>2, NeedsAssumption
    DEF StartWriting, HasCapacity, Holders, CapacityRespected
<1>4. ASSUME NEW p \in Procs, WriteLease(p) PROVE (Room /\ CapacityRespected)'
  <2>1. PICK r \in op[p].todo : /\ leases' = leases \cup {<<r, op[p].job>>}
                                /\ op' = [op EXCEPT ![p].todo = @ \ {r}]
    BY <1>4 DEF WriteLease
  <2>2. op[p].pc = "writing" /\ r \in Resources /\ op[p].job \in Jobs /\ HasCapacity(r)
    BY <1>4, <2>1 DEF WriteLease, NamesJob
  <2>3. CapacityRespected'
    BY <2>1, <2>2, GrowingWithinCapacity
  <2>4. ASSUME NEW q \in Resources, q # r, HasCapacity(q) PROVE HasCapacity(q)'
    BY <2>1, <2>4 DEF HasCapacity, Holders
  <2>5. \A q \in Procs \ {p} : op'[q].pc # "writing"
    BY <2>1, <2>2 DEF LockDiscipline, Section
  <2>6. op'[p].todo = op[p].todo \ {r} /\ op[p].todo \subseteq Resources
    BY <2>1
  <2> QED
    BY <2>2, <2>3, <2>4, <2>5, <2>6
<1>5. ASSUME NEW p \in Procs, Unlink(p) \/ UnlinkInactive(p)
      PROVE  (Room /\ CapacityRespected)'
  <2>1. leases' \subseteq leases /\ op' = op
    BY <1>5 DEF Unlink, UnlinkInactive
  <2> QED
    BY <2>1, ShrinkingKeepsRoom
<1>6. ASSUME NEW p \in Procs,
             \/ \E j \in Jobs : Release(p, j)
             \/ AcquireDone(p) \/ AdmitPrepares(p) \/ AdmitCreates(p) \/ AdmitCommits(p)
             \/ AdmitFails(p) \/ ReleaseDone(p) \/ Scan(p) \/ StartReclaim(p) \/ ReclaimDone(p)
             \/ Crash(p)
      PROVE  (Room /\ CapacityRespected)'
  <2>1. UNCHANGED leases
    BY <1>6 DEF Release, AcquireDone, AdmitPrepares, AdmitCreates, AdmitCommits, AdmitFails,
                ReleaseDone, Scan, StartReclaim, ReclaimDone, Crash
  <2>2. CASE AcquireDone(p) \/ AdmitCommits(p) \/ ReleaseDone(p) \/ ReclaimDone(p) \/ Crash(p)
    BY <1>1, <2>1, <2>2 DEF AcquireDone, AdmitCommits, ReleaseDone, ReclaimDone, Crash, Returns, Idle
  <2>3. CASE AdmitPrepares(p) \/ AdmitCreates(p) \/ AdmitFails(p) \/ StartReclaim(p)
    BY <1>1, <2>1, <2>3 DEF AdmitPrepares, AdmitCreates, AdmitFails, StartReclaim
  <2>4. CASE Scan(p)
    BY <1>1, <2>1, <2>4 DEF Scan, Idle
  <2>5. CASE \E j \in Jobs : Release(p, j)
    BY <1>1, <2>1, <2>5 DEF Release, Idle
  <2> QED
    BY <1>6, <2>2, <2>3, <2>4, <2>5
<1>7. ASSUME NEW j \in Jobs, JobStep(j) PROVE (Room /\ CapacityRespected)'
  BY <1>1, <1>7 DEF JobStep, PassLeaseCheck, StartWorker, SubmitCompletion, WorkerExits,
                    RejectCompletion, Settle, Moves
<1> QED
  BY <1>2, <1>3, <1>4, <1>5, <1>6, <1>7 DEF Next, StoreStep, TryAcquire, Admit

(* No resource ever has more leases than its capacity, for any number of    *)
(* processes, jobs and crashes (resources.py _has_capacity under the flock).*)
THEOREM CapacitySafe == Spec => []CapacityRespected
<1>1. Init => IInv
  <2>1. ASSUME Init PROVE CapacityRespected
    <3>1. \A r \in Resources : Holders(r) = {}
      BY <2>1 DEF Init, Holders
    <3> QED
      BY <3>1, FS_EmptySet, CapacityAssumption DEF CapacityRespected
  <2> QED
    BY <2>1, InitTyped DEF Init, IInv, LockDiscipline, Section, Room, Idle
<1>2. IInv /\ [Next]_vars => IInv'
  BY NextTyped, NextLocked, NextKeepsCapacity DEF IInv
<1>3. IInv => CapacityRespected
  BY DEF IInv
<1> QED
  BY <1>1, <1>2, <1>3, PTL DEF Spec

-----------------------------------------------------------------------------
(* A job whose lease files are being written or removed, so that they may   *)
(* be a part of its needs.                                                  *)
InProgress(p, j) ==
    \/ op[p].pc \in {"writing", "releasing"} /\ op[p].job = j
    \/ op[p].pc = "reclaiming" /\ j \notin op[p].keep

(* A job holds only what it needs.                                          *)
OnlyNeeds == \A j \in Jobs : HeldBy(j) \subseteq Needs[j]

(* What a writer has taken off its list is written.                         *)
WrittenSoFar == \A p \in Procs : op[p].pc = "writing" =>
    /\ op[p].todo \subseteq Needs[op[p].job]
    /\ Needs[op[p].job] \ op[p].todo \subseteq HeldBy(op[p].job)

(* Outside the sections that work on its files, a job holds all or nothing. *)
Whole == \A j \in Jobs :
    HeldBy(j) \in {{}, Needs[j]} \/ \E p \in Procs : InProgress(p, j)

(* A crash may leave a part behind, so the invariant ends at the first one. *)
WholeInv == crashes = 0 => OnlyNeeds /\ WrittenSoFar /\ Whole

(* The step of a process that leaves the files alone keeps the invariant if *)
(* it enters no writing, and leaves a section only with whole leases.       *)
LEMMA SameFilesKeepWhole ==
  ASSUME TInv, OnlyNeeds, WrittenSoFar, Whole, UNCHANGED leases, NEW p \in Procs,
         \A q \in Procs \ {p} : op'[q] = op[q],
         op'[p].pc # "writing",
         \A j \in Jobs : InProgress(p, j) =>
             InProgress(p, j)' \/ HeldBy(j) \in {{}, Needs[j]}
  PROVE  (OnlyNeeds /\ WrittenSoFar /\ Whole)'
<1>1. \A j \in Jobs : HeldBy(j)' = HeldBy(j)
  BY DEF HeldBy
<1>2. OnlyNeeds'
  BY <1>1 DEF OnlyNeeds
<1>3. WrittenSoFar'
  BY <1>1 DEF WrittenSoFar, TInv, NamesJob
<1>4. \A q \in Procs \ {p}, j \in Jobs : InProgress(q, j) => InProgress(q, j)'
  BY DEF InProgress
<1>5. Whole'
  BY <1>1, <1>4 DEF Whole
<1> QED
  BY <1>2, <1>3, <1>5

(* Every step up to the first crash keeps the leases of every job whole.    *)
LEMMA NextKeepsWhole ==
  TInv /\ LockDiscipline /\ WholeInv /\ [Next]_vars => WholeInv'
<1> SUFFICES ASSUME TInv, LockDiscipline, WholeInv, [Next]_vars, crashes' = 0
             PROVE  (OnlyNeeds /\ WrittenSoFar /\ Whole)'
  BY DEF WholeInv
<1> USE SentinelAssumption, NeedsAssumption
<1>0. crashes = 0 \/ \E p \in Procs : Crash(p)
  BY DEF Next, StoreStep, JobStep, TryAcquire, Admit, StartWriting, Release, WriteLease,
     AcquireDone, AdmitPrepares, AdmitCreates, AdmitCommits, AdmitFails, Unlink, ReleaseDone,
     Scan, StartReclaim, UnlinkInactive, ReclaimDone, PassLeaseCheck, StartWorker,
     SubmitCompletion, WorkerExits, RejectCompletion, Settle, Moves, vars
<1>00. crashes = 0
  BY <1>0 DEF Crash, TInv, TypeOK
<1>w. OnlyNeeds /\ WrittenSoFar /\ Whole
  BY <1>00 DEF WholeInv
<1>1. ASSUME UNCHANGED <<leases, op>> PROVE (OnlyNeeds /\ WrittenSoFar /\ Whole)'
  BY <1>1, <1>w DEF OnlyNeeds, WrittenSoFar, Whole, HeldBy, InProgress
<1>2. ASSUME NEW p \in Procs, NEW j \in Jobs, NEW k \in {"acquire", "admit"},
             StartWriting(p, j, k)
      PROVE  (OnlyNeeds /\ WrittenSoFar /\ Whole)'
  <2>1. /\ UNCHANGED leases
        /\ op'[p].pc = "writing" /\ op'[p].job = j /\ op'[p].todo = Needs[j]
        /\ \A q \in Procs \ {p} : op'[q] = op[q]
    BY <1>2 DEF StartWriting, Idle, TInv, TypeOK
  <2>2. \A q \in Procs : op[q].pc \notin Section
    BY <1>2 DEF StartWriting, Locks, LockDiscipline
  <2>3. \A i \in Jobs : HeldBy(i)' = HeldBy(i) /\ HeldBy(i) \in {{}, Needs[i]}
    BY <2>1, <2>2, <1>w DEF HeldBy, Whole, InProgress, Section
  <2>4. WrittenSoFar'
    BY <2>1, <2>2, <2>3 DEF WrittenSoFar, Section
  <2> QED
    BY <2>3, <2>4, <1>w DEF OnlyNeeds, Whole
<1>3. ASSUME NEW p \in Procs, WriteLease(p) PROVE (OnlyNeeds /\ WrittenSoFar /\ Whole)'
  <2>1. PICK j \in Jobs : j = op[p].job
    BY <1>3 DEF WriteLease, TInv, NamesJob
  <2>2. PICK r \in op[p].todo : /\ leases' = leases \cup {<<r, j>>}
                                /\ op' = [op EXCEPT ![p].todo = @ \ {r}]
    BY <1>3, <2>1 DEF WriteLease
  <2>3. op[p].pc = "writing" /\ r \in Needs[j] /\ r \in Resources
    BY <1>3, <2>1, <1>w DEF WriteLease, TInv, TypeOK, WrittenSoFar
  <2>4. /\ op'[p].pc = "writing" /\ op'[p].job = j /\ op'[p].todo = op[p].todo \ {r}
        /\ \A q \in Procs \ {p} : op'[q] = op[q]
    BY <2>1, <2>2, <2>3 DEF TInv, TypeOK
  <2>5. HeldBy(j)' = HeldBy(j) \cup {r}
    BY <2>2, <2>3 DEF HeldBy
  <2>6. \A i \in Jobs \ {j} : HeldBy(i)' = HeldBy(i)
    BY <2>2 DEF HeldBy
  <2>7. \A q \in Procs \ {p} : op[q].pc # "writing"
    BY <2>3 DEF LockDiscipline, Section
  <2>8. OnlyNeeds'
    BY <2>3, <2>5, <2>6, <1>w DEF OnlyNeeds
  <2>9. WrittenSoFar'
    BY <2>1, <2>3, <2>4, <2>5, <2>7, <1>w DEF WrittenSoFar
  <2>10. \A q \in Procs, i \in Jobs : InProgress(q, i) => InProgress(q, i)'
    BY <2>1, <2>3, <2>4 DEF InProgress
  <2>11. InProgress(p, j)'
    BY <2>4 DEF InProgress
  <2>12. Whole'
    BY <2>6, <2>10, <2>11, <1>w DEF Whole
  <2> QED
    BY <2>8, <2>9, <2>12
<1>4. ASSUME NEW p \in Procs, AcquireDone(p) \/ AdmitPrepares(p)
      PROVE  (OnlyNeeds /\ WrittenSoFar /\ Whole)'
  <2>1. op[p].pc = "writing" /\ op[p].todo = {} /\ op[p].job \in Jobs
    BY <1>4 DEF AcquireDone, AdmitPrepares, WritesDone, TInv, NamesJob
  <2>2. HeldBy(op[p].job) = Needs[op[p].job]
    BY <2>1, <1>w DEF WrittenSoFar, OnlyNeeds
  <2>3. UNCHANGED leases /\ (\A q \in Procs \ {p} : op'[q] = op[q]) /\ op'[p].pc # "writing"
    BY <1>4 DEF AcquireDone, AdmitPrepares, Returns, Idle, TInv, TypeOK
  <2>4. \A j \in Jobs : InProgress(p, j) => HeldBy(j) \in {{}, Needs[j]}
    BY <2>1, <2>2 DEF InProgress
  <2> QED
    BY <2>3, <2>4, <1>w, SameFilesKeepWhole
<1>5. ASSUME NEW p \in Procs,
             \/ AdmitCreates(p) \/ AdmitCommits(p) \/ AdmitFails(p) \/ Scan(p) \/ StartReclaim(p)
             \/ \E j \in Jobs : Release(p, j)
      PROVE  (OnlyNeeds /\ WrittenSoFar /\ Whole)'
  <2>1. UNCHANGED leases /\ \A q \in Procs \ {p} : op'[q] = op[q]
    BY <1>5 DEF AdmitCreates, AdmitCommits, AdmitFails, Scan, StartReclaim, Release, Returns,
                TInv, TypeOK
  <2>2. op'[p].pc # "writing"
    <3>1. CASE AdmitCreates(p) \/ AdmitCommits(p) \/ AdmitFails(p) \/ StartReclaim(p)
      BY <3>1 DEF AdmitCreates, AdmitCommits, AdmitFails, StartReclaim, Returns, Idle, TInv, TypeOK
    <3>2. CASE Scan(p)
      BY <3>2 DEF Scan, Idle, TInv, TypeOK
    <3>3. CASE \E j \in Jobs : Release(p, j)
      BY <3>3 DEF Release, Idle, TInv, TypeOK
    <3> QED
      BY <1>5, <3>1, <3>2, <3>3
  <2>3. ASSUME NEW j \in Jobs, InProgress(p, j)
        PROVE  InProgress(p, j)' \/ HeldBy(j) \in {{}, Needs[j]}
    <3>1. op[p].pc \in {"writing", "releasing", "reclaiming"}
      BY <2>3 DEF InProgress
    <3>2. AdmitFails(p)
      <4>1. op[p] # Idle
        BY <3>1 DEF Idle
      <4>2. ~ Scan(p) /\ \A i \in Jobs : ~ Release(p, i)
        BY <4>1 DEF Scan, Release
      <4>3. ~ AdmitCreates(p) /\ ~ AdmitCommits(p) /\ ~ StartReclaim(p)
        BY <3>1 DEF AdmitCreates, AdmitCommits, StartReclaim
      <4> QED
        BY <1>5, <4>2, <4>3
    <3>3. op[p].pc = "writing" /\ op[p].job = j
      BY <3>2, <2>3 DEF AdmitFails, WritesDone, InProgress
    <3>4. op'[p].pc = "releasing" /\ op'[p].job = j
      BY <3>2, <3>3 DEF AdmitFails, TInv, TypeOK
    <3> QED
      BY <3>4 DEF InProgress
  <2> QED
    BY <2>1, <2>2, <2>3, <1>w, SameFilesKeepWhole
<1>6. ASSUME NEW p \in Procs, ReleaseDone(p) \/ ReclaimDone(p)
      PROVE  (OnlyNeeds /\ WrittenSoFar /\ Whole)'
  <2>1. UNCHANGED leases /\ (\A q \in Procs \ {p} : op'[q] = op[q]) /\ op'[p].pc # "writing"
    BY <1>6 DEF ReleaseDone, ReclaimDone, Returns, Idle, TInv, TypeOK
  <2>2. ASSUME NEW j \in Jobs, InProgress(p, j) PROVE HeldBy(j) = {}
    <3>1. CASE ReleaseDone(p)
      BY <3>1, <2>2 DEF ReleaseDone, InProgress
    <3>2. CASE ReclaimDone(p)
      BY <3>2, <2>2 DEF ReclaimDone, InProgress, Inactive, HeldBy
    <3> QED
      BY <1>6, <3>1, <3>2
  <2> QED
    BY <2>1, <2>2, <1>w, SameFilesKeepWhole
<1>7. ASSUME NEW p \in Procs, Unlink(p) \/ UnlinkInactive(p)
      PROVE  (OnlyNeeds /\ WrittenSoFar /\ Whole)'
  <2>1. op' = op /\ op[p].pc \in {"releasing", "reclaiming"}
    BY <1>7 DEF Unlink, UnlinkInactive
  <2>2. \A q \in Procs : op[q].pc # "writing"
    BY <2>1 DEF LockDiscipline, Section
  <2>3. \A j \in Jobs : HeldBy(j)' \subseteq HeldBy(j)
    BY <1>7 DEF Unlink, UnlinkInactive, HeldBy
  <2>4. \A j \in Jobs : HeldBy(j)' = HeldBy(j) \/ InProgress(p, j)
    <3>1. CASE Unlink(p)
      BY <3>1 DEF Unlink, HeldBy, InProgress
    <3>2. CASE UnlinkInactive(p)
      <4>1. PICK l \in leases : l[2] \notin op[p].keep /\ leases' = leases \ {l}
        BY <3>2 DEF UnlinkInactive, Inactive
      <4>2. \A j \in Jobs : j \in op[p].keep => HeldBy(j)' = HeldBy(j)
        BY <4>1 DEF HeldBy
      <4> QED
        BY <4>2, <3>2 DEF UnlinkInactive, InProgress
    <3> QED
      BY <1>7, <3>1, <3>2
  <2>5. OnlyNeeds' /\ WrittenSoFar'
    BY <2>1, <2>2, <2>3, <1>w DEF OnlyNeeds, WrittenSoFar
  <2>6. Whole'
    BY <2>1, <2>4, <1>w DEF Whole, InProgress
  <2> QED
    BY <2>5, <2>6
<1>8. ASSUME NEW p \in Procs, Crash(p) PROVE (OnlyNeeds /\ WrittenSoFar /\ Whole)'
  BY <1>00, <1>8 DEF Crash
<1>9. ASSUME NEW j \in Jobs, JobStep(j) PROVE (OnlyNeeds /\ WrittenSoFar /\ Whole)'
  BY <1>1, <1>9 DEF JobStep, PassLeaseCheck, StartWorker, SubmitCompletion, WorkerExits,
                    RejectCompletion, Settle, Moves
<1>10. CASE UNCHANGED vars
  BY <1>1, <1>10 DEF vars
<1> QED
  BY <1>2, <1>3, <1>4, <1>5, <1>6, <1>7, <1>8, <1>9, <1>10
     DEF Next, StoreStep, TryAcquire, Admit

(* Until a process dies in a lock section, a job seen with the lock free    *)
(* holds all of its resources or none, for any number of processes          *)
(* (try_acquire and admit check every resource before the first write).     *)
THEOREM NoPartialLeases == Spec => []AllOrNothing
<1>1. Init => TInv /\ LockDiscipline /\ WholeInv
  <2>1. ASSUME Init PROVE WholeInv
    BY <2>1 DEF Init, WholeInv, OnlyNeeds, WrittenSoFar, Whole, HeldBy, Idle
  <2> QED
    BY <2>1, InitTyped DEF Init, LockDiscipline, Section, Idle
<1>2. TInv /\ LockDiscipline /\ WholeInv /\ [Next]_vars => (TInv /\ LockDiscipline /\ WholeInv)'
  BY NextTyped, NextLocked, NextKeepsWhole
<1>3. LockDiscipline /\ WholeInv => AllOrNothing
  BY SentinelAssumption DEF LockDiscipline, Section, WholeInv, Whole, InProgress, AllOrNothing
<1> QED
  BY <1>1, <1>2, <1>3, PTL DEF Spec

-----------------------------------------------------------------------------
(* The lease table.  A job holds only what it needs, and a writer has        *)
(* written what it has taken off its list, crashes or not.                   *)
NeedsInv == OnlyNeeds /\ WrittenSoFar

LEMMA NextKeepsNeeds == TInv /\ LockDiscipline /\ NeedsInv /\ [Next]_vars => NeedsInv'
<1> SUFFICES ASSUME TInv, LockDiscipline, NeedsInv, [Next]_vars PROVE NeedsInv'
  OBVIOUS
<1> USE SentinelAssumption, NeedsAssumption
<1> USE DEF NeedsInv
<1>1. ASSUME \A j \in Jobs : HeldBy(j)' \subseteq HeldBy(j),
             \A p \in Procs : op'[p].pc = "writing" => /\ op[p].pc = "writing" /\ op'[p] = op[p]
                                                       /\ HeldBy(op[p].job)' = HeldBy(op[p].job)
      PROVE  NeedsInv'
  <2>1. OnlyNeeds'
    BY <1>1 DEF OnlyNeeds
  <2>2. WrittenSoFar'
    BY <1>1 DEF WrittenSoFar
  <2> QED
    BY <2>1, <2>2
<1>2. ASSUME UNCHANGED leases,
             \A p \in Procs : op'[p].pc = "writing" => op[p].pc = "writing" /\ op'[p] = op[p]
      PROVE  NeedsInv'
  BY <1>1, <1>2 DEF HeldBy
<1>3. ASSUME NEW p \in Procs, NEW j \in Jobs, NEW k \in {"acquire", "admit"},
             StartWriting(p, j, k)
      PROVE  NeedsInv'
  <2>1. /\ UNCHANGED leases
        /\ op'[p].pc = "writing" /\ op'[p].job = j /\ op'[p].todo = Needs[j]
        /\ \A q \in Procs \ {p} : op'[q] = op[q]
    BY <1>3 DEF StartWriting, Idle, TInv, TypeOK
  <2>2. \A i \in Jobs : HeldBy(i)' = HeldBy(i)
    BY <2>1 DEF HeldBy
  <2>3. \A q \in Procs : op[q].pc # "writing"
    BY <1>3 DEF StartWriting, Locks, LockDiscipline, Section
  <2>4. WrittenSoFar'
    BY <2>1, <2>2, <2>3 DEF WrittenSoFar
  <2> QED
    BY <2>2, <2>4 DEF OnlyNeeds
<1>4. ASSUME NEW p \in Procs, WriteLease(p) PROVE NeedsInv'
  <2>1. PICK j \in Jobs : j = op[p].job
    BY <1>4 DEF WriteLease, TInv, NamesJob
  <2>2. PICK r \in op[p].todo : /\ leases' = leases \cup {<<r, j>>}
                                /\ op' = [op EXCEPT ![p].todo = @ \ {r}]
    BY <1>4, <2>1 DEF WriteLease
  <2>3. op[p].pc = "writing" /\ r \in Needs[j] /\ r \in Resources
    BY <1>4, <2>1 DEF WriteLease, TInv, TypeOK, WrittenSoFar
  <2>4. /\ op'[p].pc = "writing" /\ op'[p].job = j /\ op'[p].todo = op[p].todo \ {r}
        /\ \A q \in Procs \ {p} : op'[q] = op[q]
    BY <2>1, <2>2, <2>3 DEF TInv, TypeOK
  <2>5. HeldBy(j)' = HeldBy(j) \cup {r} /\ \A i \in Jobs \ {j} : HeldBy(i)' = HeldBy(i)
    BY <2>2, <2>3 DEF HeldBy
  <2>6. \A q \in Procs \ {p} : op[q].pc # "writing"
    BY <2>3 DEF LockDiscipline, Section
  <2>7. OnlyNeeds'
    BY <2>3, <2>5 DEF OnlyNeeds
  <2>8. WrittenSoFar'
    BY <2>1, <2>3, <2>4, <2>5, <2>6 DEF WrittenSoFar
  <2> QED
    BY <2>7, <2>8
<1>5. ASSUME NEW p \in Procs, Unlink(p) \/ UnlinkInactive(p) PROVE NeedsInv'
  <2>1. op' = op /\ op[p].pc \in {"releasing", "reclaiming"}
    BY <1>5 DEF Unlink, UnlinkInactive
  <2>2. \A q \in Procs : op[q].pc # "writing"
    BY <2>1 DEF LockDiscipline, Section
  <2>3. \A j \in Jobs : HeldBy(j)' \subseteq HeldBy(j)
    BY <1>5 DEF Unlink, UnlinkInactive, HeldBy
  <2> QED
    BY <1>1, <2>1, <2>2, <2>3
<1>6. ASSUME NEW p \in Procs,
             AcquireDone(p) \/ AdmitCommits(p) \/ ReleaseDone(p) \/ ReclaimDone(p) \/ Crash(p)
      PROVE  NeedsInv'
  BY <1>2, <1>6 DEF AcquireDone, AdmitCommits, ReleaseDone, ReclaimDone, Crash, Returns, Idle,
                    TInv, TypeOK
<1>7. ASSUME NEW p \in Procs,
             AdmitPrepares(p) \/ AdmitCreates(p) \/ AdmitFails(p) \/ StartReclaim(p)
      PROVE  NeedsInv'
  BY <1>2, <1>7 DEF AdmitPrepares, AdmitCreates, AdmitFails, StartReclaim, TInv, TypeOK
<1>8. ASSUME NEW p \in Procs, Scan(p) \/ \E j \in Jobs : Release(p, j) PROVE NeedsInv'
  <2>1. CASE Scan(p)
    BY <1>2, <2>1 DEF Scan, Idle, TInv, TypeOK
  <2>2. CASE \E j \in Jobs : Release(p, j)
    BY <1>2, <2>2 DEF Release, Idle, TInv, TypeOK
  <2> QED
    BY <1>8, <2>1, <2>2
<1>9. ASSUME NEW j \in Jobs, JobStep(j) PROVE NeedsInv'
  BY <1>2, <1>9 DEF JobStep, PassLeaseCheck, StartWorker, SubmitCompletion, WorkerExits,
                    RejectCompletion, Settle, Moves
<1>10. CASE UNCHANGED vars
  BY <1>2, <1>10 DEF vars
<1> QED
  BY <1>3, <1>4, <1>5, <1>6, <1>7, <1>8, <1>9, <1>10 DEF Next, StoreStep, TryAcquire, Admit

(* The table counts as the store does.                                      *)
LEMMA TableCounts == \A S : Table!Cardinality(S) = Cardinality(S)
  BY DEF Table!Cardinality, Cardinality

(* What a job is granted in the table, and that it is what the files say     *)
(* when nobody is inside a section.                                         *)
LEMMA GrantedValue ==
  ASSUME TInv
  PROVE  /\ Granted \in [Jobs -> SUBSET Resources]
         /\ \A j \in Jobs : Granted[j] = IF Removing(j) THEN {} ELSE HeldBy(j) \cup ToWrite(j)
  BY DEF Granted, HeldBy, ToWrite

LEMMA GrantedOutside ==
  ASSUME TInv, \A p \in Procs : op[p].pc \notin Section
  PROVE  Granted = [j \in Jobs |-> HeldBy(j)]
<1>1. \A j \in Jobs : ~ Removing(j) /\ ToWrite(j) = {}
  BY DEF Removing, ToWrite, Section
<1> QED
  BY <1>1 DEF Granted

(* A step that leaves what each section has in hand leaves the table.        *)
LEMMA GrantedSame ==
  ASSUME \A j \in Jobs : Removing(j)' <=> Removing(j),
         \A j \in Jobs : ~ Removing(j) =>
             (HeldBy(j) \cup ToWrite(j))' = HeldBy(j) \cup ToWrite(j)
  PROVE  Granted' = Granted
<1>1. \A j \in Jobs : (IF Removing(j) THEN {} ELSE HeldBy(j) \cup ToWrite(j))'
                    = IF Removing(j) THEN {} ELSE HeldBy(j) \cup ToWrite(j)
  OBVIOUS
<1> QED
  BY <1>1 DEF Granted

(* The lock makes the process in a section the only one.                    *)
LEMMA OneSection ==
  ASSUME LockDiscipline, NEW p \in Procs, op[p].pc \in Section
  PROVE  \A q \in Procs \ {p} : op[q].pc \notin Section
  BY DEF LockDiscipline

(* A step with the files and the sections as they were.                      *)
LEMMA QuietStep ==
  ASSUME TInv, UNCHANGED leases, NEW p \in Procs,
         \A q \in Procs \ {p} : op'[q] = op[q],
         op[p].pc \in {"writing", "releasing", "reclaiming"} => FALSE,
         op'[p].pc \in {"writing", "releasing", "reclaiming"} => FALSE
  PROVE  Granted' = Granted
<1>1. \A j \in Jobs : Removing(j)' <=> Removing(j)
  BY DEF Removing
<1>2. \A j \in Jobs : ToWrite(j)' = ToWrite(j)
  BY DEF ToWrite
<1>3. \A j \in Jobs : HeldBy(j)' = HeldBy(j)
  BY DEF HeldBy
<1> QED
  BY <1>1, <1>2, <1>3, GrantedSame

(* Taking the lock to write is the grant: there is room for all of it.       *)
LEMMA WritingGrants ==
  ASSUME TInv, LockDiscipline, NeedsInv, NEW p \in Procs, NEW j \in Jobs,
         NEW k \in {"acquire", "admit"}, StartWriting(p, j, k)
  PROVE  Table!Grant(j)
<1> USE SentinelAssumption, NeedsAssumption
<1>1. /\ UNCHANGED <<leases, crashes>>
      /\ op'[p].pc = "writing" /\ op'[p].job = j /\ op'[p].todo = Needs[j]
      /\ \A q \in Procs \ {p} : op'[q] = op[q]
  BY DEF StartWriting, Idle, TInv, TypeOK
<1>2. \A q \in Procs : op[q].pc \notin Section
  BY DEF StartWriting, Locks, LockDiscipline
<1>3. Granted = [i \in Jobs |-> HeldBy(i)]
  BY <1>2, GrantedOutside
<1>4. \A i \in Jobs : HeldBy(i)' = HeldBy(i) /\ HeldBy(i) \subseteq Needs[i]
  BY <1>1 DEF HeldBy, NeedsInv, OnlyNeeds
<1>5. \A i \in Jobs : ~ Removing(i)'
  BY <1>1, <1>2 DEF Removing, Section
<1>6. ToWrite(j)' = Needs[j] /\ \A i \in Jobs \ {j} : ToWrite(i)' = {}
  BY <1>1, <1>2 DEF ToWrite, Section
<1>7. Granted' = [i \in Jobs |-> HeldBy(i)' \cup ToWrite(i)']
  BY <1>5 DEF Granted
<1>8. Granted' = [Granted EXCEPT ![j] = Needs[j]]
  BY <1>3, <1>4, <1>6, <1>7
<1>9. \A r \in Resources : {i \in Jobs : r \in Granted[i]} = Holders(r)
  BY <1>3 DEF Holders, HeldBy
<1>10. \A r \in Needs[j] : Cardinality({i \in Jobs : r \in Granted[i]}) < Capacity[r]
  BY <1>9 DEF StartWriting, HasCapacity
<1> QED
  BY <1>1, <1>8, <1>10, TableCounts DEF Table!Grant, Table!GrantedIn

(* Inside a section the files follow a table that has changed already.      *)
LEMMA WritingFollows ==
  ASSUME TInv, LockDiscipline, NeedsInv, NEW p \in Procs, WriteLease(p)
  PROVE  Granted' = Granted
<1>1. PICK j \in Jobs : j = op[p].job
  BY DEF WriteLease, TInv, NamesJob
<1>2. PICK r \in op[p].todo : /\ leases' = leases \cup {<<r, j>>}
                              /\ op' = [op EXCEPT ![p].todo = @ \ {r}]
  BY <1>1 DEF WriteLease
<1>3. op[p].pc = "writing" /\ r \in Resources /\ op[p].todo \subseteq Resources
  BY DEF WriteLease, TInv, TypeOK
<1>4. /\ op'[p].pc = "writing" /\ op'[p].job = j /\ op'[p].todo = op[p].todo \ {r}
      /\ \A q \in Procs \ {p} : op'[q] = op[q]
  BY <1>1, <1>2, <1>3 DEF TInv, TypeOK
<1>5. \A q \in Procs \ {p} : op[q].pc \notin Section
  BY <1>3, OneSection DEF Section
<1>6. \A i \in Jobs : ~ Removing(i) /\ ~ Removing(i)'
  BY <1>3, <1>4, <1>5 DEF Removing, Section
<1>7. HeldBy(j)' = HeldBy(j) \cup {r} /\ \A i \in Jobs \ {j} : HeldBy(i)' = HeldBy(i)
  BY <1>2, <1>3 DEF HeldBy
<1>8. ToWrite(j) = op[p].todo /\ ToWrite(j)' = op[p].todo \ {r}
  BY <1>1, <1>3, <1>4, <1>5 DEF ToWrite, Section
<1>9. \A i \in Jobs \ {j} : ToWrite(i)' = ToWrite(i)
  BY <1>1, <1>3, <1>4, <1>5 DEF ToWrite, Section
<1>10. \A i \in Jobs : (HeldBy(i) \cup ToWrite(i))' = HeldBy(i) \cup ToWrite(i)
  <2>1. HeldBy(j)' \cup ToWrite(j)' = HeldBy(j) \cup ToWrite(j)
    BY <1>7, <1>8
  <2> QED
    BY <2>1, <1>7, <1>9
<1> QED
  BY <1>6, <1>10, GrantedSame

LEMMA RemovingFollows ==
  ASSUME TInv, LockDiscipline, NEW p \in Procs, Unlink(p) \/ UnlinkInactive(p)
  PROVE  Granted' = Granted
<1>1. op' = op
  BY DEF Unlink, UnlinkInactive
<1>2. \A j \in Jobs : (Removing(j)' <=> Removing(j)) /\ ToWrite(j)' = ToWrite(j)
  BY <1>1 DEF Removing, ToWrite
<1>3. ASSUME NEW j \in Jobs, ~ Removing(j) PROVE HeldBy(j)' = HeldBy(j)
  <2>1. CASE Unlink(p)
    BY <1>3, <2>1 DEF Unlink, HeldBy, Removing
  <2>2. CASE UnlinkInactive(p)
    BY <1>3, <2>2 DEF UnlinkInactive, Inactive, HeldBy, Removing
  <2> QED
    BY <2>1, <2>2
<1> QED
  BY <1>2, <1>3, GrantedSame

(* A section that ends has done what the table says.                        *)
LEMMA SectionEnds ==
  ASSUME TInv, LockDiscipline, NEW p \in Procs,
         AcquireDone(p) \/ AdmitPrepares(p) \/ ReleaseDone(p) \/ ReclaimDone(p)
  PROVE  Granted' = Granted
<1>1. op[p].pc \in {"writing", "releasing", "reclaiming"}
  BY DEF AcquireDone, AdmitPrepares, WritesDone, ReleaseDone, ReclaimDone
<1>2. \A q \in Procs \ {p} : op[q].pc \notin Section /\ op'[q] = op[q]
  <2>1. \A q \in Procs \ {p} : op'[q] = op[q]
    BY DEF AcquireDone, AdmitPrepares, ReleaseDone, ReclaimDone, Returns, TInv, TypeOK
  <2> QED
    BY <1>1, <2>1, OneSection DEF Section
<1>3. UNCHANGED leases /\ op'[p].pc \in {"idle", "creating"}
  BY DEF AcquireDone, AdmitPrepares, ReleaseDone, ReclaimDone, Returns, Idle, TInv, TypeOK
<1>4. \A j \in Jobs : ~ Removing(j)' /\ ToWrite(j)' = {} /\ HeldBy(j)' = HeldBy(j)
  BY <1>2, <1>3 DEF Removing, ToWrite, HeldBy, Section
<1>5. ASSUME NEW j \in Jobs PROVE Granted[j] = HeldBy(j)
  <2>1. CASE op[p].pc = "writing"
    <3>1. op[p].todo = {}
      BY <2>1 DEF AcquireDone, AdmitPrepares, WritesDone, ReleaseDone, ReclaimDone
    <3>2. ~ Removing(j) /\ ToWrite(j) = {}
      BY <1>2, <2>1, <3>1 DEF Removing, ToWrite, Section
    <3> QED
      BY <3>2, GrantedValue
  <2>2. CASE op[p].pc # "writing"
    <3>1. Removing(j) => HeldBy(j) = {}
      BY <1>2, <2>2 DEF Removing, Section, AcquireDone, AdmitPrepares, WritesDone, ReleaseDone,
                        ReclaimDone, Inactive, HeldBy
    <3>2. ToWrite(j) = {}
      BY <1>2, <2>2 DEF ToWrite, Section
    <3> QED
      BY <3>1, <3>2, GrantedValue
  <2> QED
    BY <2>1, <2>2
<1>6. Granted' = [j \in Jobs |-> HeldBy(j)]
  BY <1>4 DEF Granted
<1> QED
  BY <1>5, <1>6, GrantedValue

(* Taking the lock to remove is the release of the jobs it is about.         *)
LEMMA RemovingFrees ==
  ASSUME TInv, LockDiscipline, NEW p \in Procs, UNCHANGED <<leases, crashes>>,
         \A q \in Procs \ {p} : op'[q] = op[q] /\ op[q].pc \notin Section,
         op[p].pc # "writing" \/ op[p].todo = {},
         op[p].pc \notin {"releasing", "reclaiming"},
         op'[p].pc \in {"releasing", "reclaiming"}
  PROVE  Table!Free({j \in Jobs : Removing(j)'})
<1>1. \A j \in Jobs : ~ Removing(j) /\ ToWrite(j) = {} /\ ToWrite(j)' = {}
  BY DEF Removing, ToWrite, Section
<1>2. \A j \in Jobs : HeldBy(j)' = HeldBy(j)
  BY DEF HeldBy
<1>3. \A j \in Jobs : Granted[j] = HeldBy(j)
  BY <1>1, GrantedValue
<1>4. Granted' = [j \in Jobs |-> IF Removing(j)' THEN {} ELSE HeldBy(j)]
  BY <1>1, <1>2 DEF Granted
<1> QED
  BY <1>3, <1>4 DEF Table!Free

(* A death in a section leaves the files as they are: of what it had in      *)
(* hand any part, of the others what they had.                              *)
LEMMA DeathTears ==
  ASSUME IInv, NeedsInv, NEW p \in Procs, Crash(p)
  PROVE  Table!Crashes
<1> USE SentinelAssumption, NeedsAssumption
<1>0. TInv /\ LockDiscipline /\ CapacityRespected
  BY DEF IInv
<1>1. /\ crashes < MaxCrashes /\ crashes' = crashes + 1 /\ UNCHANGED leases
      /\ op'[p].pc = "idle" /\ \A q \in Procs \ {p} : op'[q] = op[q]
  BY <1>0 DEF Crash, Returns, Idle, TInv, TypeOK
<1>2. CASE op[p].pc \notin Section
  <2>1. Granted' = Granted
    BY <1>0, <1>1, <1>2, QuietStep DEF Section
  <2> QED
    BY <1>1, <2>1 DEF Table!Crashes
<1>3. CASE op[p].pc \in Section
  <2>1. \A q \in Procs \ {p} : op[q].pc \notin Section
    BY <1>0, <1>3, OneSection
  <2>2. \A j \in Jobs : ~ Removing(j)' /\ ToWrite(j)' = {} /\ HeldBy(j)' = HeldBy(j)
    BY <1>1, <2>1 DEF Removing, ToWrite, HeldBy, Section
  <2>3. Granted' = [j \in Jobs |-> HeldBy(j)]
    BY <2>2 DEF Granted
  <2>4. Granted' \in [Jobs -> SUBSET Resources]
    BY <2>3 DEF HeldBy
  <2>5. \A j \in Jobs : Granted'[j] \subseteq Needs[j]
    BY <2>3 DEF NeedsInv, OnlyNeeds
  <2>6. \A r \in Resources : {j \in Jobs : r \in Granted'[j]} = Holders(r)
    BY <2>3 DEF Holders, HeldBy
  <2>7. Table!Within(Granted')
    BY <1>0, <2>5, <2>6, TableCounts DEF Table!Within, Table!GrantedIn, CapacityRespected
  <2>8. ASSUME NEW j \in Jobs, Granted'[j] # Granted[j] PROVE Granted[j] \in {{}, Needs[j]}
    <3>1. HeldBy(j) \subseteq Needs[j] /\ Granted'[j] = HeldBy(j)
      BY <2>3 DEF NeedsInv, OnlyNeeds
    <3>2. CASE Removing(j)
      BY <3>2, <1>0, GrantedValue
    <3>3. CASE ~ Removing(j)
      <4>1. ToWrite(j) # {}
        BY <2>8, <3>1, <3>3, <1>0, GrantedValue
      <4>2. op[p].pc = "writing" /\ op[p].job = j
        BY <4>1, <2>1 DEF ToWrite, Section
      <4>3. ToWrite(j) = op[p].todo
        BY <4>2, <2>1, <1>0 DEF ToWrite, Section, TInv, TypeOK
      <4>4. HeldBy(j) \cup op[p].todo = Needs[j]
        BY <4>2, <3>1 DEF NeedsInv, WrittenSoFar
      <4> QED
        BY <3>3, <4>3, <4>4, <1>0, GrantedValue
    <3> QED
      BY <3>2, <3>3
  <2>9. Table!Tear
    BY <2>4, <2>7, <2>8 DEF Table!Tear
  <2> QED
    BY <1>1, <2>9 DEF Table!Crashes
<1> QED
  BY <1>2, <1>3

(* Every step of the store is a step of the table or leaves it alone.        *)
LEMMA StepImplementsTable ==
  IInv /\ NeedsInv /\ [Next]_vars => [Table!TableNext]_(Table!tableVars)
<1> SUFFICES ASSUME IInv, NeedsInv, [Next]_vars
             PROVE  Table!TableNext \/ UNCHANGED Table!tableVars
  OBVIOUS
<1> USE SentinelAssumption
<1>0. TInv /\ LockDiscipline
  BY DEF IInv
<1>1. ASSUME Granted' = Granted, UNCHANGED crashes PROVE UNCHANGED Table!tableVars
  BY <1>1 DEF Table!tableVars
<1>2. CASE UNCHANGED vars
  BY <1>1, <1>2 DEF vars, Granted, Removing, ToWrite, HeldBy
<1>3. ASSUME NEW j \in Jobs, JobStep(j) PROVE UNCHANGED Table!tableVars
  <2>1. UNCHANGED <<leases, op, crashes>>
    BY <1>3 DEF JobStep, PassLeaseCheck, StartWorker, SubmitCompletion, WorkerExits,
                RejectCompletion, Settle, Moves
  <2> QED
    BY <1>1, <2>1 DEF Granted, Removing, ToWrite, HeldBy
<1>4. ASSUME NEW p \in Procs, NEW j \in Jobs, TryAcquire(p, j) \/ Admit(p, j)
      PROVE  Table!TableNext
  <2>1. Table!Grant(j)
    BY <1>0, <1>4, WritingGrants DEF TryAcquire, Admit
  <2> QED
    BY <2>1 DEF Table!TableNext
<1>5. ASSUME NEW p \in Procs, WriteLease(p) \/ Unlink(p) \/ UnlinkInactive(p)
      PROVE  UNCHANGED Table!tableVars
  <2>1. Granted' = Granted
    BY <1>0, <1>5, WritingFollows, RemovingFollows
  <2> QED
    BY <1>1, <1>5, <2>1 DEF WriteLease, Unlink, UnlinkInactive
<1>6. ASSUME NEW p \in Procs, AcquireDone(p) \/ AdmitPrepares(p) \/ ReleaseDone(p) \/ ReclaimDone(p)
      PROVE  UNCHANGED Table!tableVars
  <2>1. Granted' = Granted
    BY <1>0, <1>6, SectionEnds
  <2> QED
    BY <1>1, <1>6, <2>1 DEF AcquireDone, AdmitPrepares, ReleaseDone, ReclaimDone
<1>7. ASSUME NEW p \in Procs, AdmitCreates(p) \/ AdmitCommits(p) \/ Scan(p)
      PROVE  UNCHANGED Table!tableVars
  <2>1. /\ UNCHANGED <<leases, crashes>> /\ \A q \in Procs \ {p} : op'[q] = op[q]
        /\ op[p].pc \in {"creating", "committing", "idle"}
    BY <1>0, <1>7 DEF AdmitCreates, AdmitCommits, Scan, Returns, Idle, TInv, TypeOK
  <2>2. op'[p].pc \in {"committing", "idle", "scanned"}
    <3>1. CASE AdmitCreates(p)
      BY <1>0, <3>1 DEF AdmitCreates, TInv, TypeOK
    <3>2. CASE AdmitCommits(p)
      BY <1>0, <3>2 DEF AdmitCommits, Returns, Idle, TInv, TypeOK
    <3>3. CASE Scan(p)
      BY <1>0, <3>3 DEF Scan, Idle, TInv, TypeOK
    <3> QED
      BY <1>7, <3>1, <3>2, <3>3
  <2>3. Granted' = Granted
    BY <1>0, <2>1, <2>2, QuietStep
  <2> QED
    BY <1>1, <2>1, <2>3
<1>8. ASSUME NEW p \in Procs,
             AdmitFails(p) \/ StartReclaim(p) \/ \E j \in Jobs : Release(p, j)
      PROVE  Table!TableNext
  <2>1. UNCHANGED <<leases, crashes>> /\ \A q \in Procs \ {p} : op'[q] = op[q]
    BY <1>0, <1>8 DEF AdmitFails, StartReclaim, Release, TInv, TypeOK
  <2>2. \A q \in Procs \ {p} : op[q].pc \notin Section
    <3>1. CASE AdmitFails(p)
      BY <1>0, <3>1, OneSection DEF AdmitFails, WritesDone, Section
    <3>2. CASE StartReclaim(p) \/ \E j \in Jobs : Release(p, j)
      BY <1>0, <3>2 DEF StartReclaim, Release, Locks, LockDiscipline
    <3> QED
      BY <1>8, <3>1, <3>2
  <2>3. /\ op[p].pc # "writing" \/ op[p].todo = {}
        /\ op[p].pc \notin {"releasing", "reclaiming"}
        /\ op'[p].pc \in {"releasing", "reclaiming"}
    <3>1. CASE AdmitFails(p)
      BY <1>0, <3>1 DEF AdmitFails, WritesDone, TInv, TypeOK
    <3>2. CASE StartReclaim(p)
      BY <1>0, <3>2 DEF StartReclaim, TInv, TypeOK
    <3>3. CASE \E j \in Jobs : Release(p, j)
      BY <1>0, <3>3 DEF Release, Idle, TInv, TypeOK
    <3> QED
      BY <1>8, <3>1, <3>2, <3>3
  <2>4. Table!Free({j \in Jobs : Removing(j)'})
    BY <1>0, <2>1, <2>2, <2>3, RemovingFrees
  <2> QED
    BY <2>4 DEF Table!TableNext
<1>9. ASSUME NEW p \in Procs, Crash(p) PROVE Table!TableNext
  BY <1>9, DeathTears DEF Table!TableNext
<1> QED
  BY <1>2, <1>3, <1>4, <1>5, <1>6, <1>7, <1>8, <1>9 DEF Next, StoreStep

(* The lease files implement the lease table, for any number of processes,   *)
(* jobs and crashes: a grant is whole, a release is whole, and only a death  *)
(* inside a section tears what that section had in hand (resources.py).      *)
THEOREM ImplementsTable == Spec => GrantsAreWhole
<1>1. Init => IInv /\ NeedsInv /\ Table!TableInit
  <2>1. ASSUME Init PROVE IInv /\ NeedsInv
    <3>1. CapacityRespected
      <4>1. \A r \in Resources : Holders(r) = {}
        BY <2>1 DEF Init, Holders
      <4> QED
        BY <4>1, FS_EmptySet, CapacityAssumption DEF CapacityRespected
    <3> QED
      BY <2>1, <3>1, InitTyped DEF Init, IInv, LockDiscipline, Section, Room, Idle, NeedsInv,
         OnlyNeeds, WrittenSoFar, HeldBy
  <2>2. ASSUME Init PROVE Table!TableInit
    <3>1. \A p \in Procs : op[p].pc \notin Section
      BY <2>2 DEF Init, Idle, Section
    <3>2. \A j \in Jobs : HeldBy(j) = {}
      BY <2>2 DEF Init, HeldBy
    <3> QED
      BY <2>2, <3>1, <3>2, InitTyped, GrantedOutside DEF Init, Table!TableInit
  <2> QED
    BY <2>1, <2>2
<1>2. IInv /\ NeedsInv /\ [Next]_vars => (IInv /\ NeedsInv)'
  BY NextTyped, NextLocked, NextKeepsCapacity, NextKeepsNeeds DEF IInv
<1>3. IInv /\ NeedsInv /\ [Next]_vars => [Table!TableNext]_(Table!tableVars)
  BY StepImplementsTable
<1> QED
  BY <1>1, <1>2, <1>3, PTL DEF Spec, GrantsAreWhole, Table!TableSpec
=============================================================================
