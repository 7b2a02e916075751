---------------------- MODULE ParquetLifecycle_proofs ----------------------
(***************************************************************************)
(* The four safety properties of ParquetLifecycle for any number of files, *)
(* jobs and faults and for any cutoffs that satisfy LifecycleAssumption: the *)
(* steps of the garbage collector and of time, the initial states, and the *)
(* theorems.                                                               *)
(***************************************************************************)
EXTENDS ParquetLifecycleJobs, ParquetLifecycleFaults

USE DEF schedulerVars, gcVars, jobVars, catalogVars, storeVars, pipelineVars

\* The garbage collector, retention and time.
LEMMA CollectStep ==
  ASSUME IInv, Collect
  PROVE  IInv'
<1> USE LifecycleAssumption DEF IInv
<1>1. TypeOK'
  <2>1. CASE DeleteOldRows
    BY <2>1 DEF Collect, DeleteOldRows, TypeOK, Live
  <2>2. ASSUME NEW f \in Files, Check(f) \/ CheckerEnds(f) \/ Delete(f)
        PROVE  TypeOK'
    BY <2>2 DEF Collect, Check, CheckerEnds, Delete, TypeOK
  <2> QED BY <2>1, <2>2 DEF Collect
<1>2. Mutex'
  BY DEF Collect, Mutex, Holding, Critical
<1>3. Ids'
  BY DEF Collect, DeleteOldRows, Check, CheckerEnds, Delete, Ids, Written
<1>4. Objects'
  BY DEF Collect, DeleteOldRows, Check, CheckerEnds, Delete, should_delete, TooNew, TypeOK,
    Objects, Pending
<1>5. Lists'
  BY DEF Collect, DeleteOldRows, Check, CheckerEnds, Delete, OldRows, TypeOK, JobState, Lists,
    Active
<1>6. Contents'
  BY DEF Collect, Contents
<1>7. RowsCovered'
  BY DEF Collect, DeleteOldRows, Check, CheckerEnds, Delete, OldRows, TypeOK, RowsCovered,
    LiveFiles, Live
<1> QED BY <1>1, <1>2, <1>3, <1>4, <1>5, <1>6, <1>7

LEMMA CollectorFaultStep ==
  ASSUME IInv, CollectorFault
  PROVE  IInv'
<1> USE LifecycleAssumption DEF IInv
<1>1. TypeOK'
  <2>1. faults' \in 0 .. MaxFaults
    BY DEF CollectorFault, Fault, TypeOK
  <2>2. doomed' \subseteq doomed /\ tasks' \subseteq tasks /\ UNCHANGED <<catalogVars, storeVars>>
    BY DEF CollectorFault, DeleteErr, CatalogErr
  <2> QED BY <2>1, <2>2 DEF CollectorFault, TypeOK
<1>2. Mutex'
  BY DEF CollectorFault, Mutex, Holding, Critical
<1>3. Ids'
  BY DEF CollectorFault, DeleteErr, CatalogErr, Ids, Written
<1>4. Objects'
  BY DEF CollectorFault, DeleteErr, CatalogErr, Objects, Pending
<1>5. Lists'
  BY DEF CollectorFault, DeleteErr, CatalogErr, Lists, Active
<1>6. Contents'
  BY DEF CollectorFault, Contents
<1>7. RowsCovered'
  BY DEF CollectorFault, DeleteErr, CatalogErr, RowsCovered, LiveFiles
<1> QED BY <1>1, <1>2, <1>3, <1>4, <1>5, <1>6, <1>7

LEMMA RetentionStep ==
  ASSUME IInv, NEW f \in Files, Retention(f)
  PROVE  IInv'
<1> USE LifecycleAssumption DEF IInv
<1>1. TypeOK'
  <2> QED
    BY DEF Retention, FlagByRetention, flag_for_delete, TypeOK, Live
<1>2. Mutex'
  BY DEF Retention, Mutex, Holding, Critical
<1>3. Ids'
  BY DEF Retention, FlagByRetention, Ids, Written
<1>4. Objects'
  BY DEF Retention, FlagByRetention, Objects, Pending
<1>5. Lists'
  BY DEF Retention, FlagByRetention, flag_for_delete, TypeOK, JobState, Lists, Active
<1>6. Contents'
  BY DEF Retention, Contents
<1>7. RowsCovered'
  BY DEF Retention, FlagByRetention, flag_for_delete, LiveFiles, Ids, Objects, RowsCovered,
    Written
<1> QED BY <1>1, <1>2, <1>3, <1>4, <1>5, <1>6, <1>7

LEMMA TickStep ==
  ASSUME IInv, Tick
  PROVE  IInv'
<1> USE LifecycleAssumption DEF IInv
<1>1. TypeOK'
  <2>1. job' \in [Jobs -> JobState]
    <3>1. ASSUME NEW j \in Jobs, Critical(j)
          PROVE  [job[j] EXCEPT !.age = @ + 1] \in JobState
      <4>1. job[j] \in JobState /\ job[j].age + 1 \in 0 .. JobTimeout
        BY <3>1 DEF Tick, TypeOK, JobState
      <4> QED BY <4>1, JobUpdateAge
    <3> QED BY <3>1 DEF Tick, TypeOK
  <2>2. age' \in [Files -> 0 .. OSCutoff]
    BY OlderType DEF Tick, AgeAll, TypeOK, Live
  <2>3. flagAge' \in [Files -> Live .. PFCutoff + 1]
    BY OlderType, PFCutoff + 1 \in Nat DEF Tick, AgeAll, TypeOK
  <2>4. listAge' \in [Files -> 0 .. ListLife + 1]
    BY OlderType, ListLife + 1 \in Nat DEF Tick, TypeOK, Live
  <2>5. ASSUME NEW c \in late
        PROVE  [c EXCEPT !.stamp = @ + 1] \in
                 [delete : SUBSET Files, create : SUBSET Outputs, stamp : 0 .. WriteDelay]
    <3>1. PICK f : f \in c.create
      BY DEF Ids
    <3>2. c.stamp <= age[f] /\ age[f] < WriteDelay /\ age[f] \in Nat
      BY <3>1, PendingLate DEF Tick, Objects, TypeOK
    <3>3. c \in [delete : SUBSET Files, create : SUBSET Outputs, stamp : 0 .. WriteDelay]
      BY DEF TypeOK
    <3>4. c.stamp + 1 \in 0 .. WriteDelay
      BY <3>2, <3>3
    <3> QED BY <3>3, <3>4
  <2>6. late' \subseteq [delete : SUBSET Files, create : SUBSET Outputs, stamp : 0 .. WriteDelay]
    BY <2>5 DEF Tick
  <2> QED
    BY <2>1, <2>2, <2>3, <2>4, <2>6 DEF Tick, TypeOK
<1>2. Mutex'
  BY DEF Tick, Mutex, Holding, Critical
<1> DEFINE older(c) == [c EXCEPT !.stamp = @ + 1]
<1>late. \A d \in late' : \E c \in late : d = older(c) /\ d.create = c.create /\ d.delete = c.delete
  BY DEF Tick, TypeOK
<1> HIDE DEF older
<1>up. \A j \in Jobs : (job[j].stage = "uploaded")' =>
          /\ job[j].stage = "uploaded"
          /\ job'[j].out = job[j].out
          /\ job'[j].inputs = job[j].inputs
  BY DEF Tick, TypeOK, JobState
<1>3. Ids'
  <2>1. \A d \in late' : d.create /= {} /\ d.create \cap rows = {} /\ d.delete \subseteq Written
    BY <1>late DEF Ids
  <2>2. \A j \in Jobs, d \in late' :
            (job[j].stage = "uploaded")' => job'[j].out \cap d.create = {}
    BY <1>late, <1>up DEF Ids
  <2>3. ASSUME NEW d \in late', NEW e \in late', d /= e
        PROVE  d.create \cap e.create = {}
    <3>1. PICK c \in late : d = older(c) /\ d.create = c.create
      BY <1>late
    <3>2. PICK b \in late : e = older(b) /\ e.create = b.create
      BY <1>late
    <3>3. b /= c
      BY <2>3, <3>1, <3>2
    <3> QED BY <3>1, <3>2, <3>3 DEF Ids
  <2>4. \A j \in Jobs : (job[j].stage = "uploaded")' =>
            job'[j].out /= {} /\ job'[j].out \cap rows = {} /\ job'[j].inputs \subseteq Written
    BY <1>up DEF Ids
  <2>5. UNCHANGED <<rows, objects, content, persist>> /\ Written' = Written
    BY DEF Tick, Written
  <2> QED BY <2>1, <2>2, <2>3, <2>4, <2>5 DEF Ids
<1>4. Objects'
  <2>1. \A d \in late' : d.create \subseteq Pending
    BY <1>late, PendingLate
  <2>2. Pending' \subseteq Pending
    BY <1>up, <2>1, PendingWithin, PendingJob DEF Tick, Pending
  <2>3. \A f \in Pending : age'[f] <= WriteDelay
    BY DEF Tick, AgeAll, Older, TypeOK, JobState, Pending
  <2>4. ASSUME NEW d \in late', NEW f \in d.create
        PROVE  d.stamp <= age'[f]
    <3>1. PICK c \in late : d = older(c) /\ d.create = c.create
      BY <1>late
    <3>2. f \in Pending /\ f \in objects /\ c.stamp <= age[f] /\ age[f] < WriteDelay
      BY <3>1, PendingLate DEF Tick, Objects
    <3>3. c.stamp \in Nat /\ d.stamp = c.stamp + 1
      BY <3>1 DEF older, TypeOK
    <3>4. f \in Files /\ age[f] \in Nat
      BY <3>2 DEF TypeOK
    <3>5. age'[f] = age[f] + 1
      BY <3>2, <3>4 DEF Tick, AgeAll, Older, Live
    <3> QED BY <3>2, <3>3, <3>4, <3>5
  <2> QED
    BY <2>2, <2>3, <2>4 DEF Tick, Objects
<1>5. Lists'
  BY DEF Tick, AgeAll, Older, LiveFiles, TypeOK, JobState, Lists, Active, Critical, Live
<1>6. Contents'
  BY <1>late, <1>up DEF Tick, Contents
<1>7. RowsCovered'
  <2>1. LiveFiles' = LiveFiles
    BY DEF Tick, AgeAll, Older, LiveFiles, TypeOK, Live
  <2> QED BY <2>1 DEF Tick, RowsCovered
<1> QED BY <1>1, <1>2, <1>3, <1>4, <1>5, <1>6, <1>7

-----------------------------------------------------------------------------
(* The initial states, the stuttering steps, and the theorems.             *)

LEMMA InitInvariant == Init => IInv
<1> SUFFICES ASSUME Init PROVE IInv
  OBVIOUS
<1> USE LifecycleAssumption DEF Init, SchedulerInit, GcInit
<1>1. TypeOK
  <2>1. job \in [Jobs -> JobState]
    BY IdleState
  <2>2. flagAge \in [Files -> Live .. PFCutoff + 1]
    BY DEF Live
  <2>3. age \in [Files -> 0 .. OSCutoff] /\ listAge \in [Files -> 0 .. ListLife + 1]
    OBVIOUS
  <2>4. content \in [Files -> SUBSET L0]
    OBVIOUS
  <2>5. {in_flight, throttled, skipped, panicked, fresh} \subseteq BOOLEAN
    BY Zenon
  <2>6. /\ late \subseteq [delete : SUBSET Files, create : SUBSET Outputs, stamp : 0 .. WriteDelay]
        /\ faults \in 0 .. MaxFaults
    OBVIOUS
  <2>7. persist \in [L0 -> {"new", "uploaded", "committed", "lost"}]
    OBVIOUS
  <2> QED
    BY <2>1, <2>2, <2>3, <2>4, <2>5, <2>6, <2>7 DEF TypeOK
<1>2. Mutex
  BY DEF Mutex, Holding, Critical, Idle
<1>3. Ids
  BY DEF Ids, Idle
<1>4. Objects
  BY DEF Objects, Pending, Idle
<1>5. Lists
  BY DEF Lists, Idle
<1>6. Contents
  BY DEF Contents, Idle
<1>7. RowsCovered
  BY DEF RowsCovered
<1> QED BY <1>1, <1>2, <1>3, <1>4, <1>5, <1>6, <1>7 DEF IInv

LEMMA StutterInvariant == IInv /\ UNCHANGED vars => IInv'
<1> SUFFICES ASSUME IInv, UNCHANGED vars PROVE IInv'
  OBVIOUS
<1> USE DEF IInv, vars
<1>1. TypeOK'
  BY DEF TypeOK
<1>2. Mutex'
  BY DEF Mutex, Holding, Critical
<1>3. Ids'
  BY DEF Ids, Written
<1>4. Objects'
  BY DEF Objects, Pending
<1>5. Lists'
  BY DEF Lists, Active
<1>6. Contents'
  BY DEF Contents
<1>7. RowsCovered'
  BY DEF RowsCovered, LiveFiles
<1> QED BY <1>1, <1>2, <1>3, <1>4, <1>5, <1>6, <1>7

\* The inductive invariant holds in every reachable state.
THEOREM Inductive == Spec => []IInv
<1>1. Init => IInv
  BY InitInvariant
<1>2. IInv /\ [Next]_vars => IInv'
  <2> SUFFICES ASSUME IInv, [Next]_vars PROVE IInv'
    OBVIOUS
  <2>1. CASE UNCHANGED vars
    BY <2>1, StutterInvariant
  <2>2. ASSUME NEW f \in L0, PersistUpload(f) \/ PersistCommit(f) \/ PersistCrash(f)
        PROVE  IInv'
    BY <2>2, PersistUploadStep, PersistCommitStep, PersistCrashStep
  <2>3. ASSUME NEW j \in Jobs, Fetch(j)
        PROVE  IInv'
    BY <2>3, FetchStep
  <2>4. ASSUME NEW j \in Jobs, JobStep(j)
        PROVE  IInv'
    BY <2>4, JobListStep, JobDoneStep, JobUploadStep, JobCommitStep, JobTimesOutStep,
      JobRecordThrottleStep, JobRecordUniqueStep, JobRecordSkippedStep DEF JobStep
  <2>5. ASSUME NEW j \in Jobs, JobFault(j)
        PROVE  IInv'
    BY <2>5, JobCommitUnansweredStep, JobObjectStoreErrorStep, JobErrorStep,
      JobTimesOutCommittingStep DEF JobFault
  <2>6. ASSUME NEW c \in late, LateCommit(c) \/ LateRollback(c)
        PROVE  IInv'
    BY <2>6, LateCommitStep, LateRollbackStep
  <2>7. CASE Collect \/ CollectorFault \/ Tick
    BY <2>7, CollectStep, CollectorFaultStep, TickStep
  <2>8. ASSUME NEW f \in Files, Retention(f)
        PROVE  IInv'
    BY <2>8, RetentionStep
  <2> QED
    BY <2>1, <2>2, <2>3, <2>4, <2>5, <2>6, <2>7, <2>8 DEF Next, Settle
<1> QED BY <1>1, <1>2, PTL DEF Spec

\* However many job slots there are, whatever jobs time out or fail and whenever the
\* next fetch comes, the partition is in at most one job and no panic, commit or result
\* of a job finds the scheduler's maps without it.
THEOREM AtMostOneJob == Spec => []OneJob
<1>1. IInv => OneJob
  BY DEF IInv, Mutex, OneJob, Holding
<1> QED BY <1>1, Inductive, PTL

\* The garbage collector never removes an object a catalog row names, for every cutoff
\* longer than an upload waits for its commit.
THEOREM NoDanglingRow == Spec => []RowsHaveObjects
<1>1. IInv => RowsHaveObjects
  BY DEF IInv, Objects, RowsHaveObjects
<1> QED BY <1>1, Inductive, PTL

\* Every object on a file list still in use is there, for every cutoff of the row deleter
\* that is not below the life of a list, and the timeout of a job, each plus the time that
\* may pass between the clock reading that marks a soft delete and its commit.
THEOREM ListsReadable == Spec => []ReadersFindObjects
<1>1. IInv => ReadersFindObjects
  BY DEF IInv, Objects, Lists, Active, ReadersFindObjects
<1> QED BY <1>1, Inductive, PTL

\* Committed rows stay in live files until their retention period is over, for any
\* interleaving of jobs, timeouts, late and unanswered commits and deletions.
THEOREM NoRowLost == Spec => []RowsCovered
<1>1. IInv => RowsCovered
  BY DEF IInv
<1> QED BY <1>1, Inductive, PTL
=============================================================================
