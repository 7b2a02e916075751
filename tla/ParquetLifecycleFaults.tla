----------------------- MODULE ParquetLifecycleFaults -----------------------
(***************************************************************************)
(* The faults of a compaction job, and the commits a timeout leaves behind, *)
(* preserve the invariant of ParquetLifecycleInv.                          *)
(***************************************************************************)
EXTENDS ParquetLifecycleInv

USE DEF schedulerVars, gcVars, jobVars, catalogVars, storeVars, pipelineVars

\* One lemma per fault, then the outcomes of a late commit.
LEMMA JobCommitUnansweredStep ==
  ASSUME IInv, NEW j \in Jobs, JobCommitUnanswered(j)
  PROVE  IInv'
<1> USE LifecycleAssumption DEF IInv
<1>1. TypeOK'
  <2>1. job' \in [Jobs -> JobState]
    <3> DEFINE new == [job[j] EXCEPT !.stage = "retrying"]
    <3>1. new \in JobState
      <4>1. job[j] \in JobState
        BY DEF TypeOK
      <4> QED BY <4>1, JobUpdate, Zenon DEF JobStages
    <3>2. job' = [job EXCEPT ![j] = new]
      BY DEF JobCommitUnanswered
    <3> QED BY <3>1, <3>2 DEF TypeOK
  <2>2. fresh' \in BOOLEAN /\ recent' \subseteq Files
    BY NewFileType DEF JobCommitUnanswered, TypeOK, JobState, Ids
  <2>3. faults' \in 0 .. MaxFaults
    BY DEF JobCommitUnanswered, Fault, TypeOK
  <2>4. /\ rows' \subseteq Files
        /\ flagAge' \in [Files -> Live .. PFCutoff + 1]
        /\ listAge' \in [Files -> 0 .. ListLife + 1]
    BY TransactionEffect DEF JobCommitUnanswered, Stamps, TypeOK, JobState
  <2>5. flight' \in {"none", "idle", "committed"}
    BY DEF JobCommitUnanswered, CommitMark
  <2> QED
    BY <2>1, <2>2, <2>3, <2>4, <2>5 DEF JobCommitUnanswered, CommitMark, TypeOK
<1>2. Mutex'
  BY DEF JobCommitUnanswered, CommitMark, Mutex, Holding, Critical
<1>3. Ids'
  BY DEF JobCommitUnanswered, Transaction, create_upgrade_delete, TypeOK, JobState, Mutex, Ids,
    Written, Holding, Critical
<1>4. Objects'
  BY DEF JobCommitUnanswered, Transaction, create_upgrade_delete, Objects, Pending
<1>5. Lists'
  <2>1. PICK stamp \in 0 .. WriteDelay : Transaction(Deleted(j), job[j].out, stamp)
    BY DEF JobCommitUnanswered, Stamps
  <2>2. job[j].out \in SUBSET Files /\ job[j].out \cap rows = {}
    BY DEF JobCommitUnanswered, TypeOK, JobState, Ids
  <2>3. \A i \in Jobs : Active(i)' => Active(i) /\ job'[i] = job[i]
    BY DEF JobCommitUnanswered, TypeOK, JobState, Active
  <2> QED BY <2>1, <2>2, <2>3, TransactionLists DEF Lists
<1>6. Contents'
  BY DEF JobCommitUnanswered, Contents
<1>7. RowsCovered'
  BY DEF JobCommitUnanswered, Deleted, Transaction, create_upgrade_delete, flag_for_delete,
    TypeOK, JobState, Ids, Lists, Active, Contents, RowsCovered, LiveFiles, Written
<1> QED BY <1>1, <1>2, <1>3, <1>4, <1>5, <1>6, <1>7

LEMMA JobObjectStoreErrorStep ==
  ASSUME IInv, NEW j \in Jobs, JobObjectStoreError(j)
  PROVE  IInv'
<1> USE LifecycleAssumption DEF IInv
<1>1. TypeOK'
  <2>1. job' \in [Jobs -> JobState]
    BY IdleState DEF TypeOK, JobObjectStoreError, JobOnly
  <2> QED
    BY <2>1 DEF JobObjectStoreError, Fault, JobOnly, TypeOK
<1>2. Mutex'
  BY DEF JobObjectStoreError, JobOnly, Idle, Mutex, Holding, Critical
<1>3. Ids'
  BY DEF JobObjectStoreError, JobOnly, Idle, Ids, Written
<1>4. Objects'
  BY DEF JobObjectStoreError, JobOnly, Idle, Objects, Pending
<1>5. Lists'
  BY DEF JobObjectStoreError, JobOnly, Idle, Lists, Active
<1>6. Contents'
  BY DEF JobObjectStoreError, JobOnly, Idle, Contents
<1>7. RowsCovered'
  BY DEF JobObjectStoreError, JobOnly, RowsCovered, LiveFiles
<1> QED BY <1>1, <1>2, <1>3, <1>4, <1>5, <1>6, <1>7

LEMMA JobErrorStep ==
  ASSUME IInv, NEW j \in Jobs, JobError(j)
  PROVE  IInv'
<1> USE LifecycleAssumption DEF IInv
<1>1. TypeOK'
  <2>1. job' \in [Jobs -> JobState]
    BY EndedState DEF TypeOK, JobError, JobOnly
  <2> QED
    BY <2>1 DEF JobError, Fault, JobOnly, TypeOK
<1>2. Mutex'
  BY DEF JobError, JobOnly, Ended, Mutex, Holding, Critical
<1>3. Ids'
  BY DEF JobError, JobOnly, Ended, Ids, Written
<1>4. Objects'
  BY DEF JobError, JobOnly, Ended, Objects, Pending
<1>5. Lists'
  BY DEF JobError, JobOnly, Ended, Lists, Active
<1>6. Contents'
  BY DEF JobError, JobOnly, Ended, Contents
<1>7. RowsCovered'
  BY DEF JobError, JobOnly, RowsCovered, LiveFiles
<1> QED BY <1>1, <1>2, <1>3, <1>4, <1>5, <1>6, <1>7

LEMMA JobTimesOutCommittingStep ==
  ASSUME IInv, NEW j \in Jobs, JobTimesOutCommitting(j)
  PROVE  IInv'
<1> USE LifecycleAssumption DEF IInv
<1>1. TypeOK'
  <2>1. job' \in [Jobs -> JobState]
    BY EndedState DEF TypeOK, JobTimesOutCommitting, TimedOut
  <2>2. late' \subseteq [delete : SUBSET Files, create : SUBSET Outputs, stamp : 0 .. WriteDelay]
    BY DEF JobTimesOutCommitting, Deleted, Stamps, TypeOK, JobState
  <2>3. faults' \in 0 .. MaxFaults
    BY DEF JobTimesOutCommitting, Fault, TypeOK
  <2> QED
    BY <2>1, <2>2, <2>3 DEF JobTimesOutCommitting, CommitMark, TypeOK
<1>2. Mutex'
  BY DEF JobTimesOutCommitting, CommitMark, TimedOut, Ended, Mutex, Holding, Critical
<1>3. Ids'
  BY DEF JobTimesOutCommitting, TimedOut, Ended, Deleted, TypeOK, Mutex, Ids, Written, Holding,
    Critical
<1>4. Objects'
  <2>1. Pending' \subseteq Pending
    <3>1. \A i \in Jobs : (job[i].stage = "uploaded")' =>
            job[i].stage = "uploaded" /\ job'[i].out = job[i].out
      BY DEF JobTimesOutCommitting, TimedOut, Ended
    <3>2. \A c \in late' : c \in late \/ c.create = job[j].out
      BY DEF JobTimesOutCommitting
    <3>3. \A c \in late' : c.create \subseteq Pending
      BY <3>2, PendingLate, PendingJob DEF JobTimesOutCommitting
    <3>4. \A i \in Jobs : (job[i].stage = "uploaded")' => job'[i].out \subseteq Pending
      BY <3>1, PendingJob
    <3>5. \A f \in L0 : persist'[f] = "uploaded" => f \in Pending
      BY DEF JobTimesOutCommitting, Pending
    <3> QED BY <3>3, <3>4, <3>5, PendingWithin
  <2>2. \A c \in late' : \A f \in c.create : c.stamp <= age[f]
    BY DEF JobTimesOutCommitting, Stamps, Objects
  <2> QED
    BY <2>1, <2>2 DEF JobTimesOutCommitting, Objects
<1>5. Lists'
  BY DEF JobTimesOutCommitting, TimedOut, Ended, Lists, Active
<1>6. Contents'
  BY DEF JobTimesOutCommitting, TimedOut, Ended, Deleted, Contents
<1>7. RowsCovered'
  BY DEF JobTimesOutCommitting, RowsCovered, LiveFiles
<1> QED BY <1>1, <1>2, <1>3, <1>4, <1>5, <1>6, <1>7

LEMMA LateCommitStep ==
  ASSUME IInv, NEW c \in late, LateCommit(c)
  PROVE  IInv'
<1> USE LifecycleAssumption DEF IInv
<1>1. TypeOK'
  <2>2. fresh' \in BOOLEAN /\ recent' \subseteq Files
    BY NewFileType DEF LateCommit, TypeOK, Ids
  <2> QED
    BY <2>2, TransactionEffect DEF LateCommit, TypeOK
<1>2. Mutex'
  BY DEF LateCommit, Mutex, Holding, Critical
<1>3. Ids'
  BY DEF LateCommit, Transaction, create_upgrade_delete, TypeOK, Ids, Written
<1>4. Objects'
  <2>1. Pending' \subseteq Pending
    BY DEF LateCommit, Pending
  <2>2. c.create \subseteq Pending
    BY PendingLate
  <2> QED
    BY <2>1, <2>2 DEF LateCommit, Transaction, create_upgrade_delete, Objects
<1>5. Lists'
  <2>1. c.create \in SUBSET Files /\ c.create \cap rows = {} /\ c.stamp \in 0 .. WriteDelay
    BY DEF TypeOK, Ids
  <2> QED BY <2>1, TransactionLists DEF LateCommit, Lists, Active
<1>6. Contents'
  BY DEF LateCommit, Contents
<1>7. RowsCovered'
  BY DEF LateCommit, Transaction, create_upgrade_delete, flag_for_delete, TypeOK, Ids, Objects,
    Lists, Contents, RowsCovered, LiveFiles, Written
<1> QED BY <1>1, <1>2, <1>3, <1>4, <1>5, <1>6, <1>7

LEMMA LateRollbackStep ==
  ASSUME IInv, NEW c \in late, LateRollback(c)
  PROVE  IInv'
<1> USE LifecycleAssumption DEF IInv
<1>1. TypeOK'
  <2> QED
    BY DEF LateRollback, TypeOK
<1>2. Mutex'
  BY DEF LateRollback, Mutex, Holding, Critical
<1>3. Ids'
  BY DEF LateRollback, Ids, Written
<1>4. Objects'
  BY DEF LateRollback, Objects, Pending
<1>5. Lists'
  BY DEF LateRollback, Lists, Active
<1>6. Contents'
  BY DEF LateRollback, Contents
<1>7. RowsCovered'
  BY DEF LateRollback, RowsCovered, LiveFiles
<1> QED BY <1>1, <1>2, <1>3, <1>4, <1>5, <1>6, <1>7
=============================================================================
