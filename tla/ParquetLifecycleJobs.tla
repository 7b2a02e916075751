------------------------ MODULE ParquetLifecycleJobs ------------------------
(***************************************************************************)
(* The steps of the scheduler and of a compaction job that meets no fault  *)
(* preserve the invariant of ParquetLifecycleInv.                          *)
(***************************************************************************)
EXTENDS ParquetLifecycleInv

USE DEF schedulerVars, gcVars, jobVars, catalogVars, storeVars, pipelineVars

\* One lemma per action, and in each a step per conjunct of the invariant.
LEMMA FetchStep ==
  ASSUME IInv, NEW j \in Jobs, Fetch(j)
  PROVE  IInv'
<1> USE LifecycleAssumption DEF IInv
<1>1. TypeOK'
  <2>1. job' \in [Jobs -> JobState]
    <3> DEFINE new == [job[j] EXCEPT !.stage = "started"]
    <3>1. job[j] \in JobState
      BY DEF TypeOK
    <3>2. new \in JobState
      BY <3>1, JobUpdate, Zenon DEF JobStages
    <3>3. job' = job \/ job' = [job EXCEPT ![j] = new]
      BY DEF Fetch
    <3> QED BY <3>2, <3>3 DEF TypeOK
  <2> QED
    BY <2>1, Zenon DEF Fetch, FetchPass, FetchNothing, FetchThrottled, MoveWindow, Unique,
      TypeOK, GcTasks, Live
<1>2. Mutex'
  BY DEF Fetch, FetchPass, FetchNothing, FetchThrottled, Unique, TypeOK, JobState, Mutex,
    Holding, Critical
<1>3. Ids'
  <2>1. \A i \in Jobs : (job[i].stage = "uploaded")' =>
            job[i].stage = "uploaded" /\ job'[i] = job[i]
    BY DEF Fetch, TypeOK, JobState
  <2> QED BY <2>1 DEF Fetch, Ids, Written
<1>4. Objects'
  <2>1. \A i \in Jobs : (job[i].stage = "uploaded")' =>
            job[i].stage = "uploaded" /\ job'[i].out = job[i].out
    BY DEF Fetch, TypeOK, JobState
  <2>2. UNCHANGED <<gcVars, persist, late>>
    BY DEF Fetch
  <2>3. Pending' \subseteq Pending
    BY <2>1, <2>2, PendingWithin, PendingJob, PendingLate DEF Pending
  <2> QED BY <2>2, <2>3 DEF Objects
<1>5. Lists'
  BY DEF Fetch, TypeOK, JobState, Lists, Active
<1>6. Contents'
  <2>1. \A i \in Jobs : (job[i].stage = "uploaded")' =>
            job[i].stage = "uploaded" /\ job'[i] = job[i]
    BY DEF Fetch, TypeOK, JobState
  <2> QED BY <2>1 DEF Fetch, Contents
<1>7. RowsCovered'
  BY DEF Fetch, RowsCovered, LiveFiles
<1> QED BY <1>1, <1>2, <1>3, <1>4, <1>5, <1>6, <1>7

LEMMA JobListStep ==
  ASSUME IInv, NEW j \in Jobs, JobList(j)
  PROVE  IInv'
<1> USE LifecycleAssumption DEF IInv
<1>1. TypeOK'
  <2>1. job' \in [Jobs -> JobState]
    <3> DEFINE new == [job[j] EXCEPT !.stage = "running", !.files = LiveFiles]
    <3>1. new \in JobState
      <4>1. job[j] \in JobState /\ LiveFiles \in SUBSET Files
        BY DEF TypeOK, LiveFiles
      <4> QED BY <4>1, JobUpdate, Zenon DEF JobStages
    <3>2. job' = [job EXCEPT ![j] = new]
      BY DEF JobList, JobOnly
    <3> QED BY <3>1, <3>2 DEF TypeOK
  <2> QED
    BY <2>1 DEF JobList, JobOnly, TypeOK
<1>2. Mutex'
  BY DEF JobList, JobOnly, Mutex, Holding, Critical
<1>3. Ids'
  BY DEF JobList, JobOnly, Ids, Written
<1>4. Objects'
  BY DEF JobList, JobOnly, Objects, Pending
<1>5. Lists'
  BY DEF JobList, JobOnly, LiveFiles, TypeOK, JobState, Lists, Active, Live
<1>6. Contents'
  BY DEF JobList, JobOnly, Contents
<1>7. RowsCovered'
  BY DEF JobList, JobOnly, LiveFiles, RowsCovered
<1> QED BY <1>1, <1>2, <1>3, <1>4, <1>5, <1>6, <1>7

LEMMA JobDoneStep ==
  ASSUME IInv, NEW j \in Jobs, JobDone(j)
  PROVE  IInv'
<1> USE LifecycleAssumption DEF IInv
<1>1. TypeOK'
  <2>1. job' \in [Jobs -> JobState]
    BY EndedState DEF TypeOK, JobDone, JobOnly
  <2> QED
    BY <2>1 DEF JobDone, JobOnly, TypeOK
<1>2. Mutex'
  BY DEF JobDone, JobOnly, Ended, Mutex, Holding, Critical
<1>3. Ids'
  BY DEF JobDone, JobOnly, Ended, Ids, Written
<1>4. Objects'
  BY DEF JobDone, JobOnly, Ended, Objects, Pending
<1>5. Lists'
  BY DEF JobDone, JobOnly, Ended, Lists, Active
<1>6. Contents'
  BY DEF JobDone, JobOnly, Ended, Contents
<1>7. RowsCovered'
  BY DEF JobDone, JobOnly, RowsCovered, LiveFiles
<1> QED BY <1>1, <1>2, <1>3, <1>4, <1>5, <1>6, <1>7

LEMMA JobUploadStep ==
  ASSUME IInv, NEW j \in Jobs, JobUpload(j)
  PROVE  IInv'
<1> USE LifecycleAssumption DEF IInv
<1>1. TypeOK'
  <2>1. PICK inputs \in SUBSET job[j].files, out \in Outputs :
            /\ inputs /= {}
            /\ content[out] = {}
            /\ job' = [job EXCEPT ![j] =
                         [@ EXCEPT !.stage = "uploaded", !.inputs = inputs, !.out = {out}]]
            /\ content' = [content EXCEPT ![out] = UNION {content[f] : f \in inputs}]
            /\ Stamp(out)
            /\ Upload(out)
    BY Zenon DEF JobUpload
  <2>2. job' \in [Jobs -> JobState]
    <3> DEFINE new == [job[j] EXCEPT !.stage = "uploaded", !.inputs = inputs, !.out = {out}]
    <3>1. new \in JobState
      <4>1. job[j] \in JobState /\ inputs \in SUBSET Files /\ {out} \in SUBSET Outputs
        BY DEF TypeOK, JobState
      <4> QED BY <4>1, JobUpdateOut, Zenon DEF JobStages
    <3>2. job' = [job EXCEPT ![j] = new]
      BY <2>1
    <3> QED BY <3>1, <3>2 DEF TypeOK
  <2>3. UNION {content[f] : f \in inputs} \subseteq L0
    BY DEF TypeOK, JobState
  <2>4. content' \in [Files -> SUBSET L0]
    BY <2>1, <2>3 DEF TypeOK
  <2>5. objects' \subseteq Files /\ doomed' \subseteq objects' /\ age' \in [Files -> 0 .. OSCutoff]
    BY <2>1 DEF JobUpload, Upload, TypeOK
  <2>6. recent' \subseteq Files
    BY <2>1 DEF Stamp, TypeOK
  <2> QED
    BY <2>1, <2>2, <2>4, <2>5, <2>6 DEF JobUpload, Stamp, Upload, TypeOK
<1>2. Mutex'
  BY DEF JobUpload, Stamp, Mutex, Holding, Critical
<1>3. Ids'
  <2>1. PICK inputs \in SUBSET job[j].files, out \in Outputs :
            /\ inputs /= {}
            /\ content[out] = {}
            /\ job' = [job EXCEPT ![j] =
                         [@ EXCEPT !.stage = "uploaded", !.inputs = inputs, !.out = {out}]]
            /\ content' = [content EXCEPT ![out] = UNION {content[f] : f \in inputs}]
            /\ Stamp(out)
            /\ Upload(out)
    BY Zenon DEF JobUpload
  <2>2. \A i \in Jobs : (job[i].stage = "uploaded")' <=> i = j
    BY <2>1 DEF JobUpload, TypeOK, Mutex, Holding, Critical
  <2>3. (job[j].out)' = {out} /\ (job[j].inputs)' = inputs
    BY <2>1 DEF TypeOK
  <2>4. \A f \in Files : content'[f] = IF f = out THEN UNION {content[g] : g \in inputs}
                                                ELSE content[f]
    BY <2>1 DEF TypeOK
  <2>5. out \notin Written /\ out \notin rows
    BY <2>1 DEF Ids, Objects, Written
  <2>6. inputs \subseteq Written
    BY DEF JobUpload, Lists, Active, Ids, Objects
  <2>7. \A c \in late : c.create \subseteq Written
    BY PendingLate DEF Objects, Ids
  <2>8. content'[out] /= {}
    <3>1. PICK g \in inputs : content[g] /= {}
      BY <2>1, <2>6 DEF Written
    <3>2. content[g] \subseteq UNION {content[f] : f \in inputs}
      OBVIOUS
    <3> QED BY <3>1, <3>2, <2>4, Zenon
  <2>9. Written' = Written \cup {out}
    BY <2>4, <2>8, <2>1 DEF Written
  <2>10. objects' \subseteq Written'
    BY <2>1, <2>9 DEF Upload, Ids
  <2>11. \A f \in L0 : content'[f] = content[f]
    BY <2>4, Zenon
  <2>12. \A i \in Jobs, c \in late :
            (job[i].stage = "uploaded")' => job'[i].out \cap c.create = {}
    BY <2>2, <2>3, <2>5, <2>7
  <2>13. \A i \in Jobs : (job[i].stage = "uploaded")' =>
            job'[i].out /= {} /\ job'[i].out \cap rows = {} /\ job'[i].inputs \subseteq Written'
    <3>1. {out} /= {} /\ {out} \cap rows = {}
      BY <2>5
    <3>2. inputs \subseteq Written'
      BY <2>6, <2>9
    <3> QED BY <2>2, <2>3, <3>1, <3>2, Zenon
  <2>14. UNCHANGED <<rows, persist, late>>
    BY DEF JobUpload
  <2> QED
    BY <2>9, <2>10, <2>11, <2>12, <2>13, <2>14 DEF Ids
<1>4. Objects'
  BY DEF JobUpload, Upload, TypeOK, Ids, Objects, Pending, Written
<1>5. Lists'
  BY DEF JobUpload, Lists, Active
<1>6. Contents'
  <2>1. PICK inputs \in SUBSET job[j].files, out \in Outputs :
            /\ inputs /= {}
            /\ content[out] = {}
            /\ job' = [job EXCEPT ![j] =
                         [@ EXCEPT !.stage = "uploaded", !.inputs = inputs, !.out = {out}]]
            /\ content' = [content EXCEPT ![out] = UNION {content[f] : f \in inputs}]
            /\ Stamp(out)
            /\ Upload(out)
    BY Zenon DEF JobUpload
  <2>2. \A i \in Jobs : (job[i].stage = "uploaded")' <=> i = j
    BY <2>1 DEF JobUpload, TypeOK, Mutex, Holding, Critical
  <2>3. (job[j].out)' = {out} /\ (job[j].inputs)' = inputs
    BY <2>1 DEF TypeOK
  <2>4. \A f \in Files : content'[f] = IF f = out THEN UNION {content[g] : g \in inputs}
                                                ELSE content[f]
    BY <2>1 DEF TypeOK
  <2>5. out \notin Written /\ out \notin rows
    BY <2>1 DEF Ids, Objects, Written
  <2>6. inputs \subseteq Written
    BY DEF JobUpload, Lists, Active, Ids, Objects
  <2>7. \A c \in late : c.create \subseteq Written
    BY PendingLate DEF Objects, Ids
  <2>8. ASSUME NEW S \in SUBSET Written
        PROVE  {content'[f] : f \in S} = {content[f] : f \in S}
    <3>1. \A f \in S : content'[f] = content[f]
      BY <2>4, <2>5, Zenon DEF Written
    <3> QED BY <3>1, Zenon
  <2>9. content'[out] = UNION {content'[f] : f \in inputs}
    BY <2>1, <2>4, <2>6, <2>8, Zenon
  <2>10. ASSUME NEW c \in late, NEW o \in c.create
         PROVE  content'[o] = UNION {content'[f] : f \in c.delete}
    <3>1. c.delete \subseteq Written
      BY DEF Ids
    <3>2. content'[o] = content[o]
      BY <2>4, <2>5, <2>7, Zenon DEF Written
    <3> QED BY <3>1, <3>2, <2>8, Zenon DEF Contents
  <2> QED
    BY <2>2, <2>3, <2>9, <2>10 DEF JobUpload, Contents
<1>7. RowsCovered'
  BY DEF JobUpload, RowsCovered, LiveFiles
<1> QED BY <1>1, <1>2, <1>3, <1>4, <1>5, <1>6, <1>7

LEMMA JobCommitStep ==
  ASSUME IInv, NEW j \in Jobs, JobCommit(j)
  PROVE  IInv'
<1> USE LifecycleAssumption DEF IInv
<1>1. TypeOK'
  <2>1. job' \in [Jobs -> JobState]
    <3> DEFINE rest == (job[j].files \ job[j].inputs) \union job[j].out
               new == [job[j] EXCEPT !.stage = "running", !.inputs = {}, !.out = {},
                                     !.progress = "made", !.files = rest]
    <3>1. new \in JobState
      <4>1. job[j] \in JobState /\ rest \in SUBSET Files
        BY DEF TypeOK, JobState
      <4> QED BY <4>1, JobUpdate, Zenon DEF JobStages
    <3>2. job' = [job EXCEPT ![j] = new]
      BY DEF JobCommit
    <3> QED BY <3>1, <3>2 DEF TypeOK
  <2>2. fresh' \in BOOLEAN /\ recent' \subseteq Files
    BY NewFileType DEF JobCommit, TypeOK, JobState, Ids
  <2>3. /\ rows' \subseteq Files
        /\ flagAge' \in [Files -> Live .. PFCutoff + 1]
        /\ listAge' \in [Files -> 0 .. ListLife + 1]
    BY TransactionEffect DEF JobCommit, Stamps, TypeOK, JobState
  <2>4. flight' \in {"none", "idle", "committed"}
    BY DEF JobCommit, CommitMark
  <2> QED
    BY <2>1, <2>2, <2>3, <2>4 DEF JobCommit, CommitMark, TypeOK
<1>2. Mutex'
  BY DEF JobCommit, CommitMark, Mutex, Holding, Critical
<1>3. Ids'
  BY DEF JobCommit, Transaction, create_upgrade_delete, TypeOK, JobState, Mutex, Ids, Written,
    Holding, Critical
<1>4. Objects'
  BY DEF JobCommit, Transaction, create_upgrade_delete, Objects, Pending
<1>5. Lists'
  <2>1. PICK stamp \in 0 .. WriteDelay : Transaction(Deleted(j), job[j].out, stamp)
    BY DEF JobCommit, Stamps
  <2>2. job[j].out \in SUBSET Files /\ job[j].out \cap rows = {}
    BY DEF JobCommit, TypeOK, JobState, Ids
  <2>3. rows' = rows \cup job[j].out
    BY <2>1, <2>2, TransactionEffect
  <2>4. ASSUME NEW i \in Jobs, Active(i)', NEW f \in job'[i].files
        PROVE  f \in rows' /\ flagAge'[f] <= job'[i].age + WriteDelay
    <3>1. job'[i].age = job[i].age /\ job[i].age \in Nat /\ Active(i)
      BY <2>4 DEF JobCommit, TypeOK, JobState, Active
    <3>2. f \in job[i].files \/ f \in job[j].out
      BY <2>4 DEF JobCommit, TypeOK, JobState
    <3>3. CASE f \in job[i].files
      BY <2>1, <2>2, <3>1, <3>3, TransactionLists
    <3>4. CASE f \in job[j].out
      <4>1. f \in rows' /\ flagAge'[f] = Live
        BY <2>1, <2>2, <2>3, <3>4, TransactionLists
      <4> QED BY <3>1, <4>1 DEF Live
    <3> QED BY <3>2, <3>3, <3>4
  <2> QED BY <2>1, <2>2, <2>4, TransactionLists DEF Lists
<1>6. Contents'
  BY DEF JobCommit, Contents
<1>7. RowsCovered'
  BY DEF JobCommit, Deleted, Transaction, create_upgrade_delete, flag_for_delete, TypeOK,
    JobState, Ids, Objects, Lists, Contents, RowsCovered, LiveFiles, Written
<1> QED BY <1>1, <1>2, <1>3, <1>4, <1>5, <1>6, <1>7

LEMMA JobTimesOutStep ==
  ASSUME IInv, NEW j \in Jobs, JobTimesOut(j)
  PROVE  IInv'
<1> USE LifecycleAssumption DEF IInv
<1>1. TypeOK'
  <2>1. job' \in [Jobs -> JobState]
    BY EndedState DEF TypeOK, JobTimesOut, JobOnly, TimedOut
  <2> QED
    BY <2>1 DEF JobTimesOut, JobOnly, TypeOK
<1>2. Mutex'
  BY DEF JobTimesOut, JobOnly, TimedOut, Ended, Mutex, Holding, Critical
<1>3. Ids'
  BY DEF JobTimesOut, JobOnly, TimedOut, Ended, Ids, Written
<1>4. Objects'
  BY DEF JobTimesOut, JobOnly, TimedOut, Ended, Objects, Pending
<1>5. Lists'
  BY DEF JobTimesOut, JobOnly, TimedOut, Ended, Lists, Active
<1>6. Contents'
  BY DEF JobTimesOut, JobOnly, TimedOut, Ended, Contents
<1>7. RowsCovered'
  BY DEF JobTimesOut, JobOnly, RowsCovered, LiveFiles
<1> QED BY <1>1, <1>2, <1>3, <1>4, <1>5, <1>6, <1>7

\* record() moves a job on or ends it.
LEMMA ReleaseType ==
  ASSUME TypeOK, NEW j \in Jobs, NEW stage, NEW next \in JobStages, Release(j, stage, next)
  PROVE  job' \in [Jobs -> JobState]
<1> DEFINE new == [job[j] EXCEPT !.stage = next]
<1>1. job[j] \in JobState
  BY DEF TypeOK
<1>2. new \in JobState
  BY <1>1, JobUpdate, Zenon
<1>3. job' = [job EXCEPT ![j] = Idle] \/ job' = [job EXCEPT ![j] = new]
  BY Zenon DEF Release
<1> QED BY <1>2, <1>3, IdleState DEF TypeOK

LEMMA JobRecordThrottleStep ==
  ASSUME IInv, NEW j \in Jobs, JobRecordThrottle(j)
  PROVE  IInv'
<1> USE LifecycleAssumption DEF IInv
<1>1. TypeOK'
  <2>1. job' \in [Jobs -> JobState]
    BY ReleaseType DEF JobRecordThrottle, JobStages
  <2> QED
    BY <2>1 DEF JobRecordThrottle, Release, ThrottleRecord, TypeOK
<1>2. Mutex'
  BY DEF JobRecordThrottle, Release, ThrottleRecord, TypeOK, Mutex, Holding, Critical
<1>3. Ids'
  BY DEF JobRecordThrottle, Release, Ids, Written
<1>4. Objects'
  BY DEF JobRecordThrottle, Release, Objects, Pending
<1>5. Lists'
  BY DEF JobRecordThrottle, Release, Lists, Active
<1>6. Contents'
  BY DEF JobRecordThrottle, Release, Contents
<1>7. RowsCovered'
  BY DEF JobRecordThrottle, Release, RowsCovered, LiveFiles
<1> QED BY <1>1, <1>2, <1>3, <1>4, <1>5, <1>6, <1>7

LEMMA JobRecordUniqueStep ==
  ASSUME IInv, NEW j \in Jobs, JobRecordUnique(j)
  PROVE  IInv'
<1> USE LifecycleAssumption DEF IInv
<1>1. TypeOK'
  <2>1. job' \in [Jobs -> JobState]
    BY ReleaseType DEF JobRecordUnique, JobStages
  <2> QED
    BY <2>1, Zenon DEF JobRecordUnique, Release, UniqueRecord, Idle, TypeOK, GcTasks, Live
<1>2. Mutex'
  BY DEF JobRecordUnique, Release, UniqueRecord, Idle, TypeOK, Mutex, Holding, Critical
<1>3. Ids'
  BY DEF JobRecordUnique, Release, Idle, Ids, Written
<1>4. Objects'
  BY DEF JobRecordUnique, Release, Idle, Objects, Pending
<1>5. Lists'
  BY DEF JobRecordUnique, Release, Idle, Lists, Active
<1>6. Contents'
  BY DEF JobRecordUnique, Release, Idle, Contents
<1>7. RowsCovered'
  BY DEF JobRecordUnique, Release, RowsCovered, LiveFiles
<1> QED BY <1>1, <1>2, <1>3, <1>4, <1>5, <1>6, <1>7

LEMMA JobRecordSkippedStep ==
  ASSUME IInv, NEW j \in Jobs, JobRecordSkipped(j)
  PROVE  IInv'
<1> USE LifecycleAssumption DEF IInv
<1>1. TypeOK'
  <2>1. job' \in [Jobs -> JobState]
    BY IdleState DEF TypeOK, JobRecordSkipped, Release
  <2> QED
    BY <2>1 DEF JobRecordSkipped, Release, RecordSkipped, TypeOK
<1>2. Mutex'
  BY DEF JobRecordSkipped, Release, RecordSkipped, Idle, Mutex, Holding, Critical
<1>3. Ids'
  BY DEF JobRecordSkipped, Release, Idle, Ids, Written
<1>4. Objects'
  BY DEF JobRecordSkipped, Release, Idle, Objects, Pending
<1>5. Lists'
  BY DEF JobRecordSkipped, Release, Idle, Lists, Active
<1>6. Contents'
  BY DEF JobRecordSkipped, Release, Idle, Contents
<1>7. RowsCovered'
  BY DEF JobRecordSkipped, Release, RowsCovered, LiveFiles
<1> QED BY <1>1, <1>2, <1>3, <1>4, <1>5, <1>6, <1>7
=============================================================================
