-------------------------- MODULE ParquetLifecycle --------------------------
(***************************************************************************)
(* The life of a partition's Parquet files: persisted by the ingester,     *)
(* replaced by compaction jobs, listed by queriers, soft-deleted, and      *)
(* finally removed from the catalog and from the object store. Composes    *)
(* the compaction scheduler (CompactionScheduler) with the catalog, the    *)
(* object store and the garbage collector (GarbageCollector); the actions  *)
(* of this module are the ingester's upload and commit of a file, the      *)
(* compactor's driver (compactor/src/driver.rs) and a querier's list.      *)
(*                                                                         *)
(* A file's content is the set of L0 files whose rows it holds.            *)
(***************************************************************************)
EXTENDS CompactionScheduler, GarbageCollector

CONSTANTS
    L0,           \* files the ingester persists
    Outputs,      \* ids available to compaction
    Expiring,     \* L0 files whose rows pass their retention period at some time
    Jobs,         \* slots of the job stream (partition_concurrency)
    WriteDelay,   \* bound: longest time from an upload, or from the clock reading that
                  \* marks a soft delete, to the commit
    JobTimeout,   \* partition_timeout
    ListLife,     \* bound: cache TTL of a file list plus the query's run time
    MaxFaults     \* bound: number of faults in a behaviour

\* What the deployment has to guarantee; the defaults (14 d cutoffs, 12 h TTL,
\* 30 min partition timeout) leave a wide margin.
ASSUME LifecycleAssumption ==
    /\ Files = L0 \union Outputs
    /\ L0 \intersect Outputs = {}
    /\ Expiring \subseteq L0
    /\ {OSCutoff, PFCutoff, WriteDelay, JobTimeout, ListLife, MaxFaults} \subseteq Nat
    /\ WriteDelay < OSCutoff
    /\ JobTimeout + WriteDelay <= PFCutoff
    /\ ListLife + WriteDelay <= PFCutoff

VARIABLES
    content,      \* the L0 files whose rows a file holds
    persist,      \* the ingester's progress on an L0 file
    job,          \* the compaction jobs
    late,         \* commits cut off by a timeout whose outcome is still open
    listAge,      \* age of the youngest querier's file list that names a file
    faults

jobVars == <<persist, job, late, faults>>
vars == <<schedulerVars, gcVars, content, jobVars, listAge>>

Idle == [stage |-> "idle", files |-> {}, inputs |-> {}, out |-> {},
         progress |-> "none", res |-> "ok", age |-> 0]

Init ==
    /\ SchedulerInit
    /\ GcInit
    /\ content = [f \in Files |-> {}]
    /\ persist = [f \in L0 |-> "new"]
    /\ job = [j \in Jobs |-> Idle]
    /\ late = {}
    /\ listAge = [f \in Files |-> ListLife + 1]
    /\ faults = 0

Fault == faults < MaxFaults /\ faults' = faults + 1

\* A catalog transaction, with the insert trigger. From then on queriers may load a
\* list that names the created files into their caches, at any time.
Transaction(delete, create, stamp) ==
    /\ create_upgrade_delete(delete, create, stamp)
    /\ \A f \in create : NewFileAt(f)
    /\ listAge' = [f \in Files |-> IF f \in create THEN 0 ELSE listAge[f]]

-----------------------------------------------------------------------------
(* The ingester persists a file: stamp, upload, then the catalog.          *)

PersistUpload(f) ==
    /\ persist[f] = "new"
    /\ persist' = [persist EXCEPT ![f] = "uploaded"]
    /\ content' = [content EXCEPT ![f] = {f}]
    /\ Stamp(f)
    /\ Upload(f)
    /\ UNCHANGED <<catalogVars, pipelineVars, job, late, faults, listAge>>

PersistCommit(f) ==
    /\ persist[f] = "uploaded"
    /\ persist' = [persist EXCEPT ![f] = "committed"]
    /\ Transaction({}, {f}, 0)
    /\ UNCHANGED <<in_flight, flight, throttled, skipped, panicked, storeVars,
                   pipelineVars, content, job, late, faults>>

\* The ingester stops between the two. (The rows are replayed into another file.)
PersistCrash(f) ==
    /\ persist[f] = "uploaded"
    /\ Fault
    /\ persist' = [persist EXCEPT ![f] = "lost"]
    /\ UNCHANGED <<schedulerVars, gcVars, content, job, late, listAge>>

-----------------------------------------------------------------------------
(* The compactor.                                                          *)

\* The job stream asks the scheduler for jobs.
Fetch(j) ==
    /\ job[j].stage = "idle"
    /\ \/ FetchPass /\ job' = [job EXCEPT ![j].stage = "started"]
       \/ FetchNothing /\ UNCHANGED job
       \/ FetchThrottled /\ UNCHANGED job
    /\ UNCHANGED <<gcVars, content, persist, late, faults, listAge>>

\* A job's own step: everything but the job stays as it is.
JobOnly(j, new) ==
    /\ job' = [job EXCEPT ![j] = new]
    /\ UNCHANGED <<schedulerVars, gcVars, content, persist, late, listAge>>

\* What compact_partition hands to the done sink.
Ended(j, res) == [Idle EXCEPT !.stage = "ending", !.res = res]

\* partition_files_source.fetch
JobList(j) ==
    /\ job[j].stage = "started"
    /\ JobOnly(j, [job[j] EXCEPT !.stage = "running", !.files = LiveFiles])
    /\ UNCHANGED faults

\* No files, the partition filter or the stop condition end the job.
JobDone(j) ==
    /\ job[j].stage = "running"
    /\ JobOnly(j, Ended(j, "ok"))
    /\ UNCHANGED faults

\* run_plans merges some of the job's files (or rewrites a single one), whichever the
\* round, the branch and the classification choose, then upload_files_to_object_store.
JobUpload(j) ==
    /\ job[j].stage = "running"
    /\ \E inputs \in SUBSET job[j].files, out \in Outputs :
        /\ inputs /= {}
        /\ content[out] = {}
        /\ job' = [job EXCEPT ![j] =
                     [@ EXCEPT !.stage = "uploaded", !.inputs = inputs, !.out = {out}]]
        /\ content' = [content EXCEPT ![out] = UNION {content[f] : f \in inputs}]
        /\ Stamp(out)
        /\ Upload(out)
    /\ UNCHANGED <<catalogVars, pipelineVars, persist, late, faults, listAge>>

\* Bug: what the partition holds by now is deleted, not what the job read.
Deleted_Current(j) == LiveFiles

\* The inputs of the chunk's plans.
Deleted(j) == job[j].inputs

\* How long ago the transaction that is now committed read the clock: after the upload.
Stamps(j) == {s \in 0 .. WriteDelay : \A f \in job[j].out : s <= age[f]}

\* update_catalog: the changed-files filter only logs. The job goes on with the files
\* created and those kept for later.
JobCommit(j) ==
    /\ job[j].stage = "uploaded"
    /\ CommitMark
    /\ \E stamp \in Stamps(j) : Transaction(Deleted(j), job[j].out, stamp)
    /\ job' = [job EXCEPT ![j] =
                 [@ EXCEPT !.stage = "running", !.inputs = {}, !.out = {}, !.progress = "made",
                           !.files = (job[j].files \ job[j].inputs) \union job[j].out]]
    /\ UNCHANGED <<storeVars, pipelineVars, content, persist, late, faults>>

\* The commit is done but its answer is lost: every retry fails with FileExists.
JobCommitUnanswered(j) ==
    /\ job[j].stage = "uploaded"
    /\ Fault
    /\ CommitMark
    /\ \E stamp \in Stamps(j) : Transaction(Deleted(j), job[j].out, stamp)
    /\ job' = [job EXCEPT ![j].stage = "retrying"]
    /\ UNCHANGED <<storeVars, pipelineVars, content, persist, late>>

\* Reading or writing an object fails: the done sink keeps the error to itself.
JobObjectStoreError(j) ==
    /\ job[j].stage = "running"
    /\ Fault
    /\ JobOnly(j, Idle)

\* Any other error; the done sink passes it on to the scheduler.
JobError(j) ==
    /\ job[j].stage = "running"
    /\ Fault
    /\ JobOnly(j, Ended(j, "unknown"))

\* timeout_with_progress_checking drops the job.
TimedOut(j) == Ended(j, IF job[j].progress = "made" THEN "ok" ELSE "timeout")

JobTimesOut(j) ==
    /\ job[j].stage \in {"started", "running", "uploaded", "retrying"}
    /\ job[j].age = JobTimeout
    /\ JobOnly(j, TimedOut(j))
    /\ UNCHANGED faults

\* ... while its COMMIT is on the way to the database.
JobTimesOutCommitting(j) ==
    /\ job[j].stage = "uploaded"
    /\ job[j].age = JobTimeout
    /\ Fault
    /\ CommitMark
    /\ \E stamp \in Stamps(j) :
        late' = late \union {[delete |-> Deleted(j), create |-> job[j].out, stamp |-> stamp]}
    /\ job' = [job EXCEPT ![j] = TimedOut(j)]
    /\ UNCHANGED <<recent, fresh, gcVars, content, persist, listAge>>

LateCommit(c) ==
    /\ late' = late \ {c}
    /\ Transaction(c.delete, c.create, c.stamp)
    /\ UNCHANGED <<in_flight, flight, throttled, skipped, panicked, storeVars,
                   pipelineVars, content, persist, job, faults>>

\* The database dropped the connection's transaction.
LateRollback(c) ==
    /\ late' = late \ {c}
    /\ UNCHANGED <<schedulerVars, gcVars, content, persist, job, faults, listAge>>

(* record() of the done sink: the throttle's map, the unique set, the catalog. *)

Release(j, stage, next) ==
    /\ job[j].stage = stage
    /\ job' = [job EXCEPT ![j] = IF next = "idle" THEN Idle ELSE [@ EXCEPT !.stage = next]]
    /\ UNCHANGED <<gcVars, content, persist, late, faults, listAge>>

JobRecordThrottle(j) ==
    /\ Release(j, "ending", "leaving")
    /\ ThrottleRecord

JobRecordUnique(j) ==
    /\ Release(j, "leaving", IF job[j].res = "ok" THEN "idle" ELSE "skipping")
    /\ UniqueRecord

JobRecordSkipped(j) ==
    /\ Release(j, "skipping", "idle")
    /\ RecordSkipped

-----------------------------------------------------------------------------
(* The garbage collector and time.                                         *)

Collect ==
    /\ \/ DeleteOldRows
       \/ \E f \in Files : Check(f) \/ CheckerEnds(f) \/ Delete(f)
    /\ UNCHANGED <<schedulerVars, content, jobVars, listAge>>

CollectorFault ==
    /\ Fault
    /\ \/ \E f \in Files : DeleteErr(f)
       \/ \E t \in GcTasks : CatalogErr(t)
    /\ UNCHANGED <<schedulerVars, content, persist, job, late, listAge>>

Retention(f) ==
    /\ \E stamp \in 0 .. WriteDelay : FlagByRetention(f, stamp)
    /\ content[f] \subseteq Expiring
    /\ UNCHANGED <<schedulerVars, content, jobVars, listAge>>

\* Uploads waiting for their commit.
Pending ==
    {f \in L0 : persist[f] = "uploaded"}
        \union (UNION {job[j].out : j \in {i \in Jobs : job[i].stage = "uploaded"}})
        \union (UNION {c.create : c \in late})

Critical(j) == job[j].stage \in {"started", "running", "uploaded", "retrying"}

Tick ==
    /\ \A f \in Pending : age[f] < WriteDelay
    /\ \A j \in Jobs : Critical(j) => job[j].age < JobTimeout
    /\ AgeAll
    /\ job' = [j \in Jobs |-> IF Critical(j) THEN [job[j] EXCEPT !.age = @ + 1] ELSE job[j]]
    /\ late' = {[c EXCEPT !.stamp = @ + 1] : c \in late}
    /\ listAge' = [f \in Files |-> IF f \in LiveFiles THEN 0 ELSE Older(listAge[f], ListLife + 1)]
    /\ UNCHANGED <<schedulerVars, rows, objects, pipelineVars, content, persist, faults>>

-----------------------------------------------------------------------------

JobStep(j) ==
    \/ JobList(j) \/ JobDone(j) \/ JobUpload(j) \/ JobCommit(j)
    \/ JobTimesOut(j)
    \/ JobRecordThrottle(j) \/ JobRecordUnique(j)
    \/ JobRecordSkipped(j)

JobFault(j) ==
    \/ JobCommitUnanswered(j) \/ JobObjectStoreError(j) \/ JobError(j)
    \/ JobTimesOutCommitting(j)

Settle == \E c \in late : LateCommit(c) \/ LateRollback(c)

Next ==
    \/ \E f \in L0 : PersistUpload(f) \/ PersistCommit(f) \/ PersistCrash(f)
    \/ \E j \in Jobs : Fetch(j) \/ JobStep(j) \/ JobFault(j)
    \/ Settle
    \/ Collect \/ CollectorFault
    \/ \E f \in Files : Retention(f)
    \/ Tick

Spec == Init /\ [][Next]_vars

-----------------------------------------------------------------------------

JobStages == {"idle", "started", "running", "uploaded", "retrying", "ending", "leaving",
              "skipping"}

JobState ==
    [stage : JobStages, files : SUBSET Files, inputs : SUBSET Files, out : SUBSET Outputs,
     progress : {"none", "made"},
     res : {"ok", "unknown", "timeout"}, age : 0 .. JobTimeout]

TypeOK ==
    /\ {in_flight, throttled, skipped, panicked, fresh} \subseteq BOOLEAN
    /\ flight \in {"none", "idle", "committed"}
    /\ recent \subseteq Files /\ rows \subseteq Files /\ objects \subseteq Files
    /\ doomed \subseteq objects
    /\ flagAge \in [Files -> Live .. PFCutoff + 1]
    /\ age \in [Files -> 0 .. OSCutoff]
    /\ tasks \subseteq GcTasks
    /\ content \in [Files -> SUBSET L0]
    /\ persist \in [L0 -> {"new", "uploaded", "committed", "lost"}]
    /\ job \in [Jobs -> JobState]
    /\ late \subseteq [delete : SUBSET Files, create : SUBSET Outputs, stamp : 0 .. WriteDelay]
    /\ listAge \in [Files -> 0 .. ListLife + 1]
    /\ faults \in 0 .. MaxFaults

\* A partition is in at most one job at a time, from the moment fetch() hands it out
\* until the job has ended, and the throttle's "Partition already in-flight" panic is
\* unreachable, although the two maps are left under different locks, a timed-out job
\* is dropped at any point and a new fetch overlaps the recording of the last result.
\* Nor is a commit or a result ever refused with Error::Uniqueness: the maps hold the
\* partition as long as its job needs them to.
OneJob ==
    /\ TypeOK
    /\ \A i, j \in Jobs : Critical(i) /\ Critical(j) => i = j
    /\ ~panicked
    /\ \A j \in Jobs :
        /\ Critical(j) \/ job[j].stage = "ending" => flight /= "none" /\ in_flight
        /\ job[j].stage = "leaving" => flight = "none" /\ in_flight

\* The object of every catalog row exists, also of one soft-deleted: the object
\* deleter never removes a file that is about to be committed, and the row is gone
\* before the object is.
RowsHaveObjects == rows \subseteq objects

\* A querier working from a cached list and a job working from the list it read find
\* every object on it, although compaction, a late commit or retention may have
\* soft-deleted the file since, with a mark older than the list.
ReadersFindObjects ==
    /\ \A f \in Files : listAge[f] <= ListLife => f \in objects
    /\ \A j \in Jobs : job[j].stage \in {"running", "uploaded"} => job[j].files \subseteq objects

\* No row is lost: what the ingester committed is in a live file unless it is past its
\* retention period, whatever jobs time out, commit twice or late.
RowsCovered ==
    {f \in L0 : persist[f] = "committed"} \ Expiring
        \subseteq UNION {content[f] : f \in LiveFiles}
=============================================================================
