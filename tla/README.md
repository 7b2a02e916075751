# TLA+ models of InfluxDB IOx

InfluxDB IOx is a time series database built from services that share a catalog
(PostgreSQL or SQLite) and an object store. Routers validate writes and replicate
them to ingesters; an ingester makes a write durable in its write-ahead log (WAL),
keeps it in memory for queries, and later persists it as Parquet files; compactors
rewrite those files; queriers combine the files with what the ingesters still
hold in memory; a garbage collector removes what is no longer referenced.

This directory follows a write through all of these services and models the
places where it could be lost, duplicated, hidden or held up: replication and the
schema caches of the routers, the ingester's durability pipeline with crashes and
restarts, the querier's view of files and unpersisted data, and the life of a
Parquet file until its object is deleted. By lines it stands for a small part of
the repository, about 9,000 of 279,000; "Not modelled" says what the rest is.

Paths below are relative to the repository root `src/`.

## The system and its modules

```
 client -> router: SchemaCache (validate, extend, gossip, anti-entropy)
                -> RpcWrite (n copies, CircuitBreaker per ingester)
 ingester: RpcWrite -> TimestampOracle -> WalSink -+-> Wal (segment files) --+-> ack
                                                   +-> BufferTree -----------+
   rotation task, disk full protection, Persist RPC, hot partitions, shutdown
      -> mark_persisting -> persist queue -> upload -> sort key CAS -> catalog
      -> mark_persisted -> notification -> WalReferenceActor -> delete segment
   restart: Wal::new -> replay each closed segment -> persist -> delete -> serve
 querier: ingester response, then ParquetFileCache (CacheDriver) -> catalog
 compactor: scheduler -> job -> upload -> commit (new rows, soft delete of old ones)
 garbage collector: retention -> soft delete -> row deleted -> object deleted
```

| Module | Models | Code |
|---|---|---|
| `CircuitBreaker` | the counters, probing windows and reset task of a router's breakers, in their atomic steps | `router/src/dml_handlers/rpc_write/circuit_breaker.rs` |
| `RpcWrite` | a write replicated by concurrent loops over one snapshot of upstreams, with failing, hanging and recovering ingesters and clients that go away | `router/src/dml_handlers/rpc_write.rs`, `rpc_write/` |
| `SchemaCache` | the schema caches of several routers: validation against the catalog, the read-merge-insert of a put, gossip that is lost, repeated or late, the Merkle tree and its actor, anti-entropy, restarts | `router/src/dml_handlers/schema_validation.rs`, `namespace_cache/memory.rs`, `gossip/` |
| `WalReferenceTracker` | the actor that decides when a segment may be deleted: its handlers, its three bounded channels, the set of numbers handled before their file is known, the "no files left" wakers | `ingester/src/wal/reference_tracker/` |
| `ReferenceTracking` | the tracker with its callers: rotation, persist completions, reports of unbuffered writes, graceful shutdown | the above, `wal/rotate_task.rs`, `init/graceful_shutdown.rs` |
| `SegmentRetention` | abstract: a segment is deleted once, and only when nothing in it is still needed | contract of the tracker |
| `Wal` | write buffer, flush ticker, I/O thread, rotation in two steps, deletion, crash with a chunk cut at any place, re-open | `wal/src/lib.rs`, `writer_thread.rs`, `blocking/` |
| `DurableLog` | abstract: writes settle in order, in batches; a sealed segment reports exactly the ids placed in it | contract of the WAL |
| `WalRecovery` | start-up: replay of the closed segments, truncated and empty files, persist and delete per segment, crash at any point, also in start-up | `ingester/src/init.rs`, `init/wal_replay.rs` |
| `BufferTree` | partitions of a namespace: concurrent writes over several tables, the partition counter and its limit, hot persistence, persisting list, query view | `ingester/src/buffer_tree/`, `persist/hot_partitions.rs`, `persist/drain_buffer.rs` |
| `PersistBackpressure` | the semaphore of the persist queue, wait guards, the saturation monitor, the error bits of `IngestState` | `ingester/src/persist/handle.rs`, `persist/backpressure.rs`, `ingest_state.rs` |
| `DeferredLoad` | the background loader of a table's or partition's metadata and its callers | `ingester/src/deferred_load.rs` |
| `Persist` | the two composed: jobs keep their permit while they wait for the metadata they share with queries | `ingester/src/persist/` |
| `SortKeyUpdate` | persist workers of several ingesters racing on the sort key of one partition | `ingester/src/persist/worker.rs`, `context.rs`, `schema/src/sort.rs` |
| `Ingester` | the composition: write path, log (through `DurableLog`), tracker (`WalReferenceTracker` itself), persist jobs, shutdown, crash, replay | `wal/wal_sink.rs`, `server/grpc/`, `persist/`, `init/` |
| `CacheDriver` | one key of a cache: entry, running load, requests that share it, cancellation, expiry, panicking loader | `cache_system/src/cache/driver.rs`, `cancellation_safe_future.rs` |
| `QuerierTable` | queries that unite an ingester's response with the cached file list, against an ingester that persists and restarts | `querier/src/table/mod.rs`, `cache/parquet_file.rs`, `cache_system/src/backend/policy/remove_if.rs` |
| `CompactionScheduler` | the window of partitions to compact, the unique and throttle filters with their in-flight maps | `compactor_scheduler/src/local_scheduler/` |
| `GarbageCollector` | retention flagger, deleter of old rows, the pipeline lister, checker, deleter of objects | `garbage_collector/src/`, `iox_catalog/src/postgres.rs` |
| `ParquetLifecycle` | the two composed with the ingester's upload and commit, the compactor's driver, its timeouts, and the lists queriers work from | `compactor/src/driver.rs`, `compactor/src/components/`, `ingester/src/persist/` |
| `SequenceOperators` | the filter by which a balancer collects its healthy upstreams, written so that facts about it can be proved | `rpc_write/balancer.rs` |
| `SequenceLemmas`, `RpcWrite_proofs`; `ReferenceTracking_proofs`; `ParquetLifecycleInv`, `ParquetLifecycleJobs`, `ParquetLifecycleFaults`, `ParquetLifecycle_proofs` | the proofs | |

`MC*` modules instantiate a specification for TLC. A definition `X_Suffix` above
`X` is a plausible mistake in the code that `X` models; `PROJECT.json` lists which
property notices it. They are not part of any specification.

`PROJECT.json` maps every definition to the source lines it stands for. The
conventions shared by all modules:

* One action per atomic step of the code: what happens under one lock, or between
  two awaits, or in one atomic operation. Steps that are separate in the code
  (load the waiter count, read the permits, clear the bit) are separate actions.
* Data is reduced to identity. A write is a sequence number, a batch a set or
  sequence of them, a chunk of the WAL the operations in it and the place where
  it is cut, a sort key a sequence of tag columns (time, always last, implicit), a
  schema the set of its elements, a Parquet file the set of L0 files whose rows it
  holds.
* Variables marked "history" record what happened for the properties; a guard reads
  them at most for a bound or to issue each write once.
* Time, where the code compares ages, is discrete and relative: an age counts up to
  the value from which the comparisons no longer tell ages apart.

### How the state corresponds to the code

`CircuitBreaker`, `RpcWrite`: `requests` holds `RequestCounterValue`, `probes` the probes
started in the window, `reset` that the reset task has read a closed circuit
and has yet to store. `write[w]` is one call of `RpcWrite::write`: the `UpstreamSnapshot`
(`clients` and the round-robin index), and for each loop its upstream and
whether it is calling, sleeping or finished. The upstream's side of a call is a step
of its own: `Store` is the ingester taking the write, after which the answer is on
its way (stage `answered`); the loop then observes it (`CallOk`), or the answer is lost
(`CallErr`), or the handler gives up or is dropped with the call still open. `acks`
holds what a loop observed, not what an upstream stored. The loops are polled by one
task, so a loop's end and the handler's reaction to it are one step.

`SchemaCache`: `cache` is `MemoryNamespaceCache` of one namespace, `mst` the Merkle tree
of the anti-entropy actor, `queue` its pending upsert, `sent` the frames gossiped to a
router and delivered any number of times. A task is a write request, a gossip
receiver or a sync task; `put_schema` reads, merges, inserts and announces in
separate steps.

`WalReferenceTracker`: `walFiles` is `WalReferenceActor::wal_files`, `persisted` is
the actor's set of numbers handled before their file is known, `fileRx`,
`persistRx` and `unbufferedRx` are the channels of the handle (a sender waits while
a channel is full), `emptyWaker` the registered waker. `ActorNewFile`,
`ActorPersisted` and `ActorUnbuffered` are the arms of the actor's `select!`,
complete with the deletion of emptied files and the wake-up.

`Wal`: `buffer`, `flushing`, `ioQueue` and `ioBatch` are the places an operation
passes through: `WalBuffer`, the flusher task's batch, the bounded channel and the
batch the I/O thread encodes. `RotateCreate` and `RotateSwap` are the two halves
of `Wal::rotate`: the file is created (and takes its id) without the lock, the
swap happens with it. `disk` maps an id to a file with or without header and its
chunks; `Crash` keeps what was written and may cut the chunk being written.

`WalRecovery`: `phase` is the state of the process; `files` the segments left to
replay. The reader's verdict on a cut chunk (`CutEnd`) is the one of
`ClosedSegmentFileReader`: a cut checksum looks like the clean end of the file, a
cut inside the data is an unexpected end of file, which replay accepts in the last
segment only, and a cut in the length or between two frames is another error.

`BufferTree`: `isEmpty`, `buf`, `persisting`, `started` and `completed` are the fields
of `PartitionData`; `count` is `PartitionCounter`. The two steps of `inc` (add, then
take back when over the limit) are separate, as are the lookup of a partition and
its insertion after the await on the partition provider.

`Ingester`: an entry is the part of a write for one table, with its own sequence
number; `write`, `buf`, `jobs` and `stored` say where it is. A persist job goes
through `StoreJob` (object store and catalog), `ReleaseJob` (`mark_persisted`) and
`CompleteJob` (notification), with a crash possible between any two.

`QuerierTable`: `cached`, `running` and `load` are the driver's `cached_entries`,
`running_queries` and the future of a load; `query[q]` is one `chunks_inner` call with
its pre-warming request, the ingester response and the request through `remove_if`.
The ingester creates a file's row before it drops the batch and counts it.

`ParquetLifecycle`: `flight` and `in_flight` are the maps of the throttle and of the
unique partitions, `job` the slots of the job stream, `late` commits that a timeout
cut off. `rows`, `flagAge`, `objects` and `age` are the `parquet_file` table and the
store; `doomed` what is on its way from the checker to the deleter; `tasks` the
collector's tasks that still run. A soft delete carries the time the transaction read
the clock, which is before its statements and its COMMIT (`postgres.rs:1795`); when the
commit takes effect the mark is already up to `WriteDelay` old (`stamp`), also for a
commit that a timeout cut off. `listAge` is the age of the youngest list, of any
querier, that names a file: if that one can still be read, so can all others.

## Runs

Every run ends within about three minutes with two workers. `router_write` is checked for
deadlock: its system never ends. In the others deadlock checking is off: with a
bounded number of writes, segments, files, queries and crashes every behaviour ends
in a state without successors, and an ingester that was shut down stops for good.

| Run | Bounds | What it shows |
|---|---|---|
| `reference_tracking` | 3 numbers, 2 segments, channels of capacity 1 | `ExactReferences`: each tracked segment holds exactly the numbers not yet released, whatever the order of rotation and notification; `RetentionSpec`: refinement of `SegmentRetention`, with its liveness; `ShutdownWakes`: a registered shutdown is woken |
| `wal_recovery` | 2 operations, 5 segment ids, 2 crashes, 2 rotating tasks | `ReplayOrder`, `AckedSurvives`, `AckedVisible`: no acknowledged write is lost, left out by replay or replayed out of order; `ImplementsDurableLog`: refinement of `DurableLog`; `EveryWriteSettles`: a writer is told an outcome while the process runs; `ComesUp`: exactly which files stop a start-up |
| `buffer_tree` | 3 writes of up to 2 tables, 2 partitions, limit 1 | `CounterExact`, `PartitionLimit`, `PermitsReturn`: no permit leaks and the limit holds; `QuerySeesUnpersisted`: a query sees each unpersisted write once, in order |
| `persist` | 3 jobs (1 of them by an RPC that may be dropped), queue depth 1, 1 query | `PermitsAccounted`; `AssertionsHold`: the assertions and unreachable arms of the loader and of the saturation monitor; `CallersServed`, `SaturationClears` |
| `sort_key_update` | 2 ingesters, 2 workers each, 3 jobs, 2 tag columns | `FilesFollowCatalogKey`, `KeyUpdatesSerialised`, `KeyOnlyExtended`, `JobsComplete`, with lost answers of the compare-and-swap |
| `ingester` | 2 writes to one table, 4 segments, 1 crash | `AckedDurable`, `AckedReadable`, `NumbersUnique` for the composition |
| `ingester_live` | 1 write to two tables, 3 segments, all failure kinds | `SegmentsReclaimed`, `ShutdownCompletes` |
| `router_write` | 2 upstreams, 2 copies, 1 probe per window, counters up to 2, a client that writes for ever | `ResultMatchesAcks`: the result follows from the acknowledgements observed; `NeverResent`: no upstream is sent what it is known to have; `ClosesOnAnswer`: an open circuit closes only when a call returns, or by the reset task's store; `RecoversWithQuorum`: it does close |
| `schema_cache` | 2 routers, one write each, 2 columns, 2 types, 1 restart, gossip reaches one of the two | `AgreesWithCatalog`: no two types for a column, anywhere; `TreeReflectsCache`; `CachesConverge` through anti-entropy |
| `querier_table` | 2 queries with different filters, 2 partitions with a batch each, 1 ingester restart | `OneSource`, `WaitsOnLiveLoad`: the cache driver under cancellation, expiry and panics; `CompleteUnlessRaced`: what a query may miss |
| `parquet_lifecycle` | 2 L0 files (1 of them expires), 2 outputs, 2 jobs, both cutoffs 2, commits up to 1 late, 1 fault | `OneJob`, `RowsHaveObjects`, `ReadersFindObjects`, `RowsCovered` |
| `ingester_replay_loss` | 1 write, 1 crash | violation of `AckedDurable` (see "Findings") |

Why the bounds are enough. Every interaction the ingester's properties are about
needs at most three writes (one before, one during and one after the step that may
go wrong) and two segments besides the open one; two rotations between crashes are
possible, two crashes let a crash hit the recovery from another, channels of
capacity 1 and a queue of depth 1 make senders wait, and a partition limit of 1
with two partitions makes writes run into it. With two upstreams and two copies
one failure is enough for a partial write, for a snapshot with fewer clients than
copies and for a probe beside a healthy upstream; counters up to 2 reach both
sides of the error ratio (they stop at `CountBound`, where the code goes on until
the reset). With one probe per window the error that completes the probes cannot
close a circuit; with three it can (two successes and an error). That case is too
large for the run, which also checks liveness, and is covered by the theorem
`CircuitsCloseOnAnswers`, which holds for any number of probes and of writes. Two routers where gossip reaches one of them separate what gossip brings
from what anti-entropy has to. Two queries let one join, cancel or refresh the
other's load. In `parquet_lifecycle` a second job can follow a first one that
failed, timed out with its commit still open or committed without an answer, and
both cutoffs can pass in between. What is unbounded in the code is capped by
`MaxOps`, `MaxSegments`, `MaxCrashes`, `MaxTables`, `MaxRestarts`, `MaxFaults`, `CountBound`
and `RotationBound`, which keeps one segment id for each restart, so that a run
never stops for want of an id. A persist system with four jobs and depth 2 has 1.3
million states, too many for the liveness check.

`ingester`, `querier_table` and `parquet_lifecycle` use symmetry (of writes and tables,
of queries, of outputs and jobs), and check invariants only. `parquet_lifecycle` also
has a view (`MCView`) that leaves out the age of an object whose file has a row: the
checker asks for the age only of objects without one, and by the time a row is deleted
its object's age has reached the cap.

### Fairness

Weak fairness, and only of steps the runtime does take: tokio tasks and the WAL's
I/O thread that can go on do so; the flush ticker ticks; persist workers finish
jobs, because uploads and catalog calls are retried without limit
(`persist/worker.rs` uses `Backoff` without a deadline); a process that is down
is started again and replays. In the router, clients keep writing, the loops of a
write are polled and a call returns, since an ingester answers it or the request's
timeout ends it (`LoopStep`), and probing windows pass; sync tasks run and every pair of routers
starts a sync again and again, because the gossip of root hashes is periodic. No
fairness is assumed of client disconnects, of rotation, of failures or recoveries,
of crashes, of gossip frames, of the disk filling up, or of mutexes.
`RecoversWithQuorum` says in its premise what it needs of the outside: ingesters
that stay up, probes sent within their window, clients that wait for the answer.

## What is proved

`ReferenceTracking_proofs` proves, for any sets of sequence numbers and segments
and any channel capacities above zero (`CapAssumption`; nothing else is assumed):

* `TypeCorrect`: `Spec => []TypeOK`, which includes that no channel exceeds its
  capacity;
* `ReferencesExact`: `Spec => []ExactReferences`;
* `RetentionSafety`: the tracker's steps are steps of `SegmentRetention` or
  stutters, so no segment is deleted twice or while a number in it is unreported.

`ExactReferences` is not inductive. When the actor takes a message, what it does
depends on the rest of the queues: handling a file is right only if the queued
record is what the segment really contains and no second record for the same
segment follows (`FileQueueOK`), if no number is in two segments (`OneSegmentEach`,
or `remove` would take a number out of one file only), and if no number is queued
twice (`NotesOK`, or the second notification would find the number gone and put
it in the early set for good). The inductive invariant is

    IInv == TypeOK /\ FileQueueOK /\ OneSegmentEach /\ NotesOK /\ ExactReferences

with one lemma per action. Whoever reports a number twice breaks `NotesOK`, and
the composed model shows that one caller does (see below, "double report").

`ParquetLifecycle_proofs` proves the four invariants of its run for any number of
files, jobs and faults: `AtMostOneJob` (`OneJob`), `NoDanglingRow` (`RowsHaveObjects`),
`ListsReadable` (`ReadersFindObjects`) and `NoRowLost` (`RowsCovered`). The invariant and the
ingester's steps are in `ParquetLifecycleInv`, the steps of a compaction job in
`ParquetLifecycleJobs`, its faults in `ParquetLifecycleFaults`. What the proof assumes,
`LifecycleAssumption`, is what a deployment has to guarantee: a commit follows its
upload sooner than the object store cutoff, and the life of a compaction job, or of a
querier's file list, plus the time between the clock reading of a soft delete and its
commit (`JobTimeout + WriteDelay`, `ListLife + WriteDelay`) is within the cutoff for
soft-deleted rows. Without the second term the statement is false: a list read just
before a slow commit names files that are already marked as old. The defaults leave a
wide margin (cutoffs of 14 days, a cache lifetime of 12 hours, a partition timeout
of 30 minutes), but the code enforces none of it. The inductive invariant is

    IInv == TypeOK /\ Mutex /\ Ids /\ Objects /\ Lists /\ Contents /\ RowsCovered

* `Mutex`: the two in-flight maps follow the one job that holds the partition,
  also between the two locks under which it leaves them.
* `Ids`: object ids are used once, so what is about to be committed, by a job, a
  late commit or the ingester, is in no row and in no other transaction.
* `Objects`: an object waiting for its commit is younger than the deleter's cutoff,
  and nothing on its way to the deleter is in a row or will be.
* `Lists`: a soft delete of a file on a list in use, or on a job's, is older than that list
  by at most the delay of its commit, so the row of such a file is not yet old enough to go.
* `Contents`: what a transaction creates holds what it deletes; with it a commit keeps
  `RowsCovered`, even when it is late and its files were replaced by another job.

`RpcWrite_proofs` proves the three safety properties of `router_write` for any number of
upstreams, copies (at most as many as upstreams), concurrent writes and probes, and any
bound of the counters: `ResultsAreTrue` (`ResultMatchesAcks`), `SentOncePerUpstream`
(`NeverResent`) and `CircuitsCloseOnAnswers` (`ClosesOnAnswer`). The inductive invariant has
two parts for a write in progress. `SnapshotInv`: the clients are distinct, a client in a
call is marked `Yielded` and is held by one loop, and the clients marked `Used` are
exactly those in `acks`. `LoopsInv`: there are as many acknowledgements as finished loops,
and the loops start in order. The first needs that a snapshot names no upstream twice;
this, and what the filter behind it keeps, is in `SequenceLemmas`. Induction there is over a set
of sequences that contains the empty one and is closed under `Append`.

Everything else is model-checked only. Liveness (the second half of
`SegmentRetention`, `ShutdownWakes` and the other temporal properties) is outside
what the prover handles.

## Findings

**Replay deletes a segment whose data is still in memory** (`ingester_replay_loss`,
which ends in a counterexample). Replay persists what it finds in the buffer and
waits for those jobs. A batch that hot partition persistence, or the disk full
protection, took out of the buffer meanwhile is not among them. Its segment is
deleted before it is uploaded, and a crash then loses an acknowledged write.
`AckedDurable` holds (run `ingester`) when nobody else persists during replay.

The following are the exact exceptions that the checked properties make, or effects
the models show that no property forbids.

WAL and replay:

* **Short chunk** (`FatalCut` in `ComesUp`). A write cut in its length field, or
  between two frames of its data, stops start-up, although it was never acknowledged
  and is in the last segment: the reader's error is not the one replay tolerates.
* **Torn segment that is not the last** (`FatalCut`). A crash between the two halves of
  a rotation, or a second crash before replay has deleted the torn segment, leaves a
  younger file behind a truncated write; replay tolerates truncation only in the last
  file. A file without header also stops start-up.
* **Partial write.** A write that fails half way leaves the segment open; later,
  acknowledged chunks follow the torn one, and replay stops at it. With
  `Tears = {"nothing", "data"}` `AckedVisible` fails; the run assumes that a failing
  write leaves nothing in the file.
* **Concurrent rotations** (`overtaken` in `ReplayOrder`) take their ids before the lock
  (`wal/src/lib.rs:346`) and may swap in the other order, so a segment with a smaller
  id can hold younger writes.

Ingester:

* **Double report** (`ReportedTwice` in `SegmentsReclaimed`). A write that fails
  after one of its tables was buffered is reported as unbuffered with all its
  numbers, and the buffered part is reported again when it is persisted. The two
  reports cancel in the tracker's early set, and the segment stays.
* **Lost report** (`Unreported`). The failure of a buffer apply is reported by the
  future of the caller. If the client went away, nobody reports it, the segment
  keeps the reference and shutdown waits for it.
* **Abandoned batch** (`Abandoned`). A Persist RPC that is dropped after
  `mark_persisting` and before its batch is in the queue leaves the batch in the
  persisting list: readable, still in the WAL, but never persisted, and graceful
  shutdown waits for it.
* **Lost wake-up in `DeferredLoad::get`** (`Missed` in `CallersServed` and
  `SaturationClears`). The lock is released before the caller subscribes to the
  notification; a load that finishes in between wakes nobody, and that caller waits
  for ever. If it is a persist job, its permit is gone with it.
* **Saturation cleared under a waiter.** The monitor reads the waiters, then the
  permits, then clears the bit. An enqueuer that counts itself in between is parked
  while the system is not marked as saturated. Nothing is lost: `PermitsAccounted`
  and `SaturationClears` hold.

Router:

* **No recovery from a total outage with two or more copies.** `rpc_write.rs:226-229`
  says that "the probes MUST be sent to drive recovery of the upstream, even if this
  write request is doomed to fail". When all circuits are open the snapshot holds the
  probe only; the second write loop finds no client and ends the request
  (`rpc_write.rs:333`), which drops the probe's call before its result is observed.
  `RecoversWithQuorum` therefore asks for healthy upstreams for all but one copy.
* **The error ratio** is `(errors + 1) / (successes + 1) < 0.8`. The comments ("when 80%
  of requests ... fail", `circuit_breaker.rs:64`; "at least 20% of these requests must
  succeed", `clap_blocks/src/router.rs:136`) describe another one, and with few writes
  per second a circuit does not close although every probe succeeds: hence the
  premise that the probes of a window are all sent.
* **The reset task** reads a closed circuit and stores new counters in a second step;
  errors in between are forgotten, and a circuit that opened meanwhile is closed
  (the exception in `ClosesOnAnswer`).
* **An error may close a circuit.** With `NumProbes` answers counted the circuit is judged
  by the error ratio alone, so the answer that completes them closes it even when it is an
  error, if enough of the others were successes (three probes or more). Hence
  `ClosesOnAnswer` speaks of answers, not of successes.
* **A result is a lower bound.** `PartialWrite` is "best-effort" (`rpc_write.rs:267-269`): an
  upstream may have stored a write whose answer was lost, timed out or was dropped with the
  handler, so an error, with or without `PartialWrite`, may hide copies, and a retry may
  send an upstream a write it holds but was not observed to hold.
* **Lost cache update.** `memory.rs:47-71` reads, merges and inserts without a lock;
  of two concurrent puts one is lost, while `namespace_cache.rs:176-177` and
  `mst/handle.rs:73-77` speak of a merge. The cache only becomes older;
  `AgreesWithCatalog` and `CachesConverge` hold.

Querier:

* **Joined load** (`raced` in `CompleteUnlessRaced`). `table/mod.rs:233-234` passes the
  ingester's persist counts to the cache so that an old entry is dropped, but a load that was
  already running when the entry is checked is joined, though it may have read the
  catalog before the batch was persisted (`remove_if.rs:129`, `:172-176`). The
  batch is then in neither answer.
* **Count collision** (`collides`). An ingester reports one sum for the partitions it
  returns (`buffer_tree/table.rs:244-249`), and an entry is old when the count differs
  (`parquet_file.rs:213-219`): with another filter the sums of different partitions
  may be equal by accident.

Compactor and garbage collector:

* **Leaked partition.** A job that fails with an object store error is not recorded
  (`error_kind.rs:79` with `hardcoded.rs:145`, the result dropped at `driver.rs:119-120`);
  the partition stays in both in-flight maps, and this process compacts it no more,
  while `unique_partitions.rs:37-38` says "No partition is ever lost."
* **Missed window.** The source asks for partitions with new files since its last query
  (`catalog_to_compact.rs:113`), but a file's time is taken before its upload. One that
  is committed behind the query falls in neither window, until the next file.
* **Lost answer of a commit.** Every retry fails with `FileExists`, the job ends in its
  timeout and the partition is recorded as skipped. The ingester's `create`
  (`persist/worker.rs:554`) has no timeout and would retry for ever.
* **Late commit.** When a job times out while its commit is on the way, the next job
  works on the same files; if both commit, two live files hold the same rows (which
  queries deduplicate). `RowsCovered` says that none is lost.
* **A failed delete** ends the deleter task and with it the checker; the process waits
  for the tasks that still run, and collection stops until it is restarted.

## Assumptions and abstractions

* A file that was created survives the crash of the process; the directory is not
  synced by the code, so a power failure could lose its name. Bytes that `fsync`
  covered stay; bytes behind them are cut at one place.
* The catalog and the object store are reliable, but answers may be lost where the
  code retries or times out. In `Ingester` the answer of the catalog's `create` is not lost.
* `Ingester` uses the log through `DurableLog` and reduces a partition to the
  entries it holds. What replay does with an entry that the buffer refuses is left out.
* The crash of a process is not code: the `Crash` actions of the WAL and ingester modules
  are marked external in `PROJECT.json`. They drop what is in memory and keep the disk.
* `RpcWrite` does not model the lazy connector behind a client: an upstream
  answers or fails.
* `SchemaCache` has one namespace with one table. The first read of the cache and the
  one inside a put, the creation and resolution of the namespace, and the statements
  by which the catalog validates a table's columns, of which those before a conflict
  stay inserted, are one step each, as are a sync's probe, diff and
  fetch. Overflow of the actor's queue, frame splitting, limits on tables
  and columns and the limit of three concurrent syncs are not modelled.
* `QuerierTable` has one table and one ingester; all data is written before the queries
  start. `Cache::set` and `peek` are left out (the first has no caller, the
  second no effect), as is the case of an ingester whose circuit is open.
* `ParquetLifecycle` has one partition. A job merges any of its files into one, one merge at
  a time; in the code the branches of a round, which share no file, run concurrently. Levels, upgrades and splits, shadow mode, dry run, the shard filter and the
  scratchpad are not modelled. A throttle entry expires at any time. Which rows
  expire is a constant.
* Sequence numbers and segment ids do not overflow (64 bits).
* Encodings, compression, checksums, metrics, logging and the gossip of new files are
  left out everywhere.

## Not modelled

`PROJECT.json` lists every part with the reason. In short:

* Query planning and execution (`iox_query`, `datafusion_util`, `predicate`, the InfluxQL,
  InfluxRPC and SQL planners) and the parsers compute on data that a finite instance
  does not represent; they keep no state between calls.
* The compactor's choice of files (rounds, splits, levels) is a heuristic over sizes and
  times; a job of the model merges any subset of its files.
* `mutable_batch`, `parquet_file`, `schema` (but for sort keys), `data_types` and the line
  protocol are representation and conversion without protocol.
* Servers, command line, clients, generated code, test fixtures, tracing and metrics are
  I/O and plumbing; they and the tests are most of the repository's lines.
* The gossip crate's own peer exchange and the object store and catalog back ends are used
  through the guarantees the code above them relies on.
