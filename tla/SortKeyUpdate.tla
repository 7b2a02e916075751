--------------------------- MODULE SortKeyUpdate ---------------------------
(***************************************************************************)
(* The sort key of one partition, which several ingesters buffer data for. *)
(* Every persist job sorts its file by the key its ingester has cached,    *)
(* extended by the columns the key lacks; the extension is published with  *)
(* a compare-and-swap in the catalog before the file is registered there.  *)
(* Jobs that need an extension go through one worker of the ingester,      *)
(* those that do not through any.                                          *)
(*                                                                         *)
(* A key is a sequence of tag columns; the time column, which every key    *)
(* ends with, is left implicit.  NoKey is a partition without a sort key.  *)
(***************************************************************************)
EXTENDS Naturals, Sequences, FiniteSets, SequencesExt

CONSTANTS
  Ingesters,
  Workers,        (* persist workers of each ingester                      *)
  Assigned,       (* the worker JumpHash maps the partition to             *)
  Jobs,           (* persist jobs of the partition                         *)
  IngesterOf,     (* [Jobs -> Ingesters]                                   *)
  Columns,        (* tag columns of the table                              *)
  NoKey, Unresolved, Idle

ASSUME SortKeyAssumption ==
  /\ Assigned \in Workers
  /\ IngesterOf \in [Jobs -> Ingesters]

VARIABLES
  catalogKey,   (* partition.sort_key in the catalog                       *)
  files,        (* parquet files of the catalog: [cols, key]               *)
  provided,     (* per ingester: the key of SortKeyState::Provided, or
                   Unresolved while PartitionData::sort_key is Deferred    *)
  loaded,       (* per ingester: what the DeferredLoad gave, if resolved   *)
  ownQueue,     (* per ingester: queue of the assigned worker              *)
  globalQueue,  (* per ingester: the global queue                          *)
  worker,       (* per ingester and worker: the job it runs, or Idle       *)
  job           (* per job: [stage, cols, ctx, dataKey, newKey]            *)

vars == <<catalogKey, files, provided, loaded, ownQueue, globalQueue, worker, job>>

Keys == {NoKey} \cup {k \in SeqOf(Columns, Cardinality(Columns)) : IsInjective(k)}

JobStages == {"new", "queued", "fetch", "upload", "cas", "mismatch", "commit", "restart", "register", "done"}

Init ==
  /\ catalogKey = NoKey
  /\ files = {}
  /\ provided = [i \in Ingesters |-> Unresolved]
  /\ loaded = [i \in Ingesters |-> Unresolved]
  /\ ownQueue = [i \in Ingesters |-> <<>>]
  /\ globalQueue = [i \in Ingesters |-> <<>>]
  /\ worker = [i \in Ingesters |-> [w \in Workers |-> Idle]]
  /\ job = [j \in Jobs |-> [stage |-> "new", cols |-> {}, ctx |-> NoKey,
                            dataKey |-> <<>>, newKey |-> <<>>]]

-----------------------------------------------------------------------------
(* adjust_sort_key_columns: the columns of the data that the key has, in the
   key's order, then the others, in the data's order (some order: the
   schema's).                                                              *)
Orders(cols) == {s \in SeqOf(cols, Cardinality(cols)) : IsInjective(s) /\ Len(s) = Cardinality(cols)}

Missing(key, cols) == cols \ ToSet(key)

DataKey(key, cols, new) == SelectSeq(key, LAMBDA c : c \in cols) \o new

UpdatedKey(key, new) == key \o new

(* Does the job have to change this sort key?  compact_persisting_batch
   computes one from the data when there is none.                          *)
NeedsUpdate(key, cols) == key = NoKey \/ Missing(key, cols) # {}

(* PartitionData::sort_key, as far as it is resolved. *)
PartitionKey(i) == IF provided[i] # Unresolved THEN provided[i] ELSE loaded[i]

(* PersistHandle::enqueue, after a permit was obtained: a key that is not
   known without waiting counts as one that may need an update.            *)
Serialised_OnlyWithoutKey(i, cols) == PartitionKey(i) \in {Unresolved, NoKey}

Serialised(i, cols) == PartitionKey(i) = Unresolved \/ NeedsUpdate(PartitionKey(i), cols)

Enqueue(j, cols) ==
  LET i == IngesterOf[j] IN
  /\ job[j].stage = "new"
  /\ job' = [job EXCEPT ![j].stage = "queued", ![j].cols = cols]
  /\ IF Serialised(i, cols)
     THEN ownQueue' = [ownQueue EXCEPT ![i] = Append(@, j)] /\ UNCHANGED globalQueue
     ELSE globalQueue' = [globalQueue EXCEPT ![i] = Append(@, j)] /\ UNCHANGED ownQueue
  /\ UNCHANGED <<catalogKey, files, provided, loaded, worker>>

(* run_task: the select is biased to the worker's own queue.  Context::new
   clones the partition's sort key; a deferred one is shared, not copied.  *)
StartJob(i, w) ==
  LET own == w = Assigned /\ ownQueue[i] # <<>>
      j == Head(IF own THEN ownQueue[i] ELSE globalQueue[i]) IN
  /\ worker[i][w] = Idle
  /\ own \/ globalQueue[i] # <<>>
  /\ IF own THEN ownQueue' = [ownQueue EXCEPT ![i] = Tail(@)] /\ UNCHANGED globalQueue
            ELSE globalQueue' = [globalQueue EXCEPT ![i] = Tail(@)] /\ UNCHANGED ownQueue
  /\ worker' = [worker EXCEPT ![i][w] = j]
  /\ job' = [job EXCEPT ![j].stage = IF provided[i] = Unresolved THEN "fetch" ELSE "upload",
                        ![j].ctx = provided[i]]
  /\ UNCHANGED <<catalogKey, files, provided, loaded>>

(* SortKeyResolver::fetch, run once, in the background or on demand. *)
LoadSortKey(i) ==
  /\ loaded[i] = Unresolved
  /\ loaded' = [loaded EXCEPT ![i] = catalogKey]
  /\ UNCHANGED <<catalogKey, files, provided, ownQueue, globalQueue, worker, job>>

(* The job waits for the deferred key its context holds. *)
AwaitSortKey(j) ==
  /\ job[j].stage = "fetch"
  /\ loaded[IngesterOf[j]] # Unresolved
  /\ job' = [job EXCEPT ![j].stage = "upload", ![j].ctx = loaded[IngesterOf[j]]]
  /\ UNCHANGED <<catalogKey, files, provided, loaded, ownQueue, globalQueue, worker>>

(* compact and upload: the file is sorted and stored under a fresh UUID. *)
Upload(j, new) ==
  LET key == IF job[j].ctx = NoKey THEN <<>> ELSE job[j].ctx
      cols == job[j].cols IN
  /\ job[j].stage = "upload"
  /\ new \in Orders(Missing(key, cols))
  /\ job' = [job EXCEPT ![j].stage = IF NeedsUpdate(job[j].ctx, cols) THEN "cas" ELSE "register",
                        ![j].dataKey = DataKey(key, cols, new),
                        ![j].newKey = UpdatedKey(key, new)]
  /\ UNCHANGED <<catalogKey, files, provided, loaded, ownQueue, globalQueue, worker>>

(* The key written without comparing. *)
CasApplied_Always(j) == TRUE

(* update_catalog_sort_key: the compare-and-swap of the catalog.  Its answer
   may be lost after it took effect; the call is then retried.             *)
CasApplied(j) == catalogKey = job[j].ctx

CasSortKey(j, lost) ==
  /\ job[j].stage = "cas"
  /\ CasApplied(j)
  /\ catalogKey' = job[j].newKey
  /\ job' = [job EXCEPT ![j].stage = IF lost THEN "cas" ELSE "commit"]
  /\ UNCHANGED <<files, provided, loaded, ownQueue, globalQueue, worker>>

(* No row matched: a second query reads the key the partition has. *)
CasMismatch(j) ==
  /\ job[j].stage = "cas"
  /\ ~CasApplied(j)
  /\ job' = [job EXCEPT ![j].stage = "mismatch"]
  /\ UNCHANGED <<catalogKey, files, provided, loaded, ownQueue, globalQueue, worker>>

(* The compare-and-swap is retried from the old key. *)
ObserveSortKey_Retries(j) ==
  /\ job[j].stage = "mismatch"
  /\ job' = [job EXCEPT ![j].stage = IF catalogKey = job[j].newKey THEN "commit" ELSE "cas"]
  /\ UNCHANGED <<catalogKey, files, provided, loaded, ownQueue, globalQueue, worker>>

(* The observed key is the one wanted, or the persist starts over with it. *)
ObserveSortKey(j) ==
  /\ job[j].stage = "mismatch"
  /\ job' = [job EXCEPT ![j].stage = IF catalogKey = job[j].newKey THEN "commit" ELSE "restart",
                        ![j].newKey = catalogKey]
  /\ UNCHANGED <<catalogKey, files, provided, loaded, ownQueue, globalQueue, worker>>

(* The file already uploaded is kept although the key changed under it. *)
SetPartitionSortKey_NoRestart(j) ==
  /\ job[j].stage \in {"commit", "restart"}
  /\ provided' = [provided EXCEPT ![IngesterOf[j]] = job[j].newKey]
  /\ job' = [job EXCEPT ![j].stage = "register", ![j].ctx = job[j].newKey]
  /\ UNCHANGED <<catalogKey, files, loaded, ownQueue, globalQueue, worker>>

(* Context::set_partition_sort_key, then on to the catalog entry of the file,
   or back to compact_and_upload with the key that was observed.           *)
SetPartitionSortKey(j) ==
  /\ job[j].stage \in {"commit", "restart"}
  /\ provided' = [provided EXCEPT ![IngesterOf[j]] = job[j].newKey]
  /\ job' = [job EXCEPT ![j].stage = IF job[j].stage = "commit" THEN "register" ELSE "upload",
                        ![j].ctx = job[j].newKey]
  /\ UNCHANGED <<catalogKey, files, loaded, ownQueue, globalQueue, worker>>

(* update_catalog_parquet and mark_complete. *)
RegisterFile(j) ==
  LET i == IngesterOf[j] IN
  /\ job[j].stage = "register"
  /\ files' = files \cup {[cols |-> job[j].cols, key |-> job[j].dataKey]}
  /\ job' = [job EXCEPT ![j].stage = "done"]
  /\ worker' = [worker EXCEPT ![i] = [w \in Workers |-> IF @[w] = j THEN Idle ELSE @[w]]]
  /\ UNCHANGED <<catalogKey, provided, loaded, ownQueue, globalQueue>>

JobStep(j) ==
  \/ AwaitSortKey(j)
  \/ \E new \in Keys : Upload(j, new)
  \/ CasSortKey(j, FALSE)
  \/ CasMismatch(j)
  \/ ObserveSortKey(j)
  \/ SetPartitionSortKey(j)
  \/ RegisterFile(j)

Next ==
  \/ \E j \in Jobs :
       \/ \E cols \in SUBSET Columns : Enqueue(j, cols)
       \/ JobStep(j)
       \/ CasSortKey(j, TRUE)
  \/ \E i \in Ingesters :
       \/ LoadSortKey(i)
       \/ \E w \in Workers : StartJob(i, w)

Spec == Init /\ [][Next]_vars

(* Workers keep working, and a catalog call that is retried succeeds in the
   end (retry_with_backoff never gives up).                                *)
FairSpec ==
  /\ Spec
  /\ \A j \in Jobs : WF_vars(JobStep(j))
  /\ \A i \in Ingesters : WF_vars(LoadSortKey(i)) /\ \A w \in Workers : WF_vars(StartJob(i, w))

-----------------------------------------------------------------------------
(* Type invariant. *)
TypeOK ==
  /\ catalogKey \in Keys
  /\ \A f \in files : f.cols \subseteq Columns /\ f.key \in Keys
  /\ provided \in [Ingesters -> Keys \cup {Unresolved}]
  /\ loaded \in [Ingesters -> Keys \cup {Unresolved}]
  /\ \A i \in Ingesters : ownQueue[i] \in Seq(Jobs) /\ globalQueue[i] \in Seq(Jobs)
  /\ worker \in [Ingesters -> [Workers -> Jobs \cup {Idle}]]
  /\ job \in [Jobs -> [stage : JobStages, cols : SUBSET Columns, ctx : Keys \cup {Unresolved},
                      dataKey : Keys, newKey : Keys]]

(* Files of a partition are mutually sorted: every file in the catalog is
   sorted by the catalog's key restricted to the columns the file has, also
   after ingesters raced to extend the key and one had to start over.      *)
FilesFollowCatalogKey ==
  \A f \in files : f.key = SelectSeq(catalogKey, LAMBDA c : c \in f.cols)

(* The assert of Context::set_partition_sort_key: within one ingester the
   partition's sort key is the one the job started from when the job comes
   to replace it, so no two jobs of an ingester update it concurrently.    *)
KeyUpdatesSerialised ==
  /\ TypeOK
  /\ \A j \in Jobs :
       job[j].stage \in {"commit", "restart"} => PartitionKey(IngesterOf[j]) = job[j].ctx

(* No extension of the sort key is lost: the catalog's key only ever grows at
   its end, although the ingesters' updates are based on cached copies.    *)
KeyOnlyExtended ==
  [][catalogKey = NoKey \/ (catalogKey' # NoKey /\ IsPrefix(catalogKey, catalogKey'))]_catalogKey

(* Contention on the sort key does not starve a persist job: every job that
   was enqueued registers its file.                                        *)
JobsComplete == \A j \in Jobs : job[j].stage = "queued" ~> job[j].stage = "done"
=============================================================================
