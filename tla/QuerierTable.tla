----------------------------- MODULE QuerierTable -----------------------------
(***************************************************************************)
(* A query of one table (querier/src/table/mod.rs chunks_inner): the       *)
(* ingester's unpersisted data united with the parquet files of the        *)
(* catalog, which the querier reads through ParquetFileCache               *)
(* (querier/src/cache/parquet_file.rs) on top of CacheDriver and           *)
(* RemoveIfHandle::remove_if_and_get.                                      *)
(*                                                                         *)
(* The other side is one ingester, which persists a batch by creating its  *)
(* catalog record and only then dropping it from memory and counting it.   *)
(* The count is how the querier learns that its cached file list is old.   *)
(* All data is written before the queries start; only data of the          *)
(* partitions a query's filter keeps is needed for its answer.             *)
(***************************************************************************)
EXTENDS CacheDriver, FiniteSets, FiniteSetsExt

CONSTANTS
    Queries,        \* the queries of the table, each run once
    Partitions,     \* the partitions of the table
    Batches,        \* the batches of data of each partition
    Filters,        \* the sets of partitions a filter can keep
    MaxRestarts     \* bound on ingester restarts

ASSUME QuerierTableAssumption ==
    /\ Tags = Queries \X {"pre-warm", "get"}
    /\ None \notin Tags
    /\ Batches \subseteq Partitions \X Nat
    /\ Filters \subseteq SUBSET Partitions
    /\ MaxRestarts \in Nat

VARIABLES
    files,      \* catalog: the batches with a parquet file
    buffered,   \* ingester: the batches get_query_data returns
    count,      \* PartitionData::completed_persistence_count
    known,      \* the partitions in the ingester's buffer tree
    uuid,       \* the ingester's incarnation, its IngesterId
    query       \* the state of each chunks_inner call

ingesterVars == <<files, buffered, count, known, uuid>>
vars == <<driverVars, ingesterVars, query>>

Of(p) == {b \in Batches : b[1] = p}
NoCounts == [p \in Partitions |-> 0]

\* What a query learnt from the ingester: the incarnation, the partitions
\* listed in the response and their counts.
NoReport == [uuid |-> 0, listed |-> {}, counts |-> NoCounts]

Idle ==
    [stage |-> "idle", filter |-> {}, unread |-> {}, data |-> {},
     report |-> NoReport, tag |-> None, value |-> None, removed |-> FALSE,
     raced |-> FALSE, collides |-> FALSE, complete |-> TRUE]

Init ==
    /\ DriverInit
    /\ files = {}
    /\ buffered = Batches
    /\ count = NoCounts
    /\ known = Partitions
    /\ uuid = 1
    /\ query = [q \in Queries |-> Idle]

At(q, stage) == query[q].stage = stage

-----------------------------------------------------------------------------
(* The ingester. *)

\* The persist worker uploads batch b and creates its catalog record.
CreateFile(b) ==
    /\ b \in buffered \ files
    /\ files' = files \cup {b}
    /\ UNCHANGED <<driverVars, buffered, count, known, uuid, query>>

\* ... then drops the data and counts the file (PartitionData::mark_persisted).
mark_persisted(b) ==
    /\ b \in buffered \cap files
    /\ buffered' = buffered \ {b}
    /\ count' = [count EXCEPT ![b[1]] = @ + 1]
    /\ UNCHANGED <<driverVars, files, known, uuid, query>>

\* The ingester restarts and replays what was not persisted.  A request it
\* was answering fails and the querier's Backoff sends it again.
Restart ==
    /\ uuid <= MaxRestarts
    /\ uuid' = uuid + 1
    /\ buffered' = Batches \ files
    /\ count' = NoCounts
    /\ known' = {b[1] : b \in Batches \ files}
    /\ query' = [q \in Queries |->
                    IF At(q, "ingester")
                    THEN [query[q] EXCEPT !.unread = Partitions, !.data = {},
                                          !.report = NoReport]
                    ELSE query[q]]
    /\ UNCHANGED <<driverVars, files>>

-----------------------------------------------------------------------------
(* The cached file list. *)

\* The counts a query passes to ParquetFileCache::get: an Option of a map
\* from ingester to the sum of the counts of the partitions listed.
PreWarm == [some |-> FALSE, by |-> {}]

collect_persisted_file_counts(report) ==
    [some |-> TRUE,
     by |-> IF report.listed = {} THEN {}
            ELSE {<<report.uuid, MapThenSumSet(LAMBDA p : report.counts[p], report.listed)>>}]

\* A plausible bug: an entry without counts passes for an entry with any.
different_KeepsUnknown(stored, counts) ==
    stored.some /\ counts.by # stored.by

different(stored, counts) ==
    IF stored.some THEN counts.by # stored.by ELSE counts.by # {}

\* What a get passes to the loader: the counts, which are stored beside the
\* files, and for the properties the report they come from.
Extra(report) == [counts |-> collect_persisted_file_counts(report), report |-> report]
PreWarmExtra == [counts |-> PreWarm, report |-> NoReport]

\* The loader: list_by_table_not_to_delete, retried until it succeeds.
Load(t) ==
    /\ Loaded(t, [files |-> files, extra |-> load[t].extra])
    /\ UNCHANGED <<ingesterVars, query>>

\* r reaches the shared receiver of every request that waits for load t; a
\* pre-warming get ignores the value.
Broadcast(t, r) ==
    query' = [q \in Queries |->
                IF query[q].tag # t THEN query[q]
                ELSE IF At(q, "wait") THEN [query[q] EXCEPT !.value = r]
                ELSE [query[q] EXCEPT !.tag = None, !.value = IF r = Canceled THEN r ELSE None]]

SubmitLoad(t) ==
    /\ Submit(t)
    /\ Broadcast(t, load[t].v)
    /\ UNCHANGED ingesterVars

PanicLoad(t) ==
    /\ Panic(t)
    /\ Broadcast(t, Canceled)
    /\ UNCHANGED ingesterVars

EvictEntry ==
    /\ Evict
    /\ UNCHANGED <<ingesterVars, query>>

-----------------------------------------------------------------------------
(* A query. *)

Goto(q, rec) == query' = [query EXCEPT ![q] = rec]

\* The load a query itself drives, if any.
Driven(q) == IF query[q].tag \in {<<q, "pre-warm">>, <<q, "get">>} THEN query[q].tag ELSE None

\* chunks_inner starts: the ingester request is sent and, in the same poll,
\* the pre-warming get looks at the cache.
Start(q, f) ==
    LET t == <<q, "pre-warm">> IN
    /\ At(q, "idle")
    /\ get(t, PreWarmExtra)
    /\ Goto(q, [Idle EXCEPT !.stage = "ingester", !.filter = f, !.unread = Partitions,
                            !.tag = IF Status = "Hit" THEN None ELSE Receiver(t)])
    /\ UNCHANGED ingesterVars

\* query_exec leaves out a partition whose buffered data the filter excludes.
Listed(q, p) ==
    /\ p \in known
    /\ buffered \cap Of(p) # {} => p \in query[q].filter

\* The response stream reaches partition p: its data and its count are read
\* under one lock.
ReadPartition(q, p) ==
    /\ At(q, "ingester")
    /\ p \in query[q].unread
    /\ Goto(q, [query[q] EXCEPT
                !.unread = @ \ {p},
                !.data = IF Listed(q, p) THEN @ \cup (buffered \cap Of(p)) ELSE @,
                !.report = [uuid |-> uuid,
                            listed |-> IF Listed(q, p) THEN @.listed \cup {p} ELSE @.listed,
                            counts |-> IF Listed(q, p) THEN [@.counts EXCEPT ![p] = count[p]]
                                       ELSE @.counts]])
    /\ UNCHANGED <<driverVars, ingesterVars>>

\* The response is complete: the pre-warming get is dropped.
Responded(q) ==
    /\ At(q, "ingester")
    /\ query[q].unread = {}
    /\ query[q].value # Canceled
    /\ drop(Driven(q))
    /\ Goto(q, [query[q] EXCEPT !.stage = "remove", !.tag = None])
    /\ UNCHANGED ingesterVars

\* The predicate of ParquetFileCache::get on the current entry.
Outdated(q) ==
    cached # None /\ different(cached.extra.counts, collect_persisted_file_counts(query[q].report))

\* What the filter of a query keeps is in the ingester's part or in the files.
Complete(q, v) ==
    \A p \in query[q].filter : Of(p) \subseteq query[q].data \cup v.files

\* The counts of the answer equal the query's although they count other
\* things: sums over other partitions, or nothing at all.
Collides(q, v) ==
    /\ v.extra.counts.by = collect_persisted_file_counts(query[q].report).by
    /\ v.extra.report # query[q].report

\* The query returns the union of the two; what the properties say of the
\* answer is kept, the rest is dropped.
Answered(q, v) ==
    [Idle EXCEPT !.stage = "done", !.raced = query[q].raced,
                 !.complete = Complete(q, v), !.collides = Collides(q, v)]

\* remove_if_and_get_with_status: the first remove_if.  `raced' records, for
\* the properties, that the entry was absent while a load was running.
RemoveIf(q) ==
    /\ At(q, "remove")
    /\ remove_if(Outdated(q))
    /\ Goto(q, [query[q] EXCEPT !.stage = "get", !.removed = Outdated(q),
                                !.raced = cached = None /\ running # None])
    /\ UNCHANGED ingesterVars

\* ... its cache.get_with_status.
Get(q) ==
    LET t == <<q, "get">> IN
    /\ At(q, "get")
    /\ get(t, Extra(query[q].report))
    /\ Goto(q, IF Status = "Hit"
               THEN Answered(q, cached)
               ELSE [query[q] EXCEPT !.stage = "wait", !.tag = Receiver(t)])
    /\ UNCHANGED ingesterVars

\* ... and its match on the status once the load has answered: after joining
\* a running load the entry is checked again if it had been removed before.
Receive(q) ==
    LET again == query[q].tag # <<q, "get">> /\ query[q].removed /\ Outdated(q) IN
    /\ At(q, "wait")
    /\ query[q].value \notin {None, Canceled}
    /\ remove_if(again)
    /\ Goto(q, IF again
               THEN [query[q] EXCEPT !.stage = "get", !.tag = None, !.value = None]
               ELSE Answered(q, query[q].value))
    /\ UNCHANGED ingesterVars

\* retrieve_from_shared panics when the load is gone.
ReceiveErr(q) ==
    /\ query[q].value = Canceled
    /\ Goto(q, [Idle EXCEPT !.stage = "failed"])
    /\ UNCHANGED <<driverVars, ingesterVars>>

\* The client goes away and the query's future is dropped.
Cancel(q) ==
    /\ query[q].stage \in {"ingester", "remove", "get", "wait"}
    /\ drop(Driven(q))
    /\ Goto(q, [Idle EXCEPT !.stage = "cancelled"])
    /\ UNCHANGED ingesterVars

-----------------------------------------------------------------------------

LoadStep(t) == Load(t) \/ SubmitLoad(t)

QueryStep(q) ==
    \/ \E p \in Partitions : ReadPartition(q, p)
    \/ Responded(q)
    \/ RemoveIf(q)
    \/ Get(q)
    \/ Receive(q)
    \/ ReceiveErr(q)

Next ==
    \/ \E b \in Batches : CreateFile(b) \/ mark_persisted(b)
    \/ Restart
    \/ EvictEntry
    \/ \E t \in Tags : LoadStep(t) \/ PanicLoad(t)
    \/ \E q \in Queries : QueryStep(q) \/ Cancel(q) \/ \E f \in Filters : Start(q, f)

Spec == Init /\ [][Next]_vars

-----------------------------------------------------------------------------
(* Properties. *)

\* The driver keeps one source of the value per key: there is never an entry
\* while a load for it runs, so remove_if sees an outdated entry or a running
\* load and never both (driver.rs get_with_status and finalize).
OneSource ==
    /\ cached = None \/ running = None
    /\ \A t \in Tags : InFlight(t) <=> running = t

\* A query misses no data (table/mod.rs:233 "to ensure cache is refreshed if
\* we learned about new files"), unless a load was already running when it
\* checked the entry or its counts collide with those of an older entry.
CompleteUnlessRaced ==
    \A q \in Queries :
        At(q, "done") /\ ~query[q].raced /\ ~query[q].collides => query[q].complete

\* No request waits in vain: the load a query waits for is running or has
\* answered it, whichever request started it and whether that one still lives
\* (cancellation_safe_future.rs drop, driver.rs retrieve_from_shared).
WaitsOnLiveLoad ==
    \A q \in Queries :
        At(q, "wait") /\ query[q].value = None => running = query[q].tag
=============================================================================
