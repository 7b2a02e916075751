------------------------- MODULE CompactionScheduler -------------------------
(***************************************************************************)
(* The local compaction scheduler's bookkeeping for ONE partition:         *)
(* compactor_scheduler/src/local_scheduler.rs and its combinators          *)
(* unique_partitions (one in-flight entry per partition) wrapped by        *)
(* throttle_partition (a partition whose job committed nothing is not      *)
(* handed out again for throttle_duration), over the source                *)
(* catalog_to_compact (partitions whose new_file_at falls in the window    *)
(* since the last query) filtered by the skipped_compactions table.        *)
(*                                                                         *)
(* Partitions are independent of each other in every one of these maps.    *)
(* Time is kept only as far as the code compares it: recent holds the      *)
(* files stamped (created_at) after last_maximum_time, fresh says that the *)
(* partition's new_file_at is; whether a throttle entry has expired when   *)
(* fetch cleans the map is left open.                                      *)
(***************************************************************************)
EXTENDS Naturals

VARIABLES
    in_flight,   \* unique_partitions: the partition is in the set
    flight,      \* throttle_partition: "none", or did its job call commit?
    throttled,   \* throttle_partition: the partition has an entry
    skipped,     \* the partition has a skipped_compactions row
    panicked,    \* fetch has panicked
    recent,      \* files not yet inserted, stamped since the source's last query
    fresh        \* the partition's new_file_at is after that query

schedulerVars == <<in_flight, flight, throttled, skipped, panicked, recent, fresh>>

SchedulerInit ==
    /\ in_flight = FALSE
    /\ flight = "none"
    /\ throttled = FALSE
    /\ skipped = FALSE
    /\ panicked = FALSE
    /\ recent = {}
    /\ fresh = FALSE

\* The partition comes out of the source and is not yet in flight.
Unique == fresh /\ ~skipped /\ ~in_flight

\* The source's query moves its window: last_maximum_time becomes now.
MoveWindow == recent' = {} /\ fresh' = FALSE

\* fetch() finds no candidate. A duplicate goes straight to the inner sink, which
\* does nothing for an Ok.
FetchNothing ==
    /\ ~Unique
    /\ MoveWindow
    /\ UNCHANGED <<in_flight, flight, throttled, skipped, panicked>>

\* fetch() returns the partition, which gets a job; if the throttle still has it in
\* its own map, fetch panics: "Partition already in-flight".
FetchPass ==
    /\ Unique
    /\ panicked' = (flight /= "none")
    /\ in_flight' = TRUE
    /\ flight' = "idle"
    /\ throttled' = FALSE
    /\ MoveWindow
    /\ UNCHANGED skipped

\* The throttle entry is still valid: the partition is taken out of in_flight
\* again through the inner sink.
FetchThrottled ==
    /\ Unique
    /\ flight = "none"
    /\ throttled
    /\ MoveWindow
    /\ UNCHANGED <<in_flight, flight, throttled, skipped, panicked>>

\* The throttle's part of a commit: the partition made progress.
CommitMark ==
    /\ flight' = "committed"
    /\ UNCHANGED <<in_flight, throttled, skipped, panicked>>

\* Bug: the sinks are wrapped the other way round, the unique set is left first.
ThrottleRecord_Last ==
    /\ in_flight' = FALSE
    /\ UNCHANGED <<flight, throttled, skipped, panicked, recent, fresh>>

\* First half of record(): leave the throttle's map.
ThrottleRecord ==
    /\ flight' = "none"
    /\ throttled' = (throttled \/ flight = "idle")
    /\ UNCHANGED <<in_flight, skipped, panicked, recent, fresh>>

\* Second half, under the other lock: leave the unique set.
UniqueRecord ==
    /\ in_flight' = FALSE
    /\ UNCHANGED <<flight, throttled, skipped, panicked, recent, fresh>>

\* Last part of record() for an Err: the catalog's skipped_compactions row.
RecordSkipped ==
    /\ skipped' = TRUE
    /\ UNCHANGED <<in_flight, flight, throttled, panicked, recent, fresh>>

\* A file is stamped with its creation time, before it is uploaded.
Stamp(f) ==
    /\ recent' = recent \union {f}
    /\ UNCHANGED <<in_flight, flight, throttled, skipped, panicked, fresh>>

\* The insert trigger: new_file_at becomes the created_at of the inserted file,
\* also where an older one replaces a newer one.
NewFileAt(f) == fresh' = (f \in recent) /\ recent' = recent \ {f}

=============================================================================
