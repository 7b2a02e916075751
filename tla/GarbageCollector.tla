-------------------------- MODULE GarbageCollector --------------------------
(***************************************************************************)
(* The parquet_file table, the object store and the tasks of the garbage   *)
(* collector (garbage_collector/src): the retention flagger, the deleter   *)
(* of old catalog rows, and the pipeline lister -> checker -> deleter that *)
(* removes objects no row names.                                           *)
(*                                                                         *)
(* Time is discrete and relative: an object and a soft-deleted row carry   *)
(* their age, capped where the code's comparisons stop telling ages apart. *)
(***************************************************************************)
EXTENDS Integers, FiniteSets

CONSTANTS
    Files,        \* object store ids
    OSCutoff,     \* objectstore_cutoff
    PFCutoff      \* parquetfile_cutoff

VARIABLES
    rows,         \* files with a catalog row
    flagAge,      \* age of a row's to_delete mark, Live where there is none
    objects,      \* files whose object is in the store
    age,          \* age of the object (now - last_modified)
    doomed,       \* items on their way from the checker to the deleter
    tasks         \* the garbage collector's tasks that still run

catalogVars == <<rows, flagAge>>
storeVars == <<objects, age>>
pipelineVars == <<doomed, tasks>>
gcVars == <<rows, flagAge, objects, age, doomed, tasks>>

Live == -1
GcTasks == {"checker", "os_deleter", "pf_deleter", "retention_flagger"}

GcInit ==
    /\ rows = {}
    /\ flagAge = [f \in Files |-> Live]
    /\ objects = {}
    /\ age = [f \in Files |-> 0]
    /\ doomed = {}
    /\ tasks = GcTasks

\* list_by_partition_not_to_delete
LiveFiles == {f \in rows : flagAge[f] = Live}

\* flag_for_delete: an UPDATE by id, which also re-stamps a row already marked and
\* does nothing for one already deleted. The mark is the time at which the caller read
\* its clock, stamp units of time ago.
flag_for_delete(fs, stamp) ==
    [f \in Files |-> IF f \in fs \intersect rows THEN stamp ELSE flagAge[f]]

\* create_upgrade_delete: one transaction. It reads the clock (marked_at) before its
\* first statement; this is its COMMIT.
create_upgrade_delete(delete, create, stamp) ==
    /\ rows' = rows \union create
    /\ flagAge' = flag_for_delete(delete, stamp)

Upload(f) ==
    /\ objects' = objects \union {f}
    /\ age' = [age EXCEPT ![f] = 0]

\* One unit of time passes.
Older(a, cap) == IF a = Live \/ a = cap THEN a ELSE a + 1

AgeAll ==
    /\ age' = [f \in Files |-> IF f \in objects THEN Older(age[f], OSCutoff) ELSE age[f]]
    /\ flagAge' = [f \in Files |-> Older(flagAge[f], PFCutoff + 1)]

\* flag_for_delete_by_retention, which reads the clock (flagged_at) before its statement
FlagByRetention(f, stamp) ==
    /\ "retention_flagger" \in tasks
    /\ f \in LiveFiles
    /\ flagAge' = flag_for_delete({f}, stamp)
    /\ UNCHANGED <<rows, storeVars, pipelineVars>>

\* Bug: the rows are deleted as soon as they are marked.
OldRows_Marked == {f \in rows : flagAge[f] /= Live}

\* to_delete < now - cutoff
OldRows == {f \in rows : flagAge[f] > PFCutoff}

\* delete_old_ids_only
DeleteOldRows ==
    /\ "pf_deleter" \in tasks
    /\ OldRows /= {}
    /\ rows' = rows \ OldRows
    /\ flagAge' = [f \in Files |-> IF f \in OldRows THEN Live ELSE flagAge[f]]
    /\ UNCHANGED <<storeVars, pipelineVars>>

\* Bug: the age of the object is not looked at.
TooNew_Never(f) == FALSE

\* cutoff < last_modified
TooNew(f) == age[f] < OSCutoff

should_delete(f) == ~TooNew(f) /\ f \notin rows

\* A listed object reaches the checker, which looks at its age and at the catalog.
\* Listing an object and waiting in the channel change nothing the check depends on,
\* and a failed catalog query keeps every item of the batch.
Check(f) ==
    /\ {"checker", "os_deleter"} \subseteq tasks
    /\ f \in objects \ doomed
    /\ should_delete(f)
    /\ doomed' = doomed \union {f}
    /\ UNCHANGED <<catalogVars, storeVars, tasks>>

\* With the deleter gone the send fails and the checker ends. The lister's sends
\* fail from then on and it lists again, for ever.
CheckerEnds(f) ==
    /\ "checker" \in tasks
    /\ "os_deleter" \notin tasks
    /\ f \in objects
    /\ should_delete(f)
    /\ tasks' = tasks \ {"checker"}
    /\ UNCHANGED <<catalogVars, storeVars, doomed>>

Delete(f) ==
    /\ "os_deleter" \in tasks
    /\ f \in doomed
    /\ objects' = objects \ {f}
    /\ age' = [age EXCEPT ![f] = 0]
    /\ doomed' = doomed \ {f}
    /\ UNCHANGED <<catalogVars, tasks>>

\* A delete fails: try_collect ends the deleter with the error. Its receiver and
\* what is queued there are dropped.
DeleteErr(f) ==
    /\ "os_deleter" \in tasks
    /\ f \in doomed
    /\ tasks' = tasks \ {"os_deleter"}
    /\ doomed' = {}
    /\ UNCHANGED <<catalogVars, storeVars>>

\* A catalog error ends the row deleter or the retention flagger.
CatalogErr(t) ==
    /\ t \in tasks \intersect {"pf_deleter", "retention_flagger"}
    /\ tasks' = tasks \ {t}
    /\ UNCHANGED <<catalogVars, storeVars, doomed>>

=============================================================================
