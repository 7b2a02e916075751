------------------------------ MODULE Persist ------------------------------
(***************************************************************************)
(* The persist system: enqueue and its backpressure (PersistBackpressure), *)
(* and the workers, whose jobs hold their permit while they wait for the   *)
(* metadata of the table they persist, a DeferredLoad the jobs share with  *)
(* each other and with the queries of the table.  A query may be dropped   *)
(* while it waits, a job may not.                                          *)
(***************************************************************************)
EXTENDS PersistBackpressure

CONSTANT Readers   (* queries of the table *)

VARIABLES value, demand, task, loads, caller   (* see DeferredLoad *)

Metadata == INSTANCE DeferredLoad WITH Callers <- Jobs \cup Readers

loadVars == <<value, demand, task, loads, caller>>
vars == <<backpressureVars, loadVars>>

Init == BackpressureInit /\ Metadata!LoadInit

Enqueue(j) ==
  /\ TryAcquire(j) \/ EnqueueStep(j) \/ AbortEnqueue(j)
  /\ UNCHANGED loadVars

(* Context::new, when a worker takes the job, hints that it is needed soon. *)
Prefetch(j) ==
  /\ job[j] = "enqueued" /\ caller[j] = "idle"
  /\ Metadata!PrefetchNow
  /\ UNCHANGED backpressureVars

(* compact and upload ask for it. *)
AwaitMetadata(j) ==
  /\ job[j] = "enqueued"
  /\ Metadata!Get(j)
  /\ UNCHANGED backpressureVars

FinishJob(j) ==
  /\ caller[j] = "returned"
  /\ CompleteJob(j)
  /\ UNCHANGED loadVars

Query(q) ==
  /\ Metadata!Get(q) \/ Metadata!DropGet(q)
  /\ UNCHANGED backpressureVars

LoadTask == Metadata!Task /\ UNCHANGED backpressureVars

Monitor(m) == MonitorStep(m) /\ UNCHANGED loadVars

Ingest == IngestStateStep /\ UNCHANGED loadVars

Next ==
  \/ \E j \in Jobs : Enqueue(j) \/ Prefetch(j) \/ AwaitMetadata(j) \/ FinishJob(j)
  \/ \E q \in Readers : Query(q)
  \/ \E m \in Jobs : Monitor(m)
  \/ LoadTask \/ Ingest

(* Tasks that can run do run: the load task, whose loader retries until it
   has the value, calls of enqueue and get that are under way, and the
   workers (uploads and catalog calls are retried until they succeed).
   Nothing obliges a batch to be enqueued, a query to start, a future to be
   dropped, or the disk to fill up.                                        *)
Fairness ==
  /\ WF_vars(LoadTask)
  /\ \A j \in Jobs :
       /\ WF_vars(EnqueueStep(j) /\ UNCHANGED loadVars)
       /\ WF_vars(AwaitMetadata(j)) /\ WF_vars(FinishJob(j))
       /\ WF_vars(Monitor(j))
  /\ \A q \in Readers :
       WF_vars((Metadata!Subscribe(q) \/ Metadata!ReadValue(q)) /\ UNCHANGED backpressureVars)

Spec == Init /\ [][Next]_vars

FairSpec == Spec /\ Fairness

-----------------------------------------------------------------------------
(* Type invariant; the loader runs at most once. *)
TypeOK ==
  /\ BackpressureTypeOK
  /\ value \in {"unresolved", "loading", "resolved"} /\ demand \in BOOLEAN
  /\ task \in {"sleeping", "loading", "loaded", "notifying", "done"}
  /\ loads \in 0..1
  /\ caller \in [Jobs \cup Readers -> Metadata!CallerStages]

(* No assertion of the code fails and no unreachable arm is reached: as long
   as a caller can be given a waker the load task has not finished
   (deferred_load.rs:151), whoever it wakes finds the value
   (deferred_load.rs:288), and a saturation monitor runs exactly as long as
   the saturation bit is set, whatever other errors come and go, so each of
   its evaluations finds an error and the one that clears the bit finds it
   set (backpressure.rs).                                                  *)
AssertionsHold ==
  /\ TypeOK
  /\ Metadata!TaskRunsWhileAwaited
  /\ Metadata!WokenFindsValue
  /\ OneMonitorWhileSaturated

(* get releases the lock before it subscribes, and notify_waiters does not
   reach a caller in between: it would wait for ever.                      *)
Missed(c) == caller[c] = "unlocked" /\ task = "done"

(* Whoever asks for the value gets it, unless it gives up or missed the
   notification: a value that several jobs and queries wait for is loaded
   once, on the first demand or by the timer, and handed to all of them.   *)
CallersServed ==
  \A c \in Jobs \cup Readers :
    caller[c] = "unlocked" ~> caller[c] \in {"returned", "dropped"} \/ Missed(c)

(* The saturation mark does not outlive the backlog: every enqueue that waits
   for a permit gets one or is dropped, the jobs get their metadata and
   finish, and ingest is resumed, provided that no job misses the
   notification (it would hold its permit for ever).                       *)
SaturationClears == [](\A j \in Jobs : ~Missed(j)) => (Saturated ~> ~Saturated)
=============================================================================
