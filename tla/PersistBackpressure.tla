------------------------ MODULE PersistBackpressure ------------------------
(***************************************************************************)
(* How the persist system pushes back: PersistHandle::enqueue takes a      *)
(* permit of a semaphore for every job, or marks the ingester as saturated *)
(* and waits for one; a monitor task, spawned by the thread that set the   *)
(* mark, clears it once nobody waits and half of the permits are free.     *)
(* The mark is one of the error bits of IngestState, which graceful        *)
(* shutdown and the disk full protection set as well.  The atomic          *)
(* operations of enqueue, set_saturated and the monitor are steps of their *)
(* own.  Module Persist adds what the workers wait for.                    *)
(***************************************************************************)
EXTENDS Naturals, Sequences, FiniteSets, SequencesExt

CONSTANTS
  Jobs,            (* calls of enqueue, one per batch marked as persisting *)
  Cancellable,     (* those made by the Persist RPC, which may be dropped  *)
  Depth            (* persist_queue_depth                                  *)

ASSUME BackpressureAssumption ==
  /\ IsFiniteSet(Jobs)
  /\ Cancellable \subseteq Jobs
  /\ Depth \in Nat \ {0}

VARIABLES
  ingestState,   (* IngestState::state, the set of errors whose bit is set *)
  permits,       (* available permits of PersistHandle::sem                *)
  semWaiters,    (* jobs queued on the semaphore, in FIFO order            *)
  waiting,       (* PersistState::waiting_to_enqueue                       *)
  job,           (* per job: where enqueue, or the job itself, is          *)
  monitor        (* saturation monitor tasks that run, by the job whose
                    enqueue spawned them: their stage                      *)

backpressureVars == <<ingestState, permits, semWaiters, waiting, job, monitor>>

IngestStateError == {"PersistSaturated", "GracefulStop", "DiskFull"}

JobStages == {"new", "refused", "counted", "guarded", "parked", "woken",
              "granted", "enqueued", "done", "aborted"}

MonitorStages == {"asleep", "awake", "noWaiters", "capacity"}

BackpressureInit ==
  /\ ingestState = {}
  /\ permits = Depth
  /\ semWaiters = <<>>
  /\ waiting = 0
  /\ job = [j \in Jobs |-> "new"]
  /\ monitor = <<>>

At(j, s) == job' = [job EXCEPT ![j] = s]
Saturated == "PersistSaturated" \in ingestState

-----------------------------------------------------------------------------
(* PersistHandle::enqueue *)
TryAcquire(j) ==
  /\ job[j] = "new"
  /\ IF permits > 0 THEN permits' = permits - 1 /\ At(j, "enqueued")
                    ELSE At(j, "refused") /\ UNCHANGED permits
  /\ UNCHANGED <<ingestState, semWaiters, waiting, monitor>>

(* PersistState::set_saturated: count the waiter, then set the bit; the
   thread that set it spawns the monitor.                                  *)
CountWaiter(j) ==
  /\ job[j] = "refused"
  /\ waiting' = waiting + 1
  /\ At(j, "counted")
  /\ UNCHANGED <<ingestState, permits, semWaiters, monitor>>

(* The monitor spawned by every thread that finds the system saturated. *)
Spawn_Always(j, first) == [k \in DOMAIN monitor \cup {j} |-> IF k = j THEN "asleep" ELSE monitor[k]]

Spawn(j, first) ==
  IF first THEN [k \in DOMAIN monitor \cup {j} |-> IF k = j THEN "asleep" ELSE monitor[k]]
           ELSE monitor

SetSaturated(j) ==
  /\ job[j] = "counted"
  /\ ingestState' = ingestState \cup {"PersistSaturated"}
  /\ monitor' = Spawn(j, ~Saturated)
  /\ At(j, "guarded")
  /\ UNCHANGED <<permits, semWaiters, waiting>>

(* acquire_owned, with the wait guard held. *)
Acquire(j) ==
  /\ job[j] = "guarded"
  /\ IF permits > 0 THEN permits' = permits - 1 /\ At(j, "granted") /\ UNCHANGED semWaiters
                    ELSE semWaiters' = Append(semWaiters, j) /\ At(j, "parked") /\ UNCHANGED permits
  /\ UNCHANGED <<ingestState, waiting, monitor>>

(* The permit is held and the guard dropped: the job goes to a queue. *)
DropGuard(j) ==
  /\ job[j] \in {"woken", "granted"}
  /\ waiting' = waiting - 1
  /\ At(j, "enqueued")
  /\ UNCHANGED <<ingestState, permits, semWaiters, monitor>>

(* A permit released: to the first task queued on the semaphore, else back
   to the pool.  s is the next stage of the job that held it.              *)
Release_ToPool(j, s) ==
  /\ permits' = permits + 1
  /\ At(j, s)
  /\ UNCHANGED semWaiters

Release(j, s) ==
  IF semWaiters = <<>>
  THEN permits' = permits + 1 /\ At(j, s) /\ UNCHANGED semWaiters
  ELSE /\ job' = [job EXCEPT ![j] = s, ![Head(semWaiters)] = "woken"]
       /\ semWaiters' = Tail(semWaiters)
       /\ UNCHANGED permits

(* The future of enqueue is dropped while it waits: the guard goes with it,
   and its place in the semaphore's queue, or the permit it was woken with. *)
AbortEnqueue_LeaksGuard(j) ==
  /\ j \in Cancellable
  /\ \/ /\ job[j] = "parked"
        /\ semWaiters' = SelectSeq(semWaiters, LAMBDA k : k # j)
        /\ At(j, "aborted")
        /\ UNCHANGED permits
     \/ job[j] = "woken" /\ Release(j, "aborted")
  /\ UNCHANGED <<ingestState, waiting, monitor>>

AbortEnqueue(j) ==
  /\ j \in Cancellable
  /\ \/ /\ job[j] = "parked"
        /\ semWaiters' = SelectSeq(semWaiters, LAMBDA k : k # j)
        /\ At(j, "aborted")
        /\ UNCHANGED permits
     \/ job[j] = "woken" /\ Release(j, "aborted")
  /\ waiting' = waiting - 1
  /\ UNCHANGED <<ingestState, monitor>>

(* Context::mark_complete drops the permit of a job a worker finished. *)
CompleteJob(j) ==
  /\ job[j] = "enqueued"
  /\ Release(j, "done")
  /\ UNCHANGED <<ingestState, waiting, monitor>>

-----------------------------------------------------------------------------
(* saturation_monitor_task *)
MonitorAt(m, s) == monitor' = [monitor EXCEPT ![m] = s]

MonitorTick(m) ==
  /\ monitor[m] = "asleep"
  /\ MonitorAt(m, "awake")
  /\ UNCHANGED <<ingestState, permits, semWaiters, waiting, job>>

MonitorLoadsWaiting(m) ==
  /\ monitor[m] = "awake"
  /\ MonitorAt(m, IF waiting > 0 THEN "asleep" ELSE "noWaiters")
  /\ UNCHANGED <<ingestState, permits, semWaiters, waiting, job>>

HasSufficientCapacity(available) == available >= (Depth + 1) \div 2

MonitorReadsPermits(m) ==
  /\ monitor[m] = "noWaiters"
  /\ MonitorAt(m, IF HasSufficientCapacity(permits) THEN "capacity" ELSE "asleep")
  /\ UNCHANGED <<ingestState, permits, semWaiters, waiting, job>>

(* IngestState::unset, and the task ends. *)
MonitorClears(m) ==
  /\ monitor[m] = "capacity"
  /\ ingestState' = ingestState \ {"PersistSaturated"}
  /\ monitor' = [k \in DOMAIN monitor \ {m} |-> monitor[k]]
  /\ UNCHANGED <<permits, semWaiters, waiting, job>>

(* The other writers of IngestState: graceful_shutdown_handler and
   guard_disk_capacity.                                                    *)
SetGracefulStop ==
  /\ ingestState' = ingestState \cup {"GracefulStop"}
  /\ UNCHANGED <<permits, semWaiters, waiting, job, monitor>>

DiskCapacityOk ==
  /\ ingestState' = ingestState \ {"DiskFull"}
  /\ UNCHANGED <<permits, semWaiters, waiting, job, monitor>>

DiskCapacityLow ==
  /\ ingestState' = ingestState \cup {"DiskFull"}
  /\ UNCHANGED <<permits, semWaiters, waiting, job, monitor>>

MonitorStep(m) ==
  /\ m \in DOMAIN monitor
  /\ MonitorTick(m) \/ MonitorLoadsWaiting(m) \/ MonitorReadsPermits(m) \/ MonitorClears(m)

EnqueueStep(j) == CountWaiter(j) \/ SetSaturated(j) \/ Acquire(j) \/ DropGuard(j)

IngestStateStep == SetGracefulStop \/ DiskCapacityOk \/ DiskCapacityLow

-----------------------------------------------------------------------------
Holders == {j \in Jobs : job[j] \in {"woken", "granted", "enqueued"}}
Guards == {j \in Jobs : job[j] \in {"counted", "guarded", "parked", "woken", "granted"}}

BackpressureTypeOK ==
  /\ ingestState \subseteq IngestStateError
  /\ permits \in 0..Depth
  /\ semWaiters \in Seq(Jobs)
  /\ waiting \in Nat
  /\ job \in [Jobs -> JobStages]
  /\ DOMAIN monitor \subseteq Jobs
  /\ \A m \in DOMAIN monitor : monitor[m] \in MonitorStages

(* No permit and no wait guard is lost or counted twice: the free permits and
   the jobs that hold one make up the queue depth, the tasks parked on the
   semaphore are those its queue holds, and the waiter count the monitor
   looks at is the number of guards alive; also when a waiting call is
   dropped.                                                                *)
PermitsAccounted ==
  /\ permits + Cardinality(Holders) = Depth
  /\ waiting = Cardinality(Guards)
  /\ ToSet(semWaiters) = {j \in Jobs : job[j] = "parked"} /\ IsInjective(semWaiters)
  /\ semWaiters # <<>> => permits = 0

(* The asserts of saturation_monitor_task: a monitor runs exactly as long as
   the saturation bit is set, whatever other errors come and go, and there
   is only one, so each evaluation finds an error and the one that clears
   the bit finds it set.                                                   *)
OneMonitorWhileSaturated ==
  Cardinality(DOMAIN monitor) = IF Saturated THEN 1 ELSE 0
=============================================================================
