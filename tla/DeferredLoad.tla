---------------------------- MODULE DeferredLoad ----------------------------
(***************************************************************************)
(* DeferredLoad: a value that one background task loads after a random     *)
(* delay, or as soon as somebody asks for it.  The ingester's partitions   *)
(* hold their sort key, and tables and namespaces their names, this way.   *)
(*                                                                         *)
(* The value container is read and changed under one lock; the            *)
(* notification of the callers (tokio's Notify) is outside of it.          *)
(***************************************************************************)
EXTENDS Naturals

CONSTANT Callers   (* threads that call get *)

VARIABLES
  value,   (* State: "unresolved", "loading", "resolved"                   *)
  demand,  (* was the oneshot sent that wakes the task?                    *)
  task,    (* background task: "sleeping", "loading", "loaded", "notifying", "done" *)
  loads,   (* how often the loader was run                                 *)
  caller   (* [Callers -> where get is]                                    *)

loadVars == <<value, demand, task, loads, caller>>

CallerStages == {"idle", "unlocked", "waiting", "woken", "returned", "dropped"}

LoadInit ==
  /\ value = "unresolved" /\ demand = FALSE
  /\ task = "sleeping" /\ loads = 0
  /\ caller = [c \in Callers |-> "idle"]

-----------------------------------------------------------------------------
(* get_load_waker, under the lock: the first to ask wakes the task. *)
GetLoadWaker ==
  /\ value # "resolved"
  /\ demand' = (demand \/ value = "unresolved")
  /\ value' = "loading"

(* get returns a resolved value at once, and asks for it otherwise. *)
GetResolved(c) ==
  /\ caller[c] = "idle" /\ value = "resolved"
  /\ caller' = [caller EXCEPT ![c] = "returned"]
  /\ UNCHANGED <<value, demand, task, loads>>

GetPending(c) ==
  /\ caller[c] = "idle"
  /\ GetLoadWaker
  /\ caller' = [caller EXCEPT ![c] = "unlocked"]
  /\ UNCHANGED <<task, loads>>

(* waker.notified().await, after the lock was released. *)
Subscribe(c) ==
  /\ caller[c] = "unlocked"
  /\ caller' = [caller EXCEPT ![c] = "waiting"]
  /\ UNCHANGED <<value, demand, task, loads>>

(* The woken caller locks again and clones the value. *)
ReadValue(c) ==
  /\ caller[c] = "woken"
  /\ caller' = [caller EXCEPT ![c] = "returned"]
  /\ UNCHANGED <<value, demand, task, loads>>

(* The future of get is dropped at its await. *)
DropGet(c) ==
  /\ caller[c] \in {"waiting", "woken"}
  /\ caller' = [caller EXCEPT ![c] = "dropped"]
  /\ UNCHANGED <<value, demand, task, loads>>

PrefetchNow ==
  /\ GetLoadWaker
  /\ UNCHANGED <<task, loads, caller>>

-----------------------------------------------------------------------------
(* The background task.  It wakes by its timer, or by the demand of a caller,
   whichever is first.                                                     *)
WakeTask(by) ==
  /\ task = "sleeping"
  /\ by = "demand" => demand
  /\ task' = "loading" /\ loads' = loads + 1
  /\ UNCHANGED <<value, demand, caller>>

LoaderReturns ==
  /\ task = "loading"
  /\ task' = "loaded"
  /\ UNCHANGED <<value, demand, loads, caller>>

(* The task ends without a look at the waiters. *)
Resolve_NoWaiters ==
  /\ task = "loaded"
  /\ value' = "resolved"
  /\ task' = "done"
  /\ UNCHANGED <<demand, loads, caller>>

(* It stores the value under the lock, *)
Resolve ==
  /\ task = "loaded"
  /\ value' = "resolved"
  /\ task' = IF value = "loading" THEN "notifying" ELSE "done"
  /\ UNCHANGED <<demand, loads, caller>>

(* and then, outside of it, wakes the callers that wait at that moment:
   notify_waiters keeps no permit for those that come later.               *)
NotifyWaiters ==
  /\ task = "notifying"
  /\ task' = "done"
  /\ caller' = [c \in Callers |-> IF caller[c] = "waiting" THEN "woken" ELSE caller[c]]
  /\ UNCHANGED <<value, demand, loads>>

-----------------------------------------------------------------------------
Task == (\E by \in {"timer", "demand"} : WakeTask(by)) \/ LoaderReturns \/ Resolve \/ NotifyWaiters

Get(c) == GetResolved(c) \/ GetPending(c) \/ Subscribe(c) \/ ReadValue(c)

-----------------------------------------------------------------------------
(* The assertion of get_load_waker (deferred_load.rs:151): as long as a caller
   can still be given a waker, the task that will use it has not finished. *)
TaskRunsWhileAwaited == value # "resolved" => task # "done"

(* The unreachable arm of get (deferred_load.rs:288): whoever is woken finds
   the value.                                                              *)
WokenFindsValue == \A c \in Callers : caller[c] = "woken" => value = "resolved"
=============================================================================
