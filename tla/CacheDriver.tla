----------------------------- MODULE CacheDriver -----------------------------
(***************************************************************************)
(* cache_system/src/cache/driver.rs, for one key: a backend entry, at most *)
(* one running query (load) per key, and requests that share its result.   *)
(*                                                                         *)
(* A load runs inside the task of the request that started it.  It is      *)
(* wrapped in a CancellationSafeFuture, which hands it to a task of its    *)
(* own when that request is dropped.  The value of a load is opaque here;  *)
(* the module that uses the cache says what the loader reads.              *)
(*                                                                         *)
(* Cache::set (side loading) has no caller outside the tests of the        *)
(* repository and is left out; so is peek, which changes nothing.          *)
(***************************************************************************)
EXTENDS Naturals

CONSTANTS
    Tags,       \* the identities of the loads, CacheState::tag_counter
    None,       \* no entry, no running query, no value
    Canceled    \* what a receiver gets when the load died

VARIABLES
    cached,     \* CacheState::cached_entries of the key: a value or None
    running,    \* CacheState::running_queries of the key: a tag or None
    load        \* the future start_new_query builds, by tag

driverVars == <<cached, running, load>>

\* "idle": not started, or finished with its result broadcast; "loading": the
\* loader has not read yet; "read": the loader returned.
Stages == {"idle", "loading", "read"}

NoLoad == [stage |-> "idle", extra |-> None, v |-> None]

DriverInit ==
    /\ cached = None
    /\ running = None
    /\ load = [t \in Tags |-> NoLoad]

\* CacheDriver::get_with_status, the part under the state lock.
Status ==
    IF cached # None THEN "Hit"
    ELSE IF running # None THEN "MissAlreadyLoading"
    ELSE "Miss"

start_new_query(t, extra) ==
    /\ load' = [load EXCEPT ![t] = [NoLoad EXCEPT !.stage = "loading", !.extra = extra]]
    /\ running' = t
    /\ UNCHANGED cached

get(t, extra) ==
    IF Status = "Miss" THEN start_new_query(t, extra) ELSE UNCHANGED driverVars

\* The load whose receiver the request is left with.
Receiver(t) == IF Status = "Miss" THEN t ELSE running

\* loader.load(k, extra) returns v.
Loaded(t, v) ==
    /\ load[t].stage = "loading"
    /\ load' = [load EXCEPT ![t].stage = "read", ![t].v = v]
    /\ UNCHANGED <<cached, running>>

\* A plausible bug: the running state is left behind.
finalize_KeepsRunning(t, v) ==
    /\ cached' = IF running = t /\ v # None THEN v ELSE cached
    /\ UNCHANGED running

\* ResultSubmitter::finalize: only the query in charge of the key clears the
\* running state and, when it has a value, stores it.
finalize(t, v) ==
    IF running = t
    THEN /\ running' = None
         /\ cached' = IF v = None THEN cached ELSE v
    ELSE UNCHANGED <<cached, running>>

\* submit, then tx_main.send(v), in one poll.
Submit(t) ==
    /\ load[t].stage = "read"
    /\ finalize(t, load[t].v)
    /\ load' = [load EXCEPT ![t] = NoLoad]

\* The loader panics: ResultSubmitter::drop finalizes without a value and the
\* receivers learn that the sender is gone.
Panic(t) ==
    /\ load[t].stage = "loading"
    /\ finalize(t, None)
    /\ load' = [load EXCEPT ![t] = NoLoad]

InFlight(t) == load[t].stage \in {"loading", "read"}

\* A plausible bug: the load is dropped with the request that drives it.
drop_NoRescue(t) ==
    IF t # None /\ InFlight(t)
    THEN finalize(t, None) /\ load' = [load EXCEPT ![t] = NoLoad]
    ELSE UNCHANGED driverVars

\* The request that drives load t is dropped.  CancellationSafeFuture::drop
\* spawns the rest of the future while running_queries refers to it, and it
\* does until the load is submitted: the load goes on as if nothing happened.
drop(t) == UNCHANGED driverVars

\* TtlPolicy or LruPolicy removes the entry.
Evict ==
    /\ cached # None
    /\ cached' = None
    /\ UNCHANGED <<running, load>>

\* RemoveIfHandle::remove_if with the predicate's answer for the entry.
remove_if(outdated) ==
    /\ cached' = IF outdated THEN None ELSE cached
    /\ UNCHANGED <<running, load>>

=============================================================================
