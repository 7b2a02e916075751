--------------------------- MODULE CircuitBreaker ---------------------------
(***************************************************************************)
(* The circuit breakers of a router, one for every upstream ingester:      *)
(* request counters that observe every answer, a probing regime that lets  *)
(* NumProbes requests through per PROBE_INTERVAL, and a task that resets   *)
(* the counters of a closed circuit.  An operator that ends in "At" gives  *)
(* the value a field of upstream u's breaker takes.                        *)
(***************************************************************************)
EXTENDS Naturals, FiniteSets, FiniteSetsExt

CONSTANTS
  NumUpstreams,   (* ingesters the router is configured with, 1..NumUpstreams
                     in the order of Balancer::endpoints                     *)
  NumProbes,      (* CircuitBreaker::num_probes                              *)
  CountBound      (* bound: the counters do not count further than this      *)

ASSUME CircuitBreakerAssumption ==
  /\ NumUpstreams \in Nat \ {0}
  /\ NumProbes \in Nat \ {0}
  /\ CountBound \in Nat /\ CountBound > NumProbes

Upstream == 1 .. NumUpstreams

VARIABLES
  requests,       (* CircuitBreaker::requests: successes and errors          *)
  probes,         (* CircuitBreaker::probes: probes_started of the current
                     probe window; 0 before the first window and once
                     PROBE_INTERVAL has passed since the last one began      *)
  reset           (* reset_task: has it read a closed circuit's counters and
                     not yet stored the new ones                             *)

breakerVars == <<requests, probes, reset>>

Counts == [successes : 0 .. CountBound, errors : 0 .. CountBound]

(* CircuitBreaker::new, which calls set_healthy *)
BreakerInit ==
  /\ requests = [u \in Upstream |-> [successes |-> NumProbes, errors |-> 0]]
  /\ probes = [u \in Upstream |-> 0]
  /\ reset = [u \in Upstream |-> FALSE]

total(c) == c.successes + c.errors

(* is_probing and is_healthy; MAX_ERROR_RATIO is 4/5 *)
is_probing(c) == total(c) < NumProbes
is_healthy(c) == 5 * (c.errors + 1) < 4 * (c.successes + 1)

(* CircuitBreaker::is_healthy *)
Healthy(u) == ~is_probing(requests[u]) /\ is_healthy(requests[u])

(* RequestCounter::observe, for a write that failed or not *)
observe(c, ok) ==
  LET Count(n) == Min({n + 1, CountBound})
  IN IF ok THEN [c EXCEPT !.successes = Count(@)] ELSE [c EXCEPT !.errors = Count(@)]

-----------------------------------------------------------------------------
(* CircuitBreaker::should_probe: whether it returns true, and the counters
   it then leaves.  The first probe of a window forgets what was counted;
   every probe is counted in probes.                                         *)
should_probe(u) == ~Healthy(u) /\ probes[u] < NumProbes

CountsOnProbe_Closed(u) ==
  IF probes[u] > 0 THEN requests[u] ELSE [successes |-> NumProbes, errors |-> 0]

CountsOnProbe(u) ==
  IF probes[u] > 0 THEN requests[u] ELSE [successes |-> 0, errors |-> 0]

WindowOver_NoReset(u) == probes[u] > 0 /\ UNCHANGED breakerVars

(* PROBE_INTERVAL has passed since the window began *)
WindowOver(u) ==
  /\ probes[u] > 0
  /\ probes' = [probes EXCEPT ![u] = 0]
  /\ UNCHANGED <<requests, reset>>

-----------------------------------------------------------------------------
(* reset_closed_state_counters: the read and the store are two steps *)
ResetRead(u) ==
  /\ ~reset[u]
  /\ Healthy(u)
  /\ reset' = [reset EXCEPT ![u] = TRUE]
  /\ UNCHANGED <<requests, probes>>

ResetStore(u) ==
  /\ reset[u]
  /\ reset' = [reset EXCEPT ![u] = FALSE]
  /\ requests' = [requests EXCEPT ![u] = [successes |-> NumProbes, errors |-> 0]]
  /\ UNCHANGED probes

BreakerStep ==
  \E u \in Upstream : WindowOver(u) \/ ResetRead(u) \/ ResetStore(u)
=============================================================================
