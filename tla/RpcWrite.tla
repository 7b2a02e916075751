------------------------------ MODULE RpcWrite ------------------------------
(***************************************************************************)
(* The router's RpcWrite handler: every client write takes a snapshot of   *)
(* the healthy upstreams, with at most one that is due for a probe, and    *)
(* NCopies write loops share the snapshot until each of them has had its   *)
(* write acknowledged by an upstream of its own.  The loops of a write are *)
(* polled by one task: a loop's end is seen by the handler in the same     *)
(* step, and an error drops the loops that have not ended.                 *)
(***************************************************************************)
EXTENDS CircuitBreaker, Sequences, SequenceOperators

CONSTANTS
  Writes,         (* client writes the router handles at the same time       *)
  NCopies         (* RpcWrite::n_copies                                      *)

ASSUME RpcWriteAssumption == NCopies \in 1 .. NumUpstreams

VARIABLES
  answers,        (* does the upstream answer a write with success now       *)
  write           (* per write: the state of RpcWrite::write                 *)

vars == <<requests, probes, reset, answers, write>>

Loops == 1 .. NCopies
None == 0                      (* no upstream *)
(* "Failed" stands for the errors of a handler that observed no
   acknowledgement: NoHealthyUpstreams, NotEnoughReplicas and Timeout.       *)
Results == {"Ok", "PartialWrite", "Failed"}
LoopStages == {"new", "calling", "answered", "sleeping", "acked"}

(* A write: where it is, its UpstreamSnapshot (the clients in order, the
   UpstreamState of each and the cursor), its loops, the upstreams whose
   acknowledgement a loop observed, and the result.                          *)
Idle == [at |-> "idle", clients |-> <<>>, state |-> <<>>, idx |-> 0,
         stage |-> [k \in Loops |-> "new"], upstream |-> [k \in Loops |-> None],
         acks |-> {}, result |-> "none"]

Done(w, result) == [Idle EXCEPT !.at = "done", !.result = result, !.acks = w.acks]

Init ==
  /\ BreakerInit
  /\ answers = [u \in Upstream |-> TRUE]
  /\ write = [w \in Writes |-> Idle]

Set(w, val) == write' = [write EXCEPT ![w] = val]

-----------------------------------------------------------------------------
(* Balancer::endpoints: the healthy upstreams in order, the first unhealthy
   one that should_probe in front of them.                                   *)
ProbeOf == LET P == {u \in Upstream : should_probe(u)}
           IN IF P = {} THEN None ELSE Min(P)

Endpoints ==
  LET healthy == Keep([u \in Upstream |-> u], {u \in Upstream : Healthy(u)})
  IN IF ProbeOf = None THEN healthy ELSE <<ProbeOf>> \o healthy

(* The first part of RpcWrite::write, up to the first poll of the loops.
   The thread's COUNTER says where the snapshot's cursor starts.             *)
TakeSnapshot(w, counter) ==
  /\ write[w].at \in {"idle", "done"}
  /\ LET eps == Endpoints
         probe == ProbeOf # None
         i == IF probe THEN 0 ELSE counter
     IN /\ counter \in 0 .. Max({Len(eps), 1}) - 1
        /\ IF eps = <<>> THEN Set(w, Done(Idle, "Failed"))
           ELSE IF Len(eps) < NCopies /\ ~probe THEN Set(w, Done(Idle, "Failed"))
           ELSE Set(w, [Idle EXCEPT !.at = "starting", !.clients = eps,
                                    !.state = [j \in DOMAIN eps |-> "Available"],
                                    !.idx = (i + Len(eps) - 1) % Len(eps)])
        /\ IF probe
           THEN /\ requests' = [requests EXCEPT ![ProbeOf] = CountsOnProbe(ProbeOf)]
                /\ probes' = [probes EXCEPT ![ProbeOf] = @ + 1]
           ELSE UNCHANGED <<requests, probes>>
  /\ UNCHANGED <<reset, answers>>

(* UpstreamSnapshot::next: the first place after the cursor whose client is
   available, going round once (0 if there is none).                         *)
NextClient(s) ==
  LET n == Len(s.clients)
      Place(d) == ((s.idx + d) % n) + 1
      free == {d \in 1 .. n : s.state[Place(d)] = "Available"}
  IN IF free = {} THEN 0 ELSE Place(Min(free))

(* The handler's result when a loop ends with an error: the results that
   came before were all successes.                                           *)
ErrorOf_NeverPartial(s) == "Failed"

ErrorOf(s) == IF \E k \in Loops : s.stage[k] = "acked" THEN "PartialWrite" ELSE "Failed"

(* One round of write_loop, up to its await: take the next client and call
   it; without one the loop, and with it the handler, ends.                  *)
Attempt_KeepsAvailable(w, k, at) ==
  LET s == write[w]
      j == NextClient(s)
  IN Set(w, IF j = 0 THEN Done(s, ErrorOf(s))
            ELSE [s EXCEPT !.at = at, !.idx = j - 1, !.stage[k] = "calling", !.upstream[k] = j])

Attempt(w, k, at) ==
  LET s == write[w]
      j == NextClient(s)
  IN Set(w, IF j = 0 THEN Done(s, ErrorOf(s))
            ELSE [s EXCEPT !.at = at, !.idx = j - 1, !.stage[k] = "calling",
                           !.upstream[k] = j, !.state[j] = "Yielded"])

(* The first poll of the loops: one after the other, in one poll of the
   handler's task, which sees no answer of the network before the last.      *)
StartLoop(w) ==
  /\ write[w].at = "starting"
  /\ LET k == Min({l \in Loops : write[w].stage[l] = "new"})
     IN Attempt(w, k, IF k = NCopies THEN "running" ELSE "starting")
  /\ UNCHANGED <<requests, probes, reset, answers>>

RetryLoop(w, k) ==
  /\ write[w].at = "running"
  /\ write[w].stage[k] = "sleeping"
  /\ Attempt(w, k, "running")
  /\ UNCHANGED <<requests, probes, reset, answers>>

(* The upstream that loop k of write w calls *)
Called(w, k) == write[w].clients[write[w].upstream[k]]

InCall(stage) == stage \in {"calling", "answered"}

Calling(w, k) == write[w].at = "running" /\ InCall(write[w].stage[k])

(* The upstream stores the write and answers; the answer is on its way. *)
Store(w, k) ==
  /\ write[w].at = "running"
  /\ write[w].stage[k] = "calling"
  /\ answers[Called(w, k)]
  /\ Set(w, [write[w] EXCEPT !.stage[k] = "answered"])
  /\ UNCHANGED <<requests, probes, reset, answers>>

(* The call returns Ok: UpstreamSnapshot::remove, and the handler returns
   when it was the last loop.                                                *)
CallOk(w, k) ==
  /\ write[w].at = "running"
  /\ write[w].stage[k] = "answered"
  /\ requests' = [requests EXCEPT ![Called(w, k)] = observe(@, TRUE)]
  /\ LET s == write[w]
         acked == [s EXCEPT !.stage[k] = "acked", !.upstream[k] = None,
                            !.state[s.upstream[k]] = "Used",
                            !.acks = @ \cup {Called(w, k)}]
     IN Set(w, IF \A l \in Loops : acked.stage[l] = "acked" THEN Done(acked, "Ok") ELSE acked)
  /\ UNCHANGED <<probes, reset, answers>>

(* The call returns an error, or its request timeout passes, whether or not
   the upstream stored the write: the client is dropped, so it is available
   again, and the loop sleeps.                                               *)
CallErr(w, k) ==
  /\ Calling(w, k)
  /\ ~answers[Called(w, k)]
  /\ requests' = [requests EXCEPT ![Called(w, k)] = observe(@, FALSE)]
  /\ LET s == write[w]
     IN Set(w, [s EXCEPT !.stage[k] = "sleeping", !.upstream[k] = None,
                         !.state[s.upstream[k]] = "Available"])
  /\ UNCHANGED <<probes, reset, answers>>

(* RPC_TIMEOUT passes for loop k.  A call it was waiting for is dropped, and
   nobody observes how that call ended.                                      *)
LoopTimeout(w, k) ==
  /\ write[w].at = "running"
  /\ \/ write[w].stage[k] = "sleeping"
     \/ Calling(w, k) /\ ~answers[Called(w, k)]
  /\ Set(w, Done(write[w], ErrorOf(write[w])))
  /\ UNCHANGED <<requests, probes, reset, answers>>

(* The client goes away, and the handler is dropped with its loops. *)
Disconnect(w) ==
  /\ write[w].at = "running"
  /\ Set(w, Idle)
  /\ UNCHANGED <<requests, probes, reset, answers>>

-----------------------------------------------------------------------------
(* An ingester, or the network to it, stops or starts to work. *)
Toggle(u) ==
  /\ answers' = [answers EXCEPT ![u] = ~@]
  /\ UNCHANGED <<requests, probes, reset, write>>

LoopStep(w, k) == RetryLoop(w, k) \/ Store(w, k) \/ CallOk(w, k) \/ CallErr(w, k)

(* The handler up to its await *)
Begin(w) ==
  \/ \E counter \in 0 .. NumUpstreams - 1 : TakeSnapshot(w, counter)
  \/ StartLoop(w)

WriteStep(w) ==
  \/ Begin(w)
  \/ \E k \in Loops : LoopStep(w, k) \/ LoopTimeout(w, k)
  \/ Disconnect(w)

Next ==
  \/ \E w \in Writes : WriteStep(w)
  \/ BreakerStep /\ UNCHANGED <<answers, write>>
  \/ \E u \in Upstream : Toggle(u)

Spec == Init /\ [][Next]_vars

(* Clients keep writing, the runtime polls the loops and timers fire.
   Nothing makes an ingester fail or recover, or a client go away.           *)
Fairness ==
  /\ \A w \in Writes :
       /\ WF_vars(Begin(w))
       /\ \A k \in Loops : WF_vars(LoopStep(w, k))
  /\ \A u \in Upstream : WF_vars(WindowOver(u) /\ UNCHANGED <<answers, write>>)

FairSpec == Spec /\ Fairness
-----------------------------------------------------------------------------
TypeOK ==
  /\ requests \in [Upstream -> Counts]
  /\ probes \in [Upstream -> 0 .. NumProbes]
  /\ reset \in [Upstream -> BOOLEAN]
  /\ answers \in [Upstream -> BOOLEAN]
  /\ \A w \in Writes :
       /\ write[w].at \in {"idle", "starting", "running", "done"}
       /\ write[w].stage \in [Loops -> LoopStages]
       /\ write[w].acks \subseteq Upstream
       /\ write[w].result \in {"none"} \cup Results

(* What the handler returns follows from the acknowledgements it observed: Ok
   only when NCopies distinct upstreams hold the write, PartialWrite only when
   some but fewer acknowledged it and then at least one holds it, any other
   error only when none was observed.  An error is a lower bound, "best-effort"
   as the code says: upstreams may hold more copies than it tells
   (RpcWrite::write with its concurrent write loops over one snapshot).      *)
ResultMatchesAcks ==
  /\ TypeOK
  /\ \A w \in Writes : write[w].at = "done" =>
       LET n == Cardinality(write[w].acks)
       IN /\ write[w].result = "Ok" <=> n = NCopies
          /\ write[w].result = "PartialWrite" <=> n \in 1 .. NCopies - 1

(* What a step that makes loop k of write w call an upstream must not do: call
   one that has acknowledged the write, or that another loop is calling.     *)
SentOnce(w, k) ==
  write[w].at \in {"starting", "running"}
    /\ write[w].stage[k] # "calling" /\ write'[w].stage[k] = "calling" =>
    LET u == write'[w].clients[write'[w].upstream[k]]
    IN /\ u \notin write[w].acks
       /\ \A l \in Loops : InCall(write[w].stage[l]) => Called(w, l) # u

(* An upstream is never sent a write it is known to have acknowledged, nor a
   write that another loop is sending it at the moment (UpstreamSnapshot::next,
   remove and the drop of an Upstream).                                      *)
NeverResent == [][\A w \in Writes, k \in Loops : SentOnce(w, k)]_vars

(* A call to upstream u returns in this step, with success or without. *)
Returned(u, ok) ==
  /\ requests'[u] = observe(requests[u], ok)
  /\ \E w \in Writes, k \in Loops :
       /\ Calling(w, k) /\ Called(w, k) = u
       /\ IF ok THEN u \in write'[w].acks ELSE write'[w].stage[k] = "sleeping"

(* What may close the circuit of upstream u. *)
ClosedByAnswer(u) ==
  ~Healthy(u) /\ Healthy(u)' =>
    \/ Returned(u, TRUE)
    \/ is_probing(requests[u]) /\ Returned(u, FALSE)
    \/ reset[u] /\ ~reset'[u]

(* A circuit that is open closes only when a call to its upstream returns,
   whatever the order of probes, late answers and window changes: with success,
   or with the error that completes the NumProbes answers while their error
   ratio is low.  A probe that is sent, a window that passes or an answer that
   is dropped with its handler never closes it.  The one exception is the reset
   task's store, which may follow a read made while the circuit was still
   closed (CircuitBreaker::should_probe, observe, reset_closed_state_counters). *)
ClosesOnAnswer == [][\A u \in Upstream : ClosedByAnswer(u)]_vars

(* The write workload probes fast enough: a window of an open circuit is not
   over before its probes were sent and answered or dropped.                 *)
ProbesInTime(u) ==
  Healthy(u) \/ /\ probes[u] = NumProbes
                /\ \A w \in Writes, k \in Loops : Calling(w, k) => Called(w, k) # u

Workload ==
  /\ <>[][\A u \in Upstream : probes'[u] < probes[u] => ProbesInTime(u)]_vars
  /\ <>[][\A w \in Writes : write[w].at = "running" => write'[w].at # "idle"]_vars

(* Once all upstreams answer again, every circuit closes for good, provided
   that there are healthy upstreams for all but one of the copies, that the
   probes are sent in time and that clients stay for the answer
   (Balancer::endpoints puts at most one probe in a snapshot).               *)
RecoversWithQuorum ==
  /\ <>[](\A u \in Upstream : answers[u])
  /\ <>[](Cardinality({u \in Upstream : Healthy(u)}) >= NCopies - 1)
  /\ Workload
  => <>[](\A u \in Upstream : Healthy(u))
=============================================================================
