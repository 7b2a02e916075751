-------------------------- MODULE RpcWrite_proofs --------------------------
(***************************************************************************)
(* Proofs about the router's replicated write, for any number of upstreams *)
(* and copies, any settings of the circuit breakers and any number of      *)
(* requests: the answer tells what was acknowledged, no upstream is sent   *)
(* what it already acknowledged, and an open circuit closes only on an     *)
(* answer or in the reset task's race.                                     *)
(***************************************************************************)
EXTENDS RpcWrite, SequenceLemmas, FiniteSetTheorems

(* The provers' time for a leaf that does not name one. *)
USE ZenonT(5), SMTT(20)

\* A set of natural numbers that is not empty has its minimum in it.
LEMMA MinInSet ==
  ASSUME NEW S, S \subseteq Nat, S # {}
  PROVE  Min(S) \in S /\ \A y \in S : Min(S) <= y
<1>1. \E x \in S : \A y \in S : x <= y
  BY LeastElement, Zenon
<1>2. QED
  BY <1>1, Zenon DEF Min

ClientStates == {"Available", "Yielded", "Used"}

WriteState == [at : {"idle", "starting", "running", "done"}, clients : Seq(Upstream),
               state : Seq(ClientStates), idx : Nat, stage : [Loops -> LoopStages],
               upstream : [Loops -> Nat], acks : SUBSET Upstream,
               result : {"none"} \cup Results]

AckedLoops(s) == {k \in Loops : s.stage[k] = "acked"}

\* The snapshot: its clients are distinct upstreams, a client is handed to
\* at most one loop at a time, and a used one is an upstream that acknowledged.
SnapshotInv(s) ==
  /\ s.clients # <<>> /\ IsInjective(s.clients)
  /\ Len(s.state) = Len(s.clients)
  /\ \A k \in Loops : InCall(s.stage[k]) =>
       s.upstream[k] \in 1 .. Len(s.clients) /\ s.state[s.upstream[k]] = "Yielded"
  /\ \A k, l \in Loops : InCall(s.stage[k]) /\ InCall(s.stage[l])
       /\ s.upstream[k] = s.upstream[l] => k = l
  /\ \A j \in 1 .. Len(s.clients) : s.state[j] = "Used" <=> s.clients[j] \in s.acks

\* The loops: they are started in order, and one of them has not ended.
LoopsInv(s) ==
  /\ Cardinality(s.acks) = Cardinality(AckedLoops(s))
  /\ \E k \in Loops : s.stage[k] # "acked"
  /\ s.at = "starting" => \E k \in Loops : s.stage[k] = "new"
  /\ \A k, l \in Loops : s.stage[k] = "new" /\ k < l => s.stage[l] = "new"

ResultInv(s) ==
  LET n == Cardinality(s.acks)
  IN /\ s.result = "Ok" <=> n = NCopies
     /\ s.result = "PartialWrite" <=> n \in 1 .. NCopies - 1

WriteInv(s) ==
  /\ s \in WriteState
  /\ s.at \in {"starting", "running"} => SnapshotInv(s) /\ LoopsInv(s)
  /\ s.at = "done" => ResultInv(s)

BreakerType ==
  /\ requests \in [Upstream -> Counts]
  /\ probes \in [Upstream -> 0 .. NumProbes]
  /\ reset \in [Upstream -> BOOLEAN]
  /\ answers \in [Upstream -> BOOLEAN]

IInv ==
  /\ BreakerType
  /\ write \in [Writes -> WriteState]
  /\ \A w \in Writes : WriteInv(write[w])

-----------------------------------------------------------------------------
Live == {"starting", "running"}

\* The loops of a request, and the upstreams, are finitely many.
LEMMA LoopsFinite == IsFiniteSet(Loops) /\ Cardinality(Loops) = NCopies /\ NCopies \in Nat \ {0}
<1>1. NCopies \in Nat \ {0}
  BY RpcWriteAssumption, CircuitBreakerAssumption
<1>2. QED
  BY <1>1, FS_Interval DEF Loops

\* So are the upstreams, and those that acknowledged.
LEMMA UpstreamsFinite == IsFiniteSet(Upstream) /\ \A S \in SUBSET Upstream : IsFiniteSet(S)
<1>1. IsFiniteSet(Upstream)
  BY CircuitBreakerAssumption, FS_Interval DEF Upstream
<1>2. QED
  BY <1>1, FS_Subset

\* The number of loops that ended: none, all or some of them.
LEMMA AckedCount ==
  ASSUME NEW s
  PROVE  /\ Cardinality(AckedLoops(s)) \in 0 .. NCopies
         /\ Cardinality(AckedLoops(s)) = 0 <=> \A k \in Loops : s.stage[k] # "acked"
         /\ Cardinality(AckedLoops(s)) = NCopies <=> \A k \in Loops : s.stage[k] = "acked"
<1> DEFINE A == AckedLoops(s)
<1>1. A \subseteq Loops
  BY DEF AckedLoops
<1>2. IsFiniteSet(A) /\ Cardinality(A) <= NCopies /\ (Cardinality(A) = NCopies => A = Loops)
  BY <1>1, LoopsFinite, FS_Subset
<1>3. Cardinality(A) \in Nat
  BY <1>2, FS_CardinalityType
<1>4. Cardinality(A) = 0 <=> A = {}
  BY <1>2, FS_EmptySet
<1>5. A = {} <=> \A k \in Loops : s.stage[k] # "acked"
  BY DEF AckedLoops
<1>6. A = Loops <=> \A k \in Loops : s.stage[k] = "acked"
  BY DEF AckedLoops
<1>7. A = Loops => Cardinality(A) = NCopies
  BY LoopsFinite
<1> HIDE DEF A
<1>8. QED
  <2>1. Cardinality(A) \in 0 .. NCopies
    BY <1>2, <1>3, LoopsFinite
  <2>2. QED
    BY <2>1, <1>2, <1>4, <1>5, <1>6, <1>7 DEF A

\* The states in which no loop runs are states.
LEMMA IdleType == Idle \in WriteState
BY EmptySeq DEF Idle, WriteState, LoopStages, None

\* A request that ended is one too.
LEMMA DoneType ==
  ASSUME NEW s \in WriteState, NEW r \in Results
  PROVE  /\ Done(s, r) \in WriteState
         /\ Done(s, r).at = "done" /\ Done(s, r).acks = s.acks /\ Done(s, r).result = r
BY IdleType, Zenon DEF Done, WriteState

\* An error says what was acknowledged.
LEMMA ErrorMatches ==
  ASSUME NEW s, WriteInv(s), s.at \in Live
  PROVE  WriteInv(Done(s, ErrorOf(s)))
<1> DEFINE t == Done(s, ErrorOf(s))
<1>1. s \in WriteState /\ LoopsInv(s)
  BY DEF WriteInv, Live
<1>2. ErrorOf(s) \in Results
  BY DEF ErrorOf, Results
<1>3. t \in WriteState /\ t.at = "done" /\ t.acks = s.acks /\ t.result = ErrorOf(s)
  BY <1>1, <1>2, DoneType
<1>4. ResultInv(t)
  <2>1. Cardinality(s.acks) = Cardinality(AckedLoops(s)) /\ Cardinality(s.acks) # NCopies
    BY <1>1, AckedCount DEF LoopsInv
  <2>2. Cardinality(s.acks) \in 0 .. NCopies - 1
    BY <2>1, AckedCount, LoopsFinite
  <2>3. ErrorOf(s) = IF Cardinality(s.acks) = 0 THEN "Failed" ELSE "PartialWrite"
    BY <2>1, AckedCount DEF ErrorOf
  <2>4. QED
    BY <1>3, <2>2, <2>3, LoopsFinite DEF ResultInv
<1>5. QED
  BY <1>3, <1>4 DEF WriteInv

\* UpstreamSnapshot::next yields a client that is available, or nothing.
LEMMA NextClientAvailable ==
  ASSUME NEW s \in WriteState, s.clients # <<>>, Len(s.state) = Len(s.clients),
         NextClient(s) # 0
  PROVE  NextClient(s) \in 1 .. Len(s.clients) /\ s.state[NextClient(s)] = "Available"
<1> DEFINE n == Len(s.clients)
           Place(d) == ((s.idx + d) % n) + 1
           free == {d \in 1 .. n : s.state[Place(d)] = "Available"}
<1>1. n \in Nat \ {0} /\ s.idx \in Nat
  BY EmptySeq DEF WriteState
<1>2. \A d \in 1 .. n : Place(d) \in 1 .. n
  BY <1>1
<1>3. NextClient(s) = IF free = {} THEN 0 ELSE Place(Min(free))
  BY DEF NextClient
<1>4. free # {} /\ free \subseteq Nat
  BY <1>1, <1>3
<1>5. Min(free) \in free
  BY <1>4, MinInSet, Zenon
<1>6. QED
  BY <1>2, <1>3, <1>4, <1>5, Zenon

\* Loop k of s is the first that was not started; another was not started.
FirstNew(s, k) == \A l \in Loops : s.stage[l] = "new" => k <= l
OtherNew(s, k) == \E l \in Loops : l # k /\ s.stage[l] = "new"

\* s after loop k took client j.
Yielding(s, k, at, j) == [s EXCEPT !.at = at, !.idx = j - 1, !.stage[k] = "calling",
                                   !.upstream[k] = j, !.state[j] = "Yielded"]

\* A loop takes the next client.
LEMMA AttemptKeeps ==
  ASSUME NEW s, WriteInv(s), s.at \in Live, NEW k \in Loops, s.stage[k] \in {"new", "sleeping"},
         FirstNew(s, k), NEW at \in Live, at = "starting" => OtherNew(s, k),
         NEW j, j = NextClient(s), j # 0, NEW t, t = Yielding(s, k, at, j)
  PROVE  WriteInv(t) /\ j \in 1 .. Len(s.clients) /\ s.state[j] = "Available"
<1>1. s \in WriteState /\ SnapshotInv(s) /\ LoopsInv(s)
  BY DEF WriteInv, Live
<1>2. j \in 1 .. Len(s.clients) /\ s.state[j] = "Available"
  BY <1>1, NextClientAvailable DEF SnapshotInv
<1>3. j \in 1 .. Len(s.state)
  BY <1>1, <1>2 DEF SnapshotInv
<1>4. /\ t.at = at /\ t.clients = s.clients /\ t.state = [s.state EXCEPT ![j] = "Yielded"]
      /\ t.stage = [s.stage EXCEPT ![k] = "calling"] /\ t.upstream = [s.upstream EXCEPT ![k] = j]
      /\ t.acks = s.acks
  BY <1>1 DEF WriteState, Yielding
<1>5. t \in WriteState
  <2>1. [s.state EXCEPT ![j] = "Yielded"] \in Seq(ClientStates) /\ j - 1 \in Nat
    BY <1>1, <1>3, SMT DEF WriteState, ClientStates
  <2>2. [s.stage EXCEPT ![k] = "calling"] \in [Loops -> LoopStages]
    BY <1>1 DEF WriteState, LoopStages
  <2>3. [s.upstream EXCEPT ![k] = j] \in [Loops -> Nat]
    BY <1>1, <1>2, SMT DEF WriteState
  <2>4. QED
    BY <1>1, <2>1, <2>2, <2>3, Zenon DEF WriteState, Live, Yielding
<1>6. s.state \in [1 .. Len(s.clients) -> ClientStates] /\ s.stage \in [Loops -> LoopStages]
      /\ s.upstream \in [Loops -> Nat]
  BY <1>1, SMT DEF WriteState, SnapshotInv
<1>7. Len(t.state) = Len(s.state)
  BY <1>1, <1>3, <1>4 DEF WriteState
<1>8. SnapshotInv(t)
  <2>1. \A l \in Loops : InCall(s.stage[l]) => s.upstream[l] # j
    BY <1>1, <1>2 DEF SnapshotInv
  <2>2. \A l \in Loops : InCall(t.stage[l]) =>
          t.upstream[l] \in 1 .. Len(t.clients) /\ t.state[t.upstream[l]] = "Yielded"
    BY <1>1, <1>2, <1>4, <1>6, <2>1, SMT DEF SnapshotInv
  <2>3. \A l, m \in Loops : InCall(t.stage[l]) /\ InCall(t.stage[m])
          /\ t.upstream[l] = t.upstream[m] => l = m
    BY <1>1, <1>4, <1>6, <2>1, SMT DEF SnapshotInv
  <2>4. \A i \in 1 .. Len(t.clients) : t.state[i] = "Used" <=> t.clients[i] \in t.acks
    BY <1>1, <1>2, <1>4, <1>6, SMT DEF SnapshotInv
  <2>5. QED
    BY <1>1, <1>4, <1>7, <2>2, <2>3, <2>4 DEF SnapshotInv
<1>9. LoopsInv(t)
  <2>1. AckedLoops(t) = AckedLoops(s)
    BY <1>4, <1>6 DEF AckedLoops
  <2>2. \E l \in Loops : t.stage[l] # "acked"
    BY <1>4, <1>6
  <2>3. \A l, m \in Loops : t.stage[l] = "new" /\ l < m => t.stage[m] = "new"
    <3> SUFFICES ASSUME NEW l \in Loops, NEW m \in Loops, t.stage[l] = "new", l < m
                 PROVE  t.stage[m] = "new"
      OBVIOUS
    <3>1. s.stage[l] = "new" /\ l # k
      BY <1>4, <1>6
    <3>2. k <= l /\ s.stage[m] = "new"
      BY <1>1, <3>1 DEF LoopsInv, FirstNew
    <3>3. m # k
      BY <3>2, LoopsFinite DEF Loops
    <3>4. QED
      BY <1>4, <1>6, <3>2, <3>3
  <2>4. t.at = "starting" => \E l \in Loops : t.stage[l] = "new"
    BY <1>4, <1>6, SMT DEF OtherNew
  <2>5. QED
    BY <1>1, <1>4, <2>1, <2>2, <2>3, <2>4 DEF LoopsInv
<1>10. t.at # "done"
  BY <1>4 DEF Live
<1>11. QED
  BY <1>2, <1>5, <1>8, <1>9, <1>10 DEF WriteInv

\* s after the call of loop k ended.
CallEnded(s, k, ok) ==
  [s EXCEPT !.stage[k] = IF ok THEN "acked" ELSE "sleeping", !.upstream[k] = None,
            !.state[s.upstream[k]] = IF ok THEN "Used" ELSE "Available",
            !.acks = IF ok THEN @ \cup {s.clients[s.upstream[k]]} ELSE @]

EndedInv(s, k, ok, t) ==
  /\ t \in WriteState /\ SnapshotInv(t)
  /\ t.at = "running" /\ t.stage = [s.stage EXCEPT ![k] = IF ok THEN "acked" ELSE "sleeping"]
  /\ Cardinality(t.acks) = Cardinality(AckedLoops(t))
  /\ \A l, m \in Loops : t.stage[l] = "new" /\ l < m => t.stage[m] = "new"

\* A loop's call ends.
LEMMA CallEnds ==
  ASSUME NEW s, WriteInv(s), s.at = "running", NEW k \in Loops, InCall(s.stage[k]),
         NEW ok \in BOOLEAN, NEW t, t = CallEnded(s, k, ok)
  PROVE  EndedInv(s, k, ok, t)
<1> DEFINE i == s.upstream[k]
           u == s.clients[i]
           g == IF ok THEN "acked" ELSE "sleeping"
           r == IF ok THEN "Used" ELSE "Available"
<1>1. s \in WriteState /\ SnapshotInv(s) /\ LoopsInv(s)
  BY DEF WriteInv
<1>2. i \in 1 .. Len(s.clients) /\ s.state[i] = "Yielded"
  BY <1>1 DEF SnapshotInv
<1>3. u \in Upstream /\ u \notin s.acks
  BY <1>1, <1>2, SMT DEF SnapshotInv, WriteState
<1>4. /\ t.at = s.at /\ t.clients = s.clients /\ t.state = [s.state EXCEPT ![i] = r]
      /\ t.stage = [s.stage EXCEPT ![k] = g] /\ t.upstream = [s.upstream EXCEPT ![k] = None]
      /\ t.acks = IF ok THEN s.acks \cup {u} ELSE s.acks
  BY <1>1 DEF WriteState, CallEnded
<1>5. s.state \in [1 .. Len(s.clients) -> ClientStates] /\ s.stage \in [Loops -> LoopStages]
      /\ s.upstream \in [Loops -> Nat] /\ s.acks \in SUBSET Upstream
      /\ s.clients \in [1 .. Len(s.clients) -> Upstream]
  BY <1>1, SMT DEF WriteState, SnapshotInv
<1>6. i \in 1 .. Len(s.state)
  BY <1>1, <1>2 DEF SnapshotInv
<1>7. t \in WriteState /\ Len(t.state) = Len(s.state)
  <2>1. [s.state EXCEPT ![i] = r] \in Seq(ClientStates)
        /\ Len([s.state EXCEPT ![i] = r]) = Len(s.state)
    BY <1>1, <1>6 DEF WriteState, ClientStates
  <2>2. [s.stage EXCEPT ![k] = g] \in [Loops -> LoopStages]
    BY <1>5 DEF LoopStages
  <2>3. [s.upstream EXCEPT ![k] = None] \in [Loops -> Nat]
    BY <1>5 DEF None
  <2>4. (IF ok THEN s.acks \cup {u} ELSE s.acks) \in SUBSET Upstream
    BY <1>3, <1>5
  <2>5. QED
    BY <1>1, <1>4, <2>1, <2>2, <2>3, <2>4, Zenon DEF WriteState, CallEnded
<1> HIDE DEF i, u, g, r
<1>8. g \in {"acked", "sleeping"} /\ r \in {"Used", "Available"} /\ (ok <=> g = "acked")
      /\ (ok <=> r = "Used")
  BY DEF g, r
<1>9. SnapshotInv(t)
  <2>1. \A l \in Loops : l # k /\ InCall(s.stage[l]) => s.upstream[l] # i
    BY <1>1 DEF SnapshotInv, i
  <2>2. \A l \in Loops : InCall(t.stage[l]) => l # k /\ InCall(s.stage[l])
          /\ t.upstream[l] = s.upstream[l]
    BY <1>4, <1>5, <1>8 DEF InCall
  <2>3. \A l \in Loops : InCall(t.stage[l]) =>
          t.upstream[l] \in 1 .. Len(t.clients) /\ t.state[t.upstream[l]] = "Yielded"
    BY <1>1, <1>4, <1>5, <2>1, <2>2, SMT DEF SnapshotInv
  <2>4. \A l, m \in Loops : InCall(t.stage[l]) /\ InCall(t.stage[m])
          /\ t.upstream[l] = t.upstream[m] => l = m
    BY <1>1, <2>2 DEF SnapshotInv
  <2>5. ASSUME NEW j \in 1 .. Len(t.clients) PROVE t.state[j] = "Used" <=> t.clients[j] \in t.acks
    <3>1. CASE j = i
      BY <1>2, <1>3, <1>4, <1>5, <1>8, <3>1 DEF u
    <3>2. CASE j # i
      <4>1. s.clients[j] # u
        BY <1>1, <1>2, <1>4, <1>5, <3>2 DEF SnapshotInv, IsInjective, u
      <4>2. t.state[j] = s.state[j] /\ (s.clients[j] \in t.acks <=> s.clients[j] \in s.acks)
        BY <1>4, <1>5, <3>2, <4>1, SMT
      <4>3. QED
        BY <1>1, <1>4, <4>2 DEF SnapshotInv
    <3>3. QED
      BY <3>1, <3>2
  <2>6. QED
    BY <1>1, <1>4, <1>7, <2>3, <2>4, <2>5 DEF SnapshotInv
<1>10. Cardinality(t.acks) = Cardinality(AckedLoops(t))
  <2>1. CASE ~ok
    <3>1. AckedLoops(t) = AckedLoops(s)
      BY <1>4, <1>5, <1>8, <2>1 DEF AckedLoops, InCall
    <3>2. QED
      BY <1>1, <1>4, <2>1, <3>1 DEF LoopsInv
  <2>2. CASE ok
    <3>1. AckedLoops(t) = AckedLoops(s) \cup {k} /\ k \notin AckedLoops(s)
      BY <1>4, <1>5, <1>8, <2>2, SMT DEF AckedLoops, InCall
    <3>2. IsFiniteSet(AckedLoops(s))
      BY LoopsFinite, FS_Subset DEF AckedLoops
    <3>3. Cardinality(AckedLoops(t)) = Cardinality(AckedLoops(s)) + 1
      BY <3>1, <3>2, FS_AddElement, Zenon
    <3>4. IsFiniteSet(s.acks)
      BY <1>5, UpstreamsFinite
    <3>5. Cardinality(s.acks \cup {u}) = Cardinality(s.acks) + 1
      BY <1>3, <3>4, FS_AddElement, Zenon
    <3>6. QED
      BY <1>1, <1>4, <2>2, <3>3, <3>5, Zenon DEF LoopsInv
  <2>3. QED
    BY <2>1, <2>2
<1>11. \A l, m \in Loops : t.stage[l] = "new" /\ l < m => t.stage[m] = "new"
  <2>1. \A l \in Loops : t.stage[l] = "new" <=> s.stage[l] = "new"
    BY <1>4, <1>5, <1>8 DEF InCall
  <2>2. QED
    BY <1>1, <2>1 DEF LoopsInv
<1>12. QED
  BY <1>4, <1>7, <1>9, <1>10, <1>11 DEF g, EndedInv

\* The clients of a snapshot are distinct upstreams.
LEMMA EndpointsDistinct ==
  ASSUME BreakerType
  PROVE  /\ Endpoints \in Seq(Upstream) /\ IsInjective(Endpoints)
         /\ ProbeOf # None => ProbeOf \in Upstream /\ should_probe(ProbeOf)
<1> DEFINE all == [u \in Upstream |-> u]
           H == {u \in Upstream : Healthy(u)}
           healthy == Keep(all, H)
           P == {u \in Upstream : should_probe(u)}
<1>1. all \in Seq(Upstream) /\ IsInjective(all)
  BY CircuitBreakerAssumption DEF Upstream, IsInjective
<1>2. healthy \in Seq(Upstream) /\ healthy \in Seq(H)
  <2>1. healthy \in Seq(Upstream \cap H)
    BY <1>1, KeepType
  <2>2. Upstream \cap H \subseteq Upstream /\ Upstream \cap H \subseteq H
    OBVIOUS
  <2>3. QED
    BY <2>1, <2>2, SeqMonotonic
<1>3. IsInjective(healthy)
  BY <1>1, KeepInjective
<1>4. ProbeOf # None => ProbeOf \in P
  <2>1. P \subseteq Nat
    BY DEF Upstream
  <2>2. QED
    BY <2>1, MinInSet DEF ProbeOf
<1>5. Endpoints = IF ProbeOf = None THEN healthy ELSE <<ProbeOf>> \o healthy
  BY DEF Endpoints
<1> HIDE DEF all, healthy
<1>6. CASE ProbeOf = None
  BY <1>2, <1>3, <1>5, <1>6
<1>7. CASE ProbeOf # None
  <2> DEFINE p == ProbeOf
             e == <<p>> \o healthy
  <2>1. p \in Upstream /\ should_probe(p) /\ p \notin H
    BY <1>4, <1>7 DEF should_probe
  <2>2. \A i \in 1 .. Len(healthy) : healthy[i] # p
    BY <1>2, <2>1
  <2>3. <<p>> \in Seq(Upstream)
    BY <2>1
  <2>4. e \in Seq(Upstream) /\ Len(e) = Len(healthy) + 1
    BY <1>2, <2>3
  <2>5. e[1] = p /\ \A i \in 2 .. Len(e) : e[i] = healthy[i - 1] /\ i - 1 \in 1 .. Len(healthy)
    BY <1>2, <2>3, <2>4
  <2> HIDE DEF p, e
  <2>6. \A i, j \in 1 .. Len(e) : e[i] = e[j] => i = j
    <3> SUFFICES ASSUME NEW i \in 1 .. Len(e), NEW j \in 1 .. Len(e), e[i] = e[j] PROVE i = j
      OBVIOUS
    <3>1. CASE i = 1 \/ j = 1
      BY <1>2, <2>2, <2>4, <2>5, <3>1
    <3>2. CASE i # 1 /\ j # 1
      <4>1. healthy[i - 1] = healthy[j - 1] /\ i - 1 \in 1 .. Len(healthy) /\ j - 1 \in 1 .. Len(healthy)
        BY <2>5, <3>2, <2>4
      <4>2. i - 1 = j - 1
        BY <1>2, <1>3, <4>1 DEF IsInjective
      <4>3. QED
        BY <4>2
    <3>3. QED
      BY <3>1, <3>2
  <2>7. IsInjective(e)
    BY <2>4, <2>6, SMT DEF IsInjective
  <2>8. QED
    BY <1>5, <1>7, <2>1, <2>4, <2>7 DEF p, e
<1>8. QED
  BY <1>6, <1>7

-----------------------------------------------------------------------------
\* What a step of write w, from s to t, must not do.
Fresh(s, t) ==
  \A k \in Loops : s.at \in Live /\ s.stage[k] # "calling" /\ t.stage[k] = "calling" =>
    LET u == t.clients[t.upstream[k]]
    IN /\ u \notin s.acks
       /\ \A l \in Loops : InCall(s.stage[l]) => s.clients[s.upstream[l]] # u

WritesKept ==
  /\ write' \in [Writes -> WriteState]
  /\ \A w \in Writes : WriteInv(write'[w])
  /\ \A w \in Writes, k \in Loops : SentOnce(w, k)

BreakersKept ==
  /\ BreakerType'
  /\ \A u \in Upstream : ClosedByAnswer(u)

\* Replacing one request by another that satisfies the invariant.
LEMMA Replaced ==
  ASSUME IInv, NEW w \in Writes, NEW t, WriteInv(t), Fresh(write[w], t), Set(w, t)
  PROVE  WritesKept
<1>1. write \in [Writes -> WriteState] /\ \A v \in Writes : WriteInv(write[v])
  BY DEF IInv
<1>2. write' = [write EXCEPT ![w] = t]
  BY DEF Set
<1>3. t \in WriteState
  BY DEF WriteInv
<1>4. write' \in [Writes -> WriteState] /\ \A v \in Writes : write'[v] = IF v = w THEN t ELSE write[v]
  BY <1>1, <1>2, <1>3
<1>5. \A v \in Writes : WriteInv(write'[v])
  BY <1>1, <1>4
<1>6. ASSUME NEW v \in Writes, NEW k \in Loops PROVE SentOnce(v, k)
  <2>1. CASE v # w
    BY <1>4, <2>1 DEF SentOnce
  <2>2. CASE v = w
    <3>1. write'[v] = t
      BY <1>4, <2>2
    <3>2. QED
      BY <2>2, <3>1 DEF SentOnce, Fresh, Called, Live
  <2>3. QED
    BY <2>1, <2>2
<1>7. QED
  BY <1>4, <1>5, <1>6 DEF WritesKept

\* The requests stay.
LEMMA WritesUnchanged == ASSUME IInv, write' = write PROVE WritesKept
BY DEF IInv, WritesKept, SentOnce

\* A request that ended has sent nothing more.
LEMMA DoneFresh == \A s, w, r : Fresh(s, Done(w, r)) /\ Fresh(s, Idle)
BY SMT DEF Fresh, Done, Idle

\* One round of a write loop.
LEMMA AttemptStep ==
  ASSUME IInv, NEW w \in Writes, write[w].at \in Live, NEW k \in Loops,
         write[w].stage[k] \in {"new", "sleeping"},
         FirstNew(write[w], k), NEW at \in Live, at = "starting" => OtherNew(write[w], k),
         Attempt(w, k, at)
  PROVE  WritesKept
<1> DEFINE s == write[w]
           j == NextClient(s)
           t == Yielding(s, k, at, j)
<1>1. WriteInv(s) /\ s \in WriteState
  BY DEF IInv, WriteInv
<1>2. Set(w, IF j = 0 THEN Done(s, ErrorOf(s)) ELSE t)
  BY DEF Attempt, Yielding
<1> HIDE DEF j
<1>3. CASE j = 0
  <2>1. WriteInv(Done(s, ErrorOf(s)))
    BY <1>1, ErrorMatches
  <2>2. Set(w, Done(s, ErrorOf(s)))
    BY <1>2, <1>3
  <2>3. QED
    BY <2>1, <2>2, DoneFresh, Replaced
<1>4. CASE j # 0
  <2>1. WriteInv(t) /\ j \in 1 .. Len(s.clients) /\ s.state[j] = "Available"
    <3>1. j = NextClient(s)
      BY DEF j
    <3>2. QED
      BY <1>1, <1>4, <3>1, AttemptKeeps, SMT
  <2>2. Set(w, t)
    BY <1>2, <1>4
  <2>3. SnapshotInv(s)
    BY <1>1 DEF WriteInv, Live
  <2>4. t.clients = s.clients /\ t.stage = [s.stage EXCEPT ![k] = "calling"]
        /\ t.upstream = [s.upstream EXCEPT ![k] = j]
    BY <1>1 DEF WriteState, Yielding
  <2>5. s.stage \in [Loops -> LoopStages] /\ s.upstream \in [Loops -> Nat]
    BY <1>1 DEF WriteState
  <2> HIDE DEF s, t
  <2>6. Fresh(s, t)
    <3> SUFFICES ASSUME NEW m \in Loops, s.stage[m] # "calling", t.stage[m] = "calling"
                 PROVE  LET u == t.clients[t.upstream[m]]
                        IN /\ u \notin s.acks
                           /\ \A l \in Loops : InCall(s.stage[l]) => s.clients[s.upstream[l]] # u
      BY DEF Fresh
    <3>1. m = k
      BY <2>4, <2>5
    <3>2. t.clients[t.upstream[m]] = s.clients[j]
      BY <2>4, <2>5, <3>1
    <3>3. s.clients[j] \notin s.acks
      BY <2>1, <2>3 DEF SnapshotInv
    <3>4. ASSUME NEW l \in Loops, InCall(s.stage[l]) PROVE s.clients[s.upstream[l]] # s.clients[j]
      <4>1. s.upstream[l] \in 1 .. Len(s.clients) /\ s.upstream[l] # j
        BY <2>1, <2>3, <3>4 DEF SnapshotInv
      <4>2. DOMAIN s.clients = 1 .. Len(s.clients)
        BY <1>1, SMT DEF WriteState, s
      <4>3. QED
        BY <2>1, <2>3, <4>1, <4>2 DEF SnapshotInv, IsInjective
    <3>5. QED
      BY <3>2, <3>3, <3>4
  <2>7. QED
    BY <2>1, <2>2, <2>6, Replaced DEF s
<1>5. QED
  BY <1>3, <1>4

-----------------------------------------------------------------------------
\* Counting an answer.
LEMMA CountStep ==
  \A n \in 0 .. CountBound :
    /\ Min({n + 1, CountBound}) \in 0 .. CountBound
    /\ Min({n + 1, CountBound}) >= n
<1> SUFFICES ASSUME NEW n \in 0 .. CountBound
             PROVE  Min({n + 1, CountBound}) \in 0 .. CountBound /\ Min({n + 1, CountBound}) >= n
  OBVIOUS
<1>1. CountBound \in Nat
  BY CircuitBreakerAssumption
<1> DEFINE S == {n + 1, CountBound}
<1>2. S \subseteq Nat /\ S # {}
  BY <1>1
<1>3. Min(S) \in S /\ Min(S) <= CountBound
  <2>1. Min(S) \in S /\ \A y \in S : Min(S) <= y
    BY <1>2, MinInSet
  <2>2. QED
    BY <2>1
<1>4. QED
  BY <1>1, <1>3

\* The counters after an answer was observed.
LEMMA ObserveType ==
  ASSUME NEW c \in Counts
  PROVE  /\ observe(c, TRUE) \in Counts /\ observe(c, FALSE) \in Counts
         /\ observe(c, FALSE).successes = c.successes /\ observe(c, FALSE).errors >= c.errors
<1>1. c.successes \in 0 .. CountBound /\ c.errors \in 0 .. CountBound
  BY DEF Counts
<1> DEFINE m == Min({c.successes + 1, CountBound})   n == Min({c.errors + 1, CountBound})
<1>2. m \in 0 .. CountBound /\ n \in 0 .. CountBound /\ n >= c.errors
  BY <1>1, CountStep
<1>3. observe(c, TRUE) = [c EXCEPT !.successes = m] /\ observe(c, FALSE) = [c EXCEPT !.errors = n]
  BY DEF observe
<1> HIDE DEF m, n
<1>4. QED
  BY <1>2, <1>3, Zenon DEF Counts

\* The breakers stay.
LEMMA BreakersUnchanged ==
  ASSUME BreakerType, requests' = requests, probes' \in [Upstream -> 0 .. NumProbes],
         reset' \in [Upstream -> BOOLEAN], answers' \in [Upstream -> BOOLEAN]
  PROVE  BreakersKept
BY Zenon DEF BreakerType, BreakersKept, ClosedByAnswer, Healthy

\* An error does not improve the error ratio.
LEMMA ErrorNotHealthy ==
  ASSUME NEW c \in Counts, NEW d \in Counts, d.successes = c.successes, d.errors >= c.errors,
         is_healthy(d)
  PROVE  is_healthy(c)
<1>1. c.successes \in Nat /\ c.errors \in Nat /\ d.errors \in Nat
  BY CircuitBreakerAssumption, SMT DEF Counts
<1>2. QED
  BY <1>1 DEF is_healthy

\* The call of loop k of write w ends in this step.
EndsCall(w, k, ok) ==
  /\ Calling(w, k)
  /\ IF ok THEN Called(w, k) \in write'[w].acks ELSE write'[w].stage[k] = "sleeping"

\* An answer is observed.
LEMMA Observed ==
  ASSUME BreakerType, NEW w \in Writes, NEW k \in Loops, NEW u \in Upstream, u = Called(w, k),
         NEW ok \in BOOLEAN, EndsCall(w, k, ok),
         requests' = [requests EXCEPT ![u] = observe(@, ok)], UNCHANGED <<probes, reset, answers>>
  PROVE  BreakersKept
<1>1. requests \in [Upstream -> Counts]
  BY DEF BreakerType
<1>2. observe(requests[u], ok) \in Counts
  <2>1. CASE ok = TRUE
    BY <1>1, <2>1, ObserveType, Zenon
  <2>2. CASE ok = FALSE
    BY <1>1, <2>2, ObserveType, Zenon
  <2>3. QED
    BY <2>1, <2>2, Zenon
<1>3. requests' \in [Upstream -> Counts]
      /\ \A v \in Upstream : requests'[v] = IF v = u THEN observe(requests[u], ok) ELSE requests[v]
  BY <1>1, <1>2
<1>4. ASSUME NEW v \in Upstream PROVE ClosedByAnswer(v)
  <2>1. CASE v # u
    BY <1>3, <2>1 DEF ClosedByAnswer, Healthy
  <2>2. CASE v = u /\ ok = TRUE
    <3>1. requests'[v] = observe(requests[v], TRUE)
      BY <1>3, <2>2, Zenon
    <3>2. Returned(v, TRUE)
      BY <2>2, <3>1, Zenon DEF Returned, EndsCall
    <3>3. QED
      BY <3>2 DEF ClosedByAnswer
  <2>3. CASE v = u /\ ok = FALSE
    <3>1. requests'[v] = observe(requests[v], FALSE)
      BY <1>3, <2>3, Zenon
    <3>2. is_healthy(requests'[v]) => is_healthy(requests[v])
      BY <1>1, <3>1, ObserveType, ErrorNotHealthy, Zenon
    <3>3. ~Healthy(v) /\ Healthy(v)' => is_probing(requests[v])
      BY <3>2 DEF Healthy
    <3>4. Returned(v, FALSE)
      BY <2>3, <3>1, Zenon DEF Returned, EndsCall
    <3>5. QED
      BY <3>3, <3>4, Zenon DEF ClosedByAnswer
  <2>4. QED
    BY <2>1, <2>2, <2>3, Zenon
<1>5. QED
  BY <1>3, <1>4 DEF BreakersKept, BreakerType

-----------------------------------------------------------------------------
StepKept == WritesKept /\ BreakersKept

\* A write that ends before it has called anyone.
LEMMA NothingAcked == WriteInv(Done(Idle, "Failed")) /\ WriteInv(Idle)
<1>1. Done(Idle, "Failed") \in WriteState /\ Done(Idle, "Failed").at = "done"
      /\ Done(Idle, "Failed").acks = Idle.acks /\ Done(Idle, "Failed").result = "Failed"
  BY IdleType, DoneType DEF Results
<1>2. Idle.acks = {} /\ Idle.at = "idle"
  BY DEF Idle
<1>3. Cardinality({}) = 0
  BY FS_EmptySet
<1>4. ResultInv(Done(Idle, "Failed"))
  BY <1>1, <1>2, <1>3, LoopsFinite DEF ResultInv
<1>5. QED
  BY <1>1, <1>2, <1>4, IdleType DEF WriteInv

\* A request takes its snapshot.
LEMMA TakeSnapshotStep ==
  ASSUME IInv, NEW w \in Writes, NEW counter \in 0 .. NumUpstreams - 1, TakeSnapshot(w, counter)
  PROVE  StepKept
<1> DEFINE eps == Endpoints
           i == IF ProbeOf # None THEN 0 ELSE counter
           t == [Idle EXCEPT !.at = "starting", !.clients = eps,
                             !.state = [j \in DOMAIN eps |-> "Available"],
                             !.idx = (i + Len(eps) - 1) % Len(eps)]
<1>1. BreakerType
  BY DEF IInv
<1>2. /\ eps \in Seq(Upstream) /\ IsInjective(eps)
      /\ ProbeOf # None => ProbeOf \in Upstream /\ should_probe(ProbeOf)
  BY <1>1, EndpointsDistinct
<1>3. \/ Set(w, Done(Idle, "Failed"))
      \/ eps # <<>> /\ Set(w, t)
  BY DEF TakeSnapshot
<1>4. write[w].at \notin Live
  BY DEF TakeSnapshot, Live
<1>5. WritesKept
  <2>1. CASE Set(w, Done(Idle, "Failed"))
    BY <2>1, NothingAcked, DoneFresh, Replaced
  <2>2. CASE eps # <<>> /\ Set(w, t)
    <3>1. i \in Nat /\ Len(eps) \in Nat \ {0} /\ DOMAIN eps = 1 .. Len(eps)
      BY <1>2, <2>2, EmptySeq
    <3>2. (i + Len(eps) - 1) % Len(eps) \in Nat
      <4> HIDE DEF i, eps
      <4>1. i + Len(eps) - 1 \in Nat
        BY <3>1
      <4>2. \A a \in Nat, n \in Nat \ {0} : a % n \in Nat
        OBVIOUS
      <4>3. QED
        BY <3>1, <4>1, <4>2
    <3>3. [j \in DOMAIN eps |-> "Available"] \in Seq(ClientStates)
          /\ Len([j \in DOMAIN eps |-> "Available"]) = Len(eps)
      BY <3>1 DEF ClientStates
    <3>4. /\ t.at = "starting" /\ t.clients = eps /\ t.state = [j \in DOMAIN eps |-> "Available"]
          /\ t.stage = [k \in Loops |-> "new"] /\ t.acks = {}
      BY DEF Idle
    <3>5. t \in WriteState
      BY <1>2, <3>2, <3>3, IdleType, Zenon DEF WriteState
    <3> HIDE DEF t, eps, i
    <3>6. SnapshotInv(t)
      BY <1>2, <2>2, <3>1, <3>3, <3>4 DEF SnapshotInv, InCall
    <3>7. LoopsInv(t)
      <4>1. AckedLoops(t) = {}
        BY <3>4 DEF AckedLoops
      <4>2. NCopies \in Loops
        BY LoopsFinite DEF Loops
      <4>3. QED
        BY <3>4, <4>1, <4>2 DEF LoopsInv
    <3>8. WriteInv(t)
      BY <3>4, <3>5, <3>6, <3>7 DEF WriteInv
    <3>9. Fresh(write[w], t)
      BY <1>4 DEF Fresh
    <3>10. QED
      BY <2>2, <3>8, <3>9, Replaced
  <2>3. QED
    BY <1>3, <2>1, <2>2
<1>6. BreakersKept
  <2>1. UNCHANGED <<reset, answers>>
    BY DEF TakeSnapshot
  <2>2. CASE ProbeOf = None
    <3>1. UNCHANGED <<requests, probes>>
      BY <2>2 DEF TakeSnapshot
    <3>2. QED
      BY <1>1, <2>1, <3>1, BreakersUnchanged DEF BreakerType
  <2>3. CASE ProbeOf # None
    <3> DEFINE p == ProbeOf
               c == CountsOnProbe(p)
    <3>1. p \in Upstream /\ probes[p] < NumProbes
      BY <1>2, <2>3 DEF should_probe
    <3>2. requests' = [requests EXCEPT ![p] = c] /\ probes' = [probes EXCEPT ![p] = @ + 1]
      BY <2>3 DEF TakeSnapshot
    <3> HIDE DEF p
    <3>3. probes' \in [Upstream -> 0 .. NumProbes]
      BY <1>1, <3>1, <3>2, CircuitBreakerAssumption, SMT DEF BreakerType
    <3>4. c \in Counts /\ (c = requests[p] \/ c = [successes |-> 0, errors |-> 0])
      BY <1>1, <3>1, CircuitBreakerAssumption, SMT DEF BreakerType, CountsOnProbe, Counts
    <3> HIDE DEF c
    <3>5. requests' \in [Upstream -> Counts]
          /\ \A v \in Upstream : requests'[v] = IF v = p THEN c ELSE requests[v]
      BY <1>1, <3>1, <3>2, <3>4 DEF BreakerType
    <3>6. is_probing([successes |-> 0, errors |-> 0])
      BY CircuitBreakerAssumption DEF is_probing, total
    <3>7. \A v \in Upstream : requests'[v] = requests[v] \/ is_probing(requests'[v])
      BY <3>4, <3>5, <3>6
    <3>8. \A v \in Upstream : ClosedByAnswer(v)
      BY <3>7 DEF ClosedByAnswer, Healthy
    <3>9. QED
      BY <1>1, <2>1, <3>3, <3>5, <3>8 DEF BreakersKept, BreakerType
  <2>4. QED
    BY <2>2, <2>3
<1>7. QED
  BY <1>5, <1>6 DEF StepKept

\* A step of the requests alone.
LEMMA BreakersStay ==
  ASSUME IInv, UNCHANGED <<requests, probes, reset, answers>>
  PROVE  BreakersKept
BY BreakersUnchanged DEF IInv, BreakerType

\* A loop makes its first attempt.
LEMMA StartLoopStep ==
  ASSUME IInv, NEW w \in Writes, StartLoop(w)
  PROVE  StepKept
<1> DEFINE s == write[w]
           S == {l \in Loops : s.stage[l] = "new"}
           k == Min(S)
           at == IF k = NCopies THEN "running" ELSE "starting"
<1>1. s.at = "starting" /\ Attempt(w, k, at) /\ UNCHANGED <<requests, probes, reset, answers>>
  BY DEF StartLoop
<1>2. LoopsInv(s)
  BY <1>1 DEF IInv, WriteInv
<1>3. S # {} /\ S \subseteq Nat
  BY <1>1, <1>2 DEF LoopsInv, Loops
<1>4. k \in S /\ \A l \in S : k <= l
  BY <1>3, MinInSet
<1> HIDE DEF k
<1>5. k \in Loops /\ s.stage[k] = "new" /\ FirstNew(s, k)
  BY <1>4 DEF FirstNew
<1>6. at = "starting" => OtherNew(s, k)
  <2> SUFFICES ASSUME k # NCopies PROVE OtherNew(s, k)
    OBVIOUS
  <2>1. NCopies \in Loops /\ k < NCopies
    BY <1>5, LoopsFinite DEF Loops
  <2>2. s.stage[NCopies] = "new"
    BY <1>2, <1>5, <2>1 DEF LoopsInv
  <2>3. QED
    BY <2>1, <2>2 DEF OtherNew
<1>7. at \in Live
  BY DEF Live
<1> HIDE DEF at
<1>8. WritesKept
  BY <1>1, <1>5, <1>6, <1>7, AttemptStep DEF Live
<1>9. QED
  BY <1>1, <1>8, BreakersStay DEF StepKept

\* A loop tries again after its sleep.
LEMMA RetryLoopStep ==
  ASSUME IInv, NEW w \in Writes, NEW k \in Loops, RetryLoop(w, k)
  PROVE  StepKept
<1>1. write[w].at = "running" /\ write[w].stage[k] = "sleeping" /\ Attempt(w, k, "running")
      /\ UNCHANGED <<requests, probes, reset, answers>>
  BY DEF RetryLoop
<1>2. LoopsInv(write[w])
  BY <1>1 DEF IInv, WriteInv
<1>3. FirstNew(write[w], k)
  BY <1>1, <1>2 DEF LoopsInv, FirstNew, Loops
<1>4. WritesKept
  BY <1>1, <1>3, AttemptStep DEF Live
<1>5. QED
  BY <1>1, <1>4, BreakersStay DEF StepKept

\* The upstream of a call is one of the snapshot's.
LEMMA CalledUpstream ==
  ASSUME IInv, NEW w \in Writes, NEW k \in Loops, Calling(w, k)
  PROVE  Called(w, k) \in Upstream
<1>1. WriteInv(write[w]) /\ write[w].at = "running" /\ InCall(write[w].stage[k])
  BY DEF IInv, Calling
<1>2. write[w].clients \in Seq(Upstream) /\ write[w].upstream[k] \in 1 .. Len(write[w].clients)
  BY <1>1 DEF WriteInv, SnapshotInv, WriteState
<1>3. QED
  BY <1>2 DEF Called

\* An upstream stores the write and answers.
LEMMA StoreStep ==
  ASSUME IInv, NEW w \in Writes, NEW k \in Loops, Store(w, k)
  PROVE  StepKept
<1> DEFINE s == write[w]
           t == [s EXCEPT !.stage[k] = "answered"]
<1>1. s.at = "running" /\ s.stage[k] = "calling" /\ Set(w, t)
      /\ UNCHANGED <<requests, probes, reset, answers>>
  BY DEF Store
<1>2. WriteInv(s) /\ s \in WriteState /\ SnapshotInv(s) /\ LoopsInv(s)
  BY <1>1 DEF IInv, WriteInv
<1>3. /\ t.at = s.at /\ t.clients = s.clients /\ t.state = s.state /\ t.upstream = s.upstream
      /\ t.acks = s.acks /\ t.stage = [s.stage EXCEPT ![k] = "answered"]
  BY <1>2 DEF WriteState
<1>4. s.stage \in [Loops -> LoopStages] /\ t \in WriteState
  BY <1>2, Zenon DEF WriteState, LoopStages
<1> HIDE DEF t
<1>5. \A l \in Loops :
        /\ InCall(t.stage[l]) <=> InCall(s.stage[l])
        /\ t.stage[l] = "acked" <=> s.stage[l] = "acked"
        /\ t.stage[l] = "new" <=> s.stage[l] = "new"
        /\ t.stage[l] = "calling" => s.stage[l] = "calling"
  BY <1>1, <1>3, <1>4 DEF InCall
<1>6. SnapshotInv(t)
  <2>1. \A l \in Loops : InCall(t.stage[l]) =>
          t.upstream[l] \in 1 .. Len(t.clients) /\ t.state[t.upstream[l]] = "Yielded"
    BY <1>2, <1>3, <1>5 DEF SnapshotInv
  <2>2. \A l, m \in Loops : InCall(t.stage[l]) /\ InCall(t.stage[m])
          /\ t.upstream[l] = t.upstream[m] => l = m
    BY <1>2, <1>3, <1>5, SMT DEF SnapshotInv
  <2>3. QED
    BY <1>2, <1>3, <2>1, <2>2 DEF SnapshotInv
<1>7. AckedLoops(t) = AckedLoops(s)
  BY <1>5 DEF AckedLoops
<1>8. LoopsInv(t)
  BY <1>2, <1>3, <1>5, <1>7, Zenon DEF LoopsInv
<1>9. WriteInv(t)
  BY <1>1, <1>3, <1>4, <1>6, <1>8 DEF WriteInv
<1>10. Fresh(s, t)
  BY <1>5 DEF Fresh
<1>11. QED
  BY <1>1, <1>9, <1>10, Replaced, BreakersStay DEF StepKept

\* An upstream acknowledges.
LEMMA CallOkStep ==
  ASSUME IInv, NEW w \in Writes, NEW k \in Loops, CallOk(w, k)
  PROVE  StepKept
<1> DEFINE s == write[w]
           t == [s EXCEPT !.stage[k] = "acked", !.upstream[k] = None,
                          !.state[s.upstream[k]] = "Used", !.acks = @ \cup {Called(w, k)}]
           all == \A l \in Loops : t.stage[l] = "acked"
<1>1. Calling(w, k) /\ requests' = [requests EXCEPT ![Called(w, k)] = observe(@, TRUE)]
      /\ UNCHANGED <<probes, reset, answers>>
      /\ Set(w, IF all THEN Done(t, "Ok") ELSE t)
  BY DEF CallOk, Calling, InCall
<1>2. WriteInv(s) /\ s.at = "running" /\ InCall(s.stage[k])
  BY <1>1 DEF IInv, Calling
<1>3. /\ t \in WriteState /\ SnapshotInv(t)
      /\ t.at = "running" /\ t.stage = [s.stage EXCEPT ![k] = "acked"]
      /\ Cardinality(t.acks) = Cardinality(AckedLoops(t))
      /\ \A l, m \in Loops : t.stage[l] = "new" /\ l < m => t.stage[m] = "new"
  <2>1. t = CallEnded(s, k, TRUE)
    BY DEF Called, CallEnded
  <2> HIDE DEF s, t
  <2>2. EndedInv(s, k, TRUE, t)
    BY <1>2, <2>1, CallEnds, Zenon
  <2>3. QED
    BY <2>2 DEF EndedInv
<1>4. BreakersKept
  <2>1. Called(w, k) \in t.acks
    BY <1>2 DEF WriteInv, WriteState
  <2> HIDE DEF t
  <2>2. Called(w, k) \in write'[w].acks
    <3>1. Done(t, "Ok").acks = t.acks
      BY <1>3, DoneType DEF Results
    <3>2. write'[w] = IF all THEN Done(t, "Ok") ELSE t
      BY <1>1 DEF Set, IInv
    <3>3. QED
      BY <2>1, <3>1, <3>2
  <2>3. EndsCall(w, k, TRUE)
    BY <1>1, <2>2 DEF EndsCall
  <2>4. QED
    BY <1>1, <2>3, CalledUpstream, Observed, Zenon DEF IInv
<1> HIDE DEF t
<1>5. CASE all
  <2>1. Cardinality(t.acks) = NCopies
    BY <1>3, <1>5, AckedCount, Zenon
  <2>2. Done(t, "Ok") \in WriteState /\ Done(t, "Ok").at = "done" /\ Done(t, "Ok").acks = t.acks
        /\ Done(t, "Ok").result = "Ok"
    BY <1>3, DoneType DEF Results
  <2>3. ResultInv(Done(t, "Ok"))
    BY <2>1, <2>2, LoopsFinite DEF ResultInv
  <2>4. WriteInv(Done(t, "Ok"))
    BY <2>2, <2>3 DEF WriteInv
  <2>5. QED
    BY <1>1, <1>4, <1>5, <2>4, DoneFresh, Replaced DEF StepKept
<1>6. CASE ~all
  <2>1. WriteInv(t)
    BY <1>3, <1>6 DEF WriteInv, LoopsInv
  <2>2. s.stage \in [Loops -> LoopStages]
    BY <1>2 DEF WriteInv, WriteState
  <2>3. Fresh(s, t)
    BY <1>3, <2>2 DEF Fresh
  <2>4. QED
    BY <1>1, <1>4, <1>6, <2>1, <2>3, Replaced DEF StepKept
<1>7. QED
  BY <1>5, <1>6

\* A call fails.
LEMMA CallErrStep ==
  ASSUME IInv, NEW w \in Writes, NEW k \in Loops, CallErr(w, k)
  PROVE  StepKept
<1> DEFINE s == write[w]
           t == [s EXCEPT !.stage[k] = "sleeping", !.upstream[k] = None,
                          !.state[s.upstream[k]] = "Available"]
<1>1. Calling(w, k) /\ requests' = [requests EXCEPT ![Called(w, k)] = observe(@, FALSE)]
      /\ UNCHANGED <<probes, reset, answers>> /\ Set(w, t)
  BY DEF CallErr
<1>2. WriteInv(s) /\ s.at = "running" /\ InCall(s.stage[k]) /\ s \in WriteState
  BY <1>1 DEF IInv, Calling, WriteInv
<1>3. /\ t \in WriteState /\ SnapshotInv(t)
      /\ t.at = "running" /\ t.stage = [s.stage EXCEPT ![k] = "sleeping"]
      /\ Cardinality(t.acks) = Cardinality(AckedLoops(t))
      /\ \A l, m \in Loops : t.stage[l] = "new" /\ l < m => t.stage[m] = "new"
  <2>1. t = CallEnded(s, k, FALSE)
    BY <1>2, Zenon DEF WriteState, CallEnded
  <2> HIDE DEF s, t
  <2>2. EndedInv(s, k, FALSE, t)
    BY <1>2, <2>1, CallEnds, Zenon
  <2>3. QED
    BY <2>2 DEF EndedInv
<1> HIDE DEF t
<1>4. s.stage \in [Loops -> LoopStages]
  BY <1>2 DEF WriteState
<1>5. BreakersKept
  <2>1. write'[w] = t /\ t.stage[k] = "sleeping"
    BY <1>1, <1>3, <1>4 DEF IInv, Set
  <2>2. EndsCall(w, k, FALSE)
    BY <1>1, <2>1 DEF EndsCall
  <2>3. QED
    BY <1>1, <2>2, CalledUpstream, Observed, Zenon DEF IInv
<1>6. t.stage[k] # "acked"
  BY <1>3, <1>4
<1>7. WriteInv(t)
  BY <1>3, <1>6 DEF WriteInv, LoopsInv
<1>8. Fresh(s, t)
  BY <1>3, <1>4 DEF Fresh
<1>9. QED
  BY <1>1, <1>5, <1>7, <1>8, Replaced DEF StepKept

\* A loop runs out of time.
LEMMA LoopTimeoutStep ==
  ASSUME IInv, NEW w \in Writes, NEW k \in Loops, LoopTimeout(w, k)
  PROVE  StepKept
<1>1. write[w].at \in Live /\ Set(w, Done(write[w], ErrorOf(write[w])))
      /\ UNCHANGED <<requests, probes, reset, answers>>
  BY DEF LoopTimeout, Live
<1>2. WriteInv(Done(write[w], ErrorOf(write[w])))
  BY <1>1, ErrorMatches DEF IInv
<1>3. QED
  BY <1>1, <1>2, DoneFresh, Replaced, BreakersStay DEF StepKept

\* The client goes away.
LEMMA DisconnectStep ==
  ASSUME IInv, NEW w \in Writes, Disconnect(w)
  PROVE  StepKept
<1>1. Set(w, Idle) /\ UNCHANGED <<requests, probes, reset, answers>>
  BY DEF Disconnect
<1>2. QED
  BY <1>1, NothingAcked, DoneFresh, Replaced, BreakersStay DEF StepKept

\* The steps of the breakers.
LEMMA BreakerStepKept ==
  ASSUME IInv, BreakerStep, UNCHANGED <<answers, write>>
  PROVE  StepKept
<1>1. WritesKept
  BY WritesUnchanged
<1>2. BreakerType
  BY DEF IInv
<1>3. PICK u \in Upstream : WindowOver(u) \/ ResetRead(u) \/ ResetStore(u)
  BY DEF BreakerStep
<1>4. CASE WindowOver(u)
  <2>1. probes' \in [Upstream -> 0 .. NumProbes]
    BY <1>2, <1>4, CircuitBreakerAssumption, SMT DEF WindowOver, BreakerType
  <2>2. requests' = requests /\ reset' = reset
    BY <1>4 DEF WindowOver
  <2>3. QED
    BY <1>1, <1>2, <2>1, <2>2, BreakersUnchanged DEF StepKept, BreakerType
<1>5. CASE ResetRead(u)
  <2>1. requests' = requests /\ probes' = probes /\ reset' \in [Upstream -> BOOLEAN]
    BY <1>2, <1>5 DEF ResetRead, BreakerType
  <2>2. QED
    BY <1>1, <1>2, <2>1, BreakersUnchanged DEF StepKept, BreakerType
<1>6. CASE ResetStore(u)
  <2> DEFINE c == [successes |-> NumProbes, errors |-> 0]
  <2>1. reset[u] /\ reset' = [reset EXCEPT ![u] = FALSE] /\ requests' = [requests EXCEPT ![u] = c]
        /\ probes' = probes
    BY <1>6 DEF ResetStore
  <2>2. c \in Counts
    BY CircuitBreakerAssumption DEF Counts
  <2> HIDE DEF c
  <2>3. requests' \in [Upstream -> Counts] /\ reset' \in [Upstream -> BOOLEAN]
    BY <1>2, <2>1, <2>2 DEF BreakerType
  <2>4. reset[u] /\ ~reset'[u]
    BY <1>2, <2>1 DEF BreakerType
  <2>5. \A v \in Upstream : v # u => requests'[v] = requests[v]
    BY <1>2, <2>1 DEF BreakerType
  <2>6. \A v \in Upstream : ClosedByAnswer(v)
    BY <2>4, <2>5, Zenon DEF ClosedByAnswer, Healthy
  <2>7. QED
    BY <1>1, <1>2, <2>1, <2>3, <2>6 DEF StepKept, BreakersKept, BreakerType
<1>7. QED
  BY <1>3, <1>4, <1>5, <1>6

\* An upstream fails or comes back.
LEMMA ToggleStep ==
  ASSUME IInv, NEW u \in Upstream, Toggle(u)
  PROVE  StepKept
<1>1. answers' \in [Upstream -> BOOLEAN] /\ UNCHANGED <<requests, probes, reset, write>>
  BY DEF Toggle, IInv, BreakerType
<1>2. QED
  BY <1>1, WritesUnchanged, BreakersUnchanged DEF StepKept, IInv, BreakerType

\* A step that changes nothing.
LEMMA StutterStep == ASSUME IInv, UNCHANGED vars PROVE StepKept
BY WritesUnchanged, BreakersStay DEF vars, StepKept

\* Every step.
LEMMA EveryStep == ASSUME IInv, [Next]_vars PROVE StepKept
<1>1. ASSUME NEW w \in Writes, WriteStep(w) PROVE StepKept
  BY <1>1, TakeSnapshotStep, StartLoopStep, RetryLoopStep, StoreStep, CallOkStep, CallErrStep,
     LoopTimeoutStep, DisconnectStep DEF WriteStep, Begin, LoopStep
<1>2. QED
  BY <1>1, BreakerStepKept, ToggleStep, StutterStep DEF Next

\* The initial state.
LEMMA InitInv == Init => IInv
<1> SUFFICES ASSUME Init PROVE IInv
  OBVIOUS
<1>1. BreakerType
  BY CircuitBreakerAssumption DEF Init, BreakerInit, BreakerType, Counts
<1>2. \A w \in Writes : write[w] = Idle
  BY DEF Init
<1>3. write \in [Writes -> WriteState]
  BY IdleType DEF Init
<1>4. QED
  BY <1>1, <1>2, <1>3, NothingAcked DEF IInv

\* What every step keeps is the invariant.
LEMMA KeptInv == StepKept => IInv'
BY DEF StepKept, WritesKept, BreakersKept, IInv

\* The invariant of the router's write path is inductive: every handler of
\* RpcWrite, its write loops and the circuit breakers keep it.
THEOREM Inductive == Spec => []IInv
<1>1. IInv /\ [Next]_vars => IInv'
  BY EveryStep, KeptInv
<1>2. QED
  BY <1>1, InitInv, PTL DEF Spec

\* What RpcWrite::write returns follows from the acknowledgements it observed,
\* for any number of upstreams, copies, concurrent writes, probes and counts.
THEOREM ResultsAreTrue == Spec => []ResultMatchesAcks
<1>1. IInv => ResultMatchesAcks
  <2> SUFFICES ASSUME IInv PROVE ResultMatchesAcks
    OBVIOUS
  <2>1. \A w \in Writes : write[w] \in WriteState /\ (write[w].at = "done" => ResultInv(write[w]))
    BY DEF IInv, WriteInv
  <2>2. TypeOK
    BY <2>1 DEF IInv, BreakerType, TypeOK, WriteState
  <2>3. QED
    BY <2>1, <2>2 DEF ResultMatchesAcks, ResultInv
<1>2. QED
  BY <1>1, Inductive, PTL

\* No loop sends a write to an upstream that has acknowledged it or that
\* another loop of the write is calling (UpstreamSnapshot).
THEOREM SentOncePerUpstream == Spec => NeverResent
<1>1. IInv /\ [Next]_vars => [\A w \in Writes, k \in Loops : SentOnce(w, k)]_vars
  BY EveryStep DEF StepKept, WritesKept
<1>2. QED
  BY <1>1, Inductive, PTL DEF Spec, NeverResent

\* An open circuit closes only when a call returns, with success or with the
\* error that completes a probe of few errors, or by the reset task's store,
\* for any number of probes (CircuitBreaker).
THEOREM CircuitsCloseOnAnswers == Spec => ClosesOnAnswer
<1>1. IInv /\ [Next]_vars => [\A u \in Upstream : ClosedByAnswer(u)]_vars
  BY EveryStep DEF StepKept, BreakersKept
<1>2. QED
  BY <1>1, Inductive, PTL DEF Spec, ClosesOnAnswer
=============================================================================
