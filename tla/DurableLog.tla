----------------------------- MODULE DurableLog -----------------------------
(***************************************************************************)
(* What the write-ahead log promises, without its buffer, its flusher, its *)
(* I/O thread and its files: operations are settled in the order they are  *)
(* appended, a prefix at a time; an operation is reported ok only once it  *)
(* is placed in the segment that is open then; a rotation seals a segment  *)
(* and reports exactly the operations placed in it; a crash keeps what is  *)
(* placed, and may also keep a prefix of what was still pending.           *)
(***************************************************************************)
EXTENDS Naturals, Sequences, FiniteSets

CONSTANTS Ops, SegmentIds

VARIABLES
  pending,    (* operations appended and not settled, oldest first         *)
  outcome,    (* [Ops -> what the flush notification said]                 *)
  placed,     (* [operation a reader of the log finds -> its segment]      *)
  sealed      (* [segment rotated out -> operations the rotation reported] *)

vars == <<pending, outcome, placed, sealed>>

Outcomes == {"none", "pending", "ok", "err", "lost"}

SetOf(s) == {s[i] : i \in DOMAIN s}

PlacedIn(id) == {op \in DOMAIN placed : placed[op] = id}

Init ==
  /\ pending = <<>>
  /\ outcome = [op \in Ops |-> "none"]
  /\ placed = <<>>
  /\ sealed = <<>>

Append1(op) ==
  /\ outcome[op] = "none"
  /\ pending' = Append(pending, op)
  /\ outcome' = [outcome EXCEPT ![op] = "pending"]
  /\ UNCHANGED <<placed, sealed>>

Place(ops, id) ==
  placed' = [op \in DOMAIN placed \cup ops |-> IF op \in ops THEN id ELSE placed[op]]

(* The oldest n pending operations share one result. *)
Settle(n, id) ==
  LET batch == SetOf(SubSeq(pending, 1, n))
  IN  /\ n \in 1..Len(pending)
      /\ pending' = SubSeq(pending, n + 1, Len(pending))
      /\ \/ /\ id \notin DOMAIN sealed
            /\ Place(batch, id)
            /\ outcome' = [op \in Ops |-> IF op \in batch THEN "ok" ELSE outcome[op]]
         \/ /\ outcome' = [op \in Ops |-> IF op \in batch THEN "err" ELSE outcome[op]]
            /\ UNCHANGED placed
      /\ UNCHANGED sealed

Rotate(id) ==
  /\ id \notin DOMAIN sealed
  /\ sealed' = [i \in DOMAIN sealed \cup {id} |-> IF i = id THEN PlacedIn(id) ELSE sealed[i]]
  /\ UNCHANGED <<pending, outcome, placed>>

Delete(id) ==
  /\ placed' = [op \in DOMAIN placed \ PlacedIn(id) |-> placed[op]]
  /\ UNCHANGED <<pending, outcome, sealed>>

Crash(n, id) ==
  LET kept == SetOf(SubSeq(pending, 1, n))
  IN  /\ n \in 0..Len(pending)
      /\ n > 0 => id \notin DOMAIN sealed
      /\ Place(kept, id)
      /\ outcome' = [op \in Ops |-> IF outcome[op] = "pending" THEN "lost" ELSE outcome[op]]
      /\ pending' = <<>>
      /\ sealed' = <<>>

Next ==
  \/ \E op \in Ops : Append1(op)
  \/ \E n \in 1..Cardinality(Ops), id \in SegmentIds : Settle(n, id)
  \/ \E id \in SegmentIds : Rotate(id) \/ Delete(id)
  \/ \E n \in 0..Cardinality(Ops), id \in SegmentIds : Crash(n, id)

Spec == Init /\ [][Next]_vars
=============================================================================
