-------------------------- MODULE SegmentRetention --------------------------
(***************************************************************************)
(* What the WAL reference tracker promises, without its channels and sets: *)
(* a rotated segment is deleted once, only after every sequence number it  *)
(* holds has been reported as persisted or as failed, and it is eventually *)
(* deleted when they all have been                                         *)
(* (ingester/src/wal/reference_tracker/handle.rs, "Once all the operations *)
(* in a given WAL file have been observed as persisted (or failed to       *)
(* apply), the WAL file is no longer required").                           *)
(***************************************************************************)
EXTENDS Naturals, FiniteSets

CONSTANTS SeqNums, Segments

VARIABLES
  contents,   (* [rotated segment -> sequence numbers in it]               *)
  noted,      (* sequence numbers reported as persisted or failed          *)
  deleted     (* segments deleted from disk                                *)

vars == <<contents, noted, deleted>>

Init ==
  /\ contents = <<>>
  /\ noted = {}
  /\ deleted = {}

Rotate(f, set) ==
  /\ f \in Segments \ DOMAIN contents
  /\ contents' = [g \in DOMAIN contents \cup {f} |-> IF g = f THEN set ELSE contents[g]]
  /\ UNCHANGED <<noted, deleted>>

Note(set) ==
  /\ noted' = noted \cup set
  /\ UNCHANGED <<contents, deleted>>

Unreferenced == {f \in DOMAIN contents \ deleted : contents[f] \subseteq noted}

Delete(fs) ==
  /\ fs # {}
  /\ fs \subseteq Unreferenced
  /\ deleted' = deleted \cup fs
  /\ UNCHANGED <<contents, noted>>

Next ==
  \/ \E f \in Segments, set \in SUBSET SeqNums : Rotate(f, set)
  \/ \E set \in SUBSET SeqNums : Note(set)
  \/ \E fs \in SUBSET Segments : Delete(fs)

Spec ==
  /\ Init /\ [][Next]_vars
  /\ \A f \in Segments : WF_vars(\E fs \in SUBSET Segments : f \in fs /\ Delete(fs))
=============================================================================
