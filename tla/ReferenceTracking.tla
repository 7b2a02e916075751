------------------------- MODULE ReferenceTracking -------------------------
(***************************************************************************)
(* The reference tracker in its environment: WAL rotations, completed      *)
(* persist jobs and failed writes, each reporting a sequence number at     *)
(* most once, in any grouping and any order (a persist may be reported     *)
(* before the segment it belongs to is rotated, and a sequence number may  *)
(* be reported that no segment ever holds, because the write to the WAL    *)
(* failed).  A graceful shutdown waits for the tracker to run empty.       *)
(***************************************************************************)
EXTENDS WalReferenceTracker

CONSTANTS SeqNums, Segments

VARIABLES
  contents,   (* [rotated segment -> sequence numbers it holds]            *)
  noted,      (* sequence numbers reported so far                          *)
  deleted,    (* segments the tracker deleted                              *)
  shutdown    (* progress of graceful_shutdown_handler                     *)

envVars == <<contents, noted, deleted, shutdown>>
vars == <<trackerVars, envVars>>

ShutdownStates == {"running", "registered", "rotated"}

Contained == UNION {contents[f] : f \in DOMAIN contents}

Init ==
  /\ TrackerInit
  /\ contents = <<>>
  /\ noted = {}
  /\ deleted = {}
  /\ shutdown = "running"

-----------------------------------------------------------------------------
(* A rotation: periodic_rotation, or WalPersister of the disk full
   protection.  A sequence number is written to one segment.              *)
RotatedInto(f, set) ==
  /\ f \in Segments \ DOMAIN contents
  /\ set \cap Contained = {}
  /\ contents' = [g \in DOMAIN contents \cup {f} |-> IF g = f THEN set ELSE contents[g]]
  /\ EnqueueRotatedFile(f, set)
  /\ UNCHANGED <<persistRx, unbufferedRx, persisted, walFiles, noted, deleted>>

Rotate(f, set) ==
  /\ RotatedInto(f, set)
  /\ UNCHANGED <<emptyWaker, shutdown>>

(* The last steps of graceful_shutdown_handler: the notifier is created,
   then the open segment is rotated out and enqueued.                     *)
ShutdownRegister ==
  /\ shutdown = "running"
  /\ EmptyInactiveNotifier
  /\ shutdown' = "registered"
  /\ UNCHANGED <<fileRx, persistRx, unbufferedRx, persisted, walFiles, contents, noted, deleted>>

ShutdownRotate(f, set) ==
  /\ shutdown = "registered"
  /\ RotatedInto(f, set)
  /\ shutdown' = "rotated"
  /\ UNCHANGED emptyWaker

NotePersisted(set) ==
  /\ set # {} /\ set \cap noted = {}
  /\ EnqueuePersistNotification(set)
  /\ noted' = noted \cup set
  /\ UNCHANGED <<fileRx, unbufferedRx, persisted, walFiles, emptyWaker, contents, deleted, shutdown>>

NoteUnbuffered(set) ==
  /\ set # {} /\ set \cap noted = {}
  /\ EnqueueUnbufferedWrite(set)
  /\ noted' = noted \cup set
  /\ UNCHANGED <<fileRx, persistRx, persisted, walFiles, emptyWaker, contents, deleted, shutdown>>

(* The actor loop, with the files each handler deletes. *)
ActorNewFile ==
  /\ HandleNewFile
  /\ deleted' = deleted \cup NewFileDeletes
  /\ UNCHANGED <<contents, noted, shutdown>>

ActorPersisted ==
  /\ HandlePersisted
  /\ deleted' = deleted \cup Emptied(Head(persistRx))
  /\ UNCHANGED <<contents, noted, shutdown>>

ActorUnbuffered ==
  /\ HandleUnbuffered
  /\ deleted' = deleted \cup Emptied(Head(unbufferedRx))
  /\ UNCHANGED <<contents, noted, shutdown>>

Actor == ActorNewFile \/ ActorPersisted \/ ActorUnbuffered

Next ==
  \/ \E f \in Segments, set \in SUBSET SeqNums : Rotate(f, set) \/ ShutdownRotate(f, set)
  \/ \E set \in SUBSET SeqNums : NotePersisted(set) \/ NoteUnbuffered(set)
  \/ ShutdownRegister
  \/ ActorNewFile \/ ActorPersisted \/ ActorUnbuffered

(* The actor is a tokio task that runs whenever a channel holds a message. *)
Spec == Init /\ [][Next]_vars /\ WF_vars(Actor)

-----------------------------------------------------------------------------
Queued(rx) == UNION {rx[i] : i \in DOMAIN rx}
QueuedFiles == {fileRx[i].id : i \in DOMAIN fileRx}

Handled == DOMAIN contents \ QueuedFiles
Released == noted \ (Queued(persistRx) \cup Queued(unbufferedRx))

WithinCapacity ==
  /\ Len(fileRx) <= FileCap
  /\ Len(persistRx) <= PersistCap
  /\ Len(unbufferedRx) <= UnbufferedCap

(* The type of the state; a channel never holds more than its capacity. *)
TypeOK ==
  /\ WithinCapacity
  /\ fileRx \in Seq([id : Segments, set : SUBSET SeqNums])
  /\ persistRx \in Seq(SUBSET SeqNums)
  /\ unbufferedRx \in Seq(SUBSET SeqNums)
  /\ persisted \in SUBSET SeqNums
  /\ DOMAIN walFiles \subseteq Segments
  /\ \A f \in DOMAIN walFiles : walFiles[f] \in SUBSET SeqNums
  /\ emptyWaker \in WakerStates
  /\ DOMAIN contents \subseteq Segments
  /\ \A f \in DOMAIN contents : contents[f] \in SUBSET SeqNums
  /\ noted \in SUBSET SeqNums
  /\ deleted \in SUBSET Segments
  /\ shutdown \in ShutdownStates

(* The reference counts are exact: a handled segment is kept with exactly
   the sequence numbers not yet released, and is gone if there are none;
   "persisted" holds exactly the released numbers no handled segment has.
   This is what handle_new_file and remove() must keep up together, whatever
   the order of the events.                                                *)
ExactReferences ==
  /\ DOMAIN walFiles = {f \in Handled : ~(contents[f] \subseteq Released)}
  /\ \A f \in DOMAIN walFiles : walFiles[f] = contents[f] \ Released
  /\ persisted = Released \ UNION {contents[f] : f \in Handled}
  /\ deleted = Handled \ DOMAIN walFiles

(* What the component promises, over the same contents, noted, deleted. *)
Abstract == INSTANCE SegmentRetention

(* The tracker implements the retention promise: handle_new_file and
   remove() delete a segment once, only after each sequence number in it was
   reported, and do delete it when they all were, in whatever order the
   three channels deliver.                                                 *)
RetentionSpec == Abstract!Spec

(* graceful_shutdown_handler does not hang: once it has rotated the last
   segment, and every sequence number in every segment is reported, the
   "empty" notification it registered for before arrives.                   *)
ShutdownWakes ==
  <>[](shutdown = "rotated" /\ Contained \subseteq noted) => <>(emptyWaker = "woken")
=============================================================================
