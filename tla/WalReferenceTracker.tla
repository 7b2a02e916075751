------------------------ MODULE WalReferenceTracker ------------------------
(***************************************************************************)
(* The WAL reference tracker of the ingester                               *)
(* (ingester/src/wal/reference_tracker): an actor that is told, over three *)
(* bounded channels, which sequence numbers a rotated WAL segment holds,   *)
(* which have been persisted and which failed to buffer.  It deletes a     *)
(* segment file once every sequence number in it has been released.        *)
(*                                                                         *)
(* The module is the component alone: its state, the handlers of the actor *)
(* loop, and the sending half of each channel.  Who sends what is decided  *)
(* by the modules that extend it.                                          *)
(***************************************************************************)
EXTENDS Naturals, Sequences, FiniteSets

CONSTANTS
  FileCap,        (* capacity of the channel of rotated files              *)
  PersistCap,     (* capacity of the channel of persist notifications      *)
  UnbufferedCap   (* capacity of the channel of failed writes              *)

ASSUME CapAssumption ==
  /\ FileCap \in Nat \ {0}
  /\ PersistCap \in Nat \ {0}
  /\ UnbufferedCap \in Nat \ {0}

VARIABLES
  fileRx,         (* rotated files enqueued: [id, set] records             *)
  persistRx,      (* sets of sequence numbers persisted together           *)
  unbufferedRx,   (* sets of sequence numbers of writes that failed        *)
  persisted,      (* released sequence numbers no known file holds yet     *)
  walFiles,       (* [known segment -> sequence numbers not yet released]  *)
  emptyWaker      (* the waiter on "no inactive file": the state of the
                     future empty_inactive_notifier() returned             *)

trackerVars == <<fileRx, persistRx, unbufferedRx, persisted, walFiles, emptyWaker>>

(* The future of a Notify has not been created, waits, or is resolved. *)
WakerStates == {"none", "waiting", "woken"}

TrackerInit ==
  /\ fileRx = <<>>
  /\ persistRx = <<>>
  /\ unbufferedRx = <<>>
  /\ persisted = {}
  /\ walFiles = <<>>
  /\ emptyWaker = "none"

-----------------------------------------------------------------------------
(* The handle: each of these awaits room in a bounded channel. *)

EnqueueRotatedFile(id, set) ==
  /\ Len(fileRx) < FileCap
  /\ fileRx' = Append(fileRx, [id |-> id, set |-> set])

EnqueuePersistNotification(set) ==
  /\ Len(persistRx) < PersistCap
  /\ persistRx' = Append(persistRx, set)

EnqueueUnbufferedWrite(set) ==
  /\ Len(unbufferedRx) < UnbufferedCap
  /\ unbufferedRx' = Append(unbufferedRx, set)

EmptyInactiveNotifier ==
  /\ emptyWaker' = "waiting"

-----------------------------------------------------------------------------
(* The actor.  Its select! is biased, but a message may arrive between two
   polls, so the channels are taken from in any order.  The deletions a
   handler makes happen within its step.                                  *)

(* Mutant: emptiness is tested before the event is applied. *)
NotifyEmptyWakers_BeforeEvent(files) ==
  emptyWaker' = IF DOMAIN walFiles = {} /\ emptyWaker = "waiting" THEN "woken" ELSE emptyWaker

(* Wake the waiter, if any, when no inactive file is left. *)
NotifyEmptyWakers(files) ==
  emptyWaker' = IF DOMAIN files = {} /\ emptyWaker = "waiting" THEN "woken" ELSE emptyWaker

(* Mutant: what was persisted before the rotation is not cleared. *)
NewFileSet_KeepsPersisted(set) == set

(* handle_new_file: what the file holds that was already released is
   cleared from both sets; a file left empty is deleted at once.          *)
NewFileSet(set) == set \ persisted

HandleNewFile ==
  /\ fileRx # <<>>
  /\ LET id  == Head(fileRx).id
         set == Head(fileRx).set
         files == IF NewFileSet(set) = {} THEN walFiles
                  ELSE [f \in DOMAIN walFiles \cup {id} |->
                           IF f = id THEN NewFileSet(set) ELSE walFiles[f]]
     IN  /\ walFiles' = files
         /\ persisted' = persisted \ set
         /\ NotifyEmptyWakers(files)
  /\ fileRx' = Tail(fileRx)
  /\ UNCHANGED <<persistRx, unbufferedRx>>

(* The segments handle_new_file deletes. *)
NewFileDeletes == IF NewFileSet(Head(fileRx).set) = {} THEN {Head(fileRx).id} ELSE {}

(* remove(): the released set first cancels against "persisted", then
   against each file; what is left over waits in "persisted".  The files
   are walked in turn, clearing from the released set what a file holds;
   their sets are disjoint, so all are cleared at once here.              *)
Unmatched(set) == set \ persisted

(* Mutant: one released sequence number is enough. *)
Emptied_AnyMatch(set) == {f \in DOMAIN walFiles : walFiles[f] \cap Unmatched(set) # {}}

Emptied(set) == {f \in DOMAIN walFiles : walFiles[f] \subseteq Unmatched(set)}

FileSets == UNION {walFiles[f] : f \in DOMAIN walFiles}

Remove(set) ==
  LET files == [f \in DOMAIN walFiles \ Emptied(set) |-> walFiles[f] \ Unmatched(set)]
  IN  /\ walFiles' = files
      /\ persisted' = (persisted \ set) \cup (Unmatched(set) \ FileSets)
      /\ NotifyEmptyWakers(files)

HandlePersisted ==
  /\ persistRx # <<>>
  /\ Remove(Head(persistRx))
  /\ persistRx' = Tail(persistRx)
  /\ UNCHANGED <<fileRx, unbufferedRx>>

HandleUnbuffered ==
  /\ unbufferedRx # <<>>
  /\ Remove(Head(unbufferedRx))
  /\ unbufferedRx' = Tail(unbufferedRx)
  /\ UNCHANGED <<fileRx, persistRx>>
=============================================================================
