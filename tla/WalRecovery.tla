---------------------------- MODULE WalRecovery ----------------------------
(***************************************************************************)
(* Crash recovery of the ingester: the write-ahead log (Wal) together with *)
(* the replay that runs before the ingester accepts writes                 *)
(* (ingester/src/init/wal_replay.rs).  Replay applies each closed segment, *)
(* oldest first, persists what it applied and deletes the segment; the     *)
(* process may crash again while it does.  A segment read to a cut chunk   *)
(* is accepted only if it is the last one.                                 *)
(*                                                                         *)
(* In normal operation operations are persisted one by one, in any order,  *)
(* and a closed segment is deleted when all it holds has been persisted:   *)
(* the promise of SegmentRetention.                                        *)
(***************************************************************************)
EXTENDS Wal, SequencesExt

VARIABLES
  phase,      (* of the process                                            *)
  files,      (* the segments to replay, oldest first                      *)
  replaying,  (* "read" the next file, or "persist" what it held           *)
  buffered,   (* operations in the buffer tree                             *)
  stored      (* operations in object storage                              *)

recoveryVars == <<phase, files, replaying, buffered, stored>>
vars == <<walVars, recoveryVars>>

Phases == {"replaying", "running", "down", "failed"}

Init ==
  /\ WalInit
  /\ phase = "running"
  /\ files = <<>>
  /\ replaying = "read"
  /\ buffered = {}
  /\ stored = {}

-----------------------------------------------------------------------------
(* Normal operation. *)

(* The write is applied to the buffer while the log makes it durable. *)
Write ==
  /\ phase = "running"
  /\ WriteOp
  /\ buffered' = buffered \cup {appended + 1}
  /\ UNCHANGED <<phase, files, replaying, stored>>

Flush == (FlushTick \/ EnqueueBatch) /\ UNCHANGED recoveryVars

IoThread ==
  /\ IoReceive \/ IoWrite \/ \E tear \in Tears : IoWriteFails(tear)
  /\ UNCHANGED recoveryVars

Rotate(r) ==
  /\ phase = "running"
  /\ RotateCreate(r) \/ RotateSwap(r)
  /\ UNCHANGED recoveryVars

Persist(op) ==
  /\ up /\ op \in buffered
  /\ phase = "replaying" => replaying = "persist"
  /\ buffered' = buffered \ {op}
  /\ stored' = stored \cup {op}
  /\ UNCHANGED <<walVars, phase, files, replaying>>

Retire(id) ==
  /\ phase = "running"
  /\ id \in DOMAIN rotated /\ rotated[id] \subseteq stored
  /\ DeleteSegment(id)
  /\ UNCHANGED recoveryVars

CrashNow(tear, headless) ==
  /\ phase \in {"running", "replaying"}
  /\ Crash(tear, headless)
  /\ phase' = "down"
  /\ buffered' = {} /\ files' = <<>> /\ replaying' = "read"
  /\ UNCHANGED stored

-----------------------------------------------------------------------------
(* Start-up. *)

(* (Bound: a start that failed is repeated while ids are left for the start
   after every crash.)                                                    *)
StartUp ==
  /\ phase \in {"down", "failed"}
  /\ phase = "failed" => nextId < RotationBound
  /\ OpenWal
  /\ phase' = "replaying"
  /\ files' = SetToSortSeq(closedSegs', <)
  /\ UNCHANGED <<replaying, buffered, stored>>

CrashInStartUp ==
  /\ phase \in {"down", "failed"}
  /\ CrashInOpen
  /\ phase' = "down"
  /\ UNCHANGED <<files, replaying, buffered, stored>>

(* What the reader makes of the end of the file inside the last chunk: in
   the checksum it is taken for the clean end of the file, in a frame it is
   reported as an unexpected end.  In the length it is another error, and
   between two frames the data merely turns out to be too short.          *)
CutEnd == [checksum |-> "end", length |-> "error", frame |-> "error", data |-> "eof"]

(* How reading a file may end.  Behind a chunk that was cut and written
   over, the reader is out of step and may find either kind of error.     *)
ReadEnd(file) ==
  LET n == Len(file.chunks)
      k == FirstTorn(file.chunks)
  IN  IF ~file.header THEN {"error"}
      ELSE IF k > n THEN {"end"}
      ELSE IF k = n THEN {CutEnd[file.chunks[n].tear]}
      ELSE {"eof", "error"}

(* Only the last file may end in a cut chunk. *)
Tolerated(end) == end = "end" \/ (end = "eof" /\ Len(files) = 1)

ReplayFile(end) ==
  /\ phase = "replaying" /\ replaying = "read" /\ files # <<>>
  /\ LET file == disk[Head(files)]
     IN  /\ end \in ReadEnd(file) /\ Tolerated(end)
         /\ ~(end = "end" /\ ReadableOps(file) = {})
         /\ buffered' = buffered \cup ReadableOps(file)
  /\ replaying' = "persist"
  /\ UNCHANGED <<walVars, phase, files, stored>>

(* Mutant: an empty file is expected only at the end. *)
ReplayEmptyFile_OnlyLast ==
  /\ phase = "replaying" /\ replaying = "read" /\ Len(files) = 1
  /\ "end" \in ReadEnd(disk[Head(files)]) /\ ReadableOps(disk[Head(files)]) = {}
  /\ DeleteSegment(Head(files))
  /\ files' = Tail(files)
  /\ UNCHANGED <<phase, replaying, buffered, stored>>

(* A file without operations is dropped; failing to drop it is ignored. *)
ReplayEmptyFile ==
  /\ phase = "replaying" /\ replaying = "read" /\ files # <<>>
  /\ "end" \in ReadEnd(disk[Head(files)]) /\ ReadableOps(disk[Head(files)]) = {}
  /\ DeleteSegment(Head(files)) \/ DeleteFails(Head(files))
  /\ files' = Tail(files)
  /\ UNCHANGED <<phase, replaying, buffered, stored>>

(* Mutant: the file is deleted without waiting for the persist jobs. *)
DropReplayed_NoWait ==
  /\ phase = "replaying" /\ replaying = "persist"
  /\ DeleteSegment(Head(files))
  /\ files' = Tail(files)
  /\ replaying' = "read"
  /\ UNCHANGED <<phase, buffered, stored>>

(* Everything applied from the file is persisted: the file is deleted. *)
DropReplayed ==
  /\ phase = "replaying" /\ replaying = "persist" /\ buffered = {}
  /\ DeleteSegment(Head(files))
  /\ files' = Tail(files)
  /\ replaying' = "read"
  /\ UNCHANGED <<phase, buffered, stored>>

(* Mutant: writes are accepted after the first file. *)
ReplayDone_Early ==
  /\ phase = "replaying" /\ replaying = "read"
  /\ phase' = "running"
  /\ files' = <<>>
  /\ UNCHANGED <<walVars, replaying, buffered, stored>>

ReplayDone ==
  /\ phase = "replaying" /\ replaying = "read" /\ files = <<>>
  /\ phase' = "running"
  /\ UNCHANGED <<walVars, files, replaying, buffered, stored>>

(* Any other error is returned: the ingester does not start.  What it read
   of the file was applied to a buffer that goes away with it.            *)
ReplayFails(end) ==
  /\ phase = "replaying" /\ replaying = "read" /\ files # <<>>
  /\ end \in ReadEnd(disk[Head(files)]) /\ ~Tolerated(end)
  /\ phase' = "failed"
  /\ up' = FALSE
  /\ files' = <<>> /\ buffered' = {}
  /\ openIds' = {} /\ closedSegs' = {}
  /\ UNCHANGED <<disk, crashes, nextId, openSeg, buffer, flushing, ioQueue, ioBatch, rotating,
                 history, replaying, stored>>

Ends == {"end", "eof", "error"}

Replay ==
  \/ \E end \in Ends : ReplayFile(end) \/ ReplayFails(end)
  \/ ReplayEmptyFile \/ DropReplayed \/ ReplayDone

Next ==
  \/ Write \/ Flush \/ IoThread
  \/ \E r \in Rotators : Rotate(r)
  \/ \E op \in Ops : Persist(op)
  \/ \E id \in SegmentIds : Retire(id)
  \/ \E tear \in CrashTears \cup {Whole}, headless \in Headless : CrashNow(tear, headless)
  \/ StartUp \/ CrashInStartUp
  \/ \E end \in Ends : ReplayFile(end) \/ ReplayFails(end)
  \/ ReplayEmptyFile \/ DropReplayed \/ ReplayDone

(* The flusher is a task on a timer and the I/O thread an OS thread: both go
   on while the process runs.  The process is restarted, replay runs, and
   persist jobs are retried until they succeed.                           *)
Spec ==
  /\ Init /\ [][Next]_vars
  /\ WF_vars(Flush) /\ WF_vars(IoThread)
  /\ WF_vars(StartUp)
  /\ WF_vars(Replay)
  /\ \A op \in 1..MaxOps : WF_vars(Persist(op))

-----------------------------------------------------------------------------
(* The type of the recovery state; nothing is left to replay while running. *)
TypeOK ==
  /\ WalTypeOK
  /\ phase \in Phases
  /\ files \in Seq(SegmentIds)
  /\ replaying \in {"read", "persist"}
  /\ buffered \subseteq Ops
  /\ stored \subseteq Ops
  /\ up <=> phase \in {"running", "replaying"}
  /\ phase = "running" => files = <<>>

OnDisk == UNION {ReadableOps(disk[i]) : i \in DOMAIN disk}

(* A write that was acknowledged is never lost: at every moment it is in
   object storage, or a segment that replay will read holds it, through
   crashes in normal operation, during replay and between the two.         *)
AckedSurvives ==
  /\ TypeOK
  /\ \A op \in Ops : outcome[op] = "ok" => op \in stored \cup OnDisk

(* When replay is done and the ingester accepts queries, it has every
   acknowledged write in its buffer or in object storage.                  *)
AckedVisible ==
  phase = "running" => \A op \in Ops : outcome[op] = "ok" => op \in stored \cup buffered

(* What a crash leaves that replay cannot get past: a file without its whole
   header, a chunk cut in its length or between frames, or a chunk cut in a
   frame of a file that is not the last, because a rotation was creating the
   next file or a start-up that crashed again had opened one.             *)
FatalCut(id) ==
  LET file == disk[id]
      k == FirstTorn(file.chunks)
  IN  \/ ~file.header
      \/ /\ k <= Len(file.chunks)
         /\ \/ file.chunks[k].tear \in {"length", "frame"}
            \/ /\ file.chunks[k].tear = "data"
               /\ \E later \in DOMAIN disk \ {openSeg} : later > id

(* After a crash the ingester comes up again, unless such a file is there: a
   crash that cuts the last write before it, in its checksum or in its data,
   empty segments, and segments that a crashed replay had persisted but not
   deleted do not keep it from starting.                                   *)
ComesUp == phase = "down" ~> (phase = "running" \/ \E id \in DOMAIN disk : FatalCut(id))

=============================================================================
