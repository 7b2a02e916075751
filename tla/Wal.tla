-------------------------------- MODULE Wal --------------------------------
(***************************************************************************)
(* The write-ahead log (wal/src): write_op() pushes operations into a      *)
(* buffer; the flusher task swaps the buffer out at every tick and sends   *)
(* it to the I/O thread over a channel of depth FLUSH_QUEUE_DEPTH; the I/O *)
(* thread writes it as one chunk to the open segment, fsyncs, notifies the *)
(* writers and adds its sequence numbers to the open segment's set, all    *)
(* under the lock that rotate() also takes.  A write may fail, leaving no  *)
(* byte, or part of the chunk, in the file.  The process may crash at any  *)
(* point and open the log again.                                           *)
(*                                                                         *)
(* Operations are the numbers 1, 2, ... in the order they are appended;    *)
(* an operation stands for its sequence numbers.                           *)
(***************************************************************************)
EXTENDS Naturals, Sequences, FiniteSets, FiniteSetsExt

CONSTANTS
  MaxOps,        (* bound: operations appended                             *)
  MaxSegments,   (* bound: segment files ever created                      *)
  MaxCrashes,    (* bound: crashes                                         *)
  Rotators,      (* tasks that call rotate()                               *)
  Tears,         (* what a failing write may leave of a chunk in the file  *)
  CrashTears,    (* what a crash may leave of the chunk being written      *)
  HeadlessCrash  (* a crash may leave a new segment without its header     *)

(* A chunk is a u32 checksum, a u32 length and the compressed batch, a stream
   of frames.  It is cut before any byte, inside the checksum, inside the
   length, before a frame or inside a frame ("data").                      *)
TearKinds == {"nothing", "checksum", "length", "frame", "data"}

ASSUME WalAssumption ==
  /\ {MaxOps, MaxSegments, MaxCrashes} \subseteq Nat
  /\ Tears \subseteq TearKinds
  /\ CrashTears \subseteq TearKinds
  /\ HeadlessCrash \in BOOLEAN

VARIABLES
  disk,       (* [segment id -> [header, chunks]]: the directory           *)
  up,         (* the process runs and has opened the log                   *)
  crashes,    (* number of crashes so far                                  *)
  nextId,     (* next_id_source                                            *)
  openSeg,    (* the open segment                                          *)
  openIds,    (* open_segment_ids                                          *)
  closedSegs, (* the keys of closed_segments                               *)
  buffer,     (* the ops of the current WalBuffer                          *)
  flushing,   (* the batch the flusher swapped out, waiting for the queue  *)
  ioQueue,    (* the channel to the I/O thread                             *)
  ioBatch,    (* the batch the I/O thread received                         *)
  rotating,   (* [Rotators -> the segment created for a rotation, or None] *)
  appended,   (* operations appended so far                                *)
  outcome,    (* [operation -> the result its writer was notified of]      *)
  rotated,    (* [segment closed by rotate() -> the set it returned]       *)
  overtaken   (* a rotation opened a segment older than the one it closed  *)

memory == <<nextId, openSeg, openIds, closedSegs, buffer, flushing, ioQueue, ioBatch, rotating>>
history == <<appended, outcome, rotated, overtaken>>
walVars == <<disk, up, crashes, memory, history>>

Ops == 1..MaxOps
SegmentIds == 0..(MaxSegments - 1)
None == MaxSegments

FlushQueueDepth == 1

Chunk(ops, tear) == [ops |-> ops, tear |-> tear]
Whole == "none"
NewFile == [header |-> TRUE, chunks |-> <<>>]

WithFile(id, file) ==
  [i \in DOMAIN disk \cup {id} |-> IF i = id THEN file ELSE disk[i]]

WriteChunk(id, chunk) ==
  disk' = [disk EXCEPT ![id].chunks = Append(@, chunk)]

SetOf(s) == {s[i] : i \in DOMAIN s}

NextSegmentId(files) == IF files = {} THEN 0 ELSE Max(files) + 1

(* The directory is empty the first time. *)
WalInit ==
  /\ disk = [i \in {0} |-> NewFile]
  /\ up = TRUE
  /\ crashes = 0
  /\ nextId = 1
  /\ openSeg = 0
  /\ openIds = {}
  /\ closedSegs = {}
  /\ buffer = <<>> /\ flushing = <<>> /\ ioQueue = <<>> /\ ioBatch = <<>>
  /\ rotating = [r \in Rotators |-> None]
  /\ appended = 0
  /\ outcome = [op \in Ops |-> "none"]
  /\ rotated = <<>>
  /\ overtaken = FALSE

-----------------------------------------------------------------------------
WriteOp ==
  /\ up /\ appended < MaxOps
  /\ appended' = appended + 1
  /\ buffer' = Append(buffer, appended + 1)
  /\ outcome' = [outcome EXCEPT ![appended + 1] = "pending"]
  /\ UNCHANGED <<disk, up, crashes, nextId, openSeg, openIds, closedSegs, flushing, ioQueue,
                 ioBatch, rotating, rotated, overtaken>>

(* Mutant: the flusher does not wait for the batch before, and overtakes it. *)
FlushTick_Overtakes ==
  /\ up /\ buffer # <<>>
  /\ flushing' = buffer \o flushing
  /\ buffer' = <<>>
  /\ UNCHANGED <<disk, up, crashes, nextId, openSeg, openIds, closedSegs, ioQueue, ioBatch,
                 rotating, history>>

(* Mutant: the flusher leaves a single operation to the next tick. *)
FlushTick_LeavesOne ==
  /\ up /\ flushing = <<>> /\ Len(buffer) > 1
  /\ flushing' = buffer
  /\ buffer' = <<>>
  /\ UNCHANGED <<disk, up, crashes, nextId, openSeg, openIds, closedSegs, ioQueue, ioBatch,
                 rotating, history>>

(* A tick of the flusher with a buffer that is not empty; the flusher does
   not tick again before the batch is in the queue.                       *)
FlushTick ==
  /\ up /\ flushing = <<>> /\ buffer # <<>>
  /\ flushing' = buffer
  /\ buffer' = <<>>
  /\ UNCHANGED <<disk, up, crashes, nextId, openSeg, openIds, closedSegs, ioQueue, ioBatch,
                 rotating, history>>

EnqueueBatch ==
  /\ up /\ flushing # <<>> /\ Len(ioQueue) < FlushQueueDepth
  /\ ioQueue' = Append(ioQueue, flushing)
  /\ flushing' = <<>>
  /\ UNCHANGED <<disk, up, crashes, nextId, openSeg, openIds, closedSegs, buffer, ioBatch,
                 rotating, history>>

(* blocking_recv() of the I/O thread, and the encoding of the batch. *)
IoReceive ==
  /\ up /\ ioBatch = <<>> /\ ioQueue # <<>>
  /\ ioBatch' = Head(ioQueue)
  /\ ioQueue' = Tail(ioQueue)
  /\ UNCHANGED <<disk, up, crashes, nextId, openSeg, openIds, closedSegs, buffer, flushing,
                 rotating, history>>

Notified(result) ==
  outcome' = [op \in Ops |-> IF op \in SetOf(ioBatch) THEN result ELSE outcome[op]]

(* The critical section of the I/O thread: write, fsync, notify, add ids. *)
IoWrite ==
  /\ up /\ ioBatch # <<>>
  /\ WriteChunk(openSeg, Chunk(ioBatch, Whole))
  /\ Notified("ok")
  /\ openIds' = openIds \cup SetOf(ioBatch)
  /\ ioBatch' = <<>>
  /\ UNCHANGED <<up, crashes, nextId, openSeg, closedSegs, buffer, flushing, ioQueue, rotating,
                 appended, rotated, overtaken>>

(* The same with a write that fails: the writers get the error, the ids are
   not added, and what reached the file stays in it.                       *)
IoWriteFails(tear) ==
  /\ up /\ ioBatch # <<>>
  /\ IF tear = "nothing" THEN UNCHANGED disk ELSE WriteChunk(openSeg, Chunk(ioBatch, tear))
  /\ Notified("err")
  /\ ioBatch' = <<>>
  /\ UNCHANGED <<up, crashes, nextId, openSeg, openIds, closedSegs, buffer, flushing, ioQueue,
                 rotating, appended, rotated, overtaken>>

(* Bound on rotations: an id is left for every start after a crash. *)
RotationBound == MaxSegments - (MaxCrashes - crashes)

(* rotate() first creates the new segment file, with an id of its own and
   without the lock ...                                                    *)
RotateCreate(r) ==
  /\ up /\ rotating[r] = None /\ nextId < RotationBound
  /\ disk' = WithFile(nextId, NewFile)
  /\ rotating' = [rotating EXCEPT ![r] = nextId]
  /\ nextId' = nextId + 1
  /\ UNCHANGED <<up, crashes, openSeg, openIds, closedSegs, buffer, flushing, ioQueue, ioBatch,
                 history>>

(* Mutant: open_segment_ids is cloned, not taken. *)
RotateSwap_KeepsIds(r) ==
  /\ up /\ rotating[r] # None
  /\ rotated' = [i \in DOMAIN rotated \cup {openSeg} |->
                    IF i = openSeg THEN openIds ELSE rotated[i]]
  /\ closedSegs' = closedSegs \cup {openSeg}
  /\ openSeg' = rotating[r]
  /\ overtaken' = (overtaken \/ rotating[r] < openSeg)
  /\ rotating' = [rotating EXCEPT ![r] = None]
  /\ UNCHANGED <<disk, up, crashes, nextId, openIds, buffer, flushing, ioQueue, ioBatch,
                 appended, outcome>>

(* ... and then, with the lock, makes it the open segment and returns the
   one it replaces.                                                        *)
RotateSwap(r) ==
  /\ up /\ rotating[r] # None
  /\ rotated' = [i \in DOMAIN rotated \cup {openSeg} |->
                    IF i = openSeg THEN openIds ELSE rotated[i]]
  /\ closedSegs' = closedSegs \cup {openSeg}
  /\ openSeg' = rotating[r]
  /\ overtaken' = (overtaken \/ rotating[r] < openSeg)
  /\ openIds' = {}
  /\ rotating' = [rotating EXCEPT ![r] = None]
  /\ UNCHANGED <<disk, up, crashes, nextId, buffer, flushing, ioQueue, ioBatch, appended, outcome>>

(* delete() takes the segment out of the map, then removes the file, which
   may fail.                                                               *)
DeleteSegment(id) ==
  /\ up /\ id \in closedSegs
  /\ closedSegs' = closedSegs \ {id}
  /\ disk' = [i \in DOMAIN disk \ {id} |-> disk[i]]
  /\ UNCHANGED <<up, crashes, nextId, openSeg, openIds, buffer, flushing, ioQueue, ioBatch,
                 rotating, history>>

DeleteFails(id) ==
  /\ up /\ id \in closedSegs
  /\ closedSegs' = closedSegs \ {id}
  /\ UNCHANGED <<disk, up, crashes, nextId, openSeg, openIds, buffer, flushing, ioQueue, ioBatch,
                 rotating, history>>

-----------------------------------------------------------------------------
(* A crash.  The chunk being written may be whole in the file, cut, or
   absent; a segment just created may be without its header.               *)
CrashedFile(id, tear, headless) ==
  [ header |-> disk[id].header /\ id \notin headless,
    chunks |-> IF id = openSeg /\ ioBatch # <<>> /\ tear # "nothing"
               THEN Append(disk[id].chunks, Chunk(ioBatch, tear))
               ELSE disk[id].chunks ]

BeingCreated == {rotating[r] : r \in Rotators} \ {None}
Headless == IF HeadlessCrash THEN SUBSET BeingCreated ELSE {{}}

Crash(tear, headless) ==
  /\ up /\ crashes < MaxCrashes
  /\ crashes' = crashes + 1
  /\ up' = FALSE
  /\ disk' = [i \in DOMAIN disk |-> CrashedFile(i, tear, headless)]
  /\ buffer' = <<>> /\ flushing' = <<>> /\ ioQueue' = <<>> /\ ioBatch' = <<>>
  /\ openIds' = {} /\ closedSegs' = {}
  /\ rotating' = [r \in Rotators |-> None]
  /\ outcome' = [op \in Ops |-> IF outcome[op] = "pending" THEN "lost" ELSE outcome[op]]
  /\ rotated' = <<>>
  /\ UNCHANGED <<nextId, openSeg, appended, overtaken>>

(* Wal::new(): every file of the directory is a closed segment, and the new
   open segment follows the last of them.                                 *)
OpenWal ==
  LET id == NextSegmentId(DOMAIN disk)
  IN  /\ ~up /\ id < MaxSegments
      /\ up' = TRUE
      /\ closedSegs' = DOMAIN disk
      /\ disk' = WithFile(id, NewFile)
      /\ openSeg' = id
      /\ nextId' = id + 1
      /\ UNCHANGED <<crashes, openIds, buffer, flushing, ioQueue, ioBatch, rotating, history>>

(* A crash before Wal::new() has written the header of that segment. *)
CrashInOpen ==
  LET id == NextSegmentId(DOMAIN disk)
  IN  /\ ~up /\ crashes < MaxCrashes /\ HeadlessCrash /\ id < MaxSegments
      /\ crashes' = crashes + 1
      /\ disk' = WithFile(id, [NewFile EXCEPT !.header = FALSE])
      /\ nextId' = id + 1
      /\ UNCHANGED <<up, openSeg, openIds, closedSegs, buffer, flushing, ioQueue, ioBatch, rotating,
                     history>>

-----------------------------------------------------------------------------
(* Reading a segment back: the batches up to the first cut chunk. *)
FirstTorn(chunks) == Min({i \in DOMAIN chunks : chunks[i].tear # Whole} \cup {Len(chunks) + 1})

ReadableOps(file) ==
  IF ~file.header THEN {}
  ELSE UNION {SetOf(file.chunks[i].ops) : i \in 1..(FirstTorn(file.chunks) - 1)}

-----------------------------------------------------------------------------
-----------------------------------------------------------------------------
Batch == Seq(Ops)
Chunks == Seq([ops : Batch, tear : TearKinds \cup {Whole}])

(* The type of the state.  The queue to the I/O thread is bounded, and what
   rotate() asserts holds: the segment it closes is not closed already.    *)
WalTypeOK ==
  /\ DOMAIN disk \subseteq SegmentIds
  /\ \A i \in DOMAIN disk : disk[i].header \in BOOLEAN /\ disk[i].chunks \in Chunks
  /\ up \in BOOLEAN
  /\ crashes \in 0..MaxCrashes
  /\ nextId \in 0..MaxSegments
  /\ openSeg \in SegmentIds
  /\ openIds \subseteq Ops
  /\ closedSegs \subseteq SegmentIds
  /\ buffer \in Batch /\ flushing \in Batch /\ ioBatch \in Batch
  /\ ioQueue \in Seq(Batch) /\ Len(ioQueue) <= FlushQueueDepth
  /\ rotating \in [Rotators -> SegmentIds \cup {None}]
  /\ appended \in 0..MaxOps
  /\ outcome \in [Ops -> {"none", "pending", "ok", "err", "lost"}]
  /\ DOMAIN rotated \subseteq SegmentIds
  /\ overtaken \in BOOLEAN
  /\ up => openSeg \notin closedSegs

(* Replay reads the operations in the order they were appended: segments by
   id ("which is the order they were written in"), and within a segment
   chunk by chunk, the batches in the order of write_op().  The ids follow
   the order of writing unless one rotation overtook another between its
   creation of a file and its swap.                                        *)
ReplayOrder ==
  /\ ~overtaken => \A i, j \in DOMAIN disk : i < j =>
        \A a \in ReadableOps(disk[i]), b \in ReadableOps(disk[j]) : a < b
  /\ \A id \in DOMAIN disk : \A i, j \in DOMAIN disk[id].chunks :
        LET a == disk[id].chunks[i].ops
            b == disk[id].chunks[j].ops
        IN  \A k \in DOMAIN a, l \in DOMAIN b :
               (i < j \/ (i = j /\ k < l)) => a[k] < b[l]

(* What the log promises: operations in flight, oldest first, are what the
   I/O thread, its queue, the flusher and the buffer hold.                 *)
InFlight == ioBatch \o (IF ioQueue = <<>> THEN <<>> ELSE Head(ioQueue)) \o flushing \o buffer

PlacedAt ==
  [op \in UNION {ReadableOps(disk[i]) : i \in DOMAIN disk} |->
     CHOOSE i \in DOMAIN disk : op \in ReadableOps(disk[i])]

Log == INSTANCE DurableLog WITH pending <- InFlight, placed <- PlacedAt, sealed <- rotated

(* The flusher, the I/O thread and rotate() implement the log's promise: a
   writer is told "ok" only when the operation can be read back from the
   segment open then, and the set rotate() returns is exactly what can be
   read from the segment it closes, although batches in flight move on
   concurrently.                                                          *)
ImplementsDurableLog == Log!Init /\ [][Log!Next]_(Log!vars)

(* Every writer waiting on its flush notification is told something, or its
   process crashes: a rotation, a full queue or a failed write never leaves
   it waiting.                                                            *)
EveryWriteSettles == \A op \in Ops : outcome[op] = "pending" ~> outcome[op] # "pending"
=============================================================================
