------------------------------ MODULE Ingester ------------------------------
(***************************************************************************)
(* The ingester as a whole: writes go to the write-ahead log and to the    *)
(* buffer at the same time and are acknowledged when both succeeded;       *)
(* persist jobs move buffered data to object storage and the catalog; the  *)
(* reference tracker deletes the segments whose data is persisted; after a *)
(* crash the remaining segments are replayed, persisted and deleted.       *)
(*                                                                         *)
(* The log is used through DurableLog, which module Wal implements; the    *)
(* tracker is module WalReferenceTracker itself; partitions and persist    *)
(* jobs are reduced to which data is where (modules BufferTree,            *)
(* PersistBackpressure and SortKeyUpdate have their detail).  An entry     *)
(* <<o, t>> is the data write o has for table t; each has a sequence       *)
(* number of its own.                                                      *)
(***************************************************************************)
EXTENDS WalReferenceTracker, FiniteSetsExt, Functions

CONSTANTS
  Ops, Tables,
  MaxSegments, MaxCrashes,    (* bounds: segments ever opened, crashes      *)
  PartialFailures,  (* may a write fail after one of its tables is buffered? *)
  Cancellations,    (* may a client go away before its write is answered?  *)
  AbandonedPersists, (* may the client of a Persist RPC go away before its
                        batch is in the persist queue?                     *)
  ForeignPersists   (* may others than replay itself persist data while a
                       segment is replayed (hot partitions, and the disk full
                       protection, which runs during replay)?              *)

ASSUME IngesterAssumption ==
  /\ MaxSegments \in Nat \ {0} /\ MaxCrashes \in Nat
  /\ {PartialFailures, Cancellations, AbandonedPersists, ForeignPersists} \subseteq BOOLEAN

VARIABLES
  pending, outcome, placed, sealed,   (* the log: see DurableLog           *)
  open,      (* id of the open segment                                     *)
  phase,     (* of the process: "up", "replaying", "down"                  *)
  crashes,
  nextSeq,   (* TimestampOracle                                            *)
  number,    (* [entry -> its sequence number]                             *)
  write,     (* [Ops -> [stage, left : tables to buffer, caller]]          *)
  buf,       (* entries in the buffers of the partitions                   *)
  jobs,      (* persist jobs: [entries, by, stage]                         *)
  stored,    (* entries whose parquet file is in the catalog               *)
  replay,    (* segments to replay, oldest first, and how far the first is *)
  stopping   (* progress of graceful_shutdown_handler                      *)

logVars == <<pending, outcome, placed, sealed, open>>
processVars == <<phase, crashes, nextSeq, number, stopping>>
vars == <<trackerVars, logVars, processVars, write, buf, jobs, stored, replay>>

SegmentIds == 1..MaxSegments
Entries == Ops \X Tables
EntriesOf(o) == {e \in DOMAIN number : e[1] = o}
InTable(t, entries) == {e \in entries : e[2] = t}
Numbers(entries) == {number[e] : e \in entries}

Log == INSTANCE DurableLog
Seqs == INSTANCE SequencesExt

NoReplay == [files |-> <<>>, left |-> {}, drain |-> {}]

FreshWrite == [stage |-> "new", left |-> <<>>, caller |-> TRUE]

Init ==
  /\ TrackerInit
  /\ Log!Init /\ open = 1
  /\ phase = "up" /\ crashes = 0 /\ stopping = "no"
  /\ nextSeq = 1 /\ number = <<>>
  /\ write = [o \in Ops |-> FreshWrite]
  /\ buf = {} /\ jobs = {} /\ stored = {}
  /\ replay = NoReplay

-----------------------------------------------------------------------------
(* RpcWrite::write and WalSink::apply.  The write is refused while the
   ingester stops; otherwise its tables get consecutive sequence numbers, it
   is appended to the log, and the buffer is written while the log is
   flushed.                                                                *)
Plans == {s \in Seqs!SeqOf(Tables, Cardinality(Tables)) : s # <<>> /\ IsInjective(s)}

AcceptWrite(o, plan) ==
  LET new == {<<o, plan[i]>> : i \in DOMAIN plan}
      position == [e \in new |-> CHOOSE i \in DOMAIN plan : plan[i] = e[2]] IN
  /\ phase = "up" /\ stopping = "no"
  /\ write[o].stage = "new"
  /\ number' = [e \in DOMAIN number \cup new |->
                  IF e \in new THEN nextSeq + position[e] - 1 ELSE number[e]]
  /\ nextSeq' = nextSeq + Len(plan)
  /\ Log!Append1(o) /\ UNCHANGED open
  /\ write' = [write EXCEPT ![o].stage = "applying", ![o].left = plan]
  /\ UNCHANGED <<trackerVars, phase, crashes, stopping, buf, jobs, stored, replay>>

(* The log settles a prefix of what is pending: a flush, or a failed one. *)
SettleLog(n) ==
  /\ Log!Settle(n, open) /\ UNCHANGED open
  /\ UNCHANGED <<trackerVars, processVars, write, buf, jobs, stored, replay>>

(* mark_persisting on the partition of one table. *)
Job(entries, by) == [entries |-> entries, by |-> by, stage |-> "marked"]

Buffered(e, hot, by) ==
  LET batch == InTable(e[2], buf) \cup {e} IN
  IF hot THEN jobs' = jobs \cup {Job(batch, by)} /\ buf' = buf \ batch
         ELSE buf' = buf \cup {e} /\ UNCHANGED jobs

LastTable(o) == Len(write[o].left) = 1

(* BufferTree::apply, one table; the partition may be hot. *)
ApplyTable(o, hot) ==
  /\ write[o].stage = "applying"
  /\ Buffered(<<o, Head(write[o].left)>>, hot, "hot")
  /\ write' = [write EXCEPT ![o].stage = IF LastTable(o) THEN "applied" ELSE "applying",
                            ![o].left = Tail(@)]
  /\ UNCHANGED <<trackerVars, logVars, processVars, stored, replay>>

(* It fails (partition limit, schema conflict), or times out. *)
ApplyFails(o) ==
  /\ write[o].stage = "applying"
  /\ PartialFailures \/ Len(write[o].left) = Cardinality(EntriesOf(o))
  /\ write' = [write EXCEPT ![o].stage = "failed"]
  /\ UNCHANGED <<trackerVars, logVars, processVars, buf, jobs, stored, replay>>

(* The failure is reported to the tracker with all numbers of the write, and
   the client gets an error.                                               *)
NotifyFailure(o) ==
  /\ write[o].stage = "failed" /\ write[o].caller
  /\ EnqueueUnbufferedWrite(Numbers(EntriesOf(o)))
  /\ write' = [write EXCEPT ![o].stage = "refused"]
  /\ UNCHANGED <<fileRx, persistRx, persisted, walFiles, emptyWaker>>
  /\ UNCHANGED <<logVars, processVars, buf, jobs, stored, replay>>

(* The client is answered when the log has settled the write, too. *)
AnswerReady(o) == write[o].stage = "applied" /\ outcome[o] \in {"ok", "err"}

AnswerWrite(o) ==
  /\ AnswerReady(o) /\ write[o].caller
  /\ write' = [write EXCEPT ![o].stage = IF outcome[o] = "err" THEN "refused" ELSE "acked"]
  /\ UNCHANGED <<trackerVars, logVars, processVars, buf, jobs, stored, replay>>

(* The client goes away: the future of WalSink::apply is dropped, and
   CancellationSafe keeps only the write to the buffer going.              *)
CancelWrite(o) ==
  /\ Cancellations
  /\ write[o].stage \in {"applying", "applied", "failed"} /\ write[o].caller
  /\ write' = [write EXCEPT ![o].caller = FALSE]
  /\ UNCHANGED <<trackerVars, logVars, processVars, buf, jobs, stored, replay>>

-----------------------------------------------------------------------------
(* Wal::rotate and enqueue_rotated_file: periodic rotation or disk full
   protection.                                                             *)
Rotated ==
  /\ open < MaxSegments
  /\ Log!Rotate(open)
  /\ open' = open + 1
  /\ EnqueueRotatedFile(open, Numbers(UNION {EntriesOf(o) : o \in Log!PlacedIn(open)}))
  /\ UNCHANGED <<persistRx, unbufferedRx, persisted, walFiles>>

(* Bound: one segment is kept back for the rotation of a shutdown. *)
SegmentToSpare == open + 1 < MaxSegments

RotateSegment ==
  /\ phase = "up" /\ SegmentToSpare
  /\ Rotated
  /\ UNCHANGED <<emptyWaker, processVars, write, buf, jobs, stored, replay>>

(* persist_partitions on one table's partition, by the rotation that follows
   its period, the disk full protection, the Persist RPC or the shutdown.  *)
DrainTable(t) ==
  LET batch == InTable(t, buf) IN
  /\ phase = "up" \/ (phase = "replaying" /\ ForeignPersists)
  /\ batch # {}
  /\ jobs' = jobs \cup {Job(batch, "drain")}
  /\ buf' = buf \ batch
  /\ UNCHANGED <<trackerVars, logVars, processVars, write, stored, replay>>

(* The Persist RPC is dropped while persist_partitions waits for the queue:
   the batch stays marked as persisting and no worker ever gets it.        *)
AbandonPersist(j) ==
  /\ AbandonedPersists
  /\ phase = "up" /\ j.by = "drain" /\ j.stage = "marked"
  /\ jobs' = (jobs \ {j}) \cup {[j EXCEPT !.stage = "abandoned"]}
  /\ UNCHANGED <<trackerVars, logVars, processVars, write, buf, stored, replay>>

(* The steps of a persist worker: upload and catalog entry, mark_persisted,
   and the notification of the tracker, which ends the job.                *)
StoreJob(j) ==
  /\ j.stage = "marked"
  /\ stored' = stored \cup j.entries
  /\ jobs' = (jobs \ {j}) \cup {[j EXCEPT !.stage = "stored"]}
  /\ UNCHANGED <<trackerVars, logVars, processVars, write, buf, replay>>

(* The data is released before the file is in the catalog. *)
ReleaseJob_BeforeStore(j) ==
  /\ j.stage \in {"marked", "stored"}
  /\ jobs' = (jobs \ {j}) \cup {[j EXCEPT !.stage = "released"]}
  /\ UNCHANGED <<trackerVars, logVars, processVars, write, buf, stored, replay>>

ReleaseJob(j) ==
  /\ j.stage = "stored"
  /\ jobs' = (jobs \ {j}) \cup {[j EXCEPT !.stage = "released"]}
  /\ UNCHANGED <<trackerVars, logVars, processVars, write, buf, stored, replay>>

CompleteJob(j) ==
  /\ j.stage = "released"
  /\ EnqueuePersistNotification(Numbers(j.entries))
  /\ jobs' = jobs \ {j}
  /\ UNCHANGED <<fileRx, unbufferedRx, persisted, walFiles, emptyWaker>>
  /\ UNCHANGED <<logVars, processVars, write, buf, stored, replay>>

Persisting == UNION {j.entries : j \in {k \in jobs : k.stage # "released"}}

-----------------------------------------------------------------------------
(* The tracker's handlers, with the files they delete. *)
DeleteSegments(ids) ==
  /\ placed' = [o \in {p \in DOMAIN placed : placed[p] \notin ids} |-> placed[o]]
  /\ UNCHANGED <<pending, outcome, sealed, open>>

TrackNewFile ==
  /\ HandleNewFile
  /\ DeleteSegments(NewFileDeletes)
  /\ UNCHANGED <<processVars, write, buf, jobs, stored, replay>>

TrackPersisted ==
  /\ HandlePersisted
  /\ DeleteSegments(Emptied(Head(persistRx)))
  /\ UNCHANGED <<processVars, write, buf, jobs, stored, replay>>

TrackUnbuffered ==
  /\ HandleUnbuffered
  /\ DeleteSegments(Emptied(Head(unbufferedRx)))
  /\ UNCHANGED <<processVars, write, buf, jobs, stored, replay>>

-----------------------------------------------------------------------------
(* graceful_shutdown_handler: refuse writes, persist until no partition
   returns data, register for the empty notification, rotate, wait.        *)
BeginShutdown ==
  /\ phase = "up" /\ stopping = "no"
  /\ stopping' = "draining"
  /\ UNCHANGED <<trackerVars, logVars, phase, crashes, nextSeq, number, write, buf, jobs, stored, replay>>

(* The notifier is not created before the rotation. *)
RegisterForEmpty_Late ==
  /\ stopping = "draining" /\ buf = {} /\ Persisting = {}
  /\ stopping' = "registered"
  /\ UNCHANGED <<trackerVars, logVars, phase, crashes, nextSeq, number, write, buf, jobs, stored, replay>>

RegisterForEmpty ==
  /\ stopping = "draining" /\ buf = {} /\ Persisting = {}
  /\ EmptyInactiveNotifier
  /\ stopping' = "registered"
  /\ UNCHANGED <<fileRx, persistRx, unbufferedRx, persisted, walFiles, logVars>>
  /\ UNCHANGED <<phase, crashes, nextSeq, number, write, buf, jobs, stored, replay>>

RotateLast ==
  /\ stopping = "registered"
  /\ Rotated
  /\ stopping' = "rotated"
  /\ UNCHANGED <<emptyWaker, phase, crashes, nextSeq, number, write, buf, jobs, stored, replay>>

(* What a stopped process leaves: the log's files and the object store. *)
ProcessGone ==
  /\ fileRx' = <<>> /\ persistRx' = <<>> /\ unbufferedRx' = <<>>
  /\ persisted' = {} /\ walFiles' = <<>> /\ emptyWaker' = "none"
  /\ phase' = "down" /\ stopping' = "no"
  /\ buf' = {} /\ jobs' = {} /\ replay' = NoReplay
  /\ write' = [o \in Ops |-> IF write[o].stage \in {"new", "acked", "refused"} THEN write[o]
                             ELSE [write[o] EXCEPT !.stage = "lost"]]
  /\ UNCHANGED <<nextSeq, number, stored>>

(* The rotated file was handled and the notification arrived.  The WAL's I/O
   thread still writes what it was given when it is dropped.               *)
FinishShutdown(n) ==
  /\ stopping = "rotated" /\ fileRx = <<>> /\ emptyWaker = "woken"
  /\ Log!Crash(n, open) /\ UNCHANGED <<open, crashes>>
  /\ ProcessGone

CrashProcess(n) ==
  /\ phase # "down" /\ crashes < MaxCrashes
  /\ crashes' = crashes + 1
  /\ Log!Crash(n, open) /\ UNCHANGED open
  /\ ProcessGone

-----------------------------------------------------------------------------
(* Wal::new, then wal_replay::replay: the closed segments in order of their
   ids, each applied, persisted and deleted before the next.  (Segments
   that hold no operation are deleted right away and left out here.)       *)
Closed == {placed[o] : o \in DOMAIN placed}

EntriesIn(id) == UNION {EntriesOf(o) : o \in Log!PlacedIn(id)}

ReplayOf(files) ==
  IF files = <<>> THEN NoReplay
  ELSE [files |-> files, left |-> EntriesIn(Head(files)), drain |-> Tables]

StartUp ==
  /\ phase = "down" /\ SegmentToSpare
  /\ open' = open + 1
  /\ phase' = "replaying"
  /\ nextSeq' = 1
  /\ replay' = ReplayOf(Seqs!SetToSortSeq(Closed, <))
  /\ UNCHANGED <<trackerVars, pending, outcome, placed, sealed>>
  /\ UNCHANGED <<crashes, number, stopping, write, buf, jobs, stored>>

(* replay_file applies the next entry; max_sequence keeps the largest number. *)
LastReplayed_Count(e) == nextSeq + 1   \* counts the entries instead

LastReplayed(e) == Max({nextSeq, number[e] + 1})

ReplayEntry(e, hot) ==
  /\ phase = "replaying" /\ e \in replay.left
  /\ hot => ForeignPersists
  /\ Buffered(e, hot, "hot")
  /\ replay' = [replay EXCEPT !.left = @ \ {e}]
  /\ nextSeq' = LastReplayed(e)
  /\ UNCHANGED <<trackerVars, logVars, phase, crashes, number, stopping, write, stored>>

(* persist_partitions visits a table's partition. *)
ReplayDrain(t) ==
  LET batch == InTable(t, buf) IN
  /\ phase = "replaying" /\ replay.files # <<>> /\ replay.left = {} /\ t \in replay.drain
  /\ jobs' = IF batch = {} THEN jobs ELSE jobs \cup {Job(batch, "replay")}
  /\ buf' = buf \ batch
  /\ replay' = [replay EXCEPT !.drain = @ \ {t}]
  /\ UNCHANGED <<trackerVars, logVars, processVars, write, stored>>

(* It waits for the jobs it enqueued, then the file is deleted. *)
OwnJobsDone_NoWait == TRUE

OwnJobsDone == \A j \in jobs : j.by # "replay"

ReplayDelete ==
  /\ phase = "replaying" /\ replay.files # <<>> /\ replay.left = {} /\ replay.drain = {}
  /\ OwnJobsDone
  /\ DeleteSegments({Head(replay.files)})
  /\ replay' = ReplayOf(Tail(replay.files))
  /\ UNCHANGED <<trackerVars, processVars, write, buf, jobs, stored>>

ReplayDone ==
  /\ phase = "replaying" /\ replay.files = <<>>
  /\ phase' = "up"
  /\ UNCHANGED <<trackerVars, logVars, crashes, nextSeq, number, stopping, write, buf, jobs, stored, replay>>

-----------------------------------------------------------------------------
Next ==
  \/ \E o \in Ops :
       \/ \E plan \in Plans : AcceptWrite(o, plan)
       \/ \E hot \in BOOLEAN : ApplyTable(o, hot)
       \/ ApplyFails(o) \/ NotifyFailure(o) \/ AnswerWrite(o) \/ CancelWrite(o)
  \/ \E n \in 1..Len(pending) : SettleLog(n)
  \/ RotateSegment
  \/ \E t \in Tables : DrainTable(t) \/ ReplayDrain(t)
  \/ \E j \in jobs : StoreJob(j) \/ ReleaseJob(j) \/ CompleteJob(j) \/ AbandonPersist(j)
  \/ TrackNewFile \/ TrackPersisted \/ TrackUnbuffered
  \/ BeginShutdown \/ RegisterForEmpty \/ RotateLast
  \/ \E n \in 0..Len(pending) : FinishShutdown(n) \/ CrashProcess(n)
  \/ StartUp \/ ReplayDelete \/ ReplayDone
  \/ \E e \in replay.left, hot \in BOOLEAN : ReplayEntry(e, hot)

Spec == Init /\ [][Next]_vars

(* Tasks that can run do run: the flusher and the I/O thread, the writes, the
   persist workers (they retry until they succeed), the tracker, the
   shutdown handler, and the drain that follows every rotation.  Nothing
   forces a write to arrive or to fail, a client to go away, a rotation
   (other than the shutdown's), a shutdown or a crash.                     *)
Fairness ==
  /\ \A o \in Ops : /\ WF_vars(\E hot \in BOOLEAN : ApplyTable(o, hot))
                    /\ WF_vars(NotifyFailure(o)) /\ WF_vars(AnswerWrite(o))
  /\ WF_vars(\E n \in 1..Len(pending) : SettleLog(n))
  /\ \A t \in Tables : WF_vars(DrainTable(t))
  /\ WF_vars(\E j \in jobs : StoreJob(j) \/ ReleaseJob(j) \/ CompleteJob(j))
  /\ WF_vars(TrackNewFile) /\ WF_vars(TrackPersisted) /\ WF_vars(TrackUnbuffered)
  /\ WF_vars(RegisterForEmpty) /\ WF_vars(RotateLast)
  /\ WF_vars(\E n \in 0..Len(pending) : FinishShutdown(n))

FairSpec == Spec /\ Fairness

-----------------------------------------------------------------------------
WriteStages == {"new", "applying", "applied", "failed", "refused", "acked", "lost"}

(* Type invariant. *)
TypeOK ==
  /\ open \in SegmentIds
  /\ phase \in {"up", "replaying", "down"}
  /\ crashes \in 0..MaxCrashes
  /\ DOMAIN number \subseteq Entries /\ Numbers(DOMAIN number) \subseteq Nat \ {0}
  /\ write \in [Ops -> [stage : WriteStages, left : Seq(Tables), caller : BOOLEAN]]
  /\ \A o \in Ops : write[o].stage \in {"applying", "failed"} => write[o].left # <<>>
  /\ buf \subseteq Entries /\ stored \subseteq Entries
  /\ jobs \subseteq [entries : SUBSET Entries, by : {"hot", "drain", "replay"},
                     stage : {"marked", "abandoned", "stored", "released"}]
  /\ replay.left \subseteq Entries /\ replay.drain \subseteq Tables
  /\ stopping \in {"no", "draining", "registered", "rotated"}

AckedEntries == UNION {EntriesOf(o) : o \in {p \in Ops : write[p].stage = "acked"}}

(* An acknowledged write is durable in every state, so that a crash at any
   moment loses nothing: its data is in the object store, or its operation
   is in a segment that is still there to be replayed.                     *)
AckedDurable ==
  /\ TypeOK
  /\ \A e \in AckedEntries : e \in stored \/ e[1] \in DOMAIN placed

(* An acknowledged write can be queried whenever the ingester serves queries:
   from the moment it is acknowledged its data is in a buffer, in a batch
   being persisted, or in the catalog, and after a restart replay has
   brought it back.                                                        *)
AckedReadable ==
  phase = "up" => AckedEntries \subseteq buf \cup Persisting \cup stored

(* Sequence numbers identify the data the tracker counts, across restarts:
   no two entries that are buffered, being persisted or in the log have the
   same number, and no number the tracker still remembers from replayed data
   is given to a new write.                                                *)
NumbersUnique ==
  LET live == buf \cup (UNION {j.entries : j \in jobs})
                  \cup (UNION {EntriesOf(o) : o \in DOMAIN placed}) IN
  /\ \A e, f \in live : number[e] = number[f] => e = f
  /\ phase = "up" => \A n \in persisted : n < nextSeq

(* References that nobody will ever release.  A write that failed after some
   of its tables were buffered is reported twice, and the reports may cancel
   each other; the failure of a write whose client went away is not reported;
   and the batch of a dropped Persist RPC is never persisted.              *)
Unreported(o) == write[o].stage = "failed" /\ ~write[o].caller

ReportedTwice(o) ==
  /\ write[o].stage \in {"failed", "refused"}
  /\ Len(write[o].left) \in 1..(Cardinality(EntriesOf(o)) - 1)

Abandoned(o) == \E j \in jobs : j.stage = "abandoned" /\ j.entries \cap EntriesOf(o) # {}

Stuck(o) == Unreported(o) \/ ReportedTwice(o) \/ Abandoned(o)

(* The disk is reclaimed: a segment that was rotated out is deleted, unless
   the process ends first or the segment holds a write that is stuck.      *)
SegmentsReclaimed ==
  \A id \in SegmentIds :
    (id \in DOMAIN sealed /\ Log!PlacedIn(id) # {})
      ~> \/ Log!PlacedIn(id) = {} \/ phase = "down"
         \/ \E o \in Log!PlacedIn(id) : Stuck(o)

(* A graceful shutdown ends, unless a write is stuck. *)
ShutdownCompletes == stopping = "draining" ~> phase = "down" \/ \E o \in Ops : Stuck(o)
=============================================================================
