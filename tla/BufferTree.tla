----------------------------- MODULE BufferTree -----------------------------
(***************************************************************************)
(* The in-memory buffer of one namespace: the partitions of its tables,    *)
(* each behind its own mutex, the list of batches a partition is           *)
(* persisting, and the counter that bounds how many partitions of the      *)
(* namespace may hold data.  A write (an "op", the DML operation of one    *)
(* sequence number) is applied to its tables one after the other and stops *)
(* at the first error; ops run concurrently, and persist jobs complete in  *)
(* any order.  One partition per table stands for the partition the op's   *)
(* partition key selects in that table.                                    *)
(***************************************************************************)
EXTENDS Integers, Sequences, FiniteSets, SequencesExt

CONSTANTS
  Partitions,      (* partitions of the namespace                          *)
  Ops,             (* sequence numbers of the writes                       *)
  MaxPartitions,   (* max_partitions_per_namespace                         *)
  MaxTables        (* bound: tables one write touches                      *)

ASSUME BufferAssumption ==
  /\ IsFiniteSet(Partitions) /\ IsFiniteSet(Ops)
  /\ MaxPartitions \in Nat \ {0}
  /\ MaxTables \in Nat

VARIABLES
  created,     (* keys of TableData::partition_data                        *)
  count,       (* PartitionCounter::current                                *)
  isEmpty,     (* PartitionData::is_empty                                  *)
  buf,         (* PartitionData::buffer, its ops in order                  *)
  persisting,  (* PartitionData::persisting, <<[ident, ops]>> in order     *)
  started,     (* PartitionData::started_persistence_count                 *)
  completed,   (* PartitionData::completed_persistence_count               *)
  todo,        (* per op: the partitions still to be written               *)
  stage,       (* per op: where its task is                                *)
  applied,     (* history: ops buffered in each partition, in order        *)
  stored       (* history: ops of each partition whose batch was persisted *)

partitionVars == <<isEmpty, buf, persisting, started, completed>>
vars == <<created, count, partitionVars, todo, stage, applied, stored>>

Stages == {"new", "lookup", "loading", "lock", "over", "counted", "done", "failed"}

Batch == [ident : Nat, ops : Seq(Ops)]

Init ==
  /\ created = {}
  /\ count = 0
  /\ isEmpty = [p \in Partitions |-> TRUE]
  /\ buf = [p \in Partitions |-> <<>>]
  /\ persisting = [p \in Partitions |-> <<>>]
  /\ started = [p \in Partitions |-> 0]
  /\ completed = [p \in Partitions |-> 0]
  /\ todo = [o \in Ops |-> <<>>]
  /\ stage = [o \in Ops |-> "new"]
  /\ applied = [p \in Partitions |-> <<>>]
  /\ stored = [p \in Partitions |-> {}]

(* The op's task holds the mutex of the partition it is writing to. *)
Target(o) == Head(todo[o])
Holding == {o \in Ops : stage[o] \in {"over", "counted"}}
Locked(p) == \E o \in Holding : Target(o) = p

-----------------------------------------------------------------------------
(* NamespaceData::apply: the op carries one batch for each of some tables. *)
Plans == {s \in SeqOf(Partitions, MaxTables) : s # <<>> /\ IsInjective(s)}

BeginApply(o, plan) ==
  /\ stage[o] = "new"
  /\ todo' = [todo EXCEPT ![o] = plan]
  /\ stage' = [stage EXCEPT ![o] = "lookup"]
  /\ UNCHANGED <<created, count, partitionVars, applied, stored>>

(* TableData::buffer_table_write, up to the await on the partition
   provider: an existing partition is used as it is, a new one is created
   only while the counter is below its limit.                              *)
LookupPartition(o) ==
  /\ stage[o] = "lookup"
  /\ stage' = [stage EXCEPT ![o] = CASE Target(o) \in created -> "lock"
                                     [] Target(o) \notin created /\ count >= MaxPartitions -> "failed"
                                     [] OTHER -> "loading"]
  /\ UNCHANGED <<created, count, partitionVars, todo, applied, stored>>

(* After the await: get_or_insert_with keeps the instance another task may
   have inserted meanwhile.                                                *)
InsertPartition(o) ==
  /\ stage[o] = "loading"
  /\ created' = created \cup {Target(o)}
  /\ stage' = [stage EXCEPT ![o] = "lock"]
  /\ UNCHANGED <<count, partitionVars, todo, applied, stored>>

(* The limit compared with ">". *)
LimitReached_OffByOne(n) == n > MaxPartitions

(* PartitionCounter::inc is a fetch_add that is undone by a later fetch_sub
   when the value it returned had reached the limit.                       *)
LimitReached(n) == n >= MaxPartitions

(* The partition is locked and buffer_write begins: an empty partition takes
   a permit of the counter.                                                *)
LockPartition(o) ==
  LET p == Target(o) IN
  /\ stage[o] = "lock"
  /\ ~Locked(p)
  /\ IF isEmpty[p]
     THEN /\ count' = count + 1
          /\ IF LimitReached(count)
             THEN stage' = [stage EXCEPT ![o] = "over"] /\ UNCHANGED isEmpty
             ELSE /\ stage' = [stage EXCEPT ![o] = "counted"]
                  /\ isEmpty' = [isEmpty EXCEPT ![p] = FALSE]
     ELSE /\ stage' = [stage EXCEPT ![o] = "counted"]
          /\ UNCHANGED <<count, isEmpty>>
  /\ UNCHANGED <<created, buf, persisting, started, completed, todo, applied, stored>>

(* The rollback forgotten. *)
RollBackCount_Forgotten(o) ==
  /\ stage[o] = "over"
  /\ stage' = [stage EXCEPT ![o] = "failed"]
  /\ UNCHANGED <<created, count, partitionVars, todo, applied, stored>>

RollBackCount(o) ==
  /\ stage[o] = "over"
  /\ count' = count - 1
  /\ stage' = [stage EXCEPT ![o] = "failed"]
  /\ UNCHANGED <<created, partitionVars, todo, applied, stored>>

-----------------------------------------------------------------------------
(* PartitionData::mark_persisting moves the ops of a non-empty buffer into
   a batch with the next identifier, at the back of the persisting list.   *)
NextIdent(p) == started[p] + 1

Pushed(p, ops) == Append(persisting[p], [ident |-> NextIdent(p), ops |-> ops])

MarkPersisting(p, ops) ==
  /\ persisting' = [persisting EXCEPT ![p] = Pushed(p, ops)]
  /\ started' = [started EXCEPT ![p] = NextIdent(p)]
  /\ buf' = [buf EXCEPT ![p] = <<>>]

(* The write is buffered, and HotPartitionPersister::observe, still under
   the lock, marks the partition as persisting if its estimated cost
   reached the limit.  The op goes on to its next table.                   *)
BufferWrite(o, hot) ==
  LET p == Target(o)
      ops == Append(buf[p], o) IN
  /\ stage[o] = "counted"
  /\ IF hot THEN MarkPersisting(p, ops)
            ELSE buf' = [buf EXCEPT ![p] = ops] /\ UNCHANGED <<persisting, started>>
  /\ applied' = [applied EXCEPT ![p] = Append(@, o)]
  /\ todo' = [todo EXCEPT ![o] = Tail(@)]
  /\ stage' = [stage EXCEPT ![o] = IF Len(todo[o]) = 1 THEN "done" ELSE "lookup"]
  /\ UNCHANGED <<created, count, isEmpty, completed, stored>>

(* MutableBatch::extend_from refuses a batch whose columns conflict with the
   batch already in the buffer; a buffer without a batch takes any.        *)
RefuseBatch(o) ==
  /\ stage[o] = "counted"
  /\ buf[Target(o)] # <<>>
  /\ stage' = [stage EXCEPT ![o] = "failed"]
  /\ UNCHANGED <<created, count, partitionVars, todo, applied, stored>>

(* persist_partitions, for one partition it visits. *)
DrainPartition(p) ==
  /\ p \in created /\ ~Locked(p)
  /\ buf[p] # <<>>
  /\ MarkPersisting(p, buf[p])
  /\ UNCHANGED <<created, count, isEmpty, completed, todo, stage, applied, stored>>

(* PartitionData::mark_persisted for the i-th batch of the list: persist
   jobs of a partition may run in parallel and complete in any order.      *)
NowEmpty(p, i) == Len(persisting[p]) = 1 /\ buf[p] = <<>>

(* The oldest batch is removed, whichever completed. *)
RemoveBatch_Front(list, i) == Tail(list)

(* PersistingList::remove, by identifier. *)
RemoveBatch(list, i) == RemoveAt(list, i)

MarkPersisted(p, i) ==
  /\ ~Locked(p)
  /\ i \in 1..Len(persisting[p])
  /\ persisting' = [persisting EXCEPT ![p] = RemoveBatch(@, i)]
  /\ completed' = [completed EXCEPT ![p] = @ + 1]
  /\ IF NowEmpty(p, i)
     THEN count' = count - 1 /\ isEmpty' = [isEmpty EXCEPT ![p] = TRUE]
     ELSE UNCHANGED <<count, isEmpty>>
  /\ stored' = [stored EXCEPT ![p] = @ \cup Range(persisting[p][i].ops)]
  /\ UNCHANGED <<created, buf, started, todo, stage, applied>>

ApplyStep(o) ==
  \/ LookupPartition(o)
  \/ InsertPartition(o)
  \/ LockPartition(o)
  \/ RollBackCount(o)
  \/ \E hot \in BOOLEAN : BufferWrite(o, hot)
  \/ RefuseBatch(o)

CompletePersist(p) == \E i \in 1..Len(persisting[p]) : MarkPersisted(p, i)

Next ==
  \/ \E o \in Ops : (\E plan \in Plans : BeginApply(o, plan)) \/ ApplyStep(o)
  \/ \E p \in Partitions : DrainPartition(p) \/ CompletePersist(p)

(* The task of an op and the persist jobs keep running, and every rotation
   of the WAL drains the partitions.  The writes are finitely many, so no
   fairness of the mutexes is needed.                                      *)
Fairness ==
  /\ \A o \in Ops : WF_vars(ApplyStep(o))
  /\ \A p \in Partitions : WF_vars(DrainPartition(p)) /\ WF_vars(CompletePersist(p))

Spec == Init /\ [][Next]_vars

FairSpec == Spec /\ Fairness

-----------------------------------------------------------------------------
(* Type invariant. *)
TypeOK ==
  /\ created \subseteq Partitions
  /\ count \in Nat
  /\ isEmpty \in [Partitions -> BOOLEAN]
  /\ buf \in [Partitions -> Seq(Ops)]
  /\ persisting \in [Partitions -> Seq(Batch)]
  /\ started \in [Partitions -> Nat]
  /\ completed \in [Partitions -> Nat]
  /\ todo \in [Ops -> Seq(Partitions)]
  /\ stage \in [Ops -> Stages]
  /\ \A o \in Ops : stage[o] \in {"lookup", "loading", "lock", "over", "counted"} => todo[o] # <<>>
  /\ applied \in [Partitions -> Seq(Ops)]
  /\ stored \in [Partitions -> SUBSET Ops]

HasData(p) == buf[p] # <<>> \/ persisting[p] # <<>>
NonEmpty == {p \in Partitions : ~isEmpty[p]}
Overshoot == {o \in Ops : stage[o] = "over"}

(* The flag of a partition nobody has locked tells whether it holds data (the
   debug_assert of PartitionData::is_empty), and the namespace counter is the
   number of partitions flagged non-empty plus the increments about to be
   rolled back.  So no permit leaks: not when a write is refused, not when
   persist jobs complete out of order, not when a write arrives while the
   last batch is being persisted.                                          *)
CounterExact ==
  /\ TypeOK
  /\ \A p \in Partitions : ~Locked(p) => (isEmpty[p] <=> ~HasData(p))
  /\ \A p \in Partitions : HasData(p) => ~isEmpty[p]
  /\ count = Cardinality(NonEmpty) + Cardinality(Overshoot)

(* The number of partitions of a namespace that hold data never exceeds the
   configured limit, whatever ops race in PartitionCounter::inc.           *)
PartitionLimit == Cardinality({p \in Partitions : HasData(p)}) <= MaxPartitions

(* PartitionData::get_query_data: the persisting batches in list order, then
   the buffer.                                                             *)
QueryData(p) == FlattenSeq([i \in 1..Len(persisting[p]) |-> persisting[p][i].ops]) \o buf[p]

(* The identifiers in the persisting list ascend (the assert of
   PersistingList::push), and the number of completed persists a query
   reports next to the data accounts for every batch that was started and
   is no longer in the data.                                               *)
BatchesAccounted(p) ==
  /\ \A i \in 1..Len(persisting[p]) : persisting[p][i].ident <= started[p]
  /\ \A i, j \in 1..Len(persisting[p]) : i < j => persisting[p][i].ident < persisting[p][j].ident
  /\ completed[p] + Len(persisting[p]) = started[p]

(* What a query of the partition sees is exactly the buffered writes that are
   not persisted yet, each once, in the order in which they were buffered,
   and the completed persists it reports account for the rest, however
   persist jobs overlap and whatever order they complete in.               *)
QuerySeesUnpersisted ==
  \A p \in Partitions :
    /\ QueryData(p) = SelectSeq(applied[p], LAMBDA o : o \notin stored[p])
    /\ BatchesAccounted(p)

(* When no more writes arrive, every permit of the counter comes back: no
   interleaving of writes, refusals, hot persists and drains leaves the
   namespace with part of its partition limit used up for good.            *)
PermitsReturn == <>[](count = 0 /\ \A p \in Partitions : isEmpty[p])
=============================================================================
