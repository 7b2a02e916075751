---------------------- MODULE ReferenceTracking_proofs ----------------------
(***************************************************************************)
(* Proofs about ReferenceTracking for every set of sequence numbers and    *)
(* segments and every channel capacity.                                    *)
(***************************************************************************)
EXTENDS ReferenceTracking, TLAPS

-----------------------------------------------------------------------------
(* Sequences used as channels. *)

(* Appending a message: what the channel then holds, position by position. *)
LEMMA AppendFacts ==
  ASSUME NEW S, NEW q \in Seq(S), NEW e \in S
  PROVE  /\ Append(q, e) \in Seq(S)
         /\ DOMAIN q = 1..Len(q)
         /\ DOMAIN Append(q, e) = 1..(Len(q) + 1)
         /\ Len(q) \in Nat
         /\ Append(q, e)[Len(q) + 1] = e
         /\ \A i \in 1..Len(q) : Append(q, e)[i] = q[i]
  OBVIOUS

(* Receiving a message: the head leaves and the others move up by one. *)
LEMMA TailFacts ==
  ASSUME NEW S, NEW q \in Seq(S), q # <<>>
  PROVE  /\ Tail(q) \in Seq(S)
         /\ Len(q) \in Nat \ {0}
         /\ DOMAIN q = 1..Len(q)
         /\ DOMAIN Tail(q) = 1..(Len(q) - 1)
         /\ Head(q) = q[1]
         /\ 1 \in DOMAIN q
         /\ \A i \in 1..(Len(q) - 1) : Tail(q)[i] = q[i + 1]
  OBVIOUS

Disjoint(rx) == \A i, j \in DOMAIN rx : i # j => rx[i] \cap rx[j] = {}

(* Sending a set disjoint from the queued ones keeps the channel disjoint. *)
LEMMA QueuedAppend ==
  ASSUME NEW q \in Seq(SUBSET SeqNums), NEW e \in SUBSET SeqNums,
         Disjoint(q), Queued(q) \cap e = {}
  PROVE  Queued(Append(q, e)) = Queued(q) \cup e /\ Disjoint(Append(q, e))
<1> DEFINE a == Append(q, e)
           n == Len(q)
<1>1. /\ DOMAIN q = 1..n
      /\ DOMAIN a = 1..(n + 1)
      /\ n \in Nat
      /\ a[n + 1] = e
      /\ \A i \in 1..n : a[i] = q[i]
  BY AppendFacts
<1> HIDE DEF a, n
<1>2. \A i \in DOMAIN a : (i \in DOMAIN q /\ a[i] = q[i]) \/ (i = n + 1 /\ a[i] = e)
  BY <1>1
<1>3. \A i \in DOMAIN q : i \in DOMAIN a /\ a[i] = q[i]
  BY <1>1
<1>4. n + 1 \in DOMAIN a /\ a[n + 1] = e
  BY <1>1
<1>5. Queued(a) = Queued(q) \cup e
  BY <1>2, <1>3, <1>4 DEF Queued
<1>6. Disjoint(a)
  <2> SUFFICES ASSUME NEW i \in DOMAIN a, NEW j \in DOMAIN a, i # j
               PROVE  a[i] \cap a[j] = {}
    BY DEF Disjoint
  <2>1. CASE i \in DOMAIN q /\ j \in DOMAIN q
    BY <2>1, <1>3 DEF Disjoint
  <2>2. CASE i \notin DOMAIN q /\ j \in DOMAIN q
    BY <2>2, <1>2, <1>3 DEF Queued
  <2>3. CASE i \in DOMAIN q /\ j \notin DOMAIN q
    BY <2>3, <1>2, <1>3 DEF Queued
  <2> QED
    BY <2>1, <2>2, <2>3, <1>2
<1> QED
  BY <1>5, <1>6 DEF a

(* Receiving from a channel of disjoint sets takes exactly one of them out. *)
LEMMA QueuedTail ==
  ASSUME NEW q \in Seq(SUBSET SeqNums), q # <<>>, Disjoint(q)
  PROVE  /\ Queued(Tail(q)) = Queued(q) \ Head(q)
         /\ Head(q) \subseteq Queued(q)
         /\ Head(q) \in SUBSET SeqNums
         /\ Disjoint(Tail(q))
<1> DEFINE t == Tail(q)
           h == Head(q)
           n == Len(q)
<1>1. /\ n \in Nat \ {0}
      /\ DOMAIN q = 1..n
      /\ DOMAIN t = 1..(n - 1)
      /\ h = q[1]
      /\ 1 \in DOMAIN q
      /\ \A i \in 1..(n - 1) : t[i] = q[i + 1]
  BY TailFacts
<1>2. h \in SUBSET SeqNums
  BY <1>1
<1> HIDE DEF t, h, n
<1>3. \A i \in DOMAIN t : i + 1 \in DOMAIN q /\ i + 1 # 1 /\ t[i] = q[i + 1]
  BY <1>1
<1>4. \A i \in DOMAIN q : i = 1 \/ (i - 1 \in DOMAIN t /\ t[i - 1] = q[i])
  BY <1>1
<1>5. \A i \in DOMAIN t : t[i] \cap h = {}
  BY <1>3, <1>1 DEF Disjoint
<1>6. Queued(t) = Queued(q) \ h
  <2>1. ASSUME NEW x \in Queued(t)  PROVE x \in Queued(q) \ h
    <3>1. PICK i \in DOMAIN t : x \in t[i]
      BY DEF Queued
    <3> QED
      BY <3>1, <1>3, <1>5 DEF Queued
  <2>2. ASSUME NEW x \in Queued(q) \ h  PROVE x \in Queued(t)
    <3>1. PICK i \in DOMAIN q : x \in q[i]
      BY DEF Queued
    <3>2. i # 1
      BY <3>1, <1>1
    <3> QED
      BY <3>1, <3>2, <1>4 DEF Queued
  <2> QED
    BY <2>1, <2>2
<1>7. h \subseteq Queued(q)
  BY <1>1 DEF Queued
<1>8. Disjoint(t)
  <2> SUFFICES ASSUME NEW i \in DOMAIN t, NEW j \in DOMAIN t, i # j
               PROVE  t[i] \cap t[j] = {}
    BY DEF Disjoint
  <2>1. i + 1 # j + 1
    BY <1>1
  <2> QED
    BY <2>1, <1>3 DEF Disjoint
<1> QED
  BY <1>2, <1>6, <1>7, <1>8 DEF t, h

-----------------------------------------------------------------------------
(* The inductive invariant: the references are exact because each channel
   holds what it was sent, no sequence number is in two segments and none is
   reported twice.                                                         *)

FileQueueOK ==
  /\ \A i \in DOMAIN fileRx : /\ fileRx[i].id \in DOMAIN contents
                              /\ fileRx[i].set = contents[fileRx[i].id]
  /\ \A i, j \in DOMAIN fileRx : fileRx[i].id = fileRx[j].id => i = j

OneSegmentEach ==
  \A f, g \in DOMAIN contents : f # g => contents[f] \cap contents[g] = {}

NotesOK ==
  /\ Disjoint(persistRx)
  /\ Disjoint(unbufferedRx)
  /\ Queued(persistRx) \cap Queued(unbufferedRx) = {}
  /\ Queued(persistRx) \cup Queued(unbufferedRx) \subseteq noted

IInv == TypeOK /\ FileQueueOK /\ OneSegmentEach /\ NotesOK /\ ExactReferences

(* Senders wait for room, so no channel outgrows its capacity. *)
LEMMA CapacityKeeps ==
  ASSUME TypeOK, [Next]_vars
  PROVE  WithinCapacity'
<1>1. /\ Len(fileRx) \in Nat /\ Len(persistRx) \in Nat /\ Len(unbufferedRx) \in Nat
      /\ WithinCapacity
  BY DEF TypeOK
<1>2. ASSUME NEW f \in Segments, NEW set \in SUBSET SeqNums, RotatedInto(f, set)
      PROVE  WithinCapacity'
  <2>1. Len(fileRx) < FileCap /\ Len(fileRx') = Len(fileRx) + 1
    BY <1>2 DEF RotatedInto, EnqueueRotatedFile, TypeOK
  <2> QED
    BY <1>1, <1>2, <2>1, CapAssumption DEF RotatedInto, WithinCapacity
<1>3. ASSUME NEW set \in SUBSET SeqNums, NotePersisted(set)
      PROVE  WithinCapacity'
  <2>1. Len(persistRx) < PersistCap /\ Len(persistRx') = Len(persistRx) + 1
    BY <1>3 DEF NotePersisted, EnqueuePersistNotification, TypeOK
  <2> QED
    BY <1>1, <1>3, <2>1, CapAssumption DEF NotePersisted, WithinCapacity
<1>4. ASSUME NEW set \in SUBSET SeqNums, NoteUnbuffered(set)
      PROVE  WithinCapacity'
  <2>1. Len(unbufferedRx) < UnbufferedCap /\ Len(unbufferedRx') = Len(unbufferedRx) + 1
    BY <1>4 DEF NoteUnbuffered, EnqueueUnbufferedWrite, TypeOK
  <2> QED
    BY <1>1, <1>4, <2>1, CapAssumption DEF NoteUnbuffered, WithinCapacity
<1>5. CASE ActorNewFile
  <2>1. Len(fileRx') = Len(fileRx) - 1 /\ UNCHANGED <<persistRx, unbufferedRx>>
    BY <1>5 DEF ActorNewFile, HandleNewFile, TypeOK
  <2> QED
    BY <1>1, <2>1, CapAssumption DEF WithinCapacity
<1>6. CASE ActorPersisted
  <2>1. Len(persistRx') = Len(persistRx) - 1 /\ UNCHANGED <<fileRx, unbufferedRx>>
    BY <1>6 DEF ActorPersisted, HandlePersisted, TypeOK
  <2> QED
    BY <1>1, <2>1, CapAssumption DEF WithinCapacity
<1>7. CASE ActorUnbuffered
  <2>1. Len(unbufferedRx') = Len(unbufferedRx) - 1 /\ UNCHANGED <<fileRx, persistRx>>
    BY <1>7 DEF ActorUnbuffered, HandleUnbuffered, TypeOK
  <2> QED
    BY <1>1, <2>1, CapAssumption DEF WithinCapacity
<1>8. CASE ShutdownRegister
  BY <1>1, <1>8 DEF ShutdownRegister, WithinCapacity
<1>9. CASE UNCHANGED vars
  BY <1>1, <1>9 DEF vars, trackerVars, WithinCapacity
<1> QED
  BY <1>2, <1>3, <1>4, <1>5, <1>6, <1>7, <1>8, <1>9 DEF Next, Rotate, ShutdownRotate

(* A rotation adds a segment that is queued, not handled. *)
LEMMA RotatedKeeps ==
  ASSUME IInv, NEW f \in Segments, NEW set \in SUBSET SeqNums, RotatedInto(f, set)
  PROVE  /\ FileQueueOK' /\ OneSegmentEach' /\ NotesOK' /\ ExactReferences'
         /\ fileRx' \in Seq([id : Segments, set : SUBSET SeqNums])
         /\ DOMAIN contents' \subseteq Segments
         /\ \A g \in DOMAIN contents' : contents'[g] \in SUBSET SeqNums
<1> DEFINE R == [id : Segments, set : SUBSET SeqNums]
           m == [id |-> f, set |-> set]
           n == Len(fileRx)
<1>1. /\ f \notin DOMAIN contents
      /\ set \cap Contained = {}
      /\ contents' = [g \in DOMAIN contents \cup {f} |-> IF g = f THEN set ELSE contents[g]]
      /\ fileRx' = Append(fileRx, m)
      /\ UNCHANGED <<persistRx, unbufferedRx, persisted, walFiles, noted, deleted>>
  BY DEF RotatedInto, EnqueueRotatedFile
<1>2. fileRx \in Seq(R) /\ m \in R
  BY DEF IInv, TypeOK
<1>3. /\ fileRx' \in Seq(R)
      /\ DOMAIN fileRx = 1..n
      /\ DOMAIN fileRx' = 1..(n + 1)
      /\ n \in Nat
      /\ fileRx'[n + 1] = m
      /\ \A i \in 1..n : fileRx'[i] = fileRx[i]
  BY <1>1, <1>2, AppendFacts
<1> HIDE DEF n
<1>4. /\ DOMAIN contents' = DOMAIN contents \cup {f}
      /\ contents'[f] = set
      /\ \A g \in DOMAIN contents : contents'[g] = contents[g]
  BY <1>1
<1>5. FileQueueOK'
  <2>1. \A i \in DOMAIN fileRx' : \/ i \in DOMAIN fileRx /\ fileRx'[i] = fileRx[i]
                                  \/ i = n + 1 /\ fileRx'[i] = m
    BY <1>3
  <2>2. \A i \in DOMAIN fileRx : fileRx[i].id \in DOMAIN contents /\ fileRx[i].id # f
    BY <1>1 DEF IInv, FileQueueOK
  <2>3. m.id = f /\ m.set = set
    OBVIOUS
  <2> HIDE DEF m
  <2>4. \A i \in DOMAIN fileRx' : /\ fileRx'[i].id \in DOMAIN contents'
                                  /\ fileRx'[i].set = contents'[fileRx'[i].id]
    BY <2>1, <2>2, <2>3, <1>4 DEF IInv, FileQueueOK
  <2>5. \A i, j \in DOMAIN fileRx' : fileRx'[i].id = fileRx'[j].id => i = j
    BY <2>1, <2>2, <2>3 DEF IInv, FileQueueOK
  <2> QED
    BY <2>4, <2>5 DEF FileQueueOK
<1>6. OneSegmentEach'
  <2>1. \A g \in DOMAIN contents : set \cap contents[g] = {}
    BY <1>1 DEF Contained
  <2> QED
    BY <2>1, <1>4 DEF IInv, OneSegmentEach
<1>7. NotesOK'
  BY <1>1 DEF IInv, NotesOK, Queued, Disjoint
<1>8. QueuedFiles' = QueuedFiles \cup {f}
  <2>1. m.id = f
    OBVIOUS
  <2>2. \A i \in DOMAIN fileRx' : i \in DOMAIN fileRx \/ i = n + 1
    BY <1>3
  <2>3. DOMAIN fileRx \subseteq DOMAIN fileRx' /\ n + 1 \in DOMAIN fileRx'
    BY <1>3
  <2>4. \A i \in DOMAIN fileRx : fileRx'[i] = fileRx[i]
    BY <1>3
  <2> HIDE DEF m
  <2> QED
    BY <2>1, <2>2, <2>3, <2>4, <1>3 DEF QueuedFiles
<1>9. Handled' = Handled /\ f \notin Handled
  BY <1>1, <1>4, <1>8 DEF Handled
<1>10. Released' = Released
  BY <1>1 DEF Released, Queued
<1>11. ExactReferences'
  <2>1. \A g \in Handled : contents'[g] = contents[g]
    BY <1>4 DEF Handled
  <2>2. UNION {contents'[g] : g \in Handled} = UNION {contents[g] : g \in Handled}
    BY <2>1
  <2>3. DOMAIN walFiles \subseteq Handled
    BY DEF IInv, ExactReferences
  <2> QED
    BY <2>1, <2>2, <2>3, <1>1, <1>9, <1>10 DEF IInv, ExactReferences
<1>12. \A g \in DOMAIN contents' : contents'[g] \in SUBSET SeqNums
  BY <1>4 DEF IInv, TypeOK
<1> QED
  BY <1>3, <1>4, <1>5, <1>6, <1>7, <1>11, <1>12 DEF IInv, TypeOK

(* A report that is only queued releases nothing. *)
LEMMA NotedKeeps ==
  ASSUME IInv, NEW set \in SUBSET SeqNums, NotePersisted(set) \/ NoteUnbuffered(set)
  PROVE  IInv'
<1>1. /\ set \cap noted = {}
      /\ noted' = noted \cup set
      /\ UNCHANGED <<fileRx, persisted, walFiles, emptyWaker, contents, deleted, shutdown>>
  BY DEF NotePersisted, NoteUnbuffered
<1>2. /\ persistRx \in Seq(SUBSET SeqNums)
      /\ unbufferedRx \in Seq(SUBSET SeqNums)
      /\ set \cap (Queued(persistRx) \cup Queued(unbufferedRx)) = {}
  BY <1>1 DEF IInv, TypeOK, NotesOK
<1>3. /\ persistRx' \in Seq(SUBSET SeqNums)
      /\ unbufferedRx' \in Seq(SUBSET SeqNums)
      /\ NotesOK'
      /\ Queued(persistRx') \cup Queued(unbufferedRx')
           = Queued(persistRx) \cup Queued(unbufferedRx) \cup set
  <2>1. CASE NotePersisted(set)
    <3>1. persistRx' = Append(persistRx, set) /\ unbufferedRx' = unbufferedRx
      BY <2>1 DEF NotePersisted, EnqueuePersistNotification
    <3>2. Queued(persistRx') = Queued(persistRx) \cup set /\ Disjoint(persistRx')
      BY <3>1, <1>2, QueuedAppend DEF IInv, NotesOK
    <3>3. persistRx' \in Seq(SUBSET SeqNums)
      BY <3>1, <1>2, AppendFacts
    <3> QED
      BY <3>1, <3>2, <3>3, <1>1, <1>2 DEF IInv, NotesOK
  <2>2. CASE NoteUnbuffered(set)
    <3>1. unbufferedRx' = Append(unbufferedRx, set) /\ persistRx' = persistRx
      BY <2>2 DEF NoteUnbuffered, EnqueueUnbufferedWrite
    <3>2. Queued(unbufferedRx') = Queued(unbufferedRx) \cup set /\ Disjoint(unbufferedRx')
      BY <3>1, <1>2, QueuedAppend DEF IInv, NotesOK
    <3>3. unbufferedRx' \in Seq(SUBSET SeqNums)
      BY <3>1, <1>2, AppendFacts
    <3> QED
      BY <3>1, <3>2, <3>3, <1>1, <1>2 DEF IInv, NotesOK
  <2> QED
    BY <2>1, <2>2
<1>4. Released' = Released
  BY <1>1, <1>2, <1>3 DEF Released
<1>5. Handled' = Handled
  BY <1>1 DEF Handled, QueuedFiles
<1>6. ExactReferences'
  BY <1>1, <1>4, <1>5 DEF IInv, ExactReferences
<1>7. FileQueueOK' /\ OneSegmentEach'
  BY <1>1 DEF IInv, FileQueueOK, OneSegmentEach
<1>8. TypeOK'
  BY <1>1, <1>3, CapacityKeeps DEF IInv, TypeOK, Next
<1> QED
  BY <1>3, <1>6, <1>7, <1>8 DEF IInv

(* What the wakers' notification may do to the type of emptyWaker. *)
LEMMA WakerType ==
  ASSUME NEW files, emptyWaker \in WakerStates, NotifyEmptyWakers(files)
  PROVE  emptyWaker' \in WakerStates
  BY DEF NotifyEmptyWakers, WakerStates

(* handle_new_file keeps the references exact. *)
LEMMA NewFileKeeps ==
  ASSUME IInv, ActorNewFile
  PROVE  IInv'
<1> DEFINE R   == [id : Segments, set : SUBSET SeqNums]
           id  == Head(fileRx).id
           set == Head(fileRx).set
           n   == Len(fileRx)
           left == NewFileSet(set)
           files == IF left = {} THEN walFiles
                    ELSE [f \in DOMAIN walFiles \cup {id} |->
                             IF f = id THEN left ELSE walFiles[f]]
<1>1. /\ fileRx # <<>>
      /\ fileRx' = Tail(fileRx)
      /\ walFiles' = files
      /\ persisted' = persisted \ set
      /\ NotifyEmptyWakers(files)
      /\ deleted' = deleted \cup (IF left = {} THEN {id} ELSE {})
      /\ UNCHANGED <<persistRx, unbufferedRx, contents, noted, shutdown>>
  BY DEF ActorNewFile, HandleNewFile, NewFileDeletes
<1>2. fileRx \in Seq(R)
  BY DEF IInv, TypeOK
<1>3. /\ fileRx' \in Seq(R)
      /\ n \in Nat \ {0}
      /\ DOMAIN fileRx = 1..n
      /\ DOMAIN fileRx' = 1..(n - 1)
      /\ Head(fileRx) = fileRx[1]
      /\ 1 \in DOMAIN fileRx
      /\ \A i \in 1..(n - 1) : fileRx'[i] = fileRx[i + 1]
  BY <1>1, <1>2, TailFacts
<1>4. id \in DOMAIN contents /\ set = contents[id] /\ id \in Segments /\ set \in SUBSET SeqNums
  BY <1>3 DEF IInv, FileQueueOK, TypeOK
<1>5. \A i \in DOMAIN fileRx' : /\ i + 1 \in DOMAIN fileRx /\ i + 1 # 1
                                /\ fileRx'[i] = fileRx[i + 1]
  BY <1>3
<1>6. \A i \in DOMAIN fileRx : i = 1 \/ (i - 1 \in DOMAIN fileRx' /\ fileRx'[i - 1] = fileRx[i])
  BY <1>3
<1>7. \A i \in DOMAIN fileRx' : fileRx'[i].id # id
  BY <1>3, <1>5 DEF IInv, FileQueueOK
<1>8. FileQueueOK'
  <2>1. \A i, j \in DOMAIN fileRx' : i + 1 = j + 1 => i = j
    BY <1>3
  <2> QED
    BY <2>1, <1>1, <1>5 DEF IInv, FileQueueOK
<1>9. QueuedFiles' = QueuedFiles \ {id} /\ id \in QueuedFiles
  <2>1. ASSUME NEW x \in QueuedFiles'  PROVE x \in QueuedFiles \ {id}
    <3>1. PICK i \in DOMAIN fileRx' : x = fileRx'[i].id
      BY DEF QueuedFiles
    <3> QED
      BY <3>1, <1>5, <1>7 DEF QueuedFiles
  <2>2. ASSUME NEW x \in QueuedFiles \ {id}  PROVE x \in QueuedFiles'
    <3>1. PICK i \in DOMAIN fileRx : x = fileRx[i].id
      BY DEF QueuedFiles
    <3>2. i # 1
      BY <3>1, <1>3
    <3> QED
      BY <3>1, <3>2, <1>6 DEF QueuedFiles
  <2>3. id \in QueuedFiles
    BY <1>3 DEF QueuedFiles
  <2> QED
    BY <2>1, <2>2, <2>3
<1> HIDE DEF id, set, n
<1>10. Handled' = Handled \cup {id} /\ id \notin Handled
  BY <1>1, <1>4, <1>9 DEF Handled
<1>11. Released' = Released
  BY <1>1 DEF Released, Queued
<1>12. set \cap UNION {contents[f] : f \in Handled} = {}
  BY <1>4, <1>10 DEF IInv, OneSegmentEach, Handled
<1>13. left = set \ Released
  BY <1>12 DEF NewFileSet, IInv, ExactReferences
<1>14. persisted' = Released \ UNION {contents[f] : f \in Handled \cup {id}}
  BY <1>1, <1>4 DEF IInv, ExactReferences
<1>15. id \notin DOMAIN walFiles
  BY <1>10 DEF IInv, ExactReferences
<1> HIDE DEF left
<1>16. ExactReferences'
  <2>1. CASE left = {}
    <3>1. walFiles' = walFiles /\ deleted' = deleted \cup {id}
      BY <2>1, <1>1
    <3>2. contents[id] \subseteq Released
      BY <2>1, <1>13, <1>4
    <3>3. DOMAIN walFiles' = {f \in Handled' : ~(contents'[f] \subseteq Released')}
      BY <3>1, <3>2, <1>1, <1>10, <1>11 DEF IInv, ExactReferences
    <3>4. \A f \in DOMAIN walFiles' : walFiles'[f] = contents'[f] \ Released'
      BY <3>1, <1>1, <1>11 DEF IInv, ExactReferences
    <3>5. deleted' = Handled' \ DOMAIN walFiles'
      BY <3>1, <1>10, <1>15 DEF IInv, ExactReferences
    <3>6. persisted' = Released' \ UNION {contents'[f] : f \in Handled'}
      BY <1>1, <1>10, <1>11, <1>14
    <3> QED
      BY <3>3, <3>4, <3>5, <3>6 DEF ExactReferences
  <2>2. CASE left # {}
    <3>1. /\ DOMAIN walFiles' = DOMAIN walFiles \cup {id}
          /\ walFiles'[id] = left
          /\ \A f \in DOMAIN walFiles : walFiles'[f] = walFiles[f]
          /\ deleted' = deleted
      BY <2>2, <1>1, <1>15
    <3>2. ~(contents[id] \subseteq Released)
      BY <2>2, <1>13, <1>4
    <3>3. DOMAIN walFiles' = {f \in Handled' : ~(contents'[f] \subseteq Released')}
      BY <3>1, <3>2, <1>1, <1>10, <1>11 DEF IInv, ExactReferences
    <3>4. \A f \in DOMAIN walFiles' : walFiles'[f] = contents'[f] \ Released'
      BY <3>1, <1>1, <1>4, <1>11, <1>13 DEF IInv, ExactReferences
    <3> QED
      BY <3>1, <3>3, <3>4, <1>1, <1>10, <1>11, <1>14, <1>15 DEF IInv, ExactReferences
  <2> QED
    BY <2>1, <2>2
<1>17. TypeOK'
  <2>1. emptyWaker' \in WakerStates
    BY <1>1, WakerType DEF IInv, TypeOK
  <2>2. /\ DOMAIN walFiles' \subseteq Segments
        /\ \A f \in DOMAIN walFiles' : walFiles'[f] \in SUBSET SeqNums
    BY <1>1, <1>4, <1>13 DEF IInv, TypeOK
  <2>3. persisted' \in SUBSET SeqNums /\ deleted' \in SUBSET Segments
    BY <1>1, <1>4 DEF IInv, TypeOK
  <2> HIDE DEF files
  <2> QED
    BY <1>1, <1>3, <2>1, <2>2, <2>3, CapacityKeeps DEF IInv, TypeOK, Next
<1>18. NotesOK' /\ OneSegmentEach'
  BY <1>1 DEF IInv, NotesOK, OneSegmentEach, Queued, Disjoint
<1> QED
  BY <1>8, <1>16, <1>17, <1>18 DEF IInv

(* remove() keeps the references exact, for a set that is queued once. *)
LEMMA RemoveExact ==
  ASSUME IInv, NEW set \in SUBSET SeqNums, Remove(set),
         set \subseteq Queued(persistRx) \cup Queued(unbufferedRx),
         Released' = Released \cup set,
         deleted' = deleted \cup Emptied(set),
         UNCHANGED <<fileRx, contents>>
  PROVE  /\ ExactReferences'
         /\ persisted' \in SUBSET SeqNums
         /\ deleted' \in SUBSET Segments
         /\ DOMAIN walFiles' \subseteq Segments
         /\ \A f \in DOMAIN walFiles' : walFiles'[f] \in SUBSET SeqNums
         /\ emptyWaker' \in WakerStates
<1>1. set \cap Released = {}
  BY DEF Released
<1>2. set \cap persisted = {}
  BY <1>1 DEF IInv, ExactReferences
<1>3. Unmatched(set) = set
  BY <1>2 DEF Unmatched
<1>4. /\ DOMAIN walFiles' = DOMAIN walFiles \ Emptied(set)
      /\ \A f \in DOMAIN walFiles' : walFiles'[f] = walFiles[f] \ set
      /\ persisted' = persisted \cup (set \ FileSets)
  BY <1>2, <1>3 DEF Remove
<1>5. Handled' = Handled
  BY DEF Handled, QueuedFiles
<1>6. Emptied(set) = {f \in DOMAIN walFiles : contents[f] \subseteq Released \cup set}
  BY <1>3 DEF Emptied, IInv, ExactReferences
<1>7. DOMAIN walFiles' = {f \in Handled' : ~(contents'[f] \subseteq Released')}
  BY <1>4, <1>5, <1>6 DEF IInv, ExactReferences
<1>8. \A f \in DOMAIN walFiles' : walFiles'[f] = contents'[f] \ Released'
  BY <1>4 DEF IInv, ExactReferences
<1>9. persisted' = Released' \ UNION {contents'[f] : f \in Handled'}
  <2>1. ASSUME NEW x \in set
        PROVE  x \in FileSets <=> x \in UNION {contents[f] : f \in Handled}
    <3>1. x \notin Released
      BY <1>1
    <3>2. ASSUME NEW f \in Handled, x \in contents[f]
          PROVE  f \in DOMAIN walFiles /\ x \in walFiles[f]
      BY <3>1, <3>2 DEF IInv, ExactReferences
    <3>3. ASSUME NEW f \in DOMAIN walFiles, x \in walFiles[f]
          PROVE  f \in Handled /\ x \in contents[f]
      BY <3>3 DEF IInv, ExactReferences
    <3> QED
      BY <3>2, <3>3 DEF FileSets
  <2>2. persisted = Released \ UNION {contents[f] : f \in Handled}
    BY DEF IInv, ExactReferences
  <2> QED
    BY <2>1, <2>2, <1>1, <1>4, <1>5
<1>10. deleted' = Handled' \ DOMAIN walFiles'
  BY <1>4, <1>5 DEF IInv, ExactReferences, Emptied
<1>11. ExactReferences'
  BY <1>7, <1>8, <1>9, <1>10 DEF ExactReferences
<1>12. emptyWaker' \in WakerStates
  BY WakerType DEF Remove, IInv, TypeOK
<1>13. /\ persisted' \in SUBSET SeqNums
       /\ deleted' \in SUBSET Segments
       /\ DOMAIN walFiles' \subseteq Segments
       /\ \A f \in DOMAIN walFiles' : walFiles'[f] \in SUBSET SeqNums
  BY <1>4 DEF IInv, TypeOK, Emptied
<1> QED
  BY <1>11, <1>12, <1>13

(* Both notification handlers are remove() of the set they receive. *)
LEMMA NotifiedKeeps ==
  ASSUME IInv, ActorPersisted \/ ActorUnbuffered
  PROVE  IInv'
<1>1. /\ persistRx \in Seq(SUBSET SeqNums)
      /\ unbufferedRx \in Seq(SUBSET SeqNums)
      /\ Disjoint(persistRx) /\ Disjoint(unbufferedRx)
      /\ Queued(persistRx) \cap Queued(unbufferedRx) = {}
      /\ Queued(persistRx) \cup Queued(unbufferedRx) \subseteq noted
  BY DEF IInv, TypeOK, NotesOK
<1>2. PICK set \in SUBSET SeqNums :
         /\ Remove(set)
         /\ set \subseteq Queued(persistRx) \cup Queued(unbufferedRx)
         /\ deleted' = deleted \cup Emptied(set)
         /\ persistRx' \in Seq(SUBSET SeqNums)
         /\ unbufferedRx' \in Seq(SUBSET SeqNums)
         /\ Disjoint(persistRx') /\ Disjoint(unbufferedRx')
         /\ Queued(persistRx') \cap Queued(unbufferedRx') = {}
         /\ Queued(persistRx') \cup Queued(unbufferedRx')
              = (Queued(persistRx) \cup Queued(unbufferedRx)) \ set
         /\ UNCHANGED <<fileRx, contents, noted, shutdown>>
  <2>1. CASE ActorPersisted
    <3> DEFINE set == Head(persistRx)
    <3>1. /\ persistRx # <<>> /\ persistRx' = Tail(persistRx)
          /\ Remove(set) /\ deleted' = deleted \cup Emptied(set)
          /\ UNCHANGED <<fileRx, unbufferedRx, contents, noted, shutdown>>
      BY <2>1 DEF ActorPersisted, HandlePersisted
    <3>2. /\ Queued(persistRx') = Queued(persistRx) \ set
          /\ set \subseteq Queued(persistRx) /\ set \in SUBSET SeqNums
          /\ Disjoint(persistRx')
      BY <3>1, <1>1, QueuedTail
    <3>3. persistRx' \in Seq(SUBSET SeqNums)
      BY <3>1, <1>1, TailFacts
    <3> HIDE DEF set
    <3> QED
      BY <3>1, <3>2, <3>3, <1>1
  <2>2. CASE ActorUnbuffered
    <3> DEFINE set == Head(unbufferedRx)
    <3>1. /\ unbufferedRx # <<>> /\ unbufferedRx' = Tail(unbufferedRx)
          /\ Remove(set) /\ deleted' = deleted \cup Emptied(set)
          /\ UNCHANGED <<fileRx, persistRx, contents, noted, shutdown>>
      BY <2>2 DEF ActorUnbuffered, HandleUnbuffered
    <3>2. /\ Queued(unbufferedRx') = Queued(unbufferedRx) \ set
          /\ set \subseteq Queued(unbufferedRx) /\ set \in SUBSET SeqNums
          /\ Disjoint(unbufferedRx')
      BY <3>1, <1>1, QueuedTail
    <3>3. unbufferedRx' \in Seq(SUBSET SeqNums)
      BY <3>1, <1>1, TailFacts
    <3> HIDE DEF set
    <3> QED
      BY <3>1, <3>2, <3>3, <1>1
  <2> QED
    BY <2>1, <2>2
<1>3. Released' = Released \cup set
  BY <1>1, <1>2 DEF Released
<1>4. /\ ExactReferences'
      /\ persisted' \in SUBSET SeqNums
      /\ deleted' \in SUBSET Segments
      /\ DOMAIN walFiles' \subseteq Segments
      /\ \A f \in DOMAIN walFiles' : walFiles'[f] \in SUBSET SeqNums
      /\ emptyWaker' \in WakerStates
  BY <1>2, <1>3, RemoveExact
<1>5. NotesOK'
  BY <1>1, <1>2 DEF NotesOK
<1>6. FileQueueOK' /\ OneSegmentEach'
  BY <1>2 DEF IInv, FileQueueOK, OneSegmentEach
<1>7. TypeOK'
  BY <1>2, <1>4, CapacityKeeps DEF IInv, TypeOK, Next
<1> QED
  BY <1>4, <1>5, <1>6, <1>7 DEF IInv

-----------------------------------------------------------------------------
(* The invariant holds in the state of a freshly started actor. *)
LEMMA InitOK == Init => IInv
<1> SUFFICES ASSUME Init  PROVE IInv
  OBVIOUS
<1>1. /\ fileRx = <<>> /\ persistRx = <<>> /\ unbufferedRx = <<>>
      /\ persisted = {} /\ walFiles = <<>> /\ emptyWaker = "none"
      /\ contents = <<>> /\ noted = {} /\ deleted = {} /\ shutdown = "running"
  BY DEF Init, TrackerInit
<1>2. DOMAIN fileRx = {} /\ DOMAIN walFiles = {} /\ DOMAIN contents = {}
  BY <1>1
<1>3. Queued(persistRx) = {} /\ Queued(unbufferedRx) = {}
  BY <1>1 DEF Queued
<1>4. TypeOK
  BY <1>1, <1>2, CapAssumption DEF TypeOK, WithinCapacity, WakerStates, ShutdownStates
<1>5. FileQueueOK /\ OneSegmentEach
  BY <1>2 DEF FileQueueOK, OneSegmentEach
<1>6. NotesOK
  BY <1>1, <1>3 DEF NotesOK, Disjoint
<1>7. ExactReferences
  BY <1>1, <1>2 DEF ExactReferences, Handled, Released
<1> QED
  BY <1>4, <1>5, <1>6, <1>7 DEF IInv

(* Every step, of the actor or of those who report to it, keeps it. *)
LEMMA StepOK == IInv /\ [Next]_vars => IInv'
<1> SUFFICES ASSUME IInv, [Next]_vars  PROVE IInv'
  OBVIOUS
<1>1. ASSUME NEW f \in Segments, NEW set \in SUBSET SeqNums, Rotate(f, set)
      PROVE  IInv'
  <2>1. RotatedInto(f, set) /\ UNCHANGED <<emptyWaker, shutdown>>
    BY <1>1 DEF Rotate
  <2>2. UNCHANGED <<persistRx, unbufferedRx, persisted, walFiles, noted, deleted>>
    BY <2>1 DEF RotatedInto
  <2> QED
    BY <2>1, <2>2, RotatedKeeps, CapacityKeeps DEF IInv, TypeOK
<1>2. ASSUME NEW f \in Segments, NEW set \in SUBSET SeqNums, ShutdownRotate(f, set)
      PROVE  IInv'
  <2>1. RotatedInto(f, set) /\ shutdown' = "rotated" /\ UNCHANGED emptyWaker
    BY <1>2 DEF ShutdownRotate
  <2>2. UNCHANGED <<persistRx, unbufferedRx, persisted, walFiles, noted, deleted>>
    BY <2>1 DEF RotatedInto
  <2> QED
    BY <2>1, <2>2, RotatedKeeps, CapacityKeeps DEF IInv, TypeOK, ShutdownStates
<1>3. CASE ShutdownRegister
  <2>1. /\ shutdown' = "registered" /\ emptyWaker' = "waiting"
        /\ UNCHANGED <<fileRx, persistRx, unbufferedRx, persisted, walFiles,
                       contents, noted, deleted>>
    BY <1>3 DEF ShutdownRegister, EmptyInactiveNotifier
  <2>2. TypeOK'
    BY <2>1 DEF IInv, TypeOK, WithinCapacity, ShutdownStates, WakerStates
  <2>3. FileQueueOK' /\ OneSegmentEach' /\ NotesOK'
    BY <2>1 DEF IInv, FileQueueOK, OneSegmentEach, NotesOK
  <2>4. ExactReferences'
    BY <2>1 DEF IInv, ExactReferences, Handled, QueuedFiles, Released
  <2> QED
    BY <2>2, <2>3, <2>4 DEF IInv
<1>4. CASE UNCHANGED vars
  <2>1. /\ UNCHANGED <<fileRx, persistRx, unbufferedRx, persisted, walFiles, emptyWaker>>
        /\ UNCHANGED <<contents, noted, deleted, shutdown>>
    BY <1>4 DEF vars, trackerVars, envVars
  <2>2. TypeOK' /\ FileQueueOK' /\ OneSegmentEach' /\ NotesOK'
    BY <2>1 DEF IInv, TypeOK, WithinCapacity, FileQueueOK, OneSegmentEach, NotesOK
  <2>3. ExactReferences'
    BY <2>1 DEF IInv, ExactReferences, Handled, QueuedFiles, Released
  <2> QED
    BY <2>2, <2>3 DEF IInv
<1> QED
  BY <1>1, <1>2, <1>3, <1>4, NotedKeeps, NewFileKeeps, NotifiedKeeps DEF Next

(* The invariant holds throughout. *)
LEMMA Inductive == Spec => []IInv
  BY InitOK, StepOK, PTL DEF Spec

(* The tracker's state keeps its type: the channels carry sets of sequence
   numbers, and the actor's map holds only rotated segments.               *)
THEOREM TypeCorrect == Spec => []TypeOK
<1>1. IInv => TypeOK
  BY DEF IInv
<1> QED
  BY <1>1, Inductive, PTL

(* handle_new_file and remove() keep the reference sets exact, for any
   number of segments and writes and any channel capacities, whatever the
   order in which rotations, persists and failed writes are reported.      *)
THEOREM ReferencesExact == Spec => []ExactReferences
<1>1. IInv => ExactReferences
  BY DEF IInv
<1> QED
  BY <1>1, Inductive, PTL

-----------------------------------------------------------------------------
(* The segments deleted are handled ones with every number released. *)
LEMMA DeletedReleased ==
  ASSUME IInv
  PROVE  /\ deleted \subseteq DOMAIN contents
         /\ \A f \in deleted : contents[f] \subseteq noted
  BY DEF IInv, ExactReferences, Handled, Released

(* Each step of the tracker is a step of the retention promise, or none. *)
LEMMA StepRetains == IInv /\ IInv' /\ [Next]_vars => [Abstract!Next]_(Abstract!vars)
<1> SUFFICES ASSUME IInv, IInv', [Next]_vars
             PROVE  [Abstract!Next]_(Abstract!vars)
  OBVIOUS
<1>1. ASSUME NEW f \in Segments, NEW set \in SUBSET SeqNums, RotatedInto(f, set)
      PROVE  Abstract!Next
  BY <1>1 DEF RotatedInto, Abstract!Next, Abstract!Rotate
<1>2. ASSUME NEW set \in SUBSET SeqNums, NotePersisted(set) \/ NoteUnbuffered(set)
      PROVE  Abstract!Next
  BY <1>2 DEF NotePersisted, NoteUnbuffered, Abstract!Next, Abstract!Note
<1>3. CASE ActorNewFile \/ ActorPersisted \/ ActorUnbuffered
  <2> DEFINE fs == deleted' \ deleted
  <2>1. deleted \subseteq deleted' /\ UNCHANGED <<contents, noted>>
    BY <1>3 DEF ActorNewFile, ActorPersisted, ActorUnbuffered
  <2>2. fs \in SUBSET Segments
    BY DEF IInv, TypeOK
  <2>3. /\ deleted' \subseteq DOMAIN contents'
        /\ \A f \in deleted' : contents'[f] \subseteq noted'
    <3>1. (/\ deleted \subseteq DOMAIN contents
           /\ \A f \in deleted : contents[f] \subseteq noted)'
      BY DEF IInv, ExactReferences, Handled, Released
    <3> QED
      BY <3>1
  <2>4. fs \subseteq Abstract!Unreferenced
    BY <2>1, <2>3 DEF Abstract!Unreferenced
  <2>5. CASE fs = {}
    BY <2>1, <2>5 DEF Abstract!vars
  <2>6. CASE fs # {}
    <3>1. Abstract!Delete(fs)
      BY <2>1, <2>4, <2>6 DEF Abstract!Delete
    <3> QED
      BY <3>1, <2>2 DEF Abstract!Next
  <2> QED
    BY <2>5, <2>6
<1>4. CASE ShutdownRegister
  BY <1>4 DEF ShutdownRegister, Abstract!vars
<1>5. CASE UNCHANGED vars
  BY <1>5 DEF vars, envVars, Abstract!vars
<1> QED
  BY <1>1, <1>2, <1>3, <1>4, <1>5 DEF Next, Rotate, ShutdownRotate

(* The safety half of the retention promise, for every value of the
   constants: handle_new_file and remove() delete a segment at most once, and
   only when each sequence number in it was reported persisted or failed.  *)
THEOREM RetentionSafety == Spec => Abstract!Init /\ [][Abstract!Next]_(Abstract!vars)
<1>1. Init => Abstract!Init
  BY DEF Init, Abstract!Init
<1> QED
  BY <1>1, Inductive, StepRetains, PTL DEF Spec
=============================================================================
