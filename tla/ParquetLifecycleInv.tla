------------------------ MODULE ParquetLifecycleInv ------------------------
(***************************************************************************)
(* The inductive invariant of ParquetLifecycle, lemmas about its parts,    *)
(* and the ingester's steps.                                               *)
(***************************************************************************)
EXTENDS ParquetLifecycle, TLAPS

Written == {f \in Files : content[f] /= {}}

Active(j) == job[j].stage \in {"running", "uploaded"}

Holding(j) == Critical(j) \/ job[j].stage \in {"ending", "leaving"}

(* The scheduler's maps follow the one job that holds the partition. *)
Mutex ==
    /\ \A i, j \in Jobs : Holding(i) /\ Holding(j) => i = j
    /\ ~panicked
    /\ \A j \in Jobs :
        /\ Critical(j) \/ job[j].stage = "ending" => flight /= "none" /\ in_flight
        /\ job[j].stage = "leaving" => flight = "none" /\ in_flight
    /\ ~in_flight => flight = "none"

(* Object ids are used once. *)
Ids ==
    /\ objects \subseteq Written
    /\ \A f \in L0 : persist[f] = "new" => content[f] = {}
    /\ \A f \in L0 : persist[f] = "uploaded" => content[f] = {f} /\ f \notin rows
    /\ \A j \in Jobs : job[j].stage = "uploaded" =>
        job[j].out /= {} /\ job[j].out \cap rows = {} /\ job[j].inputs \subseteq Written
    /\ \A c \in late : c.create /= {} /\ c.create \cap rows = {} /\ c.delete \subseteq Written
    /\ \A j \in Jobs, c \in late : job[j].stage = "uploaded" => job[j].out \cap c.create = {}
    /\ \A c, d \in late : c /= d => c.create \cap d.create = {}

(* An object waits for its commit less long than the deleter waits for it, and a late *)
(* commit read its clock after its uploads. *)
Objects ==
    /\ rows \subseteq objects
    /\ doomed \cap rows = {}
    /\ Pending \subseteq objects \ doomed
    /\ \A f \in Pending : age[f] <= WriteDelay
    /\ \A c \in late : \A f \in c.create : c.stamp <= age[f]

(* The mark of a file is at most WriteDelay older than the lists in use that name it. *)
Lists ==
    /\ \A f \in Files \ rows : flagAge[f] = Live
    /\ \A f \in Files : listAge[f] <= ListLife => f \in rows
    /\ \A f \in rows : flagAge[f] <= listAge[f] + WriteDelay \/ listAge[f] = ListLife + 1
    /\ \A j \in Jobs : Active(j) =>
        \A f \in job[j].files : f \in rows /\ flagAge[f] <= job[j].age + WriteDelay

(* What a transaction creates holds what it deletes. *)
Contents ==
    /\ \A j \in Jobs : job[j].stage = "uploaded" =>
        \A o \in job[j].out : content[o] = UNION {content[f] : f \in job[j].inputs}
    /\ \A c \in late : \A o \in c.create : content[o] = UNION {content[f] : f \in c.delete}

IInv == TypeOK /\ Mutex /\ Ids /\ Objects /\ Lists /\ Contents /\ RowsCovered

USE DEF schedulerVars, gcVars, jobVars, catalogVars, storeVars, pipelineVars

-----------------------------------------------------------------------------
\* Records of a job stay job records when it ends or goes on.
LEMMA IdleState == Idle \in JobState
  BY LifecycleAssumption DEF Idle, JobState, JobStages

LEMMA EndedState ==
  ASSUME NEW j, NEW res \in {"ok", "unknown", "timeout"}
  PROVE  Ended(j, res) \in JobState
  BY IdleState, Zenon DEF Ended, JobState, JobStages

LEMMA JobUpdate ==
  ASSUME NEW r \in JobState, NEW s \in JobStages, NEW fs \in SUBSET Files
  PROVE  /\ [r EXCEPT !.stage = s] \in JobState
         /\ [r EXCEPT !.stage = s, !.files = fs] \in JobState
         /\ [r EXCEPT !.stage = s, !.inputs = {}, !.out = {}, !.progress = "made",
                      !.files = fs] \in JobState
  BY Zenon DEF JobState

LEMMA JobUpdateOut ==
  ASSUME NEW r \in JobState, NEW s \in JobStages, NEW fs \in SUBSET Files,
         NEW os \in SUBSET Outputs
  PROVE  [r EXCEPT !.stage = s, !.inputs = fs, !.out = os] \in JobState
  BY Zenon DEF JobState

LEMMA JobUpdateAge ==
  ASSUME NEW r \in JobState, NEW a \in 0 .. JobTimeout
  PROVE  [r EXCEPT !.age = a] \in JobState
  BY DEF JobState

\* An age stays within its cap.
LEMMA OlderType ==
  ASSUME NEW cap \in Nat, NEW a \in Live .. cap
  PROVE  /\ Older(a, cap) \in Live .. cap
         /\ a >= 0 => Older(a, cap) >= 0
  BY DEF Older, Live

\* Pending is made of the uploads of the ingester, of the jobs and of late commits.
LEMMA PendingLate ==
  ASSUME NEW d \in late
  PROVE  d.create \subseteq Pending
  <1>1. d.create \subseteq UNION {c.create : c \in late}
    OBVIOUS
  <1>2. UNION {c.create : c \in late} \subseteq Pending
    BY Zenon DEF Pending
  <1> QED BY <1>1, <1>2

LEMMA PendingWithin ==
  ASSUME NEW S,
         \A f \in L0 : persist'[f] = "uploaded" => f \in S,
         \A j \in Jobs : job'[j].stage = "uploaded" => job'[j].out \subseteq S,
         \A c \in late' : c.create \subseteq S
  PROVE  Pending' \subseteq S
  <1>1. UNION {c.create : c \in late'} \subseteq S
    OBVIOUS
  <1>2. UNION {job'[j].out : j \in {i \in Jobs : job'[i].stage = "uploaded"}} \subseteq S
    OBVIOUS
  <1>3. {f \in L0 : persist'[f] = "uploaded"} \subseteq S
    OBVIOUS
  <1> QED BY <1>1, <1>2, <1>3, Zenon DEF Pending

LEMMA PendingJob ==
  ASSUME NEW j \in Jobs, job[j].stage = "uploaded"
  PROVE  job[j].out \subseteq Pending
  <1>1. job[j].out \in {job[i].out : i \in {k \in Jobs : job[k].stage = "uploaded"}}
    OBVIOUS
  <1> QED BY <1>1 DEF Pending

\* A transaction's trigger keeps the scheduler's view typed.
LEMMA NewFileType ==
  ASSUME TypeOK, NEW create \in SUBSET Files, create /= {}, NEW delete, NEW stamp,
         Transaction(delete, create, stamp)
  PROVE  fresh' \in BOOLEAN /\ recent' \subseteq Files
<1>1. PICK f \in create : NewFileAt(f)
  BY DEF Transaction
<1> QED BY <1>1 DEF NewFileAt, TypeOK

\* What a transaction does to the marks and the lists.
LEMMA TransactionEffect ==
  ASSUME TypeOK, NEW delete, NEW create \in SUBSET Files, NEW stamp \in 0 .. WriteDelay,
         Transaction(delete, create, stamp)
  PROVE  /\ rows' = rows \cup create
         /\ flagAge' \in [Files -> Live .. PFCutoff + 1]
         /\ listAge' \in [Files -> 0 .. ListLife + 1]
         /\ \A f \in Files :
              /\ f \notin rows => flagAge'[f] = flagAge[f]
              /\ flagAge'[f] = flagAge[f] \/ flagAge'[f] \in 0 .. WriteDelay
              /\ listAge'[f] = IF f \in create THEN 0 ELSE listAge[f]
<1> USE LifecycleAssumption DEF Transaction, create_upgrade_delete, flag_for_delete
<1>1. stamp \in Live .. PFCutoff + 1
  BY DEF Live
<1>2. flagAge' \in [Files -> Live .. PFCutoff + 1]
  BY <1>1 DEF TypeOK
<1>3. listAge' \in [Files -> 0 .. ListLife + 1]
  BY DEF TypeOK
<1>4. ASSUME NEW f \in Files
      PROVE  /\ f \notin rows => flagAge'[f] = flagAge[f]
             /\ flagAge'[f] = flagAge[f] \/ flagAge'[f] \in 0 .. WriteDelay
             /\ listAge'[f] = IF f \in create THEN 0 ELSE listAge[f]
  OBVIOUS
<1> QED BY <1>2, <1>3, <1>4

\* The lists that wait for a soft-deleted file survive a transaction: what it marks is
\* marked at most WriteDelay ago.
LEMMA TransactionLists ==
  ASSUME TypeOK, Lists, NEW delete, NEW create \in SUBSET Files, create \cap rows = {},
         NEW stamp \in 0 .. WriteDelay, Transaction(delete, create, stamp)
  PROVE  /\ \A f \in Files \ rows' : flagAge'[f] = Live
         /\ \A f \in Files : listAge'[f] <= ListLife => f \in rows'
         /\ \A f \in rows' : flagAge'[f] <= listAge'[f] + WriteDelay \/ listAge'[f] = ListLife + 1
         /\ \A f \in create : flagAge'[f] = Live
         /\ \A j \in Jobs : Active(j) =>
              \A f \in job[j].files : f \in rows' /\ flagAge'[f] <= job[j].age + WriteDelay
<1> USE LifecycleAssumption
<1>1. /\ rows' = rows \cup create
      /\ \A f \in Files :
           /\ f \notin rows => flagAge'[f] = flagAge[f]
           /\ flagAge'[f] = flagAge[f] \/ flagAge'[f] \in 0 .. WriteDelay
           /\ listAge'[f] = IF f \in create THEN 0 ELSE listAge[f]
  BY TransactionEffect
<1>2. \A f \in Files \ rows : flagAge'[f] = Live
  BY <1>1 DEF Lists
<1>3. ASSUME NEW f \in rows'
      PROVE  flagAge'[f] <= listAge'[f] + WriteDelay \/ listAge'[f] = ListLife + 1
  BY <1>1, <1>2 DEF Lists, TypeOK, Live
<1>4. ASSUME NEW j \in Jobs, Active(j), NEW f \in job[j].files
      PROVE  f \in rows' /\ flagAge'[f] <= job[j].age + WriteDelay
  <2>1. f \in rows /\ f \in Files /\ flagAge[f] <= job[j].age + WriteDelay /\ job[j].age \in Nat
    BY <1>4 DEF Lists, TypeOK, JobState
  <2> QED BY <1>1, <2>1
<1>5. \A f \in Files : listAge'[f] <= ListLife => f \in rows'
  BY <1>1 DEF Lists
<1> QED BY <1>1, <1>2, <1>3, <1>4, <1>5

\* The ingester's steps preserve the invariant, one lemma per action.
LEMMA PersistUploadStep ==
  ASSUME IInv, NEW f \in L0, PersistUpload(f)
  PROVE  IInv'
<1> USE LifecycleAssumption DEF IInv
<1>1. TypeOK'
  <2> QED
    BY DEF PersistUpload, Stamp, Upload, TypeOK
<1>2. Mutex'
  BY DEF PersistUpload, Stamp, Mutex, Holding, Critical
<1>3. Ids'
  <2>1. f \notin Written /\ f \notin rows
    BY DEF PersistUpload, Ids, Objects, Written
  <2>2. \A g \in Files : content'[g] = IF g = f THEN {f} ELSE content[g]
    BY DEF PersistUpload, TypeOK
  <2>3. Written' = Written \cup {f}
    BY <2>2 DEF Written
  <2>4. objects' \subseteq Written'
    BY <2>3 DEF PersistUpload, Upload, Ids
  <2>5. \A g \in L0 : (persist[g] = "new")' => content'[g] = {}
    BY <2>2 DEF PersistUpload, TypeOK, Ids
  <2>6. \A g \in L0 : (persist[g] = "uploaded")' => content'[g] = {g} /\ g \notin rows
    BY <2>1, <2>2 DEF PersistUpload, Ids
  <2> QED BY <2>3, <2>4, <2>5, <2>6 DEF PersistUpload, Ids
<1>4. Objects'
  BY DEF PersistUpload, Upload, TypeOK, Ids, Objects, Pending, Written
<1>5. Lists'
  BY DEF PersistUpload, Lists, Active
<1>6. Contents'
  BY DEF PersistUpload, Ids, Objects, Contents, Written, Pending
<1>7. RowsCovered'
  BY DEF PersistUpload, Ids, RowsCovered, LiveFiles
<1> QED BY <1>1, <1>2, <1>3, <1>4, <1>5, <1>6, <1>7

LEMMA PersistCommitStep ==
  ASSUME IInv, NEW f \in L0, PersistCommit(f)
  PROVE  IInv'
<1> USE LifecycleAssumption DEF IInv
<1>1. TypeOK'
  <2>2. fresh' \in BOOLEAN /\ recent' \subseteq Files
    BY NewFileType DEF PersistCommit
  <2> QED
    BY <2>2 DEF PersistCommit, Transaction, create_upgrade_delete, flag_for_delete, TypeOK
<1>2. Mutex'
  BY DEF PersistCommit, Mutex, Holding, Critical
<1>3. Ids'
  BY DEF PersistCommit, Transaction, create_upgrade_delete, TypeOK, JobState, Ids, Written
<1>4. Objects'
  BY DEF PersistCommit, Transaction, create_upgrade_delete, Objects, Pending
<1>5. Lists'
  BY DEF PersistCommit, Transaction, create_upgrade_delete, flag_for_delete, TypeOK, Ids,
    Lists, Active, Live
<1>6. Contents'
  BY DEF PersistCommit, Contents
<1>7. RowsCovered'
  BY DEF PersistCommit, Transaction, create_upgrade_delete, flag_for_delete, Ids, Objects,
    Lists, RowsCovered, LiveFiles, Written
<1> QED BY <1>1, <1>2, <1>3, <1>4, <1>5, <1>6, <1>7

LEMMA PersistCrashStep ==
  ASSUME IInv, NEW f \in L0, PersistCrash(f)
  PROVE  IInv'
<1> USE LifecycleAssumption DEF IInv
<1>1. TypeOK'
  <2> QED
    BY DEF PersistCrash, Fault, TypeOK
<1>2. Mutex'
  BY DEF PersistCrash, Mutex, Holding, Critical
<1>3. Ids'
  BY DEF PersistCrash, Ids, Written
<1>4. Objects'
  BY DEF PersistCrash, Objects, Pending
<1>5. Lists'
  BY DEF PersistCrash, Lists, Active
<1>6. Contents'
  BY DEF PersistCrash, Contents
<1>7. RowsCovered'
  BY DEF PersistCrash, RowsCovered, LiveFiles
<1> QED BY <1>1, <1>2, <1>3, <1>4, <1>5, <1>6, <1>7
=============================================================================
