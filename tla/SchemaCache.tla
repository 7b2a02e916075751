---------------------------- MODULE SchemaCache ----------------------------
(***************************************************************************)
(* The namespace schema cache of a set of routers: writes that validate    *)
(* their columns against the catalog and extend the cache, schema events   *)
(* gossiped to the peers, and the anti-entropy protocol that converges the *)
(* caches when gossip is lost.                                             *)
(*                                                                         *)
(* One namespace with one table is modelled.  A schema is the set of the   *)
(* elements it holds: the namespace itself, its table, and typed columns;  *)
(* an empty set is a cache miss.  merge_schema_additive is then set union. *)
(* The cache sits in ten shards by namespace name, which one namespace     *)
(* does not tell apart.                                                    *)
(***************************************************************************)
EXTENDS Naturals, FiniteSets

CONSTANTS
  Routers,      \* the router processes
  Writers,      \* the write requests
  RouterOf,     \* the router that serves each write request
  Columns,      \* column names
  Types,        \* column types
  Inputs,       \* per write request: the sets of columns it may carry
  Warm,         \* the routers that started after the namespace was created
  Listeners,    \* the routers that gossip frames can reach
  MaxRestarts   \* bound: how often a router crashes and starts again

Namespace == <<"namespace", "">>
Table == <<"table", "">>
Column == Columns \X Types
Elements == {Namespace, Table} \cup Column
Schemas == SUBSET Elements

ASSUME SchemaCacheAssumption ==
  /\ RouterOf \in [Writers -> Routers]
  /\ Inputs \in [Writers -> SUBSET SUBSET Column]
  /\ Listeners \subseteq Routers /\ Warm \subseteq Routers
  /\ MaxRestarts \in Nat

VARIABLES
  catalog,   \* the elements the catalog holds
  cache,     \* per router: the content of its MemoryNamespaceCache
  queue,     \* per router: is an update waiting for the merkle tree actor?
  mst,       \* per router: the schema its merkle search tree reflects
  sent,      \* per listener: the frames sent to it; each may arrive late, twice or never
  task,      \* the state of every thread that uses a cache
  restarts   \* the restarts so far

vars == <<catalog, cache, queue, mst, sent, task, restarts>>

Rx(n) == <<"rx", n>>
Sync(n, p) == <<"sync", n, p>>
RxTasks == {Rx(n) : n \in Listeners}
SyncTasks == {Sync(q[1], q[2]) : q \in {q \in Routers \X Routers : q[1] # q[2]}}
WriteTasks == {<<"write", w>> : w \in Writers}
Tasks == WriteTasks \cup RxTasks \cup SyncTasks

\* The router a task runs on.
Node(k) == IF k \in WriteTasks THEN RouterOf[k[2]] ELSE k[2]

\* What a task remembers: where it is, the columns of its write, the schema it
\* works with, and in put_schema the schema to merge, the content it read and
\* where it goes on.
Task(pc, input, schema) ==
  [pc |-> pc, input |-> input, schema |-> schema, arg |-> {}, old |-> {}, next |-> pc]
Idle == Task("idle", {}, {})

\* A router fills its cache and its tree from the catalog when it starts.
Init ==
  /\ catalog = IF Warm = {} THEN {} ELSE {Namespace}
  /\ cache = [n \in Routers |-> IF n \in Warm THEN catalog ELSE {}]
  /\ queue = [n \in Routers |-> FALSE]
  /\ mst = cache
  /\ sent = [n \in Listeners |-> {}]
  /\ \E f \in [Writers -> UNION {Inputs[w] : w \in Writers}] :
       /\ \A w \in Writers : f[w] \in Inputs[w]
       /\ task = [k \in Tasks |-> IF k \in WriteTasks THEN Task("resolve", f[k[2]], {}) ELSE Idle]
  /\ restarts = 0

\* Where a task that ends forgets what it worked with.
Ended == {"idle", "done", "rejected"}
At(t, pc) == IF pc \in Ended THEN Task(pc, {}, {}) ELSE Task(pc, t.input, t.schema)
Goto(k, pc) == task' = [task EXCEPT ![k] = At(@, pc)]

---------------------------------------------------------------------------
(* MemoryNamespaceCache::put_schema below MerkleTree and, for the requests *)
(* of this router, SchemaChangeObserver.                                   *)

\* Task k calls put_schema and goes on at "next".  The cached schema is read here,
\* under the read lock, and the lock is released before the merge.
put_schema(k, schema, next) ==
  task' = [task EXCEPT ![k] = [@ EXCEPT !.pc = "insert", !.arg = schema,
                                        !.old = cache[Node(k)], !.next = next]]

merge_schema_additive(new, old) == new \cup old

\* The merged schema replaces whatever the cache holds by now.
PutInsert(k) ==
  /\ task[k].pc = "insert"
  /\ cache' = [cache EXCEPT ![Node(k)] = merge_schema_additive(task[k].arg, task[k].old)]
  /\ task' = [task EXCEPT ![k].pc = "observe"]
  /\ UNCHANGED <<catalog, queue, mst, sent, restarts>>

\* The events that describe what a merge added: a new namespace, a new table with
\* its columns, or the new columns of a table known before.
observe_diff(old, new) ==
  (IF old = {} THEN {{Namespace}} ELSE {})
  \cup (IF Table \in new \ old THEN {new \ {Namespace}} ELSE {})
  \cup (IF Table \in old /\ new # old THEN {new \ old} ELSE {})

\* The routers whose merkle tree actor hears of a put by task k.
Observers_RequestsOnly(k) == IF k \in WriteTasks THEN {Node(k)} ELSE {}

Observers(k) == {Node(k)}

\* The merkle tree actor is told of the update, and a change made by a request
\* of this router is gossiped.  A change that came from a peer is not.
Observe(k) ==
  LET merged == merge_schema_additive(task[k].arg, task[k].old) IN
  /\ task[k].pc = "observe"
  /\ queue' = [n \in Routers |-> queue[n] \/ n \in Observers(k)]
  /\ sent' = [n \in Listeners |-> sent[n] \cup
                IF k \in WriteTasks /\ n # Node(k) THEN observe_diff(task[k].old, merged) ELSE {}]
  /\ task' = [task EXCEPT ![k] =
                At(IF k \in WriteTasks THEN [@ EXCEPT !.schema = merged] ELSE @, @.next)]
  /\ UNCHANGED <<catalog, cache, mst, restarts>>

---------------------------------------------------------------------------
(* A write request: NamespaceAutocreation, the resolver, SchemaValidator.  *)

\* get_namespace_schema: a hit returns the cached schema.  A miss creates the
\* namespace in the catalog, unless it exists, and fills the cache from there.
Resolve(k) ==
  /\ task[k].pc = "resolve"
  /\ IF cache[Node(k)] # {}
     THEN /\ task' = [task EXCEPT ![k].pc = "validate", ![k].schema = cache[Node(k)]]
          /\ UNCHANGED catalog
     ELSE /\ catalog' = catalog \cup {Namespace}
          /\ put_schema(k, catalog', "validate")
  /\ UNCHANGED <<cache, queue, mst, sent, restarts>>

NamesOf(schema) == {c[1] : c \in schema \cap Column}

\* The columns that a schema does not know, and those it knows with another type.
Unknown(columns, schema) == {c \in columns : c[1] \notin NamesOf(schema)}
Mismatch(columns, schema) == {c \in columns \ schema : c[1] \in NamesOf(schema)}

\* create_or_get_many_unchecked: what the statement adds to the catalog, which it
\* keeps also when another column is found with a different type.
Created(columns) == Unknown(columns, catalog)

\* The columns found with a different type: the call fails.
Conflicting_None(columns) == {}

Conflicting(columns) == Mismatch(columns, catalog)

\* SchemaValidator::write.  A table the schema lacks is loaded from the catalog, or
\* created there, without its columns; the columns the schema lacks are created in
\* the catalog or found there; a schema that changed is put into the cache.
Validate(k) ==
  LET schema == task[k].schema \cup {Table}
      new == Unknown(task[k].input, schema)
  IN /\ task[k].pc = "validate"
     /\ catalog' = catalog \cup {Table} \cup
          (IF Mismatch(task[k].input, schema) = {} THEN Created(new) ELSE {})
     /\ IF Mismatch(task[k].input, schema) \cup Conflicting(new) # {} THEN Goto(k, "rejected")
        ELSE IF schema \cup new = task[k].schema THEN Goto(k, "done")
        ELSE put_schema(k, schema \cup new, "done")
     /\ UNCHANGED <<cache, queue, mst, sent, restarts>>

---------------------------------------------------------------------------
(* NamespaceSchemaGossip: the schema event handler.                        *)

\* The schema an event makes of the cached one.  Events for a namespace or a table
\* that is not known here are dropped.
Applied_KnownTable(schema, event) ==
  IF Namespace \in event THEN IF schema = {} THEN {Namespace} ELSE schema
  ELSE IF Table \in event THEN IF schema = {} \/ Table \in schema THEN schema
                               ELSE schema \cup event
  ELSE IF Table \in schema THEN schema \cup event ELSE schema

Applied(schema, event) ==
  IF Namespace \in event THEN IF schema = {} THEN {Namespace} ELSE schema
  ELSE IF Table \in event THEN IF schema = {} THEN schema ELSE schema \cup event
  ELSE IF Table \in schema THEN schema \cup event ELSE schema

\* handle: an event that adds nothing is no update.
Handle(k, event, next) ==
  LET schema == cache[Node(k)] IN
  IF Applied(schema, event) = schema THEN Goto(k, next)
  ELSE put_schema(k, Applied(schema, event), next)

\* The dispatch loop of SchemaRx handles one frame at a time.
Deliver(n, event) ==
  /\ task[Rx(n)].pc = "idle"
  /\ Handle(Rx(n), event, "idle")
  /\ UNCHANGED <<catalog, cache, queue, mst, sent, restarts>>

---------------------------------------------------------------------------
(* Anti-entropy: the merkle tree actor and the sync rounds.                *)

\* handle_upsert: the actor reads the schema from the cache.
Upsert(n) ==
  /\ queue[n]
  /\ queue' = [queue EXCEPT ![n] = FALSE]
  /\ mst' = [mst EXCEPT ![n] = cache[n]]
  /\ UNCHANGED <<catalog, cache, sent, task, restarts>>

\* The actor serves other operations only while no update waits.
ActorFree(n) == ~queue[n]

\* A sync round of n with p, one at a time: a consistency probe of p carries a root
\* hash that differs from n's own, n sends a snapshot of its tree, and p, whose tree
\* holds the namespace with other content, returns its cached schema.  A round that
\* fails changes nothing.
StartSync(n, p) ==
  /\ task[Sync(n, p)].pc = "idle"
  /\ ActorFree(n) /\ ActorFree(p)
  /\ mst[p] \notin {{}, mst[n]}
  /\ task' = [task EXCEPT ![Sync(n, p)] = Task("namespace", {}, cache[p])]
  /\ UNCHANGED <<catalog, cache, queue, mst, sent, restarts>>

\* try_sync applies the peer's schema as a namespace and a table event.
MergeNamespace(k) ==
  /\ task[k].pc = "namespace"
  /\ Handle(k, {Namespace}, "tables")
  /\ UNCHANGED <<catalog, cache, queue, mst, sent, restarts>>

MergeTables(k) ==
  /\ task[k].pc = "tables"
  /\ IF Table \in task[k].schema
     THEN Handle(k, task[k].schema \ {Namespace}, "idle")
     ELSE Goto(k, "idle")
  /\ UNCHANGED <<catalog, cache, queue, mst, sent, restarts>>

---------------------------------------------------------------------------
\* A router crashes and starts again: its requests fail, and before it serves or
\* gossips its cache and its tree are filled from the catalog.
Restart(n) ==
  /\ restarts < MaxRestarts
  /\ restarts' = restarts + 1
  /\ cache' = [cache EXCEPT ![n] = catalog]
  /\ mst' = [mst EXCEPT ![n] = catalog]
  /\ queue' = [queue EXCEPT ![n] = FALSE]
  /\ task' = [k \in Tasks |->
       IF Node(k) # n THEN task[k]
       ELSE At(task[k], IF k \notin WriteTasks THEN "idle"
                        ELSE IF task[k].pc = "done" THEN "done" ELSE "rejected")]
  /\ UNCHANGED <<catalog, sent>>

TaskStep(k) ==
  \/ PutInsert(k) \/ Observe(k)
  \/ Resolve(k) \/ Validate(k)
  \/ MergeNamespace(k) \/ MergeTables(k)

Next ==
  \/ \E k \in Tasks : TaskStep(k)
  \/ \E n \in Listeners : \E event \in sent[n] : Deliver(n, event)
  \/ \E n \in Routers : Upsert(n) \/ Restart(n)
  \/ \E n \in Routers, p \in Routers : n # p /\ StartSync(n, p)

Spec == Init /\ [][Next]_vars

\* Threads and actors run on; probes keep arriving, and not every call to a peer
\* fails.  No gossip frame need ever arrive.
Fairness ==
  /\ \A k \in Tasks : WF_vars(TaskStep(k))
  /\ \A n \in Routers : WF_vars(Upsert(n))
  /\ \A n \in Routers, p \in Routers : n # p => WF_vars(StartSync(n, p))

FairSpec == Spec /\ Fairness

---------------------------------------------------------------------------
TypeOK ==
  /\ catalog \in Schemas
  /\ cache \in [Routers -> Schemas] /\ mst \in [Routers -> Schemas]
  /\ queue \in [Routers -> BOOLEAN]
  /\ sent \in [Listeners -> SUBSET Schemas]
  /\ DOMAIN task = Tasks
  /\ restarts \in 0 .. MaxRestarts

\* No two elements give a column two types.
OneType(schema) == \A c, d \in schema \cap Column : c[1] = d[1] => c = d

\* Whatever a router caches, gossips or is about to merge is in the catalog, and the
\* catalog gives every column one type: the assertions of update_table, that names
\* map to the same ids and types across the cluster, cannot fail, although routers
\* add columns concurrently and frames arrive at any time.
AgreesWithCatalog ==
  /\ TypeOK
  /\ OneType(catalog)
  /\ \A n \in Routers : cache[n] \cup mst[n] \subseteq catalog
  /\ \A n \in Listeners : UNION sent[n] \subseteq catalog
  /\ \A k \in Tasks : task[k].schema \cup task[k].arg \cup task[k].old \subseteq catalog

\* A merkle tree differs from its cache only while an update waits for the actor or
\* a put has stored its schema and not yet announced it, so two routers with the
\* same root hash hold the same schema once their puts have settled.
TreeReflectsCache ==
  \A n \in Routers : mst[n] # cache[n] =>
    queue[n] \/ \E k \in Tasks : Node(k) = n /\ task[k].pc = "observe"

\* The caches of all routers become equal and stay equal once the writes are over,
\* though concurrent puts may have overwritten each other and every gossip frame
\* may be lost: anti-entropy spreads every element that some router still holds.
CachesConverge ==
  <>[](\A n, p \in Routers : cache[n] = cache[p] /\ mst[n] = cache[n])
=============================================================================
