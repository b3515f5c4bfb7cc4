----------------------------- MODULE DagStore -----------------------------
(***************************************************************************)
(* The workflow definitions of one node and the threads that use them: the *)
(* RPC thread registers DAGs and sends them to the workers, executors look *)
(* up a DAG, run it and report to a peer, the gossip listener adds workers *)
(* that join.  They share the catalog (a read-write lock that a lookup     *)
(* keeps), the peer pool (a mutex that a lookup keeps) and the cluster     *)
(* view.                                                                   *)
(***************************************************************************)
EXTENDS Dag, FiniteSets

CONSTANTS
  Executors,     \* executor threads
  RPC, Listener, \* the other two threads
  NoThread,      \* nobody holds the pool's mutex
  Peers,         \* ids of other nodes, all of them workers
  Self,          \* this node's id
  NoDag,         \* no definition
  Definitions,   \* the DAGs that clients register and other routers send
  Capacity,      \* capacity of the catalog
  PoolCapacity,  \* capacity of the peer pool
  MaxSerial,     \* steps and dependencies that fit in the buffer dag_serialize fills
  MaxRequests    \* bound: requests, messages, joins and rumours

ASSUME StoreAssumption ==
  /\ Self \notin Peers
  /\ RPC \notin Executors /\ Listener \notin Executors /\ RPC # Listener
  /\ NoThread \notin Executors \cup {RPC, Listener}
  /\ NoDag \notin Definitions
  /\ \A d \in Definitions : IsArray(d)
  /\ Capacity \in Nat \ {0} /\ PoolCapacity \in Nat \ {0}

Ids == {d.id : d \in Definitions}
Threads == Executors \cup {RPC, Listener}

VARIABLES
  catalog,   \* catalog->dags, the first catalog->count of them
  view,      \* the workers that are ALIVE in the cluster view
  pool,      \* pool->peers: a sequence of [node, channel]
  mutex,     \* the thread that holds pool->lock
  rpc,       \* where the RPC thread is
  exec,      \* exec[t]: where executor t is
  lst,       \* where the gossip listener is
  budget,    \* requests left
  latest,    \* history: latest[i], the definition of DAG i accepted last
  stray      \* history: a thread has unlocked the pool's mutex without holding it

vars == <<catalog, view, pool, mutex, rpc, exec, lst, budget, latest, stray>>

IdleRpc == [pc |-> "idle", def |-> NoDag, todo |-> {}, peer |-> Self]
\* next, order and progress belong to dag_execute: the index its loop goes on
\* from, the steps that are complete in the order they ran, and progress_made.
\* def is history: the definition that the executor runs or is about to report on.
IdleExec ==
  [pc |-> "idle", id |-> 0, at |-> 0, def |-> NoDag, sender |-> Self, status |-> "FAILED",
   next |-> 1, order |-> <<>>, progress |-> FALSE]
IdleListener == [pc |-> "idle", peer |-> Self]

Init ==
  /\ catalog = <<>>
  /\ view = {}
  /\ pool = <<>>
  /\ mutex = NoThread
  /\ rpc = IdleRpc
  /\ exec = [t \in Executors |-> IdleExec]
  /\ lst = IdleListener
  /\ budget = MaxRequests
  /\ latest = [i \in Ids |-> NoDag]
  /\ stray = FALSE

Spend == budget > 0 /\ budget' = budget - 1

-----------------------------------------------------------------------------
(***************************************************************************)
(* Catalog                                                                 *)
(***************************************************************************)

\* The index of the first definition with an id, which every search stops at.
IndexOf(i, k) ==
  /\ k \in DOMAIN catalog
  /\ catalog[k].id = i
  /\ \A j \in 1 .. (k - 1) : catalog[j].id # i

Known(i) == \E k \in DOMAIN catalog : catalog[k].id = i

\* dag_catalog_get keeps the read lock until dag_catalog_release.
Readers == {t \in Executors : exec[t].pc = "run"}

\* Mutant: the writer does not wait.
CatalogWritable_always == TRUE

\* The write lock: nobody reads.
CatalogWritable == Readers = {}

\* Mutant: the capacity is not checked.
Add_unbounded(d) ==
  /\ ~Known(d.id)
  /\ catalog' = Append(catalog, d)
  /\ latest' = [latest EXCEPT ![d.id] = d]

\* dag_catalog_add succeeds.
Add(d) ==
  /\ ~Known(d.id) /\ Len(catalog) < Capacity
  /\ catalog' = Append(catalog, d)
  /\ latest' = [latest EXCEPT ![d.id] = d]

-----------------------------------------------------------------------------
(***************************************************************************)
(* Peer pool                                                               *)
(***************************************************************************)

InPool(w) == \E i \in DOMAIN pool : pool[i].node = w

\* Mutant: the lookup does not keep the mutex.
PoolGet_unlocks(th, w) == mutex = NoThread /\ UNCHANGED mutex

\* peer_pool_get takes the mutex; it keeps it when it finds the peer and gives
\* it back when not.
PoolGet(th, w) ==
  /\ mutex = NoThread
  /\ mutex' = IF InPool(w) THEN th ELSE NoThread

\* Where the caller goes on: callers do not tell the two cases apart when they
\* release the pool.
Found(w) == IF InPool(w) THEN "hold" ELSE "miss"

\* Mutant: nothing is unlocked when the peer has no channel.
PoolRelease_channel(th, w) ==
  /\ mutex' = IF \E i \in DOMAIN pool : pool[i].node = w /\ pool[i].channel THEN NoThread ELSE mutex
  /\ stray' = stray

\* peer_pool_release unlocks the mutex, whoever holds it.
PoolRelease(th, w) ==
  /\ mutex' = NoThread
  /\ stray' = (stray \/ mutex # th)

-----------------------------------------------------------------------------
(***************************************************************************)
(* RPC thread: handle_add_dag, handle_sync_catalog                         *)
(***************************************************************************)

\* A client registers a DAG; one that is not valid gets an error response.
AddDag(d) ==
  /\ rpc.pc = "idle"
  /\ Spend
  /\ rpc' = IF dag_validate(d) THEN [IdleRpc EXCEPT !.pc = "add", !.def = d] ELSE rpc
  /\ UNCHANGED <<catalog, view, pool, mutex, exec, lst, latest, stray>>

\* Another node sends a DAG.  It is not validated: what dag_deserialize does not
\* refuse goes to the catalog.
SyncCatalog(d) ==
  /\ rpc.pc = "idle"
  /\ dag_deserialize(d)
  /\ Spend
  /\ rpc' = [IdleRpc EXCEPT !.pc = "sync", !.def = d]
  /\ UNCHANGED <<catalog, view, pool, mutex, exec, lst, latest, stray>>

\* dag_catalog_add for a client's DAG: an id that exists and a full catalog are
\* error responses.  Its steps have no configuration data to allocate.
RegisterDag ==
  /\ rpc.pc = "add"
  /\ CatalogWritable
  /\ \/ /\ Add(rpc.def)
        /\ rpc' = [rpc EXCEPT !.pc = "list"]
     \/ /\ Known(rpc.def.id) \/ Len(catalog) = Capacity
        /\ rpc' = IdleRpc
        /\ UNCHANGED <<catalog, latest>>
  /\ UNCHANGED <<view, pool, mutex, exec, lst, budget, stray>>

\* dag_catalog_add for a DAG of another router: an id that exists is updated
\* next; what is not added, for lack of room or of memory for the configuration
\* of a step, is acknowledged all the same.
SyncAdd ==
  /\ rpc.pc = "sync"
  /\ CatalogWritable
  /\ \/ /\ Add(rpc.def)
        /\ rpc' = IdleRpc
     \/ /\ Known(rpc.def.id)
        /\ rpc' = [rpc EXCEPT !.pc = "update"]
        /\ UNCHANGED <<catalog, latest>>
     \/ /\ ~Known(rpc.def.id)
        /\ rpc' = IdleRpc
        /\ UNCHANGED <<catalog, latest>>
  /\ UNCHANGED <<view, pool, mutex, exec, lst, budget, stray>>

\* Mutant: the definition is added once more.
SyncUpdate_appends ==
  /\ rpc.pc = "update"
  /\ CatalogWritable
  /\ catalog' = Append(catalog, rpc.def)
  /\ latest' = [latest EXCEPT ![rpc.def.id] = rpc.def]
  /\ rpc' = IdleRpc
  /\ UNCHANGED <<view, pool, mutex, exec, lst, budget, stray>>

\* dag_catalog_update overwrites the definition, whatever its version.
SyncUpdate ==
  /\ rpc.pc = "update"
  /\ CatalogWritable
  /\ \E k \in DOMAIN catalog :
       /\ IndexOf(rpc.def.id, k)
       /\ catalog' = [catalog EXCEPT ![k] = rpc.def]
  /\ latest' = [latest EXCEPT ![rpc.def.id] = rpc.def]
  /\ rpc' = IdleRpc
  /\ UNCHANGED <<view, pool, mutex, exec, lst, budget, stray>>

\* dag_serialize writes all of the definition or, when it does not fit, nothing.
Serializes(d) ==
  Len(d.steps) + Cardinality(UNION {{i} \X d.steps[i].deps : i \in Steps(d)}) <= MaxSerial

\* The workers of the view are listed; a DAG that is too large is sent to none.
ListWorkers ==
  /\ rpc.pc = "list"
  /\ rpc' = [rpc EXCEPT !.pc = "each", !.todo = IF Serializes(rpc.def) THEN view ELSE {}]
  /\ UNCHANGED <<catalog, view, pool, mutex, exec, lst, budget, latest, stray>>

SyncPeer(w) ==
  /\ rpc.pc = "each"
  /\ w \in rpc.todo
  /\ PoolGet(RPC, w)
  /\ rpc' = [rpc EXCEPT !.pc = Found(w), !.peer = w, !.todo = @ \ {w}]
  /\ UNCHANGED <<catalog, view, pool, exec, lst, budget, latest, stray>>

\* The SYNC_CATALOG request is sent, if there is a channel, and the pool is
\* released in any case.  Nobody looks at whether the worker gets the DAG: what it
\* does with the request is its own SyncCatalog.
SendSync ==
  /\ rpc.pc \in {"hold", "miss"}
  /\ PoolRelease(RPC, rpc.peer)
  /\ rpc' = [rpc EXCEPT !.pc = "each", !.peer = Self]
  /\ UNCHANGED <<catalog, view, pool, exec, lst, budget, latest>>

\* The event is published and the client gets its response.
AddDone ==
  /\ rpc.pc = "each" /\ rpc.todo = {}
  /\ rpc' = IdleRpc
  /\ UNCHANGED <<catalog, view, pool, mutex, exec, lst, budget, latest, stray>>

-----------------------------------------------------------------------------
(***************************************************************************)
(* Executors                                                               *)
(***************************************************************************)

\* A message for DAG i, from the queue; the sender id may be any node's.
TakeMessage(t, i, sender) ==
  /\ exec[t].pc = "idle"
  /\ Spend
  /\ exec' = [exec EXCEPT ![t] = [IdleExec EXCEPT !.pc = "get", !.id = i, !.sender = sender]]
  /\ UNCHANGED <<catalog, view, pool, mutex, rpc, lst, latest, stray>>

\* dag_catalog_get: a pointer into the catalog, and the read lock with it.
LookUp(t) ==
  /\ exec[t].pc = "get"
  /\ \/ \E k \in DOMAIN catalog :
          /\ IndexOf(exec[t].id, k)
          /\ exec' = [exec EXCEPT ![t].pc = "run", ![t].at = k, ![t].def = catalog[k]]
     \/ /\ ~Known(exec[t].id)
        /\ exec' = [exec EXCEPT ![t] = IdleExec]
  /\ UNCHANGED <<catalog, view, pool, mutex, rpc, lst, budget, latest, stray>>

\* The steps that the loop of dag_execute runs from where it is: not complete,
\* dependencies met.
Runnable(t) ==
  LET d == catalog[exec[t].at]
      completed == Range(exec[t].order)
  IN  {i \in Steps(d) : i >= exec[t].next /\ i \notin completed /\ step_dependencies_met(d, completed, i)}

\* dag_execute passes over the steps that are complete or not ready and runs the
\* next one.  dag_execute_step does not fail: it does not call a function yet.
ExecuteStep(t) ==
  /\ exec[t].pc = "run"
  /\ \E i \in Runnable(t) :
       /\ \A j \in Runnable(t) : i <= j
       /\ exec' = [exec EXCEPT ![t].next = i + 1, ![t].order = Append(@, i), ![t].progress = TRUE]
  /\ UNCHANGED <<catalog, view, pool, mutex, rpc, lst, budget, latest, stray>>

AllComplete(t) == Len(exec[t].order) = Len(catalog[exec[t].at].steps)

\* The loop is at the end of the array and has made progress: once more.
NextPass(t) ==
  /\ exec[t].pc = "run"
  /\ Runnable(t) = {} /\ ~AllComplete(t) /\ exec[t].progress
  /\ exec' = [exec EXCEPT ![t].next = 1, ![t].progress = FALSE]
  /\ UNCHANGED <<catalog, view, pool, mutex, rpc, lst, budget, latest, stray>>

\* The executor releases the catalog and has an outcome to report; one for this
\* node's own tracker needs no peer.
Release(t, st, d) ==
  /\ exec' = [exec EXCEPT ![t] =
                IF exec[t].sender = Self THEN IdleExec
                ELSE [IdleExec EXCEPT !.pc = "report", !.sender = exec[t].sender, !.status = st, !.def = d]]
  /\ UNCHANGED <<catalog, view, pool, mutex, rpc, lst, budget, latest, stray>>

\* All steps are complete, or a pass over them has made no progress.
Ran(t) ==
  /\ exec[t].pc = "run"
  /\ \/ AllComplete(t) /\ Release(t, "COMPLETED", exec[t].def)
     \/ Runnable(t) = {} /\ ~AllComplete(t) /\ ~exec[t].progress /\ Release(t, "FAILED", exec[t].def)

\* Without memory for the output dag_execute is not called.
NoMemory(t) ==
  /\ exec[t].pc = "run" /\ exec[t].order = <<>>
  /\ Release(t, "FAILED", NoDag)

Report(t) ==
  /\ exec[t].pc = "report"
  /\ PoolGet(t, exec[t].sender)
  /\ exec' = [exec EXCEPT ![t].pc = Found(exec[t].sender), ![t].def = NoDag]
  /\ UNCHANGED <<catalog, view, pool, rpc, lst, budget, latest, stray>>

\* The EXECUTION_UPDATE is sent if there is a channel; the pool is released in
\* any case.
Reported(t) ==
  /\ exec[t].pc \in {"hold", "miss"}
  /\ PoolRelease(t, exec[t].sender)
  /\ exec' = [exec EXCEPT ![t] = IdleExec]
  /\ UNCHANGED <<catalog, view, pool, rpc, lst, budget, latest>>

-----------------------------------------------------------------------------
(***************************************************************************)
(* Gossip listener                                                         *)
(***************************************************************************)

\* handle_worker_join_message: cluster_view_add takes the worker or, when the
\* view is full or knows better, refuses it; the join goes on in both cases.
WorkerJoin(w) ==
  /\ lst.pc = "idle"
  /\ Spend
  /\ view' \in {view, view \cup {w}}
  /\ lst' = [pc |-> "add", peer |-> w]
  /\ UNCHANGED <<catalog, pool, mutex, rpc, exec, latest, stray>>

\* peer_pool_add does nothing for a peer it has, and fails when the pool is full.
JoinAdd ==
  /\ lst.pc = "add"
  /\ mutex = NoThread
  /\ \/ /\ ~InPool(lst.peer) /\ Len(pool) = PoolCapacity
        /\ lst' = IdleListener
        /\ UNCHANGED pool
     \/ /\ InPool(lst.peer) \/ Len(pool) < PoolCapacity
        /\ pool' = IF InPool(lst.peer) THEN pool
                   ELSE Append(pool, [node |-> lst.peer, channel |-> FALSE])
        /\ lst' = [lst EXCEPT !.pc = "get"]
  /\ UNCHANGED <<catalog, view, mutex, rpc, exec, budget, latest, stray>>

JoinGet ==
  /\ lst.pc = "get"
  /\ PoolGet(Listener, lst.peer)
  /\ lst' = [lst EXCEPT !.pc = Found(lst.peer)]
  /\ UNCHANGED <<catalog, view, pool, rpc, exec, budget, latest, stray>>

\* rpc_client_connect succeeds or fails, with the mutex held.
JoinConnect ==
  /\ lst.pc \in {"hold", "miss"}
  /\ \/ UNCHANGED pool
     \/ \E i \in DOMAIN pool :
          /\ pool[i].node = lst.peer /\ ~pool[i].channel
          /\ pool' = [pool EXCEPT ![i].channel = TRUE]
  /\ PoolRelease(Listener, lst.peer)
  /\ lst' = IdleListener
  /\ UNCHANGED <<catalog, view, rpc, exec, budget, latest>>

\* The view changes by what the gossip engine hears from others: a worker that
\* joined through another router, or that is suspected.
Rumour(w) ==
  /\ Spend
  /\ view' = IF w \in view THEN view \ {w} ELSE view \cup {w}
  /\ UNCHANGED <<catalog, pool, mutex, rpc, exec, lst, latest, stray>>

-----------------------------------------------------------------------------
RpcStep ==
  \/ RegisterDag \/ SyncAdd \/ SyncUpdate \/ ListWorkers \/ SendSync \/ AddDone
  \/ \E w \in Peers : SyncPeer(w)

ExecStep(t) ==
  \/ LookUp(t) \/ ExecuteStep(t) \/ NextPass(t) \/ Ran(t) \/ NoMemory(t) \/ Report(t) \/ Reported(t)

ListenerStep == JoinAdd \/ JoinGet \/ JoinConnect

Next ==
  \/ \E d \in Definitions : AddDag(d) \/ SyncCatalog(d)
  \/ \E t \in Executors, i \in Ids, s \in Peers \cup {Self} : TakeMessage(t, i, s)
  \/ \E w \in Peers : WorkerJoin(w) \/ Rumour(w)
  \/ RpcStep
  \/ \E t \in Executors : ExecStep(t)
  \/ ListenerStep

\* Threads run, and a thread gets the lock it waits for once the lock stays
\* free.  Nothing is assumed of clients, of other nodes or of who gets a lock
\* first.
Spec ==
  /\ Init /\ [][Next]_vars
  /\ WF_vars(RpcStep) /\ WF_vars(ListenerStep)
  /\ \A t \in Executors : WF_vars(ExecStep(t))

-----------------------------------------------------------------------------
(***************************************************************************)
(* Properties                                                              *)
(***************************************************************************)

CatalogTypeOK ==
  /\ catalog \in Seq(Definitions) /\ Len(catalog) <= Capacity
  /\ latest \in [Ids -> Definitions \cup {NoDag}]

PoolTypeOK ==
  /\ pool \in Seq([node : Peers, channel : BOOLEAN]) /\ Len(pool) <= PoolCapacity
  /\ \A i, j \in DOMAIN pool : pool[i].node = pool[j].node => i = j

RpcStates ==
  [pc : {"idle", "add", "sync", "update", "list", "each", "hold", "miss"},
   def : Definitions \cup {NoDag}, todo : SUBSET Peers, peer : Peers \cup {Self}]

ExecStates ==
  [pc : {"idle", "get", "run", "report", "hold", "miss"},
   id : Ids \cup {0}, at : 0 .. Capacity, def : Definitions \cup {NoDag},
   sender : Peers \cup {Self}, status : {"COMPLETED", "FAILED"},
   next : 1 .. MaxSteps + 1, order : Seq(1 .. MaxSteps), progress : BOOLEAN]

ListenerStates == [pc : {"idle", "add", "get", "hold", "miss"}, peer : Peers \cup {Self}]

\* Every variable has the type of the C state it stands for: catalog and pool
\* stay within their capacity, and no peer is in the pool twice.
TypeOK ==
  /\ CatalogTypeOK
  /\ view \subseteq Peers
  /\ PoolTypeOK
  /\ mutex \in Threads \cup {NoThread}
  /\ rpc \in RpcStates
  /\ exec \in [Executors -> ExecStates]
  /\ lst \in ListenerStates
  /\ stray \in BOOLEAN

\* A lookup finds the definition that was accepted last, by registration or by
\* a SYNC_CATALOG of another router, and there is one entry for each id.
LookupIsLatest ==
  /\ \A k \in DOMAIN catalog : catalog[k] = latest[catalog[k].id]
  /\ \A j, k \in DOMAIN catalog : catalog[j].id = catalog[k].id => j = k

\* The definition an executor runs does not change under it: the pointer it got
\* from dag_catalog_get stays valid until it is released.
RunIsStable ==
  \A t \in Executors : exec[t].pc = "run" =>
    exec[t].at \in DOMAIN catalog /\ catalog[exec[t].at] = exec[t].def

\* dag_execute runs no step twice, and none before the steps it depends on, also
\* when steps share an id and when they stand in any order.
DependenciesFirst ==
  \A t \in Executors : exec[t].pc = "run" => RespectsDependencies(exec[t].def, exec[t].order)

\* A DAG that has run is COMPLETED if and only if its dependencies exist and have
\* no cycle: dag_execute gives up on no DAG that could go on, and completes none
\* that could not, whether or not the DAG was validated when it came in.
CompletedIffExecutable ==
  \A t \in Executors : exec[t].pc = "report" /\ exec[t].def # NoDag =>
    (exec[t].status = "COMPLETED" <=> Executable(exec[t].def))

\* Threads that use a pool entry, its channel and the channel's tx_buffer
Inside ==
  {t \in Executors : exec[t].pc = "hold"} \cup (IF rpc.pc = "hold" THEN {RPC} ELSE {})
    \cup (IF lst.pc = "hold" THEN {Listener} ELSE {})

\* One thread at a time uses the entries of the peer pool, as long as no thread
\* has released the pool after a lookup that found nothing.
PoolExclusive == ~stray => Cardinality(Inside) <= 1

\* The pool's mutex is never left locked, and who holds it waits for no other
\* lock: it is a thread between a lookup that found its peer and the release, also
\* after a thread has unlocked what it did not hold.
NoLockKept == mutex # NoThread => mutex \in Inside

Idle == rpc.pc = "idle" /\ lst.pc = "idle" /\ \A t \in Executors : exec[t].pc = "idle"

\* No thread keeps waiting for another one's lock: whatever was asked of the node,
\* every handler, execution and join comes to its end.
ThreadsReturn == []<>Idle
=============================================================================
