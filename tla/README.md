# Verification of the roole execution engine

TLA+ models of roole, a distributed execution engine for DAG workflows written
in C. The models are translated from `src/`; every definition that models code is
listed with its source lines in `PROJECT.json`.

## 1. The system

A roole cluster is a set of identical nodes. A client submits a message for a DAG
to a node over TCP; the node runs it itself or forwards it to a peer; the outcome
goes to the execution tracker of the node that accepted it, which the client
polls. Nodes find each other and detect failures with a SWIM-like gossip protocol
over UDP.

| component | state | operations | interacts with |
|---|---|---|---|
| execution pipeline (`node_handlers.c`, `node_executor.c`) | where the RPC thread and the executor threads are, `active_executions`, `shutdown_flag` | submit, process, execution update, sync/add DAG, executor loop, start/stop | everything below |
| execution tracker (`execution_tracker.c`) | array of records, `next_exec_id` | add, update_status, get, cleanup_completed | handlers, executors, cleanup timer |
| message queue (`message_queue.c`) | ring buffer | blocking push, pop with timeout | RPC thread to executors |
| DAG catalog (`dag_catalog.c`), DAG executor | array of DAGs under a read/write lock | add, update, get/release, list, serialize, validate; run a DAG | handlers, executors |
| peer pool (`peer_pool.c`) | array of peers and their DATA channels under one mutex | add, get (returns with the mutex held), release, select least loaded | bootstrap, gossip, handlers, executors |
| cluster view (`membership.c`) | array of members: status, incarnation, address | add, update_status, get/release | both gossip threads |
| gossip engine (`gossip_engine.c`) | update queue, pending acks, sequence number | listener thread: PING, ACK, ALIVE, JOIN, WORKER_JOIN, LEAVE; protocol thread: ping, ack timeout, suspect timeout, gossip | UDP, cluster view |
| bootstrap (`node_bootstrap.c`) | none of its own | WORKER_JOIN, wait, retry, announce | gossip engine, peer pool |
| RPC reactor (`rpc.c`) | connections, buffers, pending contexts | accept, read, frame, dispatch, respond | all handlers |
| event bus (`event_bus.c`) | ring of events, table of subscribers per type, counters | publish, publish_sync, subscribe, unsubscribe, dispatch thread, destroy | executors, handlers |
| service registry, metrics, config, logger | tables, counters | lookup, count, parse, print | all |

What is hard in it: the RPC thread and the executors work on the same execution at
the same time; `message_queue_push` blocks the only RPC thread; executors hold the
catalog lock while they run a DAG; the two gossip threads of a node read an entry
of the view under one lock and write it under the next; datagrams are lost,
delayed and duplicated; nodes crash and restart with an empty view; timeouts race
late answers; the RPC server reads edge-triggered into a buffer of fixed size and
answers on sockets that a peer never reads; lookups in the catalog and in the peer pool
return with a lock held that the caller has to give back. `PROJECT.json` lists these hazards at their lines.

What makes each component correct: an execution runs at most once, its record
tells the truth, is not freed while the execution is under way, and gets a final
status that a polling client can see; the RPC thread comes back from each
handler; a view never goes back to older information about a member; a crashed
member is detected; live members know each other, also after a restart or a
partition; an event that the bus accepts reaches every subscriber once and in order;
requests of a connection are processed once, in order, and answered once, however they
are cut into reads; a lookup finds the DAG that was accepted last and the DAG does not
change while it runs; steps of a DAG wait for what they depend on; one thread at a time
uses the peer pool, and no thread keeps a lock.

## 2. Modules

| module | what |
|---|---|
| `Execution` | the execution pipeline of all nodes: tracker, queue, RPC thread, executors, DATA channels |
| `MCExecution`, `MCExecution_*.cfg` | its instances |
| `ExecutionProofs` | theorems about `Execution`: types, execution ids |
| `ExecutionOnceProofs`, `ExecutionStatusProofs` | extend it: where the message of an execution is; what tracker and counters say |
| `ClusterView` | the cluster view as operators on a table of members |
| `Gossip` | extends `ClusterView`: gossip engine, membership, bootstrap, the network |
| `MCGossip`, `MCGossip_*.cfg` | its instances |
| `GossipProofs` | theorems about `Gossip` |
| `EventBus` | the event bus |
| `EventChannel` | what publishing promises: a bounded FIFO that refuses only when full |
| `MCEventBus`, `MCEventBus.cfg` | an instance of `EventBus` |
| `EventBusProofs`, `EventDeliveryProofs` | theorems about `EventBus`: types, calls, order, that it implements `EventChannel`; that every slot is called |
| `RpcReactor` | the RPC server thread: connections, framing, dispatch, responses |
| `MCRpcReactor`, `MCRpcReactor*.cfg` | its instances |
| `RpcReactorProofs` | theorems about `RpcReactor` |
| `Dag` | definitions, their validation, when a step is ready; what running a DAG should do |
| `DagStore` | extends `Dag`: catalog, peer pool and view of a node and the threads on them, with the loop of `dag_execute` |
| `MCDagStore`, `MCDagStore.cfg` | an instance of `DagStore` |
| `DagStoreProofs` | theorems about `DagStore` |

### Execution

A step is one critical section of the code. `rpc[n]` and `thread[n][t]` record where
the RPC thread and the executors of node `n` are between two of them.

* `handle_submit_message` is `Submit` (checks, target, tracker slot), then
  `SubmitEnqueue` (blocks while the queue is full) or `SubmitRoute` /
  `SubmitRouteFails` / `SubmitNoMemory`, then `SubmitMark`, the update to RUNNING that comes
  after the message was handed over. A submission that is refused before the tracker
  is reached changes nothing and is not a step.
* `handle_process_message` is `ProcessMessage` and `ProcessEnqueue`,
  `handle_execution_update` is `ExecutionUpdate`. `handle_sync_catalog` and the local part
  of `handle_add_dag` are `LearnDag` (the thread asks for the write lock) and `CatalogAdd`.
  When a DAG reaches which node is not modelled: any node may learn it at any time.
* The executor loop is `Pop` (the pop and the increment of `active_executions`; the event and the
  metrics between the two are not part of the state), `FindDag` or `DagNotFound`, `RunDag`, and one of
  `ReportLocal`, `ReportRemote`, `ReportLost`; `StopExecutors` and `ExecutorExit` are the shutdown.
* `Cleanup` is `execution_tracker_cleanup_completed`. Its age limit is not modelled: any
  set of final records may be old enough.

The sender id of an RPC context is never assigned by `rpc.c`; it is a choice from the
constant `StaleSenders`. A report therefore may reach a tracker that has another execution
under the same number, and overwrites its status (`Reported`). `StatusTruthful` and `ReapedIsFinished` say
that this is the only way to a wrong record, and that the record then shows the outcome of the
other node's execution. `outcome`, `misled` (the records that such a report has written) and
the field `origin` of a message are history: the code keeps none of them. `node_state.c` and `node_main.c` are not in the repository; the
subsystems they own are taken as the other files use them. `HasIngress` and `CanExecute`
are parameters: `node_detect_capabilities_ex` gives every node the execution
capability, and the run `routed` checks the handlers for the pure ingress nodes that
the repository's README describes.

### ClusterView and Gossip

`view[n][m]` is what node `n` knows of `m`: status, incarnation and whether an address is
known. `ViewAdd` and `ViewUpdateStatus` are `cluster_view_add` and
`cluster_view_update_status`.

`proto[n]` and `listener[n]` are the two threads of a node. The listener takes a datagram
(`Receive...`) and applies its updates one at a time (`ApplyPing`, `ApplyAck`, `ApplyAlive`). For
most updates the code reads the entry and writes it in two critical sections; the
write compares incarnations again, so doing both in one step leaves out no result,
except in two places where it would, and there the two are separate steps: the ACK
of a suspect (`ReceiveAck`, `Revive`) and the join of a worker (`ReceiveWorkerJoin`, `AdmitWorker`).
The protocol thread is `Ping`/`PingSent`, `RoundAlone`, `AckTimeout`/`MarkSuspect`,
`SuspectTimeout`/`MarkDead` and `Gossip`. `Start`, `Bootstrap`, `BootstrapAnswered`, `BootstrapFails`,
`MembershipJoin`, `Leave` and `Crash` are the life of a process; a crash loses everything.

`SuspectTimeout` leaves out the node's own entry, which `check_suspect_timeouts` visits as
well: the round refreshes it before, so that it is never overdue.

Time is not modelled: a timeout may expire at any moment, and the parts of a
protocol round may come in any order. Safety properties therefore hold for every
choice of the periods. `net` is the set of datagrams in flight; `Send` loses what exceeds `MaxNet` (UDP may lose
anything), `Lose` loses more if `Lossy`, `Take` may keep a datagram for a second delivery
if `Duplicating`, `Cut` and `Heal` are partitions of the whole network. A datagram with an
incarnation that would exceed `MaxInc` is not delivered. The sequence number a
LEAVE carries is any of `LeaveSeqs`. A full-state message lists the members in a fixed order
(`Listing`), where the code has the order in which they joined the view.

Left out: the handlers of SUSPECT, DEAD and PING_REQ datagrams (nothing in the
repository sends them), the truncation of a full-state message to ten members, the
peer pool entries that a join makes, bind addresses such as 0.0.0.0 that a peer
cannot reach.

### EventBus

`at[t]` is where a publishing thread or the dispatch thread is, with the event it holds
and the slot it looks at. `event_bus_publish` is `Publish`, then `Push` and `Signal` or `PushFull`
and `CountDropped`; `event_bus_publish_sync` is `Publish`, then `Deliver`. The dispatch thread is
`DispatchLoop`, `Pop` or `PopEmpty` and `PopTimesOut`, then `Deliver`. `Deliver` is
`dispatch_event_to_subscribers`, slot by slot: the test of a slot (`Scan`) and the call
through it (`Call`) are two steps, because the code reads the slot again for the call.
`Subscribe` and `Unsubscribe` wait for the readers of their type. `event_bus_destroy` is
`Destroy`, `DestroySignal` and `DestroyJoined`; it is called when no other call is under way,
as an interface that frees its own locks requires. `taken`, `refused`, `got` and `sent` are
history. `ImplementsChannel` maps the ring, read from its head, to the queue of
`EventChannel`. The blocking mode of the push and the other modes of the pop have no
caller. No file of the repository creates a bus or subscribes to it: executors and
handlers publish to one if the service registry has it.

### RpcReactor

The bytes of a connection are numbered. `plan[c]` is what its client will write, a
sequence of requests with the number of their last byte; `sent`, `taken` and `done` say how far
the client has written, the server has read and the receive buffer has been compacted, so
`rx_data_len` is `taken[c]` minus the end of the last request dropped. `edge` and `knock` are the
edges that epoll has not reported: bytes or a close that arrive at a watched socket make
one, bytes that are still there when the server stops reading do not.

`loop` is where the server thread is: `LoopTop` and `EpollWait` (or `Interrupted`) of
`rpc_multi_channel_event_loop`, then for each reported socket `Accept` or `Read`; `Read` goes on to
`process_buffered_data`: `Dispatch` or `ContextNoMemory` for each complete request,
`Respond` / `RespondFails` for the `rpc_send_async_response` every handler ends with, `RespondAgain` for
the call on the freed context after a handler that returned an error, and `EndProcess`, the
compaction. What the handlers do otherwise is in `Execution` and `DagStore`. `Killed` is
the SIGPIPE of a send to a client that is gone. A use of freed memory and a write to a
closed socket are choices among what they can result in. `Faults` names the failures of
accept, of the set-up of a channel and of an allocation that may happen. `runs`, `out` and
`marks` are history.

Left out: headers with a length below the header's own (the code drops the buffer),
responses of which a part was sent, the limit of 64 events per `epoll_wait` (more are reported by the next one).

### Dag and DagStore

A DAG is an array of steps with an id and the ids each depends on; ids need not be
distinct. `dag_validate` and `step_dependencies_met` are the functions of the same name.
`dag_deserialize` is the one test a DAG from another node has to pass: that it fits. `Executable` and
`RespectsDependencies` are the reference: dependencies exist and a set of steps always has one that
depends on none of the others; nothing runs twice or early.

`DagStore` is one node. The RPC thread runs `handle_add_dag` (`AddDag`, `RegisterDag`, `ListWorkers`,
then `SyncPeer` and `SendSync` for each worker, `AddDone`) and `handle_sync_catalog` (`SyncCatalog`, `SyncAdd`,
`SyncUpdate`), which does not validate: catalogs hold DAGs without steps and with dependencies that no step has;
executors run `TakeMessage`, `LookUp`, then `dag_execute`, `Report` and `Reported`; the gossip listener adds
a worker with `WorkerJoin`, `JoinAdd`, `JoinGet`, `JoinConnect`; `Rumour` is any other change of the view.
The loop of `dag_execute` is `ExecuteStep` (it passes over the steps that are complete or not ready
and runs the next one), `NextPass` (the end of the array after some progress) and `Ran` (all
complete, or a pass without progress); `NoMemory` is the executor that cannot allocate the output and never calls it. `next`, `order` and
`progress` are its `i`, `step_completed` with the order of completion, and `progress_made`; `def` is history.
A thread at `run` holds the catalog's read lock, one at `hold` the pool's mutex, as
`dag_catalog_get` and `peer_pool_get` return with them. A thread at `miss` has found no peer, does not hold
the mutex and unlocks it all the same: `PoolRelease` frees the mutex whoever holds it, and the
history variable `stray` remembers that this has happened. `MaxSerial` stands for the size of
the buffer that `dag_serialize` fills. The failed allocation of a step's configuration in `dag_catalog_add` is
an outcome of `SyncAdd`; `RegisterDag` has none, because `handle_add_dag` clears the DAG and reads no configuration.

Left out: a dependency count above `MAX_STEP_DEPENDENCIES`, which `handle_add_dag` keeps although it reads only so many
ids (`node_handlers.c:434`), so that `dag_validate` and the executors read past the array; `dag_deserialize` refuses it.

## 3. Runs

| run | checks | result |
|---|---|---|
| `local` | `TypeOK`, `ExecIdsUnique`, `ExecutedAtMostOnce`, `StatusTruthful`, `ReapedIsFinished`, `QueuedIsRun`, `RpcThreadReturns` | hold |
| `routed` | `ExecutedAtMostOnce`, `ActiveExact`, `StatusTruthful`, `ReapedIsFinished` | hold |
| `zombie` | `FinishedIsReported` | violated |
| `pair` | `TypeOK`, `IncarnationMonotone` | hold |
| `crash` | `CrashDetected` | holds |
| `split` | `RejoinAfterSplit` | violated |
| `race` | `DeadWasSuspect` | violated |
| `unknown` | `LiveMembersKnowEachOther` | violated |
| `bus` | `TypeOK`, `CalleeStaysSubscribed`, `DeliveredToEverySlot`, `PublicationOrder`, `ImplementsChannel`, `DestroyReturns` | hold |
| `reactor` | `TypeOK`, `InOrderOnce`, `OneResponseEach`, `NoContextLeft`, `AsleepIsIdle`, `ArrivedIsProcessed`, `BacklogIsAccepted`, `ShutdownIsSeen` | hold |
| `twice` | `ResponseSentOnce` | violated |
| `store` | `TypeOK`, `LookupIsLatest`, `RunIsStable`, `PoolExclusive`, `NoLockKept`, `DependenciesFirst`, `CompletedIffExecutable`, `ThreadsReturn` | hold |

Bounds. `local`: two executors, a queue of one and a tracker of two slots for three
executions, so the queue blocks the RPC thread, the tracker is full and slots are
reused after the cleanup; two DAGs, so the RPC thread also waits for the catalog while executors
run. `routed`: an ingress node and a compute node that accepts submissions as well, two executions of each,
a queue of one and trackers of one slot, and a sender id that may be either node's: reports go astray to a
node whose tracker has the same number, before, while and after its own execution runs.
`pair`: a router that stays up and a worker that joins by bootstrap or through a seed
and is started twice, one ping or gossip of the router, two pings, gossips or join
attempts of the worker, incarnations up to 3, one datagram in flight, delivered once or twice (the
interleavings of datagrams are those of one that is late: all others are lost);
enough for a worker to die, be declared dead, come back with a higher incarnation
and meet its own old datagrams. `crash`: the router pings
without bound. `bus`: two publishers that publish three events in all, a ring of two and a
table of two slots that one handler may hold both: the ring is full and wraps around,
and two threads dispatch at once. `reactor`: a receive buffer of two bytes and one
response that fits in the socket; the first client's requests take one, one and two
bytes, or one that nobody serves and one of three bytes that can never be
complete, cut into reads in every way; the second one, a peer, connects and closes. The buffer
is exactly full with a complete or with half a request, with more behind it. `twice`: a router whose worker
sends two updates and never reads the responses. `store`: four requests, messages, joins or rumours for
two executors, the RPC thread and the listener; a catalog of two for three ids, two of
them in two versions; a pool of one for two workers; DAGs with their steps in the wrong order, with two steps of one id,
with a cycle that shows after the first step, without steps and with a dependency that no step has. The last
two only another node can send; the clients' DAGs are all too large to send on but one. Requests are few because every step of a DAG is a step of the model: four are
enough for a DAG to be registered, run by both executors and replaced meanwhile, or for an
executor to report to a worker that joins while the RPC thread sends it a DAG. Deadlock is not checked where all bounds may be used up.

What the violated runs show.

* `zombie`: the executor reports COMPLETED between the push and the update to RUNNING in
  `handle_submit_message`; the record stays RUNNING and is never cleaned up.
* `race`: `check_suspect_timeouts` drops the lock before it writes DEAD; an ACK processed
  in between is overwritten.
* `split`: members that are DEAD are never contacted again, by either side. The bound of
  two rounds plays no part: a node whose only peer is DEAD has no round to take.
* `unknown`: full-state messages omit their sender and PINGs do not introduce it, so a
  worker that restarts after the router's announcement was used up never has the
  router in its view.
* `twice`: the socket towards a peer is full of responses that the peer never reads; the
  handler's `rpc_send_async_response` fails and frees the context, the handler returns the error,
  and `process_buffered_data` calls `rpc_send_async_response` with the freed context.

Known without a violated run. `src/include/roole/dag.h:131` says that `dag_validate` checks for cycles; it does
not (the TODO at `dag_catalog.c:591`). In the run `store` DAG 2, whose second step depends on itself, passes `AddDag` and
`RegisterDag`; executions of it end FAILED, as `CompletedIffExecutable` says, since `dag_execute`
gives up on a pass without progress. `context->sender_id` is never assigned, so an outcome may go to a node that
did not submit the execution: the client of that node polls the status of an execution that is not its own, while
the right coordinator shows RUNNING for ever (`routed` has both). A member marked DEAD between
the read and the write of `handle_worker_join_message` comes back with an incarnation that
need not be higher. After an unlock of the peer pool's mutex by a thread that does not
hold it (`stray`) two threads may use one channel at once: `PoolExclusive` says what
holds before.

What the conditions in the properties of `reactor` stand for. `InOrderOnce` excepts
connections on which an allocation failed: `process_buffered_data` then returns without the
compaction and the next event runs the same requests again. `ArrivedIsProcessed` excepts a
connection whose buffer was full once: what is left in the socket has had its edge and waits
for more data. `AsleepIsIdle` is the safety they rest on, with the same exceptions: while `epoll_wait` blocks, nothing is left to do. `BacklogIsAccepted` excepts an accept that failed for another reason than an empty backlog, `ShutdownIsSeen` a
server that is idle, for `epoll_wait` has no timeout.

### Fairness

`Execution!Fairness`: weak fairness of the RPC thread while a handler or a request is
there, and of each executor. These are threads that the operating system schedules
and that wait only for each other. Clients, cleanup and shutdown are not fair.

`Gossip!Fairness(S)`, for the nodes in `S`: weak fairness of the listener and of the second
half of a protocol step; strong fairness of a ping of each peer that is not DEAD,
because each round picks one with `rand()` and rounds go on for ever; strong fairness
of a timeout for a node that is down, because each round checks the timeouts and
time passes. A timeout for a node that runs may happen and need not.

`EventBus!Fairness`: weak fairness of the dispatch thread, of a publisher inside a call and
of a destroy that has begun; handlers return, as the comment at their call asks, and
a timed wait ends. Nobody has to publish, subscribe or destroy.

`RpcReactor`: weak fairness of the server thread. It waits in `epoll_wait` and inside handlers,
which return as `RpcThreadReturns` of `Execution` and `ThreadsReturn` of `DagStore` say.
Clients, signals and the shutdown are not fair.

`DagStore`: weak fairness of the RPC thread, the listener and each executor inside a
handler, join or execution. A lock that stays free is taken by a thread that waits for
it; that a lock is handed over fairly is not assumed, and since requests are bounded
`ThreadsReturn` says that no lock is kept, not that nobody starves under endless load.

## 4. Proofs

The theorems hold for every value of the constants that satisfies the `ASSUME`s of the
component's module, which TLC evaluates in the runs. Each is `Spec => []Inv` (or
`[][A]_vars`), from an inductive invariant whose parts are listed here. They are about
safety, so they hold with and without the fairness of the module.

| module | theorem | property | run |
|---|---|---|---|
| `ExecutionProofs` | `TypeCorrect` | `TypeOK` | `local` |
| | `UniqueExecIds` | `ExecIdsUnique` | `local` |
| `ExecutionOnceProofs` | `RunAtMostOnce` | `ExecutedAtMostOnce` | `local`, `routed` |
| `ExecutionStatusProofs` | `StatusesAreTrue`, `CleanupIsSafe` | `StatusTruthful`, `ReapedIsFinished` | `local`, `routed` |
| | `LoadIsExact` | `ActiveExact` | `routed` |
| `DagStoreProofs` | `TypeCorrect`, `LookupsAreLatest`, `RunsAreStable` | `TypeOK`, `LookupIsLatest`, `RunIsStable` | `store` |
| | `PoolIsExclusive`, `LocksAreReturned` | `PoolExclusive`, `NoLockKept` | `store` |
| | `StepsRunInOrder`, `CompletesIffExecutable` | `DependenciesFirst`, `CompletedIffExecutable` | `store` |
| `RpcReactorProofs` | `TypeCorrect`, `RequestsInOrder`, `ResponsesMatch`, `ContextsAreDropped` | `TypeOK`, `InOrderOnce`, `OneResponseEach`, `NoContextLeft` | `reactor` |
| | `NoEdgeIsMissed` | `AsleepIsIdle` | `reactor` |
| `EventBusProofs` | `TypeCorrect`, `CalleesSubscribed`, `OrderOfPublication` | `TypeOK`, `CalleeStaysSubscribed`, `PublicationOrder` | `bus` |
| | `ChannelSafety` | the safety part of `ImplementsChannel` | `bus` |
| `EventDeliveryProofs` | `EverySlotIsCalled` | `DeliveredToEverySlot` | `bus` |
| `GossipProofs` | `TypeCorrect`, `IncarnationsGrow` | `TypeOK`, `IncarnationMonotone` | `pair` |

### Execution

`TypeOK` is inductive as it stands because it says, for each place of a thread inside a
handler, what the thread holds (`RpcTypeOK`, `ThreadTypeOK`); without these conjuncts the second
half of a handler could not be typed. One lemma per kind of change (tracker update, RPC thread
moves, channel grows or shrinks) is used by the steps of the actions.

`UniqueExecIds` couples the uniqueness of the ids in a tracker with the fact that they are all
below `next_exec_id`. All actions but `Submit` and `Cleanup` keep the ids of every slot.

`RunAtMostOnce` follows the message of a submission as a token. `AtRpc`, `AtQueue`, `AtThread`
and `AtWire` are the places it can be in; the invariant `Once` says that it is in at most one
of them, in none once it has an outcome, and in none before the coordinator gave out its
id. That `SubmitEnqueue` and `Pop` move it, never copy it, is one lemma for each pair of places.

`StatusesAreTrue` and `CleanupIsSafe` add what reports say and what they can do. `Reports`: a report on its way,
wherever it goes, carries the outcome of the execution it names together with the `origin` (`ThreadReports`, `WireReports`), and
the RPC thread marks only executions of its own node (`RpcOwns`). An outcome stays once it is there
(`Grows`), because `Once` lets no message run twice. So an update of a record either is about the execution the record
belongs to, and true, or comes from another node's execution and puts the record in `misled` (`UpdatedRecords`, `ShownStays`).
An unrun execution has its record in the coordinator's tracker with a status that is not final, unless
it is misled, so the cleanup passes it over. Nothing is assumed of the sender id.

Assumptions: `ConstantsAssumption`, `NullAssumption`, `ExecutorsAssumption` (the executors are
finitely many, so that they can be counted).

### DagStore

`Inductive` adds to the properties what each thread has in its hands (`RpcHasDefinition`,
`ListenerHasPeer`) and `InsideOwnsMutex`: as long as no thread has unlocked what it does not hold,
a thread at `hold` is the owner of the mutex. `PoolExclusive` itself, a bound on a number of threads,
is not inductive. `RunIsStable` is preserved because writers wait until `Readers` is empty,
and `LookupIsLatest` because `SyncUpdate` replaces at the index of the id.

`StepsRunInOrder` and `CompletesIffExecutable` are proved for every DAG that fits in a `dag_t`, of any number of steps, with
cycles, shared ids and missing dependencies, validated or not. The invariant of the loop is `InLoop`: what is complete
has run in an order that respects the dependencies and depends on nothing that does not exist, and a loop without progress started
at the first step, so that it has looked at all of them. It needs `RunIsStable` (the loop reads the catalog at each step). A DAG
that is complete is executable because in any set of its steps the one that ran first depends on none of the
others (`CompleteIsExecutable`, with `LeastNumber`), and a step is ready only if its dependencies exist (`MetMeansExist`). A DAG that
is stuck is not, because an executable one has, among the steps that are not complete, one that depends only on
complete ones, each of which the search finds (`DependencyFound`, `ExecutableGoesOn`).

`LocksAreReturned` says of the mutex of the pool what `ThreadsReturn` needs of it: whoever holds it is on the
way to its release. It holds after a stray unlock as well, where `PoolExclusive` does not: a thread
becomes the owner only in the step that takes it to `hold`, and a release by whomever leaves no owner at all.

Assumption: `StoreAssumption` (thread and node names are different, capacities are not zero, definitions are
arrays) and `StepsAssumption`.

### RpcReactor

`Typing` relates how far a client has written, the server has read and the buffer has been
compacted to the ends of the requests. On top of it: the history `runs` has exactly the
requests before the one under way (`RunsAreBegun`), only the current request can be without a
response (`OwedToCurrent`), and only the current one has a context (`PendingIsCurrent`). `EndProcess` is the step that needs
`Typing` most: the compaction drops whole requests only.

`NoEdgeIsMissed` is the safety of edge-triggered epoll. `AsleepIsIdle` speaks of the moment when the loop
blocks; `NothingForgotten` says why nothing is lost before: data, a close or a connection
that the server has not seen is an edge that epoll has not reported or a socket in the batch under way, and a
complete request in the buffer belongs to the connection that is being processed (`Announced`). The steps that
could break it are the ones that take something out of `edge`, `knock` or the batch: `Accept` and `Read` do so only with
the socket empty, or leave a mark, and `EndProcess` only with no complete request left in the buffer.

### EventBus

`Typing` says that `tail` is `head` plus `count` modulo the capacity and that the slots in between
hold events (`RingOK`), and that a thread inside a call has its event (`InHand`). Each step is
classified (`Kinds`): it leaves the ring alone, publishes, pushes or pops; the refinement and
the order proof work on these four kinds instead of the actions. `ChannelSafety` maps the ring, read from
its head, to the channel's queue: a push appends, a pop takes the first, a refusal happens
only to a full one. `Order` follows the sequence numbers of an author's events through the ring (`RingOrder`), the hands
of the dispatch thread (`HandOrder`) and the handlers (`GotOrder`); `PublicationOrder` alone says nothing
about events that are not delivered yet. `EverySlotIsCalled` counts: a thread that is done with the first k slots of
its table has called each handler as often as those slots hold it (`Progress`). This needs
that the table does not change under a reader (`TableStays`), that no two threads deliver the same
event (`DistinctEvents`) and that no handler has had an event whose delivery begins (`FreshIsNew`); the last two follow from `Order`.

### Gossip

`Typing` refines `TypeOK`: queues within their capacities, incarnations within the bound of the model, a
join that carries an update, and `KnowsPeers`, that a peer in an ack slot or in the hands of the
protocol thread is in the view. `IncarnationsGrow` rests on one lemma for each operation on the view
(`AddGoes`, `UpdateGoes`, `RefreshGoes`): an entry goes to an entry with at least its incarnation, or from
DEAD to ALIVE. It holds for any number of nodes, any loss, duplication and
partition, whichever thread writes last. Assumptions: `GossipAssumption`, with finitely many nodes (a full-state message lists
them) and a bound `MaxInc` of at least one.

### Only model-checked

* Liveness: `QueuedIsRun`, `RpcThreadReturns`, `CrashDetected`, `DestroyReturns`, the fairness of
  `EventChannel` in `ImplementsChannel`, `ArrivedIsProcessed`, `BacklogIsAccepted`, `ShutdownIsSeen`, `ThreadsReturn`. The
  prover does not treat fairness and ENABLED.

Every invariant and the action property of the passing runs is stated by a theorem. The safety that
`ArrivedIsProcessed`, `BacklogIsAccepted` and `ThreadsReturn` rest on is proved (`AsleepIsIdle`, `NoLockKept`).

## 5. Not modelled

Retries: the repository's README names them, but `retry_count` and `max_retries` are
stored and never read.

Gossip wire format: encoding and decoding of datagrams, no state. Service registry: a
locked table of pointers that is filled at start-up. Metrics and their HTTP server:
no decision depends on them. Configuration and its validator: parsing at start-up.
Logger and string helpers. Of `dag_deserialize` only the limit on the number of steps is modelled;
requests it refuses for their format change nothing. Functions without a caller:
`peer_pool_remove`, `_update_status`, `_update_load`, `_select_round_robin`, `_list_*`, `dag_catalog_remove`,
`execution_tracker_remove`.

## 6. Plan

1. `Gossip` with three nodes: suspicion without an address, the incarnation of a LEAVE
   seen by a third member, truncated full-state messages.
2. DATA channels of bounded size in `Execution`, for the waits between nodes.
