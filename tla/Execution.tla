----------------------------- MODULE Execution -----------------------------
(***************************************************************************)
(* The execution pipeline of a roole cluster: a client submits a message   *)
(* for a DAG to a node, the node's RPC thread records the execution in its *)
(* tracker and hands the message to its own queue or to a peer, executor   *)
(* threads run the DAG and report the outcome to the coordinator.          *)
(*                                                                         *)
(* Every node has one RPC thread (it runs all handlers, one at a time) and *)
(* a set of executor threads.  A step of this module is one critical       *)
(* section of the code, so the threads interleave between any two of them. *)
(***************************************************************************)
EXTENDS Integers, Sequences, FiniteSets

CONSTANTS
  Nodes,            \* cluster nodes
  NoNode,           \* a node id that no node of the cluster has
  HasIngress,       \* nodes with the ingress capability: they serve clients
  CanExecute,       \* nodes with the execution capability
  Executors,        \* executor threads of an executing node
  Pool,             \* Pool[n]: the peers in node n's peer pool
  Channels,         \* <<n, p>>: n's pool entry for p has a connected DATA channel
  Dags,             \* DAG ids
  QueueCapacity,    \* MAX_NODE_QUEUE_SIZE
  TrackerCapacity,  \* MAX_PENDING_EXECUTIONS
  StaleSenders,     \* what the unassigned sender_id of an RPC context may hold
  MaxExec,          \* bound: executions a node may coordinate
  NoDag,            \* no DAG id
  NoMessage,        \* no message held
  NoRecord          \* an inactive tracker slot

ASSUME ConstantsAssumption ==
  /\ NoNode \notin Nodes
  /\ HasIngress \subseteq Nodes
  /\ CanExecute \subseteq Nodes
  /\ Pool \in [Nodes -> SUBSET Nodes]
  /\ \A n \in Nodes : n \notin Pool[n]
  /\ Channels \subseteq Nodes \X Nodes
  /\ StaleSenders \subseteq Nodes \cup {NoNode}
  /\ QueueCapacity \in Nat \ {0}
  /\ TrackerCapacity \in Nat \ {0}
  /\ MaxExec \in Nat

\* num_threads of node_start_executors_ex is a number
ASSUME ExecutorsAssumption == IsFiniteSet(Executors)

ExecIds == 1 .. MaxExec
Slots == 1 .. TrackerCapacity

Terminal == {"COMPLETED", "FAILED"}
Statuses == {"PENDING", "RUNNING"} \cup Terminal

\* message_t.  The field origin is a history field: the node that
\* coordinates the execution, which the code's message does not carry.
Message == [exec : ExecIds, dag : Dags, sender : Nodes \cup {NoNode}, origin : Nodes]

\* execution_record_t of an active slot
Record == [exec : ExecIds, status : Statuses]

ASSUME NullAssumption == NoRecord \notin Record /\ NoMessage \notin Message

\* The two requests nodes send each other on a DATA channel
Request ==
  [func : {"PROCESS_MESSAGE"}, msg : Message]
    \cup [func : {"EXECUTION_UPDATE"}, exec : ExecIds, status : Terminal, origin : Nodes]

VARIABLES
  catalog,    \* catalog[n]: the DAGs in node n's catalog
  tracker,    \* tracker[n][s]: slot s of node n's execution tracker
  nextExec,   \* nextExec[n]: tracker->next_exec_id
  queue,      \* queue[n]: node n's message queue
  wire,       \* wire[n][p]: requests in flight on n's DATA channel to p
  rpc,        \* rpc[n]: where node n's RPC thread is
  thread,     \* thread[n][t]: where executor t of node n is
  active,     \* active[n]: state->active_executions
  stopping,   \* stopping[n]: state->shutdown_flag
  outcome,    \* history: outcome[n][e], the results of the DAG runs of
              \* execution e coordinated by n
  misled      \* history: <<n, e>>, n's record of execution e has been written by
              \* a report about another node's execution of that number

vars == <<catalog, tracker, nextExec, queue, wire, rpc, thread, active, stopping, outcome, misled>>

IdleRpc == [pc |-> "idle", msg |-> NoMessage, peer |-> NoNode, dag |-> NoDag]
IdleThread == [pc |-> "idle", msg |-> NoMessage, status |-> "FAILED"]

Init ==
  /\ catalog = [n \in Nodes |-> {}]
  /\ tracker = [n \in Nodes |-> [s \in Slots |-> NoRecord]]
  /\ nextExec = [n \in Nodes |-> 1]
  /\ queue = [n \in Nodes |-> <<>>]
  /\ wire = [n \in Nodes |-> [p \in Nodes |-> <<>>]]
  /\ rpc = [n \in Nodes |-> IdleRpc]
  /\ thread = [n \in Nodes |-> [t \in Executors |-> IdleThread]]
  /\ active = [n \in Nodes |-> 0]
  /\ stopping = [n \in Nodes |-> FALSE]
  /\ outcome = [n \in Nodes |-> [e \in ExecIds |-> <<>>]]
  /\ misled = {}

-----------------------------------------------------------------------------
(***************************************************************************)
(* Execution tracker and message queue                                     *)
(***************************************************************************)

\* The slot execution_tracker_add fills: the first inactive one.
FirstFree(trk, s) ==
  /\ trk[s] = NoRecord
  /\ \A r \in 1 .. (s - 1) : trk[r] # NoRecord

\* Mutant: the id counter wraps around.
TakeExecId_wraps(n) == nextExec' = [nextExec EXCEPT ![n] = IF @ = MaxExec THEN 1 ELSE @ + 1]

\* Ids are handed out in increasing order and never used again.
TakeExecId(n) == nextExec' = [nextExec EXCEPT ![n] = @ + 1]

\* Mutant: the execution id is not compared.
UpdateStatus_any(trk, e, st) ==
  [s \in Slots |-> IF trk[s] # NoRecord THEN [trk[s] EXCEPT !.status = st] ELSE trk[s]]

\* execution_tracker_update_status: the status is overwritten whatever it was;
\* an unknown execution id changes nothing.
UpdateStatus(trk, e, st) ==
  [s \in Slots |-> IF trk[s] # NoRecord /\ trk[s].exec = e
                   THEN [trk[s] EXCEPT !.status = st]
                   ELSE trk[s]]

Tracked(n, e) == \E s \in Slots : tracker[n][s] # NoRecord /\ tracker[n][s].exec = e

\* A report about execution e of node origin reaches the tracker of node n, which
\* goes by the number alone.
Reported(n, e, st, origin) ==
  /\ tracker' = [tracker EXCEPT ![n] = UpdateStatus(@, e, st)]
  /\ misled' = IF origin # n /\ Tracked(n, e) THEN misled \cup {<<n, e>>} ELSE misled

\* Mutants: the limit is off by one, either way.
HasRoom_over(n) == Len(queue[n]) <= QueueCapacity
HasRoom_under(n) == Len(queue[n]) < QueueCapacity - 1

\* message_queue_push waits while the queue is full.
HasRoom(n) == Len(queue[n]) < QueueCapacity

\* Mutant: the message is copied out but stays at the head.
PopQueue_peeks(n) == queue' = queue

\* message_queue_pop removes the message it returns.
PopQueue(n) == queue' = [queue EXCEPT ![n] = Tail(@)]

\* Mutant: old records are freed whatever their status.
Cleanup_any(n) ==
  /\ \E old \in SUBSET {s \in Slots : tracker[n][s] # NoRecord} :
       /\ old # {}
       /\ tracker' = [tracker EXCEPT ![n] = [s \in Slots |-> IF s \in old THEN NoRecord ELSE @[s]]]
  /\ UNCHANGED <<catalog, nextExec, queue, wire, rpc, thread, active, stopping, outcome, misled>>

\* execution_tracker_cleanup_completed: frees the records that have been
\* terminal for long enough.  Time is not modelled: any set of terminal
\* records may be old enough.
Cleanup(n) ==
  /\ \E old \in SUBSET {s \in Slots : tracker[n][s] # NoRecord /\ tracker[n][s].status \in Terminal} :
       /\ old # {}
       /\ tracker' = [tracker EXCEPT ![n] = [s \in Slots |-> IF s \in old THEN NoRecord ELSE @[s]]]
  /\ UNCHANGED <<catalog, nextExec, queue, wire, rpc, thread, active, stopping, outcome, misled>>

-----------------------------------------------------------------------------
(***************************************************************************)
(* RPC thread: handle_submit_message                                       *)
(***************************************************************************)

\* An executing node keeps the work; another one picks a peer of its pool.
Targets(n) == IF n \in CanExecute THEN {n} ELSE Pool[n]

\* The handler up to the point where the execution is recorded.  A missing
\* DAG, an empty pool and a full tracker are error responses: no step.
Submit(n, d) ==
  /\ n \in HasIngress
  /\ rpc[n].pc = "idle"
  /\ nextExec[n] <= MaxExec
  /\ d \in catalog[n]
  /\ \E peer \in Targets(n), s \in Slots, sender \in StaleSenders :
       LET e == nextExec[n] IN
       /\ FirstFree(tracker[n], s)
       /\ tracker' = [tracker EXCEPT ![n][s] = [exec |-> e, status |-> "PENDING"]]
       /\ TakeExecId(n)
       /\ rpc' = [rpc EXCEPT ![n] =
                    [pc |-> IF peer = n THEN "enqueue" ELSE "route",
                     msg |-> [exec |-> e, dag |-> d, sender |-> sender, origin |-> n],
                     peer |-> peer, dag |-> NoDag]]
  /\ UNCHANGED <<catalog, queue, wire, thread, active, stopping, outcome, misled>>

\* Local execution: message_queue_push, blocking while the queue is full.
SubmitEnqueue(n) ==
  /\ rpc[n].pc = "enqueue"
  /\ HasRoom(n)
  /\ queue' = [queue EXCEPT ![n] = Append(@, rpc[n].msg)]
  /\ rpc' = [rpc EXCEPT ![n].pc = "mark"]
  /\ UNCHANGED <<catalog, tracker, nextExec, wire, thread, active, stopping, outcome, misled>>

\* Remote execution: the PROCESS_MESSAGE request is written to the channel.
SubmitRoute(n) ==
  /\ rpc[n].pc = "route"
  /\ <<n, rpc[n].peer>> \in Channels
  /\ wire' = [wire EXCEPT ![n][rpc[n].peer] =
                Append(@, [func |-> "PROCESS_MESSAGE", msg |-> rpc[n].msg])]
  /\ rpc' = [rpc EXCEPT ![n].pc = "mark"]
  /\ UNCHANGED <<catalog, tracker, nextExec, queue, thread, active, stopping, outcome, misled>>

\* No connected channel, or send() fails: the record is marked FAILED and the
\* client gets an error.
SubmitRouteFails(n) ==
  /\ rpc[n].pc = "route"
  /\ tracker' = [tracker EXCEPT ![n] = UpdateStatus(@, rpc[n].msg.exec, "FAILED")]
  /\ rpc' = [rpc EXCEPT ![n] = IdleRpc]
  /\ UNCHANGED <<catalog, nextExec, queue, wire, thread, active, stopping, outcome, misled>>

\* The payload cannot be allocated: the client gets an error, the record is
\* left as it is.
SubmitNoMemory(n) ==
  /\ rpc[n].pc = "route"
  /\ <<n, rpc[n].peer>> \in Channels
  /\ rpc' = [rpc EXCEPT ![n] = IdleRpc]
  /\ UNCHANGED <<catalog, tracker, nextExec, queue, wire, thread, active, stopping, outcome, misled>>

\* "Mark as running", after the message was handed over, and the response.
SubmitMark(n) ==
  /\ rpc[n].pc = "mark"
  /\ tracker' = [tracker EXCEPT ![n] = UpdateStatus(@, rpc[n].msg.exec, "RUNNING")]
  /\ rpc' = [rpc EXCEPT ![n] = IdleRpc]
  /\ UNCHANGED <<catalog, nextExec, queue, wire, thread, active, stopping, outcome, misled>>

-----------------------------------------------------------------------------
(***************************************************************************)
(* RPC thread: requests of peers, DAG registration                         *)
(***************************************************************************)

\* handle_process_message: the request is taken off the channel ...
ProcessMessage(n, p) ==
  /\ rpc[n].pc = "idle"
  /\ wire[p][n] # <<>>
  /\ Head(wire[p][n]).func = "PROCESS_MESSAGE"
  /\ rpc' = [rpc EXCEPT ![n] = [pc |-> "accept", msg |-> Head(wire[p][n]).msg,
                                peer |-> p, dag |-> NoDag]]
  /\ wire' = [wire EXCEPT ![p][n] = Tail(@)]
  /\ UNCHANGED <<catalog, tracker, nextExec, queue, thread, active, stopping, outcome, misled>>

\* ... and pushed on the queue, blocking while it is full.
ProcessEnqueue(n) ==
  /\ rpc[n].pc = "accept"
  /\ HasRoom(n)
  /\ queue' = [queue EXCEPT ![n] = Append(@, rpc[n].msg)]
  /\ rpc' = [rpc EXCEPT ![n] = IdleRpc]
  /\ UNCHANGED <<catalog, tracker, nextExec, wire, thread, active, stopping, outcome, misled>>

\* handle_execution_update
ExecutionUpdate(n, p) ==
  /\ rpc[n].pc = "idle"
  /\ wire[p][n] # <<>>
  /\ LET req == Head(wire[p][n]) IN
     /\ req.func = "EXECUTION_UPDATE"
     /\ Reported(n, req.exec, req.status, req.origin)
  /\ wire' = [wire EXCEPT ![p][n] = Tail(@)]
  /\ UNCHANGED <<catalog, nextExec, queue, rpc, thread, active, stopping, outcome>>

\* handle_add_dag / handle_sync_catalog: the RPC thread asks for the write
\* lock of the catalog ...
LearnDag(n, d) ==
  /\ rpc[n].pc = "idle"
  /\ d \notin catalog[n]
  /\ rpc' = [rpc EXCEPT ![n] = [IdleRpc EXCEPT !.pc = "learn", !.dag = d]]
  /\ UNCHANGED <<catalog, tracker, nextExec, queue, wire, thread, active, stopping, outcome, misled>>

\* Executors hold the catalog's read lock while they run a DAG.
CatalogReaders(n) == {t \in Executors : thread[n][t].pc = "run"}

\* ... and adds the DAG once no executor runs one.
CatalogAdd(n) ==
  /\ rpc[n].pc = "learn"
  /\ CatalogReaders(n) = {}
  /\ catalog' = [catalog EXCEPT ![n] = @ \cup {rpc[n].dag}]
  /\ rpc' = [rpc EXCEPT ![n] = IdleRpc]
  /\ UNCHANGED <<tracker, nextExec, queue, wire, thread, active, stopping, outcome, misled>>

-----------------------------------------------------------------------------
(***************************************************************************)
(* Executor threads: node_executor_thread_fn                               *)
(***************************************************************************)

\* message_queue_pop, and the active_executions increment.  What lies between
\* the two, an event and two metrics, is not part of this state.
Pop(n, t) ==
  /\ n \in CanExecute
  /\ thread[n][t].pc = "idle"
  /\ queue[n] # <<>>
  /\ thread' = [thread EXCEPT ![n][t] = [pc |-> "lookup", msg |-> Head(queue[n]), status |-> "FAILED"]]
  /\ PopQueue(n)
  /\ active' = [active EXCEPT ![n] = @ + 1]
  /\ UNCHANGED <<catalog, tracker, nextExec, wire, rpc, stopping, outcome, misled>>

\* dag_catalog_get finds the DAG and keeps the catalog's read lock.
FindDag(n, t) ==
  /\ thread[n][t].pc = "lookup"
  /\ thread[n][t].msg.dag \in catalog[n]
  /\ thread' = [thread EXCEPT ![n][t] = [pc |-> "run", msg |-> thread[n][t].msg, status |-> "FAILED"]]
  /\ UNCHANGED <<catalog, tracker, nextExec, queue, wire, rpc, active, stopping, outcome, misled>>

\* Mutant: the early exit forgets the counter.
DagNotFound_leaks(n, t) ==
  /\ thread[n][t].pc = "lookup"
  /\ thread[n][t].msg.dag \notin catalog[n]
  /\ thread' = [thread EXCEPT ![n][t] = IdleThread]
  /\ UNCHANGED <<catalog, tracker, nextExec, queue, wire, rpc, active, stopping, outcome, misled>>

\* The DAG is not in this node's catalog: the message is dropped, nothing is
\* reported.
DagNotFound(n, t) ==
  /\ thread[n][t].pc = "lookup"
  /\ thread[n][t].msg.dag \notin catalog[n]
  /\ thread' = [thread EXCEPT ![n][t] = IdleThread]
  /\ active' = [active EXCEPT ![n] = @ - 1]
  /\ UNCHANGED <<catalog, tracker, nextExec, queue, wire, rpc, stopping, outcome, misled>>

\* dag_execute returns (or its output buffer could not be allocated) and the
\* catalog lock is released.
RunDag(n, t) ==
  /\ thread[n][t].pc = "run"
  /\ \E st \in Terminal :
       LET m == thread[n][t].msg IN
       /\ thread' = [thread EXCEPT ![n][t] = [pc |-> "report", msg |-> m, status |-> st]]
       /\ outcome' = [outcome EXCEPT ![m.origin][m.exec] = Append(@, st)]
  /\ UNCHANGED <<catalog, tracker, nextExec, queue, wire, rpc, active, stopping, misled>>

\* The message's sender is this node: the outcome goes to its own tracker.
ReportLocal(n, t) ==
  /\ thread[n][t].pc = "report"
  /\ thread[n][t].msg.sender = n
  /\ Reported(n, thread[n][t].msg.exec, thread[n][t].status, thread[n][t].msg.origin)
  /\ thread' = [thread EXCEPT ![n][t] = IdleThread]
  /\ active' = [active EXCEPT ![n] = @ - 1]
  /\ UNCHANGED <<catalog, nextExec, queue, wire, rpc, stopping, outcome>>

\* Another sender id: an EXECUTION_UPDATE goes to the peer with that id.
ReportRemote(n, t) ==
  /\ thread[n][t].pc = "report"
  /\ LET m == thread[n][t].msg IN
     /\ m.sender # n
     /\ <<n, m.sender>> \in Channels
     /\ wire' = [wire EXCEPT ![n][m.sender] =
                   Append(@, [func |-> "EXECUTION_UPDATE", exec |-> m.exec,
                              status |-> thread[n][t].status, origin |-> m.origin])]
  /\ thread' = [thread EXCEPT ![n][t] = IdleThread]
  /\ active' = [active EXCEPT ![n] = @ - 1]
  /\ UNCHANGED <<catalog, tracker, nextExec, queue, rpc, stopping, outcome, misled>>

\* No such peer, no channel, or send() fails: the outcome is not reported.
ReportLost(n, t) ==
  /\ thread[n][t].pc = "report"
  /\ thread[n][t].msg.sender # n
  /\ thread' = [thread EXCEPT ![n][t] = IdleThread]
  /\ active' = [active EXCEPT ![n] = @ - 1]
  /\ UNCHANGED <<catalog, tracker, nextExec, queue, wire, rpc, stopping, outcome, misled>>

\* node_stop_executors_ex raises the shutdown flag ...
StopExecutors(n) ==
  /\ n \in CanExecute
  /\ ~stopping[n]
  /\ stopping' = [stopping EXCEPT ![n] = TRUE]
  /\ UNCHANGED <<catalog, tracker, nextExec, queue, wire, rpc, thread, active, outcome, misled>>

\* Mutant: a wait for a message that times out ends the executor.
ExecutorExit_timeout(n, t) ==
  /\ thread[n][t].pc = "idle"
  /\ thread' = [thread EXCEPT ![n][t] = [IdleThread EXCEPT !.pc = "exited"]]
  /\ UNCHANGED <<catalog, tracker, nextExec, queue, wire, rpc, active, stopping, outcome, misled>>

\* ... which an executor reads between two messages.
ExecutorExit(n, t) ==
  /\ stopping[n]
  /\ thread[n][t].pc = "idle"
  /\ thread' = [thread EXCEPT ![n][t] = [IdleThread EXCEPT !.pc = "exited"]]
  /\ UNCHANGED <<catalog, tracker, nextExec, queue, wire, rpc, active, stopping, outcome, misled>>

-----------------------------------------------------------------------------
RpcStep(n) ==
  \/ SubmitEnqueue(n) \/ SubmitRoute(n) \/ SubmitRouteFails(n) \/ SubmitNoMemory(n)
  \/ SubmitMark(n) \/ ProcessEnqueue(n) \/ CatalogAdd(n)
  \/ \E p \in Nodes : ProcessMessage(n, p) \/ ExecutionUpdate(n, p)

ExecutorStep(n, t) ==
  \/ Pop(n, t) \/ FindDag(n, t) \/ DagNotFound(n, t) \/ RunDag(n, t)
  \/ ReportLocal(n, t) \/ ReportRemote(n, t) \/ ReportLost(n, t) \/ ExecutorExit(n, t)

Next ==
  \E n \in Nodes :
    \/ \E d \in Dags : Submit(n, d) \/ LearnDag(n, d)
    \/ RpcStep(n)
    \/ \E t \in Executors : ExecutorStep(n, t)
    \/ Cleanup(n)
    \/ StopExecutors(n)

Spec == Init /\ [][Next]_vars

\* The threads run: the RPC thread finishes the handler it is in and serves
\* the requests on its channels, an executor with work goes on.  Nothing is
\* assumed of clients, of the cleanup timer or of the shutdown.
Fairness ==
  \A n \in Nodes :
    /\ WF_vars(RpcStep(n))
    /\ \A t \in Executors : WF_vars(ExecutorStep(n, t))

FairSpec == Spec /\ Fairness

-----------------------------------------------------------------------------
(***************************************************************************)
(* Properties                                                              *)
(***************************************************************************)

RpcPcs == {"idle", "enqueue", "route", "mark", "accept", "learn"}
ThreadPcs == {"idle", "lookup", "run", "report", "exited"}

RpcState == [pc : RpcPcs, msg : Message \cup {NoMessage},
             peer : Nodes \cup {NoNode}, dag : Dags \cup {NoDag}]

ThreadState == [pc : ThreadPcs, msg : Message \cup {NoMessage}, status : Terminal]

TrackerTypeOK ==
  /\ tracker \in [Nodes -> [Slots -> Record \cup {NoRecord}]]
  /\ nextExec \in [Nodes -> 1 .. (MaxExec + 1)]

QueueTypeOK ==
  /\ queue \in [Nodes -> Seq(Message)]
  /\ \A n \in Nodes : Len(queue[n]) <= QueueCapacity

WireTypeOK == wire \in [Nodes -> [Nodes -> Seq(Request)]]

RpcTypeOK ==
  /\ rpc \in [Nodes -> RpcState]
  /\ \A n \in Nodes :
       /\ rpc[n].pc \in {"enqueue", "route", "mark", "accept"} => rpc[n].msg \in Message
       /\ rpc[n].pc = "route" => rpc[n].peer \in Nodes
       /\ rpc[n].pc = "learn" => rpc[n].dag \in Dags

ThreadTypeOK ==
  /\ thread \in [Nodes -> [Executors -> ThreadState]]
  /\ \A n \in Nodes, t \in Executors :
       thread[n][t].pc \in {"lookup", "run", "report"} => thread[n][t].msg \in Message

\* Every variable has the type of the C state it stands for, and a thread that
\* is between two critical sections of a handler holds the message (or DAG id)
\* the rest of the handler needs.
TypeOK ==
  /\ catalog \in [Nodes -> SUBSET Dags]
  /\ TrackerTypeOK /\ QueueTypeOK /\ WireTypeOK /\ RpcTypeOK /\ ThreadTypeOK
  /\ active \in [Nodes -> Int]
  /\ stopping \in [Nodes -> BOOLEAN]
  /\ outcome \in [Nodes -> [ExecIds -> Seq(Terminal)]]
  /\ misled \subseteq Nodes \X ExecIds

\* Two active records of a tracker never have the same execution id, and ids
\* still to be allocated are not in use: execution_tracker_update_status, which
\* stops at the first match, can only reach the record it was called for.
ExecIdsUnique ==
  \A n \in Nodes : \A s \in Slots : tracker[n][s] # NoRecord =>
    /\ tracker[n][s].exec < nextExec[n]
    /\ \A r \in Slots : tracker[n][r] # NoRecord /\ tracker[n][r].exec = tracker[n][s].exec => r = s

\* The DAG of a submitted message runs at most once, whichever threads and
\* nodes the message passes through.
ExecutedAtMostOnce ==
  \A n \in Nodes, e \in ExecIds : Len(outcome[n][e]) <= 1

\* active_executions is the number of executors that are processing a message,
\* on every path through the executor's loop.
ActiveExact ==
  \A n \in Nodes :
    active[n] = Cardinality({t \in Executors : thread[n][t].pc \in {"lookup", "run", "report"}})

Holds(m, n, e) == m # NoMessage /\ m.origin = n /\ m.exec = e

\* The message of execution e, coordinated by n, has not been run yet.
Unrun(n, e) ==
  \/ \E q \in Nodes :
       \/ rpc[q].pc \in {"enqueue", "route", "accept"} /\ Holds(rpc[q].msg, n, e)
       \/ \E i \in DOMAIN queue[q] : Holds(queue[q][i], n, e)
       \/ \E t \in Executors : thread[q][t].pc \in {"lookup", "run"} /\ Holds(thread[q][t].msg, n, e)
       \/ \E p \in Nodes : \E i \in DOMAIN wire[p][q] :
            wire[p][q][i].func = "PROCESS_MESSAGE" /\ Holds(wire[p][q][i].msg, n, e)

\* Status st of the execution agrees with what happened to its message.
Truthful(n, e, st) ==
  /\ st = "COMPLETED" => outcome[n][e] = <<"COMPLETED">>
  /\ st = "FAILED" => outcome[n][e] \in {<<>>, <<"FAILED">>}
  /\ st \in Terminal => ~Unrun(n, e)

\* Status st agrees with execution e of node n or, where a report about another
\* node's execution of the same number has written the record, with that one.
Shown(n, e, st) ==
  \/ Truthful(n, e, st)
  \/ <<n, e>> \in misled /\ \E m \in Nodes \ {n} : outcome[m][e] = <<st>>

\* A status the tracker shows as final is one the execution really had, and it
\* is shown only when the message is no longer waiting to be run anywhere.  The one
\* exception is what the unassigned sender id can do: a report about another node's
\* execution of the same number has written the record, and the status is the
\* outcome of that one.
StatusTruthful ==
  \A n \in Nodes, s \in Slots : tracker[n][s] # NoRecord =>
    Shown(n, tracker[n][s].exec, tracker[n][s].status)

\* The cleanup never frees the record of an execution that is still queued,
\* on its way to a peer or running, unless a report about another node's
\* execution of the same number has written that record.
ReapedIsFinished ==
  \A n \in Nodes, e \in ExecIds : Unrun(n, e) => Tracked(n, e) \/ <<n, e>> \in misled

\* A message in a queue, for a DAG of the node's catalog, is run unless the
\* node's executors are stopped.
QueuedIsRun ==
  \A q, n \in Nodes : \A e \in ExecIds :
    (\E i \in DOMAIN queue[q] : Holds(queue[q][i], n, e) /\ queue[q][i].dag \in catalog[q])
      ~> outcome[n][e] # <<>> \/ stopping[q]

\* The RPC thread, which serves every connection of the node, comes back from
\* each handler: a full queue or a busy catalog delays it only, unless the
\* executors have been stopped.
RpcThreadReturns ==
  \A n \in Nodes : rpc[n].pc # "idle" ~> rpc[n].pc = "idle" \/ stopping[n]

\* A client that polls an accepted execution whose DAG has run sees it end:
\* the record becomes COMPLETED or FAILED (or has been freed after that).
FinishedIsReported ==
  \A n \in Nodes, e \in ExecIds :
    outcome[n][e] # <<>>
      ~> \A s \in Slots : tracker[n][s] # NoRecord /\ tracker[n][s].exec = e
                            => tracker[n][s].status \in Terminal
=============================================================================
