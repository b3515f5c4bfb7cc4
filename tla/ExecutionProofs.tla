-------------------------- MODULE ExecutionProofs --------------------------
(***************************************************************************)
(* Machine-checked proofs about Execution, for every cluster, pool,        *)
(* capacity and every value the unassigned sender_id may hold.             *)
(***************************************************************************)
EXTENDS Execution, TLAPS

USE ConstantsAssumption

\* UpdateStatus, the model of execution_tracker_update_status, keeps the
\* execution id of every slot and yields a well-typed tracker.
LEMMA UpdateStatusType ==
  ASSUME NEW trk \in [Slots -> Record \cup {NoRecord}],
         NEW e, NEW st \in Statuses
  PROVE  UpdateStatus(trk, e, st) \in [Slots -> Record \cup {NoRecord}]
BY DEF UpdateStatus, Record

\* ... and it neither frees nor fills a slot, nor changes an execution id.
LEMMA UpdateStatusIds ==
  ASSUME NEW trk \in [Slots -> Record \cup {NoRecord}],
         NEW e, NEW st \in Statuses, NEW s \in Slots,
         UpdateStatus(trk, e, st)[s] # NoRecord
  PROVE  trk[s] # NoRecord /\ UpdateStatus(trk, e, st)[s].exec = trk[s].exec
BY NullAssumption DEF UpdateStatus, Record

\* Moving the RPC thread to another program point keeps the rest of its state.
LEMMA RpcMove ==
  ASSUME rpc \in [Nodes -> RpcState], NEW n \in Nodes, NEW pc \in RpcPcs,
         rpc' = [rpc EXCEPT ![n].pc = pc]
  PROVE  /\ rpc' \in [Nodes -> RpcState]
         /\ \A m \in Nodes : /\ rpc'[m].pc = IF m = n THEN pc ELSE rpc[m].pc
                             /\ rpc'[m].msg = rpc[m].msg
                             /\ rpc'[m].peer = rpc[m].peer
                             /\ rpc'[m].dag = rpc[m].dag
<1> DEFINE R == [rpc[n] EXCEPT !.pc = pc]
<1>1. /\ R \in RpcState /\ R.pc = pc /\ R.msg = rpc[n].msg
      /\ R.peer = rpc[n].peer /\ R.dag = rpc[n].dag
  BY DEF RpcState
<1>2. rpc' = [rpc EXCEPT ![n] = R]
  OBVIOUS
<1> HIDE DEF R
<1> QED
  BY <1>1, <1>2

\* A handler that begins leaves the RPC thread in any well-typed state.
LEMMA RpcSet ==
  ASSUME RpcTypeOK, NEW n \in Nodes, NEW R \in RpcState,
         R.pc \in {"enqueue", "route", "mark", "accept"} => R.msg \in Message,
         R.pc = "route" => R.peer \in Nodes,
         R.pc = "learn" => R.dag \in Dags,
         rpc' = [rpc EXCEPT ![n] = R]
  PROVE  RpcTypeOK'
<1>1. rpc' \in [Nodes -> RpcState] /\ \A m \in Nodes : rpc'[m] = IF m = n THEN R ELSE rpc[m]
  BY DEF RpcTypeOK
<1> QED
  BY <1>1 DEF RpcTypeOK

\* handle_submit_message goes on to "Mark as running" with the same message.
LEMMA RpcMark ==
  ASSUME RpcTypeOK, NEW n \in Nodes, rpc[n].msg \in Message,
         rpc' = [rpc EXCEPT ![n].pc = "mark"]
  PROVE  RpcTypeOK'
<1>1. /\ rpc' \in [Nodes -> RpcState]
      /\ \A m \in Nodes : /\ rpc'[m].pc = IF m = n THEN "mark" ELSE rpc[m].pc
                          /\ rpc'[m].msg = rpc[m].msg
                          /\ rpc'[m].peer = rpc[m].peer
                          /\ rpc'[m].dag = rpc[m].dag
  BY RpcMove DEF RpcTypeOK, RpcPcs
<1> QED
  BY <1>1 DEF RpcTypeOK

\* Sending a request on a channel keeps the wire well typed.
LEMMA WireAppend ==
  ASSUME WireTypeOK, NEW n \in Nodes, NEW p \in Nodes, NEW req \in Request,
         wire' = [wire EXCEPT ![n][p] = Append(@, req)]
  PROVE  WireTypeOK'
<1> DEFINE F == [wire[n] EXCEPT ![p] = Append(@, req)]
<1>1. wire' = [wire EXCEPT ![n] = F]
  OBVIOUS
<1>2. Append(wire[n][p], req) \in Seq(Request)
  BY DEF WireTypeOK
<1>3. F \in [Nodes -> Seq(Request)]
  BY <1>2 DEF WireTypeOK
<1> HIDE DEF F
<1> QED
  BY <1>1, <1>3 DEF WireTypeOK

\* Receiving from a channel keeps it well typed and yields a request.
LEMMA WireTail ==
  ASSUME WireTypeOK, NEW n \in Nodes, NEW p \in Nodes, wire[p][n] # <<>>,
         wire' = [wire EXCEPT ![p][n] = Tail(@)]
  PROVE  WireTypeOK' /\ Head(wire[p][n]) \in Request
BY DEF WireTypeOK

\* What the two kinds of request carry.
LEMMA RequestFields ==
  ASSUME NEW req \in Request
  PROVE  /\ req.func = "PROCESS_MESSAGE" => req.msg \in Message
         /\ req.func = "EXECUTION_UPDATE" =>
              req.exec \in ExecIds /\ req.status \in Terminal /\ req.origin \in Nodes
BY DEF Request

\* Only records of the tracker are noted as written by a report about another
\* node's execution.
LEMMA ReportedType ==
  ASSUME TypeOK, NEW n \in Nodes, NEW e \in ExecIds, NEW st, NEW origin, Reported(n, e, st, origin)
  PROVE  misled' \subseteq Nodes \X ExecIds
BY DEF TypeOK, Reported

\* The initial state is well typed.
LEMMA InitTypeOK == Init => TypeOK
BY DEF Init, TypeOK, TrackerTypeOK, QueueTypeOK, WireTypeOK, RpcTypeOK, ThreadTypeOK,
       IdleRpc, IdleThread, RpcState, ThreadState, RpcPcs, ThreadPcs, Terminal

\* Every step of every thread keeps the state well typed.
LEMMA NextTypeOK == TypeOK /\ [Next]_vars => TypeOK'
<1> SUFFICES ASSUME TypeOK, [Next]_vars PROVE TypeOK'
  OBVIOUS
<1> USE DEF TypeOK
<1>1. ASSUME NEW n \in Nodes, NEW d \in Dags, Submit(n, d) PROVE TypeOK'
  <2>1. TrackerTypeOK'
    BY <1>1 DEF Submit, TakeExecId, TrackerTypeOK, Record, Statuses, ExecIds
  <2>2. RpcTypeOK'
    <3>1. PICK peer \in Targets(n), sender \in StaleSenders :
            rpc' = [rpc EXCEPT ![n] =
                      [pc |-> IF peer = n THEN "enqueue" ELSE "route",
                       msg |-> [exec |-> nextExec[n], dag |-> d, sender |-> sender, origin |-> n],
                       peer |-> peer, dag |-> NoDag]]
      BY <1>1 DEF Submit
    <3> DEFINE M == [exec |-> nextExec[n], dag |-> d, sender |-> sender, origin |-> n]
               R == [pc |-> IF peer = n THEN "enqueue" ELSE "route",
                     msg |-> M, peer |-> peer, dag |-> NoDag]
    <3>2. M \in Message
      <4>1. nextExec[n] \in ExecIds
        BY <1>1 DEF Submit, TrackerTypeOK, ExecIds
      <4> QED
        BY <4>1 DEF Message
    <3>3. peer \in Nodes
      BY DEF Targets
    <3> HIDE DEF M
    <3>4. /\ R \in RpcState /\ R.msg = M /\ R.peer = peer
          /\ R.pc \in {"enqueue", "route"}
      BY <3>2, <3>3 DEF RpcState, RpcPcs
    <3>5. rpc' = [rpc EXCEPT ![n] = R]
      BY <3>1 DEF M
    <3> HIDE DEF R
    <3> QED
      BY <3>2, <3>3, <3>4, <3>5, RpcSet
  <2> QED
    BY <1>1, <2>1, <2>2 DEF Submit, QueueTypeOK, WireTypeOK, ThreadTypeOK
<1>2. ASSUME NEW n \in Nodes, NEW d \in Dags, LearnDag(n, d) PROVE TypeOK'
  <2>1. RpcTypeOK'
    BY <1>2 DEF LearnDag, RpcTypeOK, RpcState, RpcPcs, IdleRpc
  <2> QED
    BY <1>2, <2>1 DEF LearnDag, TrackerTypeOK, QueueTypeOK, WireTypeOK, ThreadTypeOK
<1>3. ASSUME NEW n \in Nodes, SubmitEnqueue(n) PROVE TypeOK'
  <2>1. QueueTypeOK'
    BY <1>3 DEF SubmitEnqueue, QueueTypeOK, HasRoom, RpcTypeOK
  <2>2. RpcTypeOK'
    <3>1. rpc' = [rpc EXCEPT ![n].pc = "mark"] /\ rpc[n].msg \in Message
      BY <1>3 DEF SubmitEnqueue, RpcTypeOK
    <3> QED
      BY <3>1, RpcMark
  <2> QED
    BY <1>3, <2>1, <2>2 DEF SubmitEnqueue, TrackerTypeOK, WireTypeOK, ThreadTypeOK
<1>4. ASSUME NEW n \in Nodes, SubmitRoute(n) PROVE TypeOK'
  <2>1. WireTypeOK'
    <3>1. rpc[n].msg \in Message /\ rpc[n].peer \in Nodes
      BY <1>4 DEF SubmitRoute, RpcTypeOK
    <3>2. [func |-> "PROCESS_MESSAGE", msg |-> rpc[n].msg] \in Request
      BY <3>1 DEF Request
    <3> QED
      BY <1>4, <3>1, <3>2, WireAppend DEF SubmitRoute
  <2>2. RpcTypeOK'
    <3>1. rpc' = [rpc EXCEPT ![n].pc = "mark"] /\ rpc[n].msg \in Message
      BY <1>4 DEF SubmitRoute, RpcTypeOK
    <3> QED
      BY <3>1, RpcMark
  <2> QED
    BY <1>4, <2>1, <2>2 DEF SubmitRoute, TrackerTypeOK, QueueTypeOK, ThreadTypeOK
<1>5. ASSUME NEW n \in Nodes, SubmitRouteFails(n) PROVE TypeOK'
  <2>1. TrackerTypeOK'
    BY <1>5, UpdateStatusType DEF SubmitRouteFails, TrackerTypeOK, Statuses, Terminal
  <2>2. RpcTypeOK'
    BY <1>5 DEF SubmitRouteFails, RpcTypeOK, RpcState, RpcPcs, IdleRpc
  <2> QED
    BY <1>5, <2>1, <2>2 DEF SubmitRouteFails, QueueTypeOK, WireTypeOK, ThreadTypeOK
<1>6. ASSUME NEW n \in Nodes, SubmitNoMemory(n) PROVE TypeOK'
  <2>1. RpcTypeOK'
    BY <1>6 DEF SubmitNoMemory, RpcTypeOK, RpcState, RpcPcs, IdleRpc
  <2> QED
    BY <1>6, <2>1 DEF SubmitNoMemory, TrackerTypeOK, QueueTypeOK, WireTypeOK, ThreadTypeOK
<1>7. ASSUME NEW n \in Nodes, SubmitMark(n) PROVE TypeOK'
  <2>1. TrackerTypeOK'
    BY <1>7, UpdateStatusType DEF SubmitMark, TrackerTypeOK, Statuses, Terminal
  <2>2. RpcTypeOK'
    BY <1>7 DEF SubmitMark, RpcTypeOK, RpcState, RpcPcs, IdleRpc
  <2> QED
    BY <1>7, <2>1, <2>2 DEF SubmitMark, QueueTypeOK, WireTypeOK, ThreadTypeOK
<1>8. ASSUME NEW n \in Nodes, NEW p \in Nodes, ProcessMessage(n, p) PROVE TypeOK'
  <2>1. WireTypeOK'
    BY <1>8, WireTail DEF ProcessMessage
  <2>2. RpcTypeOK'
    <3>1. Head(wire[p][n]).msg \in Message
      BY <1>8, WireTail, RequestFields DEF ProcessMessage
    <3> QED
      BY <1>8, <3>1 DEF ProcessMessage, RpcTypeOK, RpcState, RpcPcs
  <2> QED
    BY <1>8, <2>1, <2>2 DEF ProcessMessage, TrackerTypeOK, QueueTypeOK, ThreadTypeOK
<1>9. ASSUME NEW n \in Nodes, ProcessEnqueue(n) PROVE TypeOK'
  <2>1. QueueTypeOK'
    BY <1>9 DEF ProcessEnqueue, QueueTypeOK, HasRoom, RpcTypeOK
  <2>2. RpcTypeOK'
    BY <1>9 DEF ProcessEnqueue, RpcTypeOK, RpcState, RpcPcs, IdleRpc
  <2> QED
    BY <1>9, <2>1, <2>2 DEF ProcessEnqueue, TrackerTypeOK, WireTypeOK, ThreadTypeOK
<1>10. ASSUME NEW n \in Nodes, NEW p \in Nodes, ExecutionUpdate(n, p) PROVE TypeOK'
  <2>1. TrackerTypeOK'
    <3>1. Head(wire[p][n]).status \in Statuses
      BY <1>10, WireTail, RequestFields DEF ExecutionUpdate, Statuses
    <3>2. tracker' = [tracker EXCEPT ![n] =
                        UpdateStatus(@, Head(wire[p][n]).exec, Head(wire[p][n]).status)]
      BY <1>10 DEF ExecutionUpdate, Reported
    <3>3. nextExec' = nextExec
      BY <1>10 DEF ExecutionUpdate
    <3> QED
      BY <3>1, <3>2, <3>3, UpdateStatusType DEF TrackerTypeOK
  <2>2. WireTypeOK'
    BY <1>10, WireTail DEF ExecutionUpdate
  <2>3. misled' \subseteq Nodes \X ExecIds
    <3>1. Head(wire[p][n]).exec \in ExecIds
      BY <1>10, WireTail, RequestFields DEF ExecutionUpdate
    <3> QED
      BY <1>10, <3>1, ReportedType DEF ExecutionUpdate
  <2> QED
    BY <1>10, <2>1, <2>2, <2>3 DEF ExecutionUpdate, QueueTypeOK, RpcTypeOK, ThreadTypeOK
<1>11. ASSUME NEW n \in Nodes, CatalogAdd(n) PROVE TypeOK'
  <2>1. RpcTypeOK'
    BY <1>11 DEF CatalogAdd, RpcTypeOK, RpcState, RpcPcs, IdleRpc
  <2>2. catalog' \in [Nodes -> SUBSET Dags]
    BY <1>11 DEF CatalogAdd, RpcTypeOK
  <2> QED
    BY <1>11, <2>1, <2>2 DEF CatalogAdd, TrackerTypeOK, QueueTypeOK, WireTypeOK, ThreadTypeOK
<1>12. ASSUME NEW n \in Nodes, NEW t \in Executors, Pop(n, t) PROVE TypeOK'
  <2>1. QueueTypeOK'
    BY <1>12 DEF Pop, QueueTypeOK, PopQueue
  <2>2. ThreadTypeOK'
    BY <1>12 DEF Pop, ThreadTypeOK, ThreadState, ThreadPcs, IdleThread, Terminal, QueueTypeOK
  <2>3. active' \in [Nodes -> Int]
    BY <1>12 DEF Pop
  <2> QED
    BY <1>12, <2>1, <2>2, <2>3 DEF Pop, TrackerTypeOK, WireTypeOK, RpcTypeOK
<1>13. ASSUME NEW n \in Nodes, NEW t \in Executors, FindDag(n, t) PROVE TypeOK'
  <2>1. ThreadTypeOK'
    BY <1>13 DEF FindDag, ThreadTypeOK, ThreadState, ThreadPcs, IdleThread, Terminal
  <2> QED
    BY <1>13, <2>1 DEF FindDag, TrackerTypeOK, QueueTypeOK, WireTypeOK, RpcTypeOK
<1>14. ASSUME NEW n \in Nodes, NEW t \in Executors, DagNotFound(n, t) PROVE TypeOK'
  <2>1. ThreadTypeOK'
    BY <1>14 DEF DagNotFound, ThreadTypeOK, ThreadState, ThreadPcs, IdleThread, Terminal
  <2>2. active' \in [Nodes -> Int]
    BY <1>14 DEF DagNotFound
  <2> QED
    BY <1>14, <2>1, <2>2 DEF DagNotFound, TrackerTypeOK, QueueTypeOK, WireTypeOK, RpcTypeOK
<1>15. ASSUME NEW n \in Nodes, NEW t \in Executors, RunDag(n, t) PROVE TypeOK'
  <2>1. ThreadTypeOK'
    BY <1>15 DEF RunDag, ThreadTypeOK, ThreadState, ThreadPcs, IdleThread, Terminal
  <2>2. outcome' \in [Nodes -> [ExecIds -> Seq(Terminal)]]
    BY <1>15 DEF RunDag, ThreadTypeOK, Message
  <2> QED
    BY <1>15, <2>1, <2>2 DEF RunDag, TrackerTypeOK, QueueTypeOK, WireTypeOK, RpcTypeOK
<1>16. ASSUME NEW n \in Nodes, NEW t \in Executors, ReportLocal(n, t) PROVE TypeOK'
  <2>1. TrackerTypeOK'
    <3>1. thread[n][t].status \in Statuses
      BY DEF ThreadTypeOK, ThreadState, Statuses
    <3> QED
      BY <1>16, <3>1, UpdateStatusType DEF ReportLocal, Reported, TrackerTypeOK
  <2>2. ThreadTypeOK'
    BY <1>16 DEF ReportLocal, ThreadTypeOK, ThreadState, ThreadPcs, IdleThread, Terminal
  <2>3. active' \in [Nodes -> Int]
    BY <1>16 DEF ReportLocal
  <2>4. misled' \subseteq Nodes \X ExecIds
    <3>1. thread[n][t].msg.exec \in ExecIds
      BY <1>16 DEF ReportLocal, ThreadTypeOK, Message
    <3> QED
      BY <1>16, <3>1, ReportedType DEF ReportLocal
  <2> QED
    BY <1>16, <2>1, <2>2, <2>3, <2>4 DEF ReportLocal, QueueTypeOK, WireTypeOK, RpcTypeOK
<1>17. ASSUME NEW n \in Nodes, NEW t \in Executors, ReportRemote(n, t) PROVE TypeOK'
  <2>1. WireTypeOK'
    <3> DEFINE m == thread[n][t].msg
               req == [func |-> "EXECUTION_UPDATE", exec |-> m.exec,
                       status |-> thread[n][t].status, origin |-> m.origin]
    <3>1. m \in Message /\ thread[n][t].status \in Terminal
      BY <1>17 DEF ReportRemote, ThreadTypeOK, ThreadState
    <3>2. req \in Request
      BY <3>1 DEF Request, Message
    <3>3. m.sender \in Nodes
      BY <1>17 DEF ReportRemote
    <3>4. wire' = [wire EXCEPT ![n][m.sender] = Append(@, req)]
      BY <1>17 DEF ReportRemote
    <3> HIDE DEF m, req
    <3> QED
      BY <3>2, <3>3, <3>4, WireAppend
  <2>2. ThreadTypeOK'
    BY <1>17 DEF ReportRemote, ThreadTypeOK, ThreadState, ThreadPcs, IdleThread, Terminal
  <2>3. active' \in [Nodes -> Int]
    BY <1>17 DEF ReportRemote
  <2> QED
    BY <1>17, <2>1, <2>2, <2>3 DEF ReportRemote, TrackerTypeOK, QueueTypeOK, RpcTypeOK
<1>18. ASSUME NEW n \in Nodes, NEW t \in Executors, ReportLost(n, t) PROVE TypeOK'
  <2>1. ThreadTypeOK'
    BY <1>18 DEF ReportLost, ThreadTypeOK, ThreadState, ThreadPcs, IdleThread, Terminal
  <2>2. active' \in [Nodes -> Int]
    BY <1>18 DEF ReportLost
  <2> QED
    BY <1>18, <2>1, <2>2 DEF ReportLost, TrackerTypeOK, QueueTypeOK, WireTypeOK, RpcTypeOK
<1>19. ASSUME NEW n \in Nodes, NEW t \in Executors, ExecutorExit(n, t) PROVE TypeOK'
  <2>1. ThreadTypeOK'
    BY <1>19 DEF ExecutorExit, ThreadTypeOK, ThreadState, ThreadPcs, IdleThread, Terminal
  <2> QED
    BY <1>19, <2>1 DEF ExecutorExit, TrackerTypeOK, QueueTypeOK, WireTypeOK, RpcTypeOK
<1>20. ASSUME NEW n \in Nodes, Cleanup(n) PROVE TypeOK'
  <2>1. TrackerTypeOK'
    BY <1>20 DEF Cleanup, TrackerTypeOK, Statuses, Terminal
  <2> QED
    BY <1>20, <2>1 DEF Cleanup, QueueTypeOK, WireTypeOK, RpcTypeOK, ThreadTypeOK
<1>21. ASSUME NEW n \in Nodes, StopExecutors(n) PROVE TypeOK'
  <2>1. stopping' \in [Nodes -> BOOLEAN]
    BY <1>21 DEF StopExecutors
  <2> QED
    BY <1>21, <2>1 DEF StopExecutors, TrackerTypeOK, QueueTypeOK, WireTypeOK, RpcTypeOK, ThreadTypeOK
<1>22. CASE UNCHANGED vars
  BY <1>22 DEF vars, TrackerTypeOK, QueueTypeOK, WireTypeOK, RpcTypeOK, ThreadTypeOK
<1> QED
  BY <1>1, <1>2, <1>3, <1>4, <1>5, <1>6, <1>7, <1>8, <1>9, <1>10, <1>11, <1>12, <1>13, <1>14, <1>15, <1>16, <1>17, <1>18, <1>19, <1>20, <1>21, <1>22
     DEF Next, RpcStep, ExecutorStep

\* Every reachable state of the pipeline is well typed; in particular a queue
\* never exceeds its capacity and a thread never resumes a handler without the
\* message the handler works on.
THEOREM TypeCorrect == Spec => []TypeOK
BY InitTypeOK, NextTypeOK, PTL DEF Spec

-----------------------------------------------------------------------------
\* A step that at most frees slots or changes statuses keeps execution ids
\* unique.
LEMMA KeptIds ==
  ASSUME ExecIdsUnique, nextExec' = nextExec,
         \A n \in Nodes, s \in Slots : tracker'[n][s] # NoRecord =>
           tracker[n][s] # NoRecord /\ tracker'[n][s].exec = tracker[n][s].exec
  PROVE  ExecIdsUnique'
BY DEF ExecIdsUnique

\* A status update of node n's tracker, whichever thread makes it, keeps
\* execution ids unique.
LEMMA UpdatedIds ==
  ASSUME TrackerTypeOK, ExecIdsUnique, nextExec' = nextExec,
         NEW n \in Nodes, NEW e, NEW st \in Statuses,
         tracker' = [tracker EXCEPT ![n] = UpdateStatus(@, e, st)]
  PROVE  ExecIdsUnique'
<1>1. ASSUME NEW m \in Nodes, NEW s \in Slots, tracker'[m][s] # NoRecord
      PROVE  tracker[m][s] # NoRecord /\ tracker'[m][s].exec = tracker[m][s].exec
  <2>1. CASE m = n
    <3>1. tracker[n] \in [Slots -> Record \cup {NoRecord}]
      BY DEF TrackerTypeOK
    <3>2. tracker'[n] = UpdateStatus(tracker[n], e, st)
      BY DEF TrackerTypeOK
    <3> QED
      BY <1>1, <2>1, <3>1, <3>2, UpdateStatusIds
  <2>2. CASE m # n
    BY <1>1, <2>2 DEF TrackerTypeOK
  <2> QED
    BY <2>1, <2>2
<1> QED
  BY <1>1, KeptIds

\* Unique execution ids are inductive relative to TypeOK: a submission takes an
\* id above all the ids in use, a status update keeps ids, the cleanup only
\* frees slots, and the other steps leave the tracker alone.
LEMMA NextExecIdsUnique == TypeOK /\ ExecIdsUnique /\ [Next]_vars => ExecIdsUnique'
<1> SUFFICES ASSUME TypeOK, ExecIdsUnique, [Next]_vars PROVE ExecIdsUnique'
  OBVIOUS
<1>0. TrackerTypeOK /\ WireTypeOK /\ ThreadTypeOK
  BY DEF TypeOK
<1>1. ASSUME NEW n \in Nodes, NEW d \in Dags, Submit(n, d) PROVE ExecIdsUnique'
  <2>1. PICK f \in Slots :
          /\ tracker[n][f] = NoRecord
          /\ tracker' = [tracker EXCEPT ![n][f] = [exec |-> nextExec[n], status |-> "PENDING"]]
          /\ nextExec' = [nextExec EXCEPT ![n] = nextExec[n] + 1]
    BY <1>1 DEF Submit, TakeExecId, FirstFree
  <2>2. \A m \in Nodes : nextExec[m] \in Nat /\ nextExec'[m] \in Nat /\ nextExec[m] <= nextExec'[m]
    BY <1>0, <2>1 DEF TrackerTypeOK
  <2>3. \A m \in Nodes, s \in Slots : tracker[m][s] # NoRecord => tracker[m][s].exec \in Nat
    BY <1>0 DEF TrackerTypeOK, Record, ExecIds
  <2>4. ASSUME NEW m \in Nodes, NEW s \in Slots, m # n \/ s # f
        PROVE  tracker'[m][s] = tracker[m][s]
    BY <1>0, <2>1, <2>4 DEF TrackerTypeOK
  <2>5. tracker'[n][f].exec = nextExec[n] /\ nextExec'[n] = nextExec[n] + 1
    BY <1>0, <2>1 DEF TrackerTypeOK
  <2> QED
    BY <2>2, <2>3, <2>4, <2>5 DEF ExecIdsUnique
<1>2. ASSUME NEW n \in Nodes, SubmitRouteFails(n) PROVE ExecIdsUnique'
  BY <1>0, <1>2, UpdatedIds DEF SubmitRouteFails, Statuses, Terminal
<1>3. ASSUME NEW n \in Nodes, SubmitMark(n) PROVE ExecIdsUnique'
  BY <1>0, <1>3, UpdatedIds DEF SubmitMark, Statuses
<1>4. ASSUME NEW n \in Nodes, NEW p \in Nodes, ExecutionUpdate(n, p) PROVE ExecIdsUnique'
  <2>1. Head(wire[p][n]).status \in Statuses
    BY <1>0, <1>4, WireTail, RequestFields DEF ExecutionUpdate, Statuses
  <2> QED
    BY <1>0, <1>4, <2>1, UpdatedIds DEF ExecutionUpdate, Reported
<1>5. ASSUME NEW n \in Nodes, NEW t \in Executors, ReportLocal(n, t) PROVE ExecIdsUnique'
  <2>1. thread[n][t].status \in Statuses
    BY <1>0 DEF ThreadTypeOK, ThreadState, Statuses
  <2> QED
    BY <1>0, <1>5, <2>1, UpdatedIds DEF ReportLocal, Reported
<1>6. ASSUME NEW n \in Nodes, Cleanup(n) PROVE ExecIdsUnique'
  <2>1. \A m \in Nodes, s \in Slots : tracker'[m][s] # NoRecord => tracker'[m][s] = tracker[m][s]
    BY <1>0, <1>6 DEF Cleanup, TrackerTypeOK
  <2> QED
    BY <1>6, <2>1, KeptIds DEF Cleanup
<1>7. CASE UNCHANGED <<tracker, nextExec>>
  BY <1>7 DEF ExecIdsUnique
<1>8. ASSUME NEW n \in Nodes,
             \/ \E d \in Dags : LearnDag(n, d)
             \/ SubmitEnqueue(n) \/ SubmitRoute(n) \/ SubmitNoMemory(n) \/ ProcessEnqueue(n)
             \/ CatalogAdd(n) \/ StopExecutors(n)
             \/ \E p \in Nodes : ProcessMessage(n, p)
      PROVE  UNCHANGED <<tracker, nextExec>>
  BY <1>8 DEF LearnDag, SubmitEnqueue, SubmitRoute, SubmitNoMemory, ProcessEnqueue, CatalogAdd,
              StopExecutors, ProcessMessage
<1>9. ASSUME NEW n \in Nodes, NEW t \in Executors,
             \/ Pop(n, t) \/ FindDag(n, t) \/ DagNotFound(n, t) \/ RunDag(n, t)
             \/ ReportRemote(n, t) \/ ReportLost(n, t) \/ ExecutorExit(n, t)
      PROVE  UNCHANGED <<tracker, nextExec>>
  BY <1>9 DEF Pop, FindDag, DagNotFound, RunDag, ReportRemote, ReportLost, ExecutorExit
<1>10. CASE UNCHANGED vars
  BY <1>7, <1>10 DEF vars
<1> QED
  BY <1>1, <1>2, <1>3, <1>4, <1>5, <1>6, <1>7, <1>8, <1>9, <1>10 DEF Next, RpcStep, ExecutorStep

\* execution_tracker_update_status finds at most one record for an id, whatever
\* threads submit, report and clean up concurrently.
THEOREM UniqueExecIds == Spec => []ExecIdsUnique
<1>1. Init => ExecIdsUnique
  BY DEF Init, ExecIdsUnique
<1> QED
  BY <1>1, NextExecIdsUnique, TypeCorrect, PTL DEF Spec
============================================================================
