----------------------- MODULE ExecutionStatusProofs -----------------------
(***************************************************************************)
(* What the execution tracker and the active_executions counter say is     *)
(* true: the statuses a client polls, the records the cleanup keeps, the   *)
(* number of busy executors.                                               *)
(***************************************************************************)
EXTENDS ExecutionOnceProofs, FiniteSetTheorems

-----------------------------------------------------------------------------
(***************************************************************************)
(* What reports say                                                        *)
(***************************************************************************)

\* A submission is about a message of the node's own.
RpcOwns ==
  \A a \in Nodes : rpc[a].pc \in {"enqueue", "route", "mark"} => rpc[a].msg.origin = a

\* A report carries the outcome that the execution it is about had; whose tracker
\* it reaches depends on the sender id.
ThreadReports ==
  \A a \in Nodes, t \in Executors : thread[a][t].pc = "report" =>
    outcome[thread[a][t].msg.origin][thread[a][t].msg.exec] = <<thread[a][t].status>>

\* What a request on a channel says, when the outcomes are out.
RequestOK(req, out) == req.func = "EXECUTION_UPDATE" => out[req.origin][req.exec] = <<req.status>>

WireReports ==
  \A a, b \in Nodes : \A i \in DOMAIN wire[a][b] : RequestOK(wire[a][b][i], outcome)

Reports == RpcOwns /\ ThreadReports /\ WireReports

\* An outcome, once there, stays: no step runs a DAG a second time.  What is known
\* of misled records is not forgotten.
Grows ==
  /\ \A n \in Nodes, e \in ExecIds : outcome[n][e] # <<>> => outcome'[n][e] = outcome[n][e]
  /\ misled \subseteq misled'

\* Every step keeps the outcomes that are there: RunDag runs a message that the
\* executor alone holds, and whose outcome is therefore still empty.
LEMMA OutcomeGrows ==
  ASSUME TypeOK, Once, [Next]_vars
  PROVE  Grows
<1>1. ASSUME NEW n \in Nodes, NEW t \in Executors, RunDag(n, t) PROVE Grows
  <2>1. thread[n][t].pc = "run" /\ thread[n][t].msg \in Message
    BY <1>1 DEF RunDag, TypeOK, ThreadTypeOK
  <2>2. PICK o \in Nodes, x \in ExecIds :
          o = thread[n][t].msg.origin /\ x = thread[n][t].msg.exec
    BY <2>1 DEF Message
  <2>3. PICK st \in Terminal : outcome' = [outcome EXCEPT ![o][x] = Append(@, st)]
    BY <1>1, <2>2 DEF RunDag
  <2>4. Place(o, x, "thread", n, t, 0)
    BY <2>1, <2>2, NullAssumption DEF Place, AtThread, Holds
  <2>5. outcome[o][x] = <<>>
    BY <2>4, UnrunIsPlace DEF Once, Fresh
  <2> QED
    BY <1>1, <2>3, <2>5 DEF Grows, TypeOK, RunDag
<1>2. outcome' = outcome /\ misled \subseteq misled' => Grows
  BY DEF Grows
<1>3. ASSUME NEW n \in Nodes, RpcStep(n) \/ \E d \in Dags : Submit(n, d) \/ LearnDag(n, d)
      PROVE  outcome' = outcome /\ misled \subseteq misled'
  BY <1>3 DEF RpcStep, Submit, LearnDag, SubmitEnqueue, SubmitRoute, SubmitRouteFails,
              SubmitNoMemory, SubmitMark, ProcessEnqueue, CatalogAdd, ProcessMessage, ExecutionUpdate,
              Reported
<1>4. ASSUME NEW n \in Nodes, NEW t \in Executors, ExecutorStep(n, t), ~RunDag(n, t)
      PROVE  outcome' = outcome /\ misled \subseteq misled'
  BY <1>4 DEF ExecutorStep, Pop, FindDag, DagNotFound, ReportLocal, ReportRemote, ReportLost,
              ExecutorExit, Reported
<1>5. ASSUME NEW n \in Nodes, Cleanup(n) \/ StopExecutors(n) PROVE outcome' = outcome /\ misled \subseteq misled'
  BY <1>5 DEF Cleanup, StopExecutors
<1>6. UNCHANGED vars => outcome' = outcome /\ misled \subseteq misled'
  BY DEF vars
<1> QED
  BY <1>1, <1>2, <1>3, <1>4, <1>5, <1>6 DEF Next

\* The RPC thread goes to state R: a submission is of a message of its own.
LEMMA RpcOwnsSet ==
  ASSUME RpcTypeOK, RpcOwns, NEW m \in Nodes, NEW R, rpc' = [rpc EXCEPT ![m] = R],
         R.pc \in {"enqueue", "route", "mark"} => R.msg.origin = m
  PROVE  RpcOwns'
<1>1. \A a \in Nodes : rpc'[a] = IF a = m THEN R ELSE rpc[a]
  BY DEF RpcTypeOK
<1> QED
  BY <1>1 DEF RpcOwns

\* An element of a sequence with one more element is that one or an old one.
LEMMA AppendIndex ==
  ASSUME NEW S, NEW q \in Seq(S), NEW x \in S, NEW i, i \in DOMAIN Append(q, x)
  PROVE  \/ Append(q, x)[i] = x
         \/ i \in DOMAIN q /\ Append(q, x)[i] = q[i]
<1>1. i \in 1 .. Len(q) + 1
  OBVIOUS
<1>2. CASE i = Len(q) + 1
  BY <1>2
<1>3. CASE i # Len(q) + 1
  <2>1. i \in 1 .. Len(q)
    BY <1>1, <1>3
  <2> QED
    BY <2>1
<1> QED
  BY <1>2, <1>3

\* An executor goes to state T.
LEMMA ThreadReportsSet ==
  ASSUME ThreadTypeOK, ThreadReports, Grows,
         NEW m \in Nodes, NEW u \in Executors, NEW T, thread' = [thread EXCEPT ![m][u] = T],
         T.pc = "report" => outcome'[T.msg.origin][T.msg.exec] = <<T.status>>
  PROVE  ThreadReports'
<1>1. \A a \in Nodes, t \in Executors :
        thread'[a][t] = IF a = m /\ t = u THEN T ELSE thread[a][t]
  BY DEF ThreadTypeOK
<1>3. ASSUME NEW a \in Nodes, NEW t \in Executors, thread'[a][t].pc = "report"
      PROVE  outcome'[thread'[a][t].msg.origin][thread'[a][t].msg.exec] = <<thread'[a][t].status>>
  <2>1. CASE a = m /\ t = u
    BY <1>1, <1>3, <2>1
  <2>2. CASE ~(a = m /\ t = u)
    <3>1. thread'[a][t] = thread[a][t] /\ thread[a][t].pc = "report"
      BY <1>1, <1>3, <2>2
    <3>2. thread[a][t].msg.origin \in Nodes /\ thread[a][t].msg.exec \in ExecIds
      <4>1. thread[a][t].msg \in Message
        BY <3>1 DEF ThreadTypeOK
      <4> QED
        BY <4>1 DEF Message
    <3>3. outcome[thread[a][t].msg.origin][thread[a][t].msg.exec] = <<thread[a][t].status>>
      BY <3>1 DEF ThreadReports
    <3>4. <<thread[a][t].status>> # <<>>
      OBVIOUS
    <3> QED
      BY <3>1, <3>2, <3>3, <3>4 DEF Grows
  <2> QED
    BY <2>1, <2>2
<1> QED
  BY <1>3 DEF ThreadReports

\* A request that is all right stays so as outcomes are added.
LEMMA RequestStays ==
  ASSUME Grows, NEW req \in Request, RequestOK(req, outcome)
  PROVE  RequestOK(req, outcome')
<1>1. req.func = "EXECUTION_UPDATE" => req.exec \in ExecIds /\ req.origin \in Nodes
  BY RequestFields
<1>2. <<req.status>> # <<>>
  OBVIOUS
<1> QED
  BY <1>1, <1>2 DEF RequestOK, Grows

\* Nothing is sent or received.
LEMMA WireIdle ==
  ASSUME WireTypeOK, WireReports, Grows, wire' = wire
  PROVE  WireReports'
<1>1. ASSUME NEW a \in Nodes, NEW b \in Nodes, NEW i \in DOMAIN wire'[a][b]
      PROVE  RequestOK(wire'[a][b][i], outcome')
  <2>1. wire[a][b][i] \in Request /\ wire'[a][b][i] = wire[a][b][i]
    BY DEF WireTypeOK
  <2>2. RequestOK(wire[a][b][i], outcome)
    BY DEF WireReports
  <2> QED
    BY <2>1, <2>2, RequestStays
<1> QED
  BY <1>1 DEF WireReports

\* A request is written to the channel from m to p.
LEMMA WireSends ==
  ASSUME WireTypeOK, WireReports, Grows,
         NEW m \in Nodes, NEW p \in Nodes, NEW req \in Request, RequestOK(req, outcome'),
         wire' = [wire EXCEPT ![m][p] = Append(@, req)]
  PROVE  WireReports'
<1>1. ASSUME NEW a \in Nodes, NEW b \in Nodes, NEW i \in DOMAIN wire'[a][b]
      PROVE  RequestOK(wire'[a][b][i], outcome')
  <2>1. /\ wire'[a][b] = IF a = m /\ b = p THEN Append(wire[a][b], req) ELSE wire[a][b]
        /\ wire[a][b] \in Seq(Request)
    BY DEF WireTypeOK
  <2>2. \/ a = m /\ b = p /\ wire'[a][b][i] = req
        \/ i \in DOMAIN wire[a][b] /\ wire'[a][b][i] = wire[a][b][i]
    <3>1. CASE a = m /\ b = p
      <4>1. wire'[a][b] = Append(wire[a][b], req)
        BY <2>1, <3>1
      <4> QED
        BY <2>1, <3>1, <4>1, AppendIndex
    <3>2. CASE ~(a = m /\ b = p)
      BY <2>1, <3>2
    <3> QED
      BY <3>1, <3>2
  <2>3. CASE i \in DOMAIN wire[a][b] /\ wire'[a][b][i] = wire[a][b][i]
    <3>1. wire[a][b][i] \in Request
      BY <2>1, <2>3
    <3>2. RequestOK(wire[a][b][i], outcome)
      BY <2>3 DEF WireReports
    <3> QED
      BY <2>3, <3>1, <3>2, RequestStays
  <2> QED
    BY <2>2, <2>3
<1> QED
  BY <1>1 DEF WireReports

\* A request is read from the channel from p to m.
LEMMA WireReceives ==
  ASSUME WireTypeOK, WireReports, Grows,
         NEW m \in Nodes, NEW p \in Nodes, wire[p][m] # <<>>,
         wire' = [wire EXCEPT ![p][m] = Tail(@)]
  PROVE  WireReports' /\ RequestOK(Head(wire[p][m]), outcome)
<1>1. ASSUME NEW a \in Nodes, NEW b \in Nodes, NEW i \in DOMAIN wire'[a][b]
      PROVE  RequestOK(wire'[a][b][i], outcome')
  <2>1. /\ wire'[a][b] = IF a = p /\ b = m THEN Tail(wire[a][b]) ELSE wire[a][b]
        /\ wire[a][b] \in Seq(Request)
    BY DEF WireTypeOK
  <2>2. PICK j \in DOMAIN wire[a][b] : wire'[a][b][i] = wire[a][b][j]
    <3>1. CASE a = p /\ b = m
      <4>1. wire'[a][b] = Tail(wire[a][b]) /\ wire[a][b] # <<>>
        BY <2>1, <3>1
      <4>2. i + 1 \in DOMAIN wire[a][b] /\ wire'[a][b][i] = wire[a][b][i + 1]
        BY <2>1, <4>1, TailIndex
      <4> QED
        BY <4>2
    <3>2. CASE ~(a = p /\ b = m)
      BY <2>1, <3>2
    <3> QED
      BY <3>1, <3>2
  <2>3. wire[a][b][j] \in Request
    BY <2>1
  <2>4. RequestOK(wire[a][b][j], outcome)
    BY DEF WireReports
  <2> QED
    BY <2>2, <2>3, <2>4, RequestStays
<1>2. 1 \in DOMAIN wire[p][m] /\ Head(wire[p][m]) = wire[p][m][1]
  BY DEF WireTypeOK
<1>3. RequestOK(wire[p][m][1], outcome)
  BY <1>2 DEF WireReports
<1> QED
  BY <1>1, <1>2, <1>3 DEF WireReports

\* No executor takes a step.
LEMMA ThreadIdle ==
  ASSUME ThreadTypeOK, ThreadReports, Grows, thread' = thread
  PROVE  ThreadReports'
<1>2. ASSUME NEW a \in Nodes, NEW t \in Executors, thread[a][t].pc = "report"
      PROVE  outcome'[thread[a][t].msg.origin][thread[a][t].msg.exec] = <<thread[a][t].status>>
  <2>1. thread[a][t].msg \in Message
    BY <1>2 DEF ThreadTypeOK
  <2>2. thread[a][t].msg.origin \in Nodes /\ thread[a][t].msg.exec \in ExecIds
    BY <2>1 DEF Message
  <2>3. outcome[thread[a][t].msg.origin][thread[a][t].msg.exec] = <<thread[a][t].status>>
    BY <1>2 DEF ThreadReports
  <2>4. <<thread[a][t].status>> # <<>>
    OBVIOUS
  <2> QED
    BY <2>2, <2>3, <2>4 DEF Grows
<1> QED
  BY <1>2 DEF ThreadReports

\* No RPC thread takes a step.
LEMMA RpcIdle == RpcOwns /\ rpc' = rpc => RpcOwns'
BY DEF RpcOwns

\* Every step of the RPC threads keeps what reports say true.
LEMMA RpcReports ==
  ASSUME TypeOK, Reports, Grows, NEW n \in Nodes,
         RpcStep(n) \/ \E d \in Dags : Submit(n, d) \/ LearnDag(n, d)
  PROVE  Reports'
<1>0. /\ RpcTypeOK /\ WireTypeOK /\ ThreadTypeOK
      /\ RpcOwns /\ ThreadReports /\ WireReports
  BY DEF TypeOK, Reports
<1>1. thread' = thread
  BY DEF RpcStep, Submit, LearnDag, SubmitEnqueue, SubmitRoute, SubmitRouteFails,
         SubmitNoMemory, SubmitMark, ProcessEnqueue, CatalogAdd, ProcessMessage, ExecutionUpdate
<1>2. ThreadReports'
  BY <1>0, <1>1, ThreadIdle
<1>3. IdleRpc.pc = "idle"
  BY DEF IdleRpc
<1> DEFINE R == [rpc[n] EXCEPT !.pc = "mark"]
<1>4. R.pc = "mark" /\ R.msg = rpc[n].msg
  BY <1>0 DEF RpcTypeOK, RpcState
<1> HIDE DEF R
<1>5. ASSUME NEW d \in Dags, Submit(n, d) PROVE Reports'
  <2>1. PICK peer \in Targets(n), sender \in StaleSenders :
          rpc' = [rpc EXCEPT ![n] =
                    [pc |-> IF peer = n THEN "enqueue" ELSE "route",
                     msg |-> [exec |-> nextExec[n], dag |-> d, sender |-> sender, origin |-> n],
                     peer |-> peer, dag |-> NoDag]]
    BY <1>5 DEF Submit
  <2> DEFINE S == [pc |-> IF peer = n THEN "enqueue" ELSE "route",
                   msg |-> [exec |-> nextExec[n], dag |-> d, sender |-> sender, origin |-> n],
                   peer |-> peer, dag |-> NoDag]
  <2>2. wire' = wire
    BY <1>5 DEF Submit
  <2>3. S.msg.origin = n /\ rpc' = [rpc EXCEPT ![n] = S]
    BY <2>1
  <2> HIDE DEF S
  <2>4. RpcOwns'
    BY <1>0, <2>3, RpcOwnsSet
  <2> QED
    BY <1>0, <1>2, <2>2, <2>4, WireIdle DEF Reports
<1>6. ASSUME NEW d \in Dags, LearnDag(n, d) PROVE Reports'
  <2> DEFINE L == [IdleRpc EXCEPT !.pc = "learn", !.dag = d]
  <2>1. rpc' = [rpc EXCEPT ![n] = L] /\ wire' = wire
    BY <1>6 DEF LearnDag
  <2>2. L.pc = "learn"
    BY DEF IdleRpc
  <2> HIDE DEF L
  <2>3. RpcOwns'
    BY <1>0, <2>1, <2>2, RpcOwnsSet
  <2> QED
    BY <1>0, <1>2, <2>1, <2>3, WireIdle DEF Reports
<1>7. CASE SubmitEnqueue(n)
  <2>1. rpc[n].pc = "enqueue" /\ wire' = wire /\ rpc' = [rpc EXCEPT ![n] = R]
    BY <1>7 DEF SubmitEnqueue, R
  <2>2. rpc[n].msg.origin = n
    BY <1>0, <2>1 DEF RpcOwns
  <2>3. RpcOwns'
    BY <1>0, <1>4, <2>1, <2>2, RpcOwnsSet
  <2> QED
    BY <1>0, <1>2, <2>1, <2>3, WireIdle DEF Reports
<1>8. CASE SubmitRoute(n)
  <2> DEFINE p == rpc[n].peer
             req == [func |-> "PROCESS_MESSAGE", msg |-> rpc[n].msg]
  <2>1. /\ rpc[n].pc = "route" /\ wire' = [wire EXCEPT ![n][p] = Append(@, req)]
        /\ rpc' = [rpc EXCEPT ![n] = R]
    BY <1>8 DEF SubmitRoute, R
  <2>2. rpc[n].msg \in Message /\ rpc[n].msg.origin = n /\ p \in Nodes
    BY <1>0, <2>1 DEF RpcTypeOK, RpcOwns
  <2>3. req \in Request /\ RequestOK(req, outcome')
    BY <2>2 DEF Request, RequestOK
  <2>4. RpcOwns'
    BY <1>0, <1>4, <2>1, <2>2, RpcOwnsSet
  <2> HIDE DEF p, req
  <2>5. WireReports'
    BY <1>0, <2>1, <2>2, <2>3, WireSends
  <2> QED
    BY <1>2, <2>4, <2>5 DEF Reports
<1>9. CASE \/ SubmitRouteFails(n) \/ SubmitNoMemory(n) \/ SubmitMark(n) \/ CatalogAdd(n)
           \/ ProcessEnqueue(n)
  <2>1. rpc' = [rpc EXCEPT ![n] = IdleRpc] /\ wire' = wire
    BY <1>9 DEF SubmitRouteFails, SubmitNoMemory, SubmitMark, CatalogAdd, ProcessEnqueue
  <2>2. RpcOwns'
    BY <1>0, <1>3, <2>1, RpcOwnsSet
  <2> QED
    BY <1>0, <1>2, <2>1, <2>2, WireIdle DEF Reports
<1>10. ASSUME NEW p \in Nodes, ProcessMessage(n, p) PROVE Reports'
  <2> DEFINE P == [pc |-> "accept", msg |-> Head(wire[p][n]).msg, peer |-> p, dag |-> NoDag]
  <2>1. /\ wire[p][n] # <<>> /\ rpc' = [rpc EXCEPT ![n] = P]
        /\ wire' = [wire EXCEPT ![p][n] = Tail(@)]
    BY <1>10 DEF ProcessMessage
  <2>2. P.pc = "accept"
    OBVIOUS
  <2> HIDE DEF P
  <2>3. WireReports' /\ RpcOwns'
    BY <1>0, <2>1, <2>2, WireReceives, RpcOwnsSet
  <2> QED
    BY <1>2, <2>3 DEF Reports
<1>11. ASSUME NEW p \in Nodes, ExecutionUpdate(n, p) PROVE Reports'
  <2>1. wire[p][n] # <<>> /\ wire' = [wire EXCEPT ![p][n] = Tail(@)] /\ rpc' = rpc
    BY <1>11 DEF ExecutionUpdate
  <2> QED
    BY <1>0, <1>2, <2>1, WireReceives, RpcIdle DEF Reports
<1> QED
  BY <1>5, <1>6, <1>7, <1>8, <1>9, <1>10, <1>11 DEF RpcStep

\* Every step of the executors does too.
LEMMA ExecutorReports ==
  ASSUME TypeOK, Once, Reports, Grows, NEW n \in Nodes, NEW t \in Executors, ExecutorStep(n, t)
  PROVE  Reports'
<1>0. /\ RpcTypeOK /\ WireTypeOK /\ ThreadTypeOK
      /\ RpcOwns /\ ThreadReports /\ WireReports
  BY DEF TypeOK, Reports
<1>1. RpcOwns'
  <2>1. rpc' = rpc
    BY DEF ExecutorStep, Pop, FindDag, DagNotFound, RunDag, ReportLocal, ReportRemote,
           ReportLost, ExecutorExit
  <2> QED
    BY <1>0, <2>1, RpcIdle
<1>2. IdleThread.pc = "idle"
  BY DEF IdleThread
<1>3. ASSUME NEW T, T.pc # "report", thread' = [thread EXCEPT ![n][t] = T], wire' = wire
      PROVE  Reports'
  BY <1>0, <1>1, <1>3, ThreadReportsSet, WireIdle DEF Reports
<1>4. CASE Pop(n, t) \/ FindDag(n, t)
  <2>1. ASSUME NEW pc, pc # "report", NEW msg,
               thread' = [thread EXCEPT ![n][t] = [pc |-> pc, msg |-> msg, status |-> "FAILED"]]
        PROVE  Reports'
    <3> DEFINE T == [pc |-> pc, msg |-> msg, status |-> "FAILED"]
    <3>1. T.pc # "report" /\ thread' = [thread EXCEPT ![n][t] = T] /\ wire' = wire
      BY <1>4, <2>1 DEF Pop, FindDag
    <3> HIDE DEF T
    <3> QED
      BY <1>3, <3>1
  <2>2. CASE Pop(n, t)
    BY <2>1, <2>2 DEF Pop
  <2>3. CASE FindDag(n, t)
    BY <2>1, <2>3 DEF FindDag
  <2> QED
    BY <1>4, <2>2, <2>3
<1>5. CASE RunDag(n, t)
  <2>1. thread[n][t].pc = "run" /\ thread[n][t].msg \in Message /\ wire' = wire
    BY <1>0, <1>5 DEF RunDag, ThreadTypeOK
  <2>2. PICK o \in Nodes, x \in ExecIds :
          o = thread[n][t].msg.origin /\ x = thread[n][t].msg.exec
    BY <2>1 DEF Message
  <2>3. PICK st \in Terminal :
          /\ thread' = [thread EXCEPT ![n][t] = [pc |-> "report", msg |-> thread[n][t].msg, status |-> st]]
          /\ outcome' = [outcome EXCEPT ![o][x] = Append(@, st)]
    BY <1>5, <2>2 DEF RunDag
  <2> DEFINE T == [pc |-> "report", msg |-> thread[n][t].msg, status |-> st]
  <2>4. /\ thread' = [thread EXCEPT ![n][t] = T]
        /\ T.pc = "report" /\ T.msg = thread[n][t].msg /\ T.status = st
    BY <2>3
  <2>5. outcome'[o][x] = <<st>>
    <3>1. Place(o, x, "thread", n, t, 0)
      BY <2>1, <2>2, NullAssumption DEF Place, AtThread, Holds
    <3>2. outcome[o][x] = <<>>
      BY <3>1, UnrunIsPlace DEF Once, Fresh
    <3>3. outcome'[o][x] = Append(outcome[o][x], st)
      BY <2>3 DEF TypeOK
    <3> QED
      BY <3>2, <3>3
  <2> HIDE DEF T
  <2>6. outcome'[T.msg.origin][T.msg.exec] = <<T.status>>
    BY <2>2, <2>4, <2>5
  <2>7. ThreadReports'
    BY <1>0, <2>4, <2>6, ThreadReportsSet
  <2> QED
    BY <1>0, <1>1, <2>1, <2>7, WireIdle DEF Reports
<1>6. CASE ReportRemote(n, t)
  <2> DEFINE p == thread[n][t].msg.sender
             req == [func |-> "EXECUTION_UPDATE", exec |-> thread[n][t].msg.exec,
                     status |-> thread[n][t].status, origin |-> thread[n][t].msg.origin]
  <2>1. /\ thread[n][t].pc = "report" /\ <<n, p>> \in Channels
        /\ thread' = [thread EXCEPT ![n][t] = IdleThread]
        /\ wire' = [wire EXCEPT ![n][p] = Append(@, req)]
    BY <1>6 DEF ReportRemote
  <2>2. p \in Nodes
    <3>1. <<n, p>> \in Channels
      BY <2>1
    <3> HIDE DEF p
    <3> QED
      BY <3>1, ConstantsAssumption
  <2>3. req \in Request
    <3>1. thread[n][t].msg \in Message /\ thread[n][t].status \in Terminal
      BY <1>0, <2>1 DEF ThreadTypeOK, ThreadState
    <3> QED
      BY <3>1 DEF Request, Message
  <2>4. RequestOK(req, outcome')
    <3>1. RequestOK(req, outcome)
      BY <1>0, <2>1 DEF ThreadReports, RequestOK
    <3> HIDE DEF req
    <3> QED
      BY <2>3, <3>1, RequestStays
  <2>5. ThreadReports'
    BY <1>0, <1>2, <2>1, ThreadReportsSet
  <2> HIDE DEF p, req
  <2>6. WireReports'
    BY <1>0, <2>1, <2>2, <2>3, <2>4, WireSends
  <2> QED
    BY <1>1, <2>5, <2>6 DEF Reports
<1>7. CASE DagNotFound(n, t) \/ ReportLocal(n, t) \/ ReportLost(n, t)
  <2>1. thread' = [thread EXCEPT ![n][t] = IdleThread] /\ wire' = wire
    BY <1>7 DEF DagNotFound, ReportLocal, ReportLost
  <2> QED
    BY <1>2, <1>3, <2>1
<1>8. CASE ExecutorExit(n, t)
  <2> DEFINE T == [IdleThread EXCEPT !.pc = "exited"]
  <2>1. thread' = [thread EXCEPT ![n][t] = T] /\ wire' = wire
    BY <1>8 DEF ExecutorExit
  <2>2. T.pc = "exited"
    BY DEF IdleThread
  <2> HIDE DEF T
  <2> QED
    BY <1>3, <2>1, <2>2
<1> QED
  BY <1>4, <1>5, <1>6, <1>7, <1>8 DEF ExecutorStep

\* Reports tell the truth, after every step.
LEMMA NextReports ==
  ASSUME TypeOK, Once, Reports, [Next]_vars
  PROVE  Reports'
<1>1. Grows
  BY OutcomeGrows
<1>2. ASSUME UNCHANGED <<rpc, wire, thread>> PROVE Reports'
  BY <1>1, <1>2, ThreadIdle, RpcIdle, WireIdle DEF Reports, TypeOK
<1>3. ASSUME NEW n \in Nodes, Cleanup(n) \/ StopExecutors(n) PROVE Reports'
  BY <1>2, <1>3 DEF Cleanup, StopExecutors
<1>4. CASE UNCHANGED vars
  BY <1>2, <1>4 DEF vars
<1> QED
  BY <1>1, <1>3, <1>4, RpcReports, ExecutorReports DEF Next

-----------------------------------------------------------------------------
(***************************************************************************)
(* The tracker's records                                                   *)
(***************************************************************************)

\* Slot s of n's tracker holds the record of execution e, with status st.
RecordIs(n, s, e, st) ==
  tracker[n][s] # NoRecord /\ tracker[n][s].exec = e /\ tracker[n][s].status = st

\* StatusTruthful, record by record.
LEMMA TruthByRecord ==
  ASSUME TrackerTypeOK
  PROVE  StatusTruthful <=>
           \A n \in Nodes, s \in Slots, e \in ExecIds, st \in Statuses :
             RecordIs(n, s, e, st) => Shown(n, e, st)
<1>1. \A n \in Nodes, s \in Slots : tracker[n][s] # NoRecord =>
        tracker[n][s].exec \in ExecIds /\ tracker[n][s].status \in Statuses
  BY DEF TrackerTypeOK, Record
<1> QED
  BY <1>1 DEF StatusTruthful, RecordIs

\* It holds after a step if it holds of each record there is then.
LEMMA TruthOfRecords ==
  ASSUME TrackerTypeOK',
         \A n \in Nodes, s \in Slots, e \in ExecIds, st \in Statuses :
           RecordIs(n, s, e, st)' => Shown(n, e, st)'
  PROVE  StatusTruthful'
<1> SUFFICES ASSUME NEW n \in Nodes, NEW s \in Slots, tracker'[n][s] # NoRecord
             PROVE  Shown(n, tracker[n][s].exec, tracker[n][s].status)'
  BY DEF StatusTruthful
<1>1. tracker'[n][s].exec \in ExecIds /\ tracker'[n][s].status \in Statuses
  BY DEF TrackerTypeOK, Record
<1>2. PICK e \in ExecIds, st \in Statuses : e = tracker'[n][s].exec /\ st = tracker'[n][s].status
  BY <1>1
<1>3. Shown(n, e, st)'
  BY <1>2 DEF RecordIs
<1> QED
  BY <1>2, <1>3

\* The step calls execution_tracker_update_status on n's tracker.
Updates(n, e, st) == tracker' = [tracker EXCEPT ![n] = UpdateStatus(@, e, st)]

\* execution_tracker_update_status changes the record of execution e only, if
\* there is one.
LEMMA UpdatedRecords ==
  ASSUME TrackerTypeOK, NEW n \in Nodes, NEW e, NEW st \in Statuses,
         Updates(n, e, st),
         NEW m \in Nodes, NEW s \in Slots, NEW x, NEW su, RecordIs(m, s, x, su)'
  PROVE  \/ RecordIs(m, s, x, su)
         \/ m = n /\ x = e /\ su = st /\ Tracked(n, e)
<1>1. CASE m # n
  <2>1. tracker'[m] = tracker[m]
    BY <1>1 DEF TrackerTypeOK, Updates
  <2> QED
    BY <2>1 DEF RecordIs
<1>2. CASE m = n
  <2>1. tracker'[m][s] = IF tracker[m][s] # NoRecord /\ tracker[m][s].exec = e
                         THEN [tracker[m][s] EXCEPT !.status = st]
                         ELSE tracker[m][s]
    BY <1>2 DEF TrackerTypeOK, UpdateStatus, Updates
  <2>2. CASE tracker[m][s] # NoRecord /\ tracker[m][s].exec = e
    <3>1. tracker[m][s] \in Record
      BY <2>2 DEF TrackerTypeOK
    <3>2. tracker'[m][s].exec = e /\ tracker'[m][s].status = st
      BY <2>1, <2>2, <3>1 DEF Record
    <3> QED
      BY <1>2, <2>2, <3>2 DEF RecordIs, Tracked
  <2>3. CASE ~(tracker[m][s] # NoRecord /\ tracker[m][s].exec = e)
    <3>1. tracker'[m][s] = tracker[m][s]
      BY <2>1, <2>3
    <3> QED
      BY <3>1 DEF RecordIs
  <2> QED
    BY <2>2, <2>3
<1> QED
  BY <1>1, <1>2

\* What a record shows stays right while no message appears and no other DAG run
\* of its execution ends.
LEMMA ShownStays ==
  ASSUME Grows, NEW n \in Nodes, NEW e \in ExecIds, NEW st, Shown(n, e, st),
         Unrun(n, e)' => Unrun(n, e), outcome'[n][e] = outcome[n][e]
  PROVE  Shown(n, e, st)'
<1>1. Truthful(n, e, st) => Truthful(n, e, st)'
  BY DEF Truthful
<1>2. <<st>> # <<>>
  OBVIOUS
<1> QED
  BY <1>1, <1>2 DEF Shown, Grows

\* The step updates the record of e at n, if there is one, to st, and that may be
\* shown.
LEMMA UpdateKeepsTruth ==
  ASSUME TypeOK, TypeOK', StatusTruthful, NoneAppears, Grows, outcome' = outcome,
         NEW n \in Nodes, NEW e \in ExecIds, NEW st \in Statuses,
         Updates(n, e, st),
         Tracked(n, e) => Shown(n, e, st)'
  PROVE  StatusTruthful'
<1>0. TrackerTypeOK /\ TrackerTypeOK'
  BY DEF TypeOK
<1>1. ASSUME NEW m \in Nodes, NEW s \in Slots, NEW x \in ExecIds, NEW su \in Statuses,
             RecordIs(m, s, x, su)'
      PROVE  Shown(m, x, su)'
  <2>1. RecordIs(m, s, x, su) \/ (m = n /\ x = e /\ su = st /\ Tracked(n, e))
    BY <1>0, <1>1, UpdatedRecords
  <2>2. CASE RecordIs(m, s, x, su)
    <3>1. Shown(m, x, su)
      BY <1>0, <2>2, TruthByRecord
    <3>2. Unrun(m, x)' => Unrun(m, x)
      BY DEF NoneAppears
    <3> QED
      BY <3>1, <3>2, ShownStays
  <2> QED
    BY <2>1, <2>2
<1> QED
  BY <1>0, <1>1, TruthOfRecords

\* The step leaves records alone or frees some, and adds no outcome.
LEMMA FreeingKeepsTruth ==
  ASSUME TypeOK, TypeOK', StatusTruthful, NoneAppears, Grows, outcome' = outcome,
         \A n \in Nodes, s \in Slots : tracker'[n][s] # NoRecord => tracker'[n][s] = tracker[n][s]
  PROVE  StatusTruthful'
<1>0. TrackerTypeOK /\ TrackerTypeOK'
  BY DEF TypeOK
<1>1. ASSUME NEW m \in Nodes, NEW s \in Slots, NEW x \in ExecIds, NEW su \in Statuses,
             RecordIs(m, s, x, su)'
      PROVE  Shown(m, x, su)'
  <2>1. RecordIs(m, s, x, su)
    BY <1>1 DEF RecordIs
  <2>2. Shown(m, x, su)
    BY <1>0, <2>1, TruthByRecord
  <2>3. Unrun(m, x)' => Unrun(m, x)
    BY DEF NoneAppears
  <2> QED
    BY <2>2, <2>3, ShownStays
<1> QED
  BY <1>0, <1>1, TruthOfRecords

\* Statuses stay true.  Needs, next to TypeOK, that messages are in one place
\* with a fresh id (Once), that reports tell the truth (Reports), and that ids
\* are unique.
LEMMA NextTruthful ==
  ASSUME TypeOK, TypeOK', Once, Once', Reports, ExecIdsUnique,
         StatusTruthful, [Next]_vars
  PROVE  StatusTruthful'
<1>0. /\ TrackerTypeOK /\ TrackerTypeOK' /\ RpcTypeOK /\ ThreadTypeOK /\ WireTypeOK
      /\ OnePlace /\ Fresh /\ Fresh'
      /\ RpcOwns /\ ThreadReports /\ WireReports /\ Grows
  BY OutcomeGrows DEF TypeOK, Once, Reports
<1>1. ASSUME NEW n \in Nodes, NEW d \in Dags, Submit(n, d) PROVE StatusTruthful'
  <2>1. \A m \in Nodes, e \in ExecIds :
          Unrun(m, e)' => Unrun(m, e) \/ (m = n /\ e = nextExec[n])
    BY <1>0, <1>1, SubmitPlaces
  <2>2. PICK f \in Slots :
          tracker' = [tracker EXCEPT ![n][f] = [exec |-> nextExec[n], status |-> "PENDING"]]
    BY <1>1 DEF Submit
  <2>3. outcome' = outcome
    BY <1>1 DEF Submit
  <2>4. ASSUME NEW m \in Nodes, NEW s \in Slots, NEW x \in ExecIds, NEW su \in Statuses,
               RecordIs(m, s, x, su)'
        PROVE  Shown(m, x, su)'
    <3>1. CASE m = n /\ s = f
      <4>1. su = "PENDING"
        BY <1>0, <2>2, <2>4, <3>1 DEF RecordIs, TrackerTypeOK
      <4> QED
        BY <4>1 DEF Shown, Truthful, Terminal
    <3>2. CASE ~(m = n /\ s = f)
      <4>1. tracker'[m][s] = tracker[m][s]
        BY <1>0, <2>2, <3>2 DEF TrackerTypeOK
      <4>2. RecordIs(m, s, x, su)
        BY <2>4, <4>1 DEF RecordIs
      <4>3. Shown(m, x, su)
        BY <1>0, <4>2, TruthByRecord
      <4>4. ~(m = n /\ x = nextExec[n])
        <5>1. x < nextExec[m] /\ x \in Int /\ nextExec[m] \in Int
          BY <1>0, <4>2 DEF ExecIdsUnique, RecordIs, ExecIds, TrackerTypeOK
        <5> QED
          BY <5>1
      <4> QED
        BY <1>0, <2>1, <2>3, <4>3, <4>4, ShownStays
    <3> QED
      BY <3>1, <3>2
  <2> QED
    BY <1>0, <2>4, TruthOfRecords
<1>2. ASSUME NEW n \in Nodes, SubmitRouteFails(n) PROVE StatusTruthful'
  <2>1. /\ rpc[n].pc = "route" /\ rpc' = [rpc EXCEPT ![n] = IdleRpc]
        /\ UNCHANGED <<queue, thread, wire, outcome>>
        /\ Updates(n, rpc[n].msg.exec, "FAILED")
    BY <1>2 DEF SubmitRouteFails, Updates
  <2>2. rpc[n].msg \in Message /\ rpc[n].msg.origin = n
    BY <1>0, <2>1 DEF RpcTypeOK, RpcOwns
  <2>3. PICK e \in ExecIds : e = rpc[n].msg.exec
    BY <2>2 DEF Message
  <2>4. AtRpc(n, e, n)
    BY <2>1, <2>2, <2>3, NullAssumption DEF AtRpc, Holds
  <2>5. Place(n, e, "rpc", n, n, 0)
    BY <2>4 DEF Place
  <2>6. outcome[n][e] = <<>>
    BY <1>0, <2>5, UnrunIsPlace DEF Fresh
  <2>7. ~Unrun(n, e)'
    <3>1. IdleRpc.pc \notin {"enqueue", "route", "accept"}
      BY DEF IdleRpc
    <3> QED
      BY <1>0, <2>1, <2>4, <3>1, RpcDrops
  <2>8. Shown(n, e, "FAILED")'
    BY <2>1, <2>6, <2>7 DEF Shown, Truthful
  <2>9. NoneAppears
    BY <1>0, <1>2, RpcMoves DEF RpcStep
  <2>10. Updates(n, e, "FAILED") /\ "FAILED" \in Statuses
    BY <2>1, <2>3 DEF Statuses, Terminal
  <2> QED
    BY <1>0, <2>1, <2>8, <2>9, <2>10, UpdateKeepsTruth
<1>3. ASSUME NEW n \in Nodes, SubmitMark(n) PROVE StatusTruthful'
  <2>1. /\ rpc[n].pc = "mark" /\ outcome' = outcome
        /\ Updates(n, rpc[n].msg.exec, "RUNNING")
    BY <1>3 DEF SubmitMark, Updates
  <2>2. rpc[n].msg \in Message
    BY <1>0, <2>1 DEF RpcTypeOK
  <2>3. PICK e \in ExecIds : e = rpc[n].msg.exec
    BY <2>2 DEF Message
  <2>4. NoneAppears
    BY <1>0, <1>3, RpcMoves DEF RpcStep
  <2>5. Shown(n, e, "RUNNING")'
    BY DEF Shown, Truthful, Terminal
  <2>6. Updates(n, e, "RUNNING") /\ "RUNNING" \in Statuses
    BY <2>1, <2>3 DEF Statuses
  <2> QED
    BY <1>0, <2>1, <2>4, <2>5, <2>6, UpdateKeepsTruth
<1>4. ASSUME NEW n \in Nodes, NEW e \in ExecIds, NEW st \in Terminal, NEW o \in Nodes,
             Reported(n, e, st, o), outcome[o][e] = <<st>>, outcome' = outcome, NoneAppears
      PROVE  StatusTruthful'
  <2>1. Updates(n, e, st) /\ st \in Statuses
    BY <1>4 DEF Reported, Updates, Statuses
  <2>2. CASE o = n
    <3>1. ~Unrun(n, e)'
      <4>1. <<st>> # <<>>
        OBVIOUS
      <4>2. ~Unrun(n, e)
        BY <1>0, <1>4, <2>2, <4>1 DEF Fresh
      <4> QED
        BY <1>4, <4>2 DEF NoneAppears
    <3>2. Shown(n, e, st)'
      BY <1>4, <2>2, <3>1 DEF Shown, Truthful, Terminal
    <3> QED
      BY <1>0, <1>4, <2>1, <3>2, UpdateKeepsTruth
  <2>3. CASE o # n
    <3>1. Tracked(n, e) => <<n, e>> \in misled'
      BY <1>4, <2>3 DEF Reported
    <3>2. Tracked(n, e) => Shown(n, e, st)'
      BY <1>4, <2>3, <3>1 DEF Shown
    <3> QED
      BY <1>0, <1>4, <2>1, <3>2, UpdateKeepsTruth
  <2> QED
    BY <2>2, <2>3
<1>5. ASSUME NEW n \in Nodes, NEW p \in Nodes, ExecutionUpdate(n, p) PROVE StatusTruthful'
  <2> DEFINE h == Head(wire[p][n])
  <2>1. /\ wire[p][n] # <<>> /\ h.func = "EXECUTION_UPDATE" /\ outcome' = outcome
        /\ Reported(n, h.exec, h.status, h.origin)
    BY <1>5 DEF ExecutionUpdate
  <2>2. h \in Request /\ 1 \in DOMAIN wire[p][n] /\ h = wire[p][n][1]
    BY <1>0, <2>1 DEF WireTypeOK
  <2>3. h.exec \in ExecIds /\ h.status \in Terminal /\ h.origin \in Nodes
    BY <2>1, <2>2, RequestFields
  <2>4. outcome[h.origin][h.exec] = <<h.status>>
    BY <1>0, <2>1, <2>2 DEF WireReports, RequestOK
  <2>5. NoneAppears
    BY <1>0, <1>5, RpcMoves DEF RpcStep
  <2> HIDE DEF h
  <2> QED
    BY <1>4, <2>1, <2>3, <2>4, <2>5
<1>6. ASSUME NEW n \in Nodes, NEW t \in Executors, ReportLocal(n, t) PROVE StatusTruthful'
  <2> DEFINE m == thread[n][t].msg
  <2>1. /\ thread[n][t].pc = "report" /\ outcome' = outcome
        /\ Reported(n, m.exec, thread[n][t].status, m.origin)
    BY <1>6 DEF ReportLocal
  <2>2. m \in Message /\ thread[n][t].status \in Terminal
    BY <1>0, <2>1 DEF ThreadTypeOK, ThreadState
  <2>3. m.exec \in ExecIds /\ m.origin \in Nodes
    BY <2>2 DEF Message
  <2>4. outcome[m.origin][m.exec] = <<thread[n][t].status>>
    BY <1>0, <2>1 DEF ThreadReports
  <2>5. NoneAppears
    BY <1>0, <1>6, ThreadMoves DEF ExecutorStep
  <2> HIDE DEF m
  <2> QED
    BY <1>4, <2>1, <2>2, <2>3, <2>4, <2>5
<1>7. ASSUME NEW n \in Nodes, NEW t \in Executors, RunDag(n, t) PROVE StatusTruthful'
  <2>1. thread[n][t].pc = "run" /\ thread[n][t].msg \in Message /\ tracker' = tracker
    BY <1>0, <1>7 DEF RunDag, ThreadTypeOK
  <2>2. PICK o \in Nodes, x \in ExecIds :
          o = thread[n][t].msg.origin /\ x = thread[n][t].msg.exec
    BY <2>1 DEF Message
  <2>3. PICK st \in Terminal : outcome' = [outcome EXCEPT ![o][x] = Append(@, st)]
    BY <1>7, <2>2 DEF RunDag
  <2>4. Place(o, x, "thread", n, t, 0)
    BY <2>1, <2>2, NullAssumption DEF Place, AtThread, Holds
  <2>5. Unrun(o, x)
    BY <2>4, UnrunIsPlace
  <2>6. NoneAppears
    BY <1>0, <1>7, ThreadMoves DEF ExecutorStep
  <2>7. ASSUME NEW m \in Nodes, NEW s \in Slots, NEW e \in ExecIds, NEW su \in Statuses,
               RecordIs(m, s, e, su)'
        PROVE  Shown(m, e, su)'
    <3>1. RecordIs(m, s, e, su)
      BY <2>1, <2>7 DEF RecordIs
    <3>2. Shown(m, e, su)
      BY <1>0, <3>1, TruthByRecord
    <3>3. CASE m = o /\ e = x
      <4>1. CASE su \notin Terminal
        BY <4>1 DEF Shown, Truthful, Terminal
      <4>2. CASE su \in Terminal
        <5>1. PICK other \in Nodes \ {m} : <<m, e>> \in misled /\ outcome[other][e] = <<su>>
          BY <2>5, <3>2, <3>3, <4>2 DEF Shown, Truthful
        <5>2. <<su>> # <<>>
          OBVIOUS
        <5>3. <<m, e>> \in misled' /\ outcome'[other][e] = <<su>>
          BY <1>0, <5>1, <5>2 DEF Grows
        <5> QED
          BY <5>3 DEF Shown
      <4> QED
        BY <4>1, <4>2
    <3>4. CASE ~(m = o /\ e = x)
      <4>1. outcome'[m][e] = outcome[m][e]
        BY <2>3, <3>4 DEF TypeOK
      <4>2. Unrun(m, e)' => Unrun(m, e)
        BY <2>6 DEF NoneAppears
      <4> QED
        BY <1>0, <3>2, <4>1, <4>2, ShownStays
    <3> QED
      BY <3>3, <3>4
  <2> QED
    BY <1>0, <2>7, TruthOfRecords
<1>8. ASSUME NEW n \in Nodes, Cleanup(n) PROVE StatusTruthful'
  <2>1. \A m \in Nodes, s \in Slots : tracker'[m][s] # NoRecord => tracker'[m][s] = tracker[m][s]
    BY <1>0, <1>8 DEF Cleanup, TrackerTypeOK
  <2>2. UNCHANGED <<rpc, queue, thread, wire>> /\ outcome' = outcome
    BY <1>8 DEF Cleanup
  <2>3. NoneAppears
    BY <1>0, <2>2, OthersMove
  <2> QED
    BY <1>0, <2>1, <2>2, <2>3, FreeingKeepsTruth
<1>9. ASSUME NoneAppears, tracker' = tracker, outcome' = outcome PROVE StatusTruthful'
  BY <1>0, <1>9, FreeingKeepsTruth
<1>10. ASSUME NEW n \in Nodes,
              \/ SubmitEnqueue(n) \/ SubmitRoute(n) \/ SubmitNoMemory(n) \/ ProcessEnqueue(n)
              \/ CatalogAdd(n) \/ (\E d \in Dags : LearnDag(n, d))
              \/ (\E p \in Nodes : ProcessMessage(n, p))
       PROVE  StatusTruthful'
  <2>1. NoneAppears
    BY <1>0, <1>10, RpcMoves DEF RpcStep
  <2>2. tracker' = tracker /\ outcome' = outcome
    BY <1>10 DEF SubmitEnqueue, SubmitRoute, SubmitNoMemory, ProcessEnqueue, CatalogAdd, LearnDag,
                 ProcessMessage
  <2> QED
    BY <1>9, <2>1, <2>2
<1>11. ASSUME NEW n \in Nodes, NEW t \in Executors,
              \/ Pop(n, t) \/ FindDag(n, t) \/ DagNotFound(n, t)
              \/ ReportRemote(n, t) \/ ReportLost(n, t) \/ ExecutorExit(n, t)
       PROVE  StatusTruthful'
  <2>1. NoneAppears
    BY <1>0, <1>11, ThreadMoves DEF ExecutorStep
  <2>2. tracker' = tracker /\ outcome' = outcome
    BY <1>11 DEF Pop, FindDag, DagNotFound, ReportRemote, ReportLost, ExecutorExit
  <2> QED
    BY <1>9, <2>1, <2>2
<1>12. ASSUME UNCHANGED <<rpc, queue, thread, wire, tracker, outcome>> PROVE StatusTruthful'
  BY <1>0, <1>9, <1>12, OthersMove
<1>13. ASSUME NEW n \in Nodes, StopExecutors(n) PROVE StatusTruthful'
  BY <1>12, <1>13 DEF StopExecutors
<1>14. CASE UNCHANGED vars
  BY <1>12, <1>14 DEF vars
<1> QED
  BY <1>1, <1>2, <1>3, <1>5, <1>6, <1>7, <1>8, <1>10, <1>11, <1>13, <1>14
     DEF Next, RpcStep, ExecutorStep

-----------------------------------------------------------------------------
(***************************************************************************)
(* The records the cleanup keeps                                           *)
(***************************************************************************)

\* What ReapedIsFinished says of an execution that has not been run.
Kept(n, e) == Tracked(n, e) \/ <<n, e>> \in misled

\* A status update keeps every execution's record.
LEMMA UpdateKeepsRecords ==
  ASSUME TrackerTypeOK, NEW m \in Nodes, NEW x, NEW st \in Statuses, Updates(m, x, st),
         NEW n \in Nodes, NEW e, Tracked(n, e)
  PROVE  Tracked(n, e)'
<1>1. PICK s \in Slots : tracker[n][s] # NoRecord /\ tracker[n][s].exec = e
  BY DEF Tracked
<1>2. tracker[n][s] \in Record
  BY <1>1 DEF TrackerTypeOK
<1>3. \/ tracker'[n][s] = tracker[n][s]
      \/ tracker'[n][s] = [tracker[n][s] EXCEPT !.status = st]
  BY DEF TrackerTypeOK, Updates, UpdateStatus
<1>4. tracker'[n][s] \in Record /\ tracker'[n][s].exec = e
  BY <1>1, <1>2, <1>3 DEF Record
<1>5. tracker'[n][s] # NoRecord
  BY <1>4, NullAssumption
<1> QED
  BY <1>4, <1>5 DEF Tracked

\* A record is there as long as its message waits: the submission makes it
\* before the message, updates keep it, and the cleanup frees a terminal one,
\* whose message, its status being true, waits nowhere, or whose status is that of
\* another node's execution.
LEMMA NextReaped ==
  ASSUME TypeOK, Once, StatusTruthful, ReapedIsFinished, [Next]_vars
  PROVE  ReapedIsFinished'
<1>0. /\ TrackerTypeOK /\ RpcTypeOK /\ ThreadTypeOK /\ WireTypeOK /\ OnePlace /\ Fresh
      /\ misled \subseteq misled'
  BY OutcomeGrows DEF TypeOK, Once, Grows
<1>1. ReapedIsFinished <=> \A n \in Nodes, e \in ExecIds : Unrun(n, e) => Kept(n, e)
  BY DEF ReapedIsFinished, Kept
<1>2. (\A n \in Nodes, e \in ExecIds : Unrun(n, e)' => Kept(n, e)') => ReapedIsFinished'
  BY DEF ReapedIsFinished, Kept
<1>3. ASSUME NoneAppears, \A n \in Nodes, e \in ExecIds : Tracked(n, e) => Tracked(n, e)'
      PROVE  ReapedIsFinished'
  BY <1>0, <1>1, <1>2, <1>3 DEF NoneAppears, Kept
<1>4. ASSUME NoneAppears, tracker' = tracker PROVE ReapedIsFinished'
  BY <1>3, <1>4 DEF Tracked
<1>5. ASSUME NoneAppears, NEW m \in Nodes, NEW x, NEW st \in Statuses, Updates(m, x, st)
      PROVE  ReapedIsFinished'
  BY <1>0, <1>3, <1>5, UpdateKeepsRecords
<1>6. ASSUME NEW n \in Nodes, NEW d \in Dags, Submit(n, d) PROVE ReapedIsFinished'
  <2>1. \A m \in Nodes, e \in ExecIds :
          Unrun(m, e)' => Unrun(m, e) \/ (m = n /\ e = nextExec[n])
    BY <1>0, <1>6, SubmitPlaces
  <2> DEFINE r == [exec |-> nextExec[n], status |-> "PENDING"]
  <2>2. PICK f \in Slots : tracker[n][f] = NoRecord /\ tracker' = [tracker EXCEPT ![n][f] = r]
    BY <1>6 DEF Submit, FirstFree
  <2>3. r.exec = nextExec[n] /\ r \in Record
    BY <1>0, <1>6 DEF Submit, Record, Statuses, TrackerTypeOK, ExecIds
  <2> HIDE DEF r
  <2>4. /\ tracker'[n][f] = r
        /\ \A m \in Nodes, s \in Slots : ~(m = n /\ s = f) => tracker'[m][s] = tracker[m][s]
    BY <1>0, <2>2 DEF TrackerTypeOK
  <2>5. r # NoRecord
    BY <2>3, NullAssumption
  <2>6. ASSUME NEW m \in Nodes, NEW e \in ExecIds, Unrun(m, e)' PROVE Kept(m, e)'
    <3>1. CASE m = n /\ e = nextExec[n]
      BY <2>3, <2>4, <2>5, <3>1 DEF Kept, Tracked
    <3>2. CASE Unrun(m, e) /\ <<m, e>> \in misled
      BY <1>0, <3>2 DEF Kept
    <3>3. CASE Unrun(m, e) /\ <<m, e>> \notin misled
      <4>1. PICK s \in Slots : tracker[m][s] # NoRecord /\ tracker[m][s].exec = e
        BY <1>1, <3>3 DEF Kept, Tracked
      <4>2. tracker'[m][s] = tracker[m][s]
        BY <2>2, <2>4, <4>1
      <4> QED
        BY <4>1, <4>2 DEF Kept, Tracked
    <3> QED
      BY <2>1, <2>6, <3>1, <3>2, <3>3
  <2> QED
    BY <1>2, <2>6
<1>7. ASSUME NEW n \in Nodes, Cleanup(n) PROVE ReapedIsFinished'
  <2>1. NoneAppears
    BY <1>0, <1>7, OthersMove DEF Cleanup
  <2>2. PICK old \in SUBSET {s \in Slots : tracker[n][s] # NoRecord /\ tracker[n][s].status \in Terminal} :
          tracker' = [tracker EXCEPT ![n] = [s \in Slots |-> IF s \in old THEN NoRecord ELSE @[s]]]
    BY <1>7 DEF Cleanup
  <2>3. ASSUME NEW m \in Nodes, NEW e \in ExecIds, Unrun(m, e)' PROVE Kept(m, e)'
    <3>1. Unrun(m, e)
      BY <2>1, <2>3 DEF NoneAppears
    <3>2. CASE <<m, e>> \in misled
      BY <1>0, <3>2 DEF Kept
    <3>3. CASE <<m, e>> \notin misled
      <4>1. PICK s \in Slots : tracker[m][s] # NoRecord /\ tracker[m][s].exec = e
        BY <1>1, <3>1, <3>3 DEF Kept, Tracked
      <4>2. tracker[m][s].status \notin Terminal
        BY <3>1, <3>3, <4>1 DEF StatusTruthful, Shown, Truthful
      <4>3. tracker'[m][s] = tracker[m][s]
        BY <1>0, <2>2, <4>2 DEF TrackerTypeOK
      <4> QED
        BY <4>1, <4>3 DEF Kept, Tracked
    <3> QED
      BY <3>2, <3>3
  <2> QED
    BY <1>2, <2>3
<1>8. ASSUME NEW n \in Nodes, RpcStep(n) \/ \E d \in Dags : LearnDag(n, d) PROVE ReapedIsFinished'
  <2>1. NoneAppears
    BY <1>0, <1>8, RpcMoves
  <2>2. CASE SubmitRouteFails(n)
    BY <1>5, <2>1, <2>2 DEF SubmitRouteFails, Updates, Statuses, Terminal
  <2>3. CASE SubmitMark(n)
    BY <1>5, <2>1, <2>3 DEF SubmitMark, Updates, Statuses
  <2>4. ASSUME NEW p \in Nodes, ExecutionUpdate(n, p) PROVE ReapedIsFinished'
    <3> DEFINE h == Head(wire[p][n])
    <3>1. /\ wire[p][n] # <<>> /\ h.func = "EXECUTION_UPDATE"
          /\ Updates(n, h.exec, h.status)
      BY <2>4 DEF ExecutionUpdate, Reported, Updates
    <3>2. h \in Request
      BY <1>0, <3>1 DEF WireTypeOK
    <3>3. h.status \in Statuses
      BY <3>1, <3>2, RequestFields DEF Statuses
    <3> QED
      BY <1>5, <2>1, <3>1, <3>3
  <2>5. CASE \/ SubmitEnqueue(n) \/ SubmitRoute(n) \/ SubmitNoMemory(n) \/ ProcessEnqueue(n)
             \/ CatalogAdd(n) \/ (\E d \in Dags : LearnDag(n, d))
             \/ (\E p \in Nodes : ProcessMessage(n, p))
    <3>1. tracker' = tracker
      BY <2>5 DEF SubmitEnqueue, SubmitRoute, SubmitNoMemory, ProcessEnqueue, CatalogAdd, LearnDag,
                  ProcessMessage
    <3> QED
      BY <1>4, <2>1, <3>1
  <2> QED
    BY <1>8, <2>2, <2>3, <2>4, <2>5 DEF RpcStep
<1>9. ASSUME NEW n \in Nodes, NEW t \in Executors, ExecutorStep(n, t) PROVE ReapedIsFinished'
  <2>1. NoneAppears
    BY <1>0, <1>9, ThreadMoves
  <2>2. CASE ReportLocal(n, t)
    <3>1. Updates(n, thread[n][t].msg.exec, thread[n][t].status)
      BY <2>2 DEF ReportLocal, Reported, Updates
    <3>2. thread[n][t].status \in Statuses
      BY <1>0 DEF ThreadTypeOK, ThreadState, Statuses
    <3> QED
      BY <1>5, <2>1, <3>1, <3>2
  <2>3. CASE \/ Pop(n, t) \/ FindDag(n, t) \/ DagNotFound(n, t) \/ RunDag(n, t)
             \/ ReportRemote(n, t) \/ ReportLost(n, t) \/ ExecutorExit(n, t)
    <3>1. tracker' = tracker
      BY <2>3 DEF Pop, FindDag, DagNotFound, RunDag, ReportRemote, ReportLost, ExecutorExit
    <3> QED
      BY <1>4, <2>1, <3>1
  <2> QED
    BY <1>9, <2>2, <2>3 DEF ExecutorStep
<1>10. ASSUME UNCHANGED <<rpc, queue, thread, wire, tracker>> PROVE ReapedIsFinished'
  BY <1>0, <1>4, <1>10, OthersMove
<1>11. ASSUME NEW n \in Nodes, StopExecutors(n) PROVE ReapedIsFinished'
  BY <1>10, <1>11 DEF StopExecutors
<1>12. CASE UNCHANGED vars
  BY <1>10, <1>12 DEF vars
<1> QED
  BY <1>6, <1>7, <1>8, <1>9, <1>11, <1>12 DEF Next

-----------------------------------------------------------------------------
\* At the start nothing is tracked, reported or waiting.
LEMMA InitReports == Init => Reports /\ StatusTruthful /\ ReapedIsFinished
<1> SUFFICES ASSUME Init PROVE Reports /\ StatusTruthful /\ ReapedIsFinished
  OBVIOUS
<1>1. Reports
  BY DEF Init, Reports, RpcOwns, ThreadReports, WireReports, IdleRpc, IdleThread
<1>2. StatusTruthful
  BY DEF Init, StatusTruthful
<1>3. \A n, e, k, a, b, i : ~Place(n, e, k, a, b, i)
  BY DEF Init, IdleRpc, IdleThread, Place, AtRpc, AtQueue, AtThread, AtWire
<1>4. \A n, e : ~Unrun(n, e)
  BY <1>3, UnrunIsPlace
<1> QED
  BY <1>1, <1>2, <1>4 DEF ReapedIsFinished

\* The invariants together.
LEMMA AlwaysTruthful == Spec => [](Reports /\ StatusTruthful /\ ReapedIsFinished)
<1> DEFINE Inv == TypeOK /\ ExecIdsUnique /\ Once /\ Reports /\ StatusTruthful /\ ReapedIsFinished
<1>1. Init => Inv
  <2>1. Init => ExecIdsUnique
    BY DEF Init, ExecIdsUnique
  <2> QED
    BY <2>1, InitTypeOK, InitOnce, InitReports
<1>2. Inv /\ [Next]_vars => Inv'
  <2> SUFFICES ASSUME Inv, [Next]_vars PROVE Inv'
    OBVIOUS
  <2>1. TypeOK' /\ ExecIdsUnique' /\ Once'
    BY NextTypeOK, NextExecIdsUnique, NextOnce
  <2>2. Reports'
    BY NextReports
  <2>3. StatusTruthful'
    BY <2>1, NextTruthful
  <2>4. ReapedIsFinished'
    BY NextReaped
  <2> QED
    BY <2>1, <2>2, <2>3, <2>4
<1>3. Inv => Reports /\ StatusTruthful /\ ReapedIsFinished
  OBVIOUS
<1> HIDE DEF Inv
<1> QED
  BY <1>1, <1>2, <1>3, PTL DEF Spec

\* A status that execution_tracker shows as final is the one the execution had,
\* on every node, under every interleaving of submission, execution, report and
\* cleanup and whatever the unassigned sender_id holds: where it is not, a report
\* about another node's execution of the same number came to the tracker, and the
\* status is that one's outcome.
THEOREM StatusesAreTrue == Spec => []StatusTruthful
BY AlwaysTruthful, PTL

\* The cleanup timer never frees the record of an execution that is still
\* queued, on its way or running, unless such a report has written the record.
THEOREM CleanupIsSafe == Spec => []ReapedIsFinished
BY AlwaysTruthful, PTL

-----------------------------------------------------------------------------
(***************************************************************************)
(* active_executions                                                       *)
(***************************************************************************)

\* The executors of n that are processing a message.
Working(n) == {t \in Executors : thread[n][t].pc \in {"lookup", "run", "report"}}

\* There are finitely many.
LEMMA WorkingFinite == ASSUME NEW n PROVE IsFiniteSet(Working(n))
BY ExecutorsAssumption, FS_Subset DEF Working

\* No executor begins or ends the processing of a message.
LEMMA ActiveStays ==
  ASSUME ActiveExact, active' = active,
         \A n \in Nodes, t \in Executors :
           thread'[n][t].pc \in {"lookup", "run", "report"} <=>
             thread[n][t].pc \in {"lookup", "run", "report"}
  PROVE  ActiveExact'
<1>1. ASSUME NEW n \in Nodes PROVE Working(n)' = Working(n)
  BY DEF Working
<1>2. ASSUME NEW n \in Nodes PROVE active'[n] = Cardinality(Working(n)')
  BY <1>1 DEF ActiveExact, Working
<1> QED
  BY <1>2 DEF ActiveExact, Working

\* Executor u of m goes to state T; only m's counter can change.
LEMMA OthersWork ==
  ASSUME ThreadTypeOK, NEW m \in Nodes, NEW u \in Executors, NEW T,
         thread' = [thread EXCEPT ![m][u] = T]
  PROVE  /\ \A n \in Nodes \ {m} : Working(n)' = Working(n)
         /\ T.pc \in {"lookup", "run", "report"} => Working(m)' = Working(m) \cup {u}
         /\ T.pc \notin {"lookup", "run", "report"} => Working(m)' = Working(m) \ {u}
<1>1. \A n \in Nodes, t \in Executors :
        thread'[n][t] = IF n = m /\ t = u THEN T ELSE thread[n][t]
  BY DEF ThreadTypeOK
<1> QED
  BY <1>1 DEF Working

\* The counter is raised when an executor takes a message ...
LEMMA ActiveGoesUp ==
  ASSUME TypeOK, ActiveExact, NEW m \in Nodes, NEW u \in Executors, u \notin Working(m), NEW T,
         thread' = [thread EXCEPT ![m][u] = T], T.pc \in {"lookup", "run", "report"},
         active' = [active EXCEPT ![m] = @ + 1]
  PROVE  ActiveExact'
<1>1. \A n \in Nodes \ {m} : Working(n)' = Working(n)
  BY OthersWork DEF TypeOK
<1>2. Working(m)' = Working(m) \cup {u}
  BY OthersWork DEF TypeOK
<1>3. Cardinality(Working(m) \cup {u}) = Cardinality(Working(m)) + 1
  BY WorkingFinite, FS_AddElement
<1>4. active[m] = Cardinality(Working(m)) /\ active'[m] = active[m] + 1
  BY DEF ActiveExact, Working, TypeOK
<1>5. \A n \in Nodes \ {m} : active'[n] = active[n] /\ active[n] = Cardinality(Working(n))
  BY DEF ActiveExact, Working, TypeOK
<1>6. ASSUME NEW n \in Nodes PROVE active'[n] = Cardinality(Working(n)')
  BY <1>1, <1>2, <1>3, <1>4, <1>5
<1> QED
  BY <1>6 DEF ActiveExact, Working

\* ... and lowered when it is done with it.
LEMMA ActiveGoesDown ==
  ASSUME TypeOK, ActiveExact, NEW m \in Nodes, NEW u \in Executors, u \in Working(m), NEW T,
         thread' = [thread EXCEPT ![m][u] = T], T.pc \notin {"lookup", "run", "report"},
         active' = [active EXCEPT ![m] = @ - 1]
  PROVE  ActiveExact'
<1>1. \A n \in Nodes \ {m} : Working(n)' = Working(n)
  BY OthersWork DEF TypeOK
<1>2. Working(m)' = Working(m) \ {u}
  BY OthersWork DEF TypeOK
<1>3. Cardinality(Working(m) \ {u}) = Cardinality(Working(m)) - 1
  BY WorkingFinite, FS_RemoveElement
<1>4. active[m] = Cardinality(Working(m)) /\ active'[m] = active[m] - 1
  BY DEF ActiveExact, Working, TypeOK
<1>5. \A n \in Nodes \ {m} : active'[n] = active[n] /\ active[n] = Cardinality(Working(n))
  BY DEF ActiveExact, Working, TypeOK
<1>6. ASSUME NEW n \in Nodes PROVE active'[n] = Cardinality(Working(n)')
  BY <1>1, <1>2, <1>3, <1>4, <1>5
<1> QED
  BY <1>6 DEF ActiveExact, Working

\* Every path through the executor's loop keeps the counter exact.
LEMMA NextActive == TypeOK /\ ActiveExact /\ [Next]_vars => ActiveExact'
<1> SUFFICES ASSUME TypeOK, ActiveExact, [Next]_vars PROVE ActiveExact'
  OBVIOUS
<1>0. ThreadTypeOK
  BY DEF TypeOK
<1>1. ASSUME UNCHANGED <<thread, active>> PROVE ActiveExact'
  BY <1>1, ActiveStays
<1>2. IdleThread.pc = "idle"
  BY DEF IdleThread
<1>3. ASSUME NEW n \in Nodes, NEW t \in Executors, Pop(n, t) PROVE ActiveExact'
  <2> DEFINE T == [pc |-> "lookup", msg |-> Head(queue[n]), status |-> "FAILED"]
  <2>1. /\ thread[n][t].pc = "idle" /\ thread' = [thread EXCEPT ![n][t] = T]
        /\ active' = [active EXCEPT ![n] = @ + 1]
    BY <1>3 DEF Pop
  <2>2. T.pc = "lookup"
    OBVIOUS
  <2>3. t \notin Working(n)
    BY <2>1 DEF Working
  <2> HIDE DEF T
  <2> QED
    BY <2>1, <2>2, <2>3, ActiveGoesUp
<1>4. ASSUME NEW n \in Nodes, NEW t \in Executors,
             DagNotFound(n, t) \/ ReportLocal(n, t) \/ ReportRemote(n, t) \/ ReportLost(n, t)
      PROVE  ActiveExact'
  <2>1. /\ thread[n][t].pc \in {"lookup", "report"}
        /\ thread' = [thread EXCEPT ![n][t] = IdleThread]
        /\ active' = [active EXCEPT ![n] = @ - 1]
    BY <1>4 DEF DagNotFound, ReportLocal, ReportRemote, ReportLost
  <2>2. t \in Working(n)
    BY <2>1 DEF Working
  <2> QED
    BY <1>2, <2>1, <2>2, ActiveGoesDown
<1>5. ASSUME NEW n \in Nodes, NEW t \in Executors, FindDag(n, t) \/ RunDag(n, t) \/ ExecutorExit(n, t)
      PROVE  ActiveExact'
  <2>1. active' = active
    BY <1>5 DEF FindDag, RunDag, ExecutorExit
  <2>2. \A m \in Nodes, u \in Executors :
          thread'[m][u].pc \in {"lookup", "run", "report"} <=>
            thread[m][u].pc \in {"lookup", "run", "report"}
    <3>1. CASE FindDag(n, t)
      BY <1>0, <3>1 DEF FindDag, ThreadTypeOK
    <3>2. CASE RunDag(n, t)
      BY <1>0, <3>2 DEF RunDag, ThreadTypeOK
    <3>3. CASE ExecutorExit(n, t)
      BY <1>0, <3>3 DEF ExecutorExit, ThreadTypeOK, IdleThread
    <3> QED
      BY <1>5, <3>1, <3>2, <3>3
  <2> QED
    BY <2>1, <2>2, ActiveStays
<1>6. ASSUME NEW n \in Nodes, RpcStep(n) \/ \E d \in Dags : Submit(n, d) \/ LearnDag(n, d)
      PROVE  UNCHANGED <<thread, active>>
  BY <1>6 DEF RpcStep, Submit, LearnDag, SubmitEnqueue, SubmitRoute, SubmitRouteFails,
              SubmitNoMemory, SubmitMark, ProcessEnqueue, CatalogAdd, ProcessMessage, ExecutionUpdate
<1>7. ASSUME NEW n \in Nodes, Cleanup(n) \/ StopExecutors(n) PROVE UNCHANGED <<thread, active>>
  BY <1>7 DEF Cleanup, StopExecutors
<1>8. UNCHANGED vars => UNCHANGED <<thread, active>>
  BY DEF vars
<1> QED
  BY <1>1, <1>3, <1>4, <1>5, <1>6, <1>7, <1>8 DEF Next, ExecutorStep

\* active_executions, the gauge the node exports, is at all times the number of
\* its executors that are processing a message.
THEOREM LoadIsExact == Spec => []ActiveExact
<1>1. Init => ActiveExact
  <2> SUFFICES ASSUME Init PROVE ActiveExact
    OBVIOUS
  <2>1. ASSUME NEW n \in Nodes PROVE Working(n) = {} /\ active[n] = 0
    BY DEF Init, IdleThread, Working
  <2> QED
    BY <2>1, FS_EmptySet DEF ActiveExact, Working
<1> QED
  BY <1>1, NextActive, TypeCorrect, PTL DEF Spec
============================================================================
