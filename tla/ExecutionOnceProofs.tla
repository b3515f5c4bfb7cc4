------------------------ MODULE ExecutionOnceProofs ------------------------
(***************************************************************************)
(* A submitted message is one token: it moves from the RPC thread that     *)
(* accepted it to a queue or a channel, to the RPC thread of the peer, to  *)
(* an executor, and is gone once its DAG has run.  From that follows that  *)
(* a DAG runs at most once per submission.                                 *)
(***************************************************************************)
EXTENDS ExecutionProofs

-----------------------------------------------------------------------------
(***************************************************************************)
(* Where the message of execution e, coordinated by n, can wait to be run  *)
(***************************************************************************)

\* in a handler of a's RPC thread,
AtRpc(n, e, a) == rpc[a].pc \in {"enqueue", "route", "accept"} /\ Holds(rpc[a].msg, n, e)

\* at index i of a's message queue,
AtQueue(n, e, a, i) == i \in DOMAIN queue[a] /\ Holds(queue[a][i], n, e)

\* with executor t of a,
AtThread(n, e, a, t) == thread[a][t].pc \in {"lookup", "run"} /\ Holds(thread[a][t].msg, n, e)

\* or at index i of a's DATA channel to b.
AtWire(n, e, a, b, i) ==
  i \in DOMAIN wire[a][b] /\ wire[a][b][i].func = "PROCESS_MESSAGE" /\ Holds(wire[a][b][i].msg, n, e)

\* The four of them under one name: a place is a kind, two owners, an index.
Place(n, e, k, a, b, i) ==
  \/ k = "rpc" /\ a \in Nodes /\ b = a /\ i = 0 /\ AtRpc(n, e, a)
  \/ k = "queue" /\ a \in Nodes /\ b = a /\ AtQueue(n, e, a, i)
  \/ k = "thread" /\ a \in Nodes /\ b \in Executors /\ i = 0 /\ AtThread(n, e, a, b)
  \/ k = "wire" /\ a \in Nodes /\ b \in Nodes /\ AtWire(n, e, a, b, i)

\* A message is in one place at a time.
OnePlace ==
  \A n \in Nodes, e \in ExecIds : \A k, a, b, i, l, c, d, j :
    Place(n, e, k, a, b, i) /\ Place(n, e, l, c, d, j) => k = l /\ a = c /\ b = d /\ i = j

\* What every step but a submission does to the messages that wait.
NoneAppears == \A n \in Nodes, e \in ExecIds : Unrun(n, e)' => Unrun(n, e)

\* A message waits to be run exactly when it is in some place.
LEMMA UnrunIsPlace ==
  ASSUME NEW n, NEW e
  PROVE  Unrun(n, e) <=> \E k, a, b, i : Place(n, e, k, a, b, i)
<1>1. ASSUME NEW k, NEW a, NEW b, NEW i, Place(n, e, k, a, b, i) PROVE Unrun(n, e)
  BY <1>1 DEF Place, AtRpc, AtQueue, AtThread, AtWire, Unrun
<1>2. ASSUME NEW q \in Nodes, AtRpc(n, e, q) PROVE Place(n, e, "rpc", q, q, 0)
  BY <1>2 DEF Place
<1>3. ASSUME NEW q \in Nodes, NEW i, AtQueue(n, e, q, i) PROVE Place(n, e, "queue", q, q, i)
  BY <1>3 DEF Place
<1>4. ASSUME NEW q \in Nodes, NEW t \in Executors, AtThread(n, e, q, t)
      PROVE  Place(n, e, "thread", q, t, 0)
  BY <1>4 DEF Place
<1>5. ASSUME NEW p \in Nodes, NEW q \in Nodes, NEW i, AtWire(n, e, p, q, i)
      PROVE  Place(n, e, "wire", p, q, i)
  BY <1>5 DEF Place
<1>6. Unrun(n, e) =>
        \/ \E q \in Nodes : AtRpc(n, e, q)
        \/ \E q \in Nodes : \E i : AtQueue(n, e, q, i)
        \/ \E q \in Nodes, t \in Executors : AtThread(n, e, q, t)
        \/ \E p, q \in Nodes : \E i : AtWire(n, e, p, q, i)
  BY DEF AtRpc, AtQueue, AtThread, AtWire, Unrun
<1> QED
  BY <1>1, <1>2, <1>3, <1>4, <1>5, <1>6

\* ... in the next state too.
LEMMA UnrunIsPlaceNext ==
  ASSUME NEW n, NEW e
  PROVE  Unrun(n, e)' <=> \E k, a, b, i : Place(n, e, k, a, b, i)'
<1>1. Unrun(n, e) <=> \E k, a, b, i : Place(n, e, k, a, b, i)
  BY UnrunIsPlace
<1>2. (Unrun(n, e) <=> \E k, a, b, i : Place(n, e, k, a, b, i))'
  BY <1>1, PTL
<1> QED
  BY <1>2

\* A step after which every waiting message is where it was.
LEMMA Stays ==
  ASSUME OnePlace,
         \A n \in Nodes, e \in ExecIds : \A k, a, b, i :
           Place(n, e, k, a, b, i)' => Place(n, e, k, a, b, i)
  PROVE  OnePlace' /\ NoneAppears
<1>1. OnePlace'
  BY DEF OnePlace
<1>2. NoneAppears
  BY UnrunIsPlace, UnrunIsPlaceNext DEF NoneAppears
<1> QED
  BY <1>1, <1>2

\* The step moves the message of place (xk, xa, xb, xi), whosever it is, to the
\* place (yk, ya, yb, yi); no other message moves.
Moving(xk, xa, xb, xi, yk, ya, yb, yi) ==
  \A n \in Nodes, e \in ExecIds : \A k, a, b, i : Place(n, e, k, a, b, i)' =>
    \/ k = yk /\ a = ya /\ b = yb /\ i = yi /\ Place(n, e, xk, xa, xb, xi)
    \/ ~(k = xk /\ a = xa /\ b = xb /\ i = xi) /\ Place(n, e, k, a, b, i)

\* A message that moves is still in one place.
LEMMA Moves ==
  ASSUME OnePlace,
         NEW xk, NEW xa, NEW xb, NEW xi, NEW yk, NEW ya, NEW yb, NEW yi,
         Moving(xk, xa, xb, xi, yk, ya, yb, yi)
  PROVE  OnePlace' /\ NoneAppears
<1> USE DEF Moving
<1>1. OnePlace'
  <2> SUFFICES ASSUME NEW n \in Nodes, NEW e \in ExecIds,
                      NEW k, NEW a, NEW b, NEW i, NEW l, NEW c, NEW d, NEW j,
                      Place(n, e, k, a, b, i)', Place(n, e, l, c, d, j)'
               PROVE  k = l /\ a = c /\ b = d /\ i = j
    BY DEF OnePlace
  <2>1. \/ k = yk /\ a = ya /\ b = yb /\ i = yi /\ Place(n, e, xk, xa, xb, xi)
        \/ ~(k = xk /\ a = xa /\ b = xb /\ i = xi) /\ Place(n, e, k, a, b, i)
    OBVIOUS
  <2>2. \/ l = yk /\ c = ya /\ d = yb /\ j = yi /\ Place(n, e, xk, xa, xb, xi)
        \/ ~(l = xk /\ c = xa /\ d = xb /\ j = xi) /\ Place(n, e, l, c, d, j)
    OBVIOUS
  <2> QED
    BY <2>1, <2>2 DEF OnePlace
<1>2. NoneAppears
  BY UnrunIsPlace, UnrunIsPlaceNext DEF NoneAppears
<1> QED
  BY <1>1, <1>2

\* The step takes the head of the sequence (sk, sa, sb), a queue or a channel,
\* to the place (yk, ya, yb, 0); what is behind it moves up by one.
Shifting(sk, sa, sb, yk, ya, yb) ==
  \A n \in Nodes, e \in ExecIds : \A k, a, b, i : Place(n, e, k, a, b, i)' =>
    \/ k = yk /\ a = ya /\ b = yb /\ i = 0 /\ Place(n, e, sk, sa, sb, 1)
    \/ k = sk /\ a = sa /\ b = sb /\ i \in Nat \ {0} /\ Place(n, e, k, a, b, i + 1)
    \/ ~(k = sk /\ a = sa /\ b = sb) /\ Place(n, e, k, a, b, i)

\* Taking the head off a queue or a channel keeps every message in one place.
LEMMA Shifts ==
  ASSUME OnePlace, NEW sk, NEW sa, NEW sb, NEW yk, NEW ya, NEW yb,
         Shifting(sk, sa, sb, yk, ya, yb)
  PROVE  OnePlace' /\ NoneAppears
<1> USE DEF Shifting
<1>1. OnePlace'
  <2> SUFFICES ASSUME NEW n \in Nodes, NEW e \in ExecIds,
                      NEW k, NEW a, NEW b, NEW i, NEW l, NEW c, NEW d, NEW j,
                      Place(n, e, k, a, b, i)', Place(n, e, l, c, d, j)'
               PROVE  k = l /\ a = c /\ b = d /\ i = j
    BY DEF OnePlace
  <2>1. \/ k = yk /\ a = ya /\ b = yb /\ i = 0 /\ Place(n, e, sk, sa, sb, 1)
        \/ k = sk /\ a = sa /\ b = sb /\ i \in Nat \ {0} /\ Place(n, e, k, a, b, i + 1)
        \/ ~(k = sk /\ a = sa /\ b = sb) /\ Place(n, e, k, a, b, i)
    OBVIOUS
  <2>2. \/ l = yk /\ c = ya /\ d = yb /\ j = 0 /\ Place(n, e, sk, sa, sb, 1)
        \/ l = sk /\ c = sa /\ d = sb /\ j \in Nat \ {0} /\ Place(n, e, l, c, d, j + 1)
        \/ ~(l = sk /\ c = sa /\ d = sb) /\ Place(n, e, l, c, d, j)
    OBVIOUS
  <2> QED
    BY <2>1, <2>2 DEF OnePlace
<1>2. NoneAppears
  BY UnrunIsPlace, UnrunIsPlaceNext DEF NoneAppears
<1> QED
  BY <1>1, <1>2

-----------------------------------------------------------------------------
(***************************************************************************)
(* Which places a step leaves alone                                        *)
(***************************************************************************)

\* A part of the state that does not change keeps its messages.
LEMMA Untouched ==
  ASSUME NEW n, NEW e
  PROVE  /\ rpc' = rpc => \A a : AtRpc(n, e, a)' <=> AtRpc(n, e, a)
         /\ queue' = queue => \A a, i : AtQueue(n, e, a, i)' <=> AtQueue(n, e, a, i)
         /\ thread' = thread => \A a, t : AtThread(n, e, a, t)' <=> AtThread(n, e, a, t)
         /\ wire' = wire => \A a, b, i : AtWire(n, e, a, b, i)' <=> AtWire(n, e, a, b, i)
BY DEF AtRpc, AtQueue, AtThread, AtWire

\* An RPC thread that ends a handler, or goes on to "mark", holds no message
\* that waits; the other RPC threads hold what they held.
LEMMA RpcLeaves ==
  ASSUME RpcTypeOK, NEW m \in Nodes, NEW R,
         R.pc \notin {"enqueue", "route", "accept"}, rpc' = [rpc EXCEPT ![m] = R],
         NEW n, NEW e, NEW a \in Nodes, AtRpc(n, e, a)'
  PROVE  a # m /\ AtRpc(n, e, a)
BY DEF AtRpc, RpcTypeOK

\* An RPC thread that begins a handler with a message M to run.
LEMMA RpcTakes ==
  ASSUME RpcTypeOK, NEW m \in Nodes, NEW R, rpc' = [rpc EXCEPT ![m] = R],
         NEW n, NEW e, NEW a \in Nodes, AtRpc(n, e, a)'
  PROVE  \/ a = m /\ Holds(R.msg, n, e)
         \/ a # m /\ AtRpc(n, e, a)
<1>1. rpc'[a] = IF a = m THEN R ELSE rpc[a]
  BY DEF RpcTypeOK
<1> QED
  BY <1>1 DEF AtRpc

\* An executor that is left without a message to run.
LEMMA ThreadLeaves ==
  ASSUME ThreadTypeOK, NEW m \in Nodes, NEW u \in Executors, NEW T,
         T.pc \notin {"lookup", "run"}, thread' = [thread EXCEPT ![m][u] = T],
         NEW n, NEW e, NEW a \in Nodes, NEW t \in Executors, AtThread(n, e, a, t)'
  PROVE  ~(a = m /\ t = u) /\ AtThread(n, e, a, t)
<1>1. thread'[a][t] = IF a = m /\ t = u THEN T ELSE thread[a][t]
  BY DEF ThreadTypeOK
<1> QED
  BY <1>1 DEF AtThread

\* An executor that takes a message.
LEMMA ThreadTakes ==
  ASSUME ThreadTypeOK, NEW m \in Nodes, NEW u \in Executors, NEW T,
         thread' = [thread EXCEPT ![m][u] = T],
         NEW n, NEW e, NEW a \in Nodes, NEW t \in Executors, AtThread(n, e, a, t)'
  PROVE  \/ a = m /\ t = u /\ Holds(T.msg, n, e)
         \/ ~(a = m /\ t = u) /\ AtThread(n, e, a, t)
<1>1. thread'[a][t] = IF a = m /\ t = u THEN T ELSE thread[a][t]
  BY DEF ThreadTypeOK
<1> QED
  BY <1>1 DEF AtThread

\* message_queue_push puts the message at the end.
LEMMA QueueGains ==
  ASSUME QueueTypeOK, NEW m \in Nodes, NEW M \in Message,
         queue' = [queue EXCEPT ![m] = Append(@, M)],
         NEW n, NEW e, NEW a \in Nodes, NEW i, AtQueue(n, e, a, i)'
  PROVE  \/ a = m /\ i = Len(queue[m]) + 1 /\ Holds(M, n, e)
         \/ AtQueue(n, e, a, i)
<1>1. queue'[a] = IF a = m THEN Append(queue[m], M) ELSE queue[a]
  BY DEF QueueTypeOK
<1>2. queue[m] \in Seq(Message)
  BY DEF QueueTypeOK
<1> QED
  BY <1>1, <1>2 DEF AtQueue

\* Taking the head off a sequence moves every other element up by one.
LEMMA TailIndex ==
  ASSUME NEW S, NEW q \in Seq(S), q # <<>>, NEW i, i \in DOMAIN Tail(q)
  PROVE  i \in Nat \ {0} /\ i + 1 \in DOMAIN q /\ Tail(q)[i] = q[i + 1]
<1>1. Len(q) \in Nat \ {0} /\ DOMAIN q = 1 .. Len(q)
  OBVIOUS
<1>2. DOMAIN Tail(q) = 1 .. Len(q) - 1
  OBVIOUS
<1>3. i \in 1 .. Len(q) - 1
  BY <1>2
<1> QED
  BY <1>1, <1>3

\* message_queue_pop takes it from the front.
LEMMA QueueShifts ==
  ASSUME QueueTypeOK, NEW m \in Nodes, queue[m] # <<>>,
         queue' = [queue EXCEPT ![m] = Tail(@)],
         NEW n, NEW e, NEW a \in Nodes, NEW i, AtQueue(n, e, a, i)'
  PROVE  \/ a = m /\ i \in Nat \ {0} /\ AtQueue(n, e, a, i + 1)
         \/ a # m /\ AtQueue(n, e, a, i)
<1>1. queue'[a] = IF a = m THEN Tail(queue[m]) ELSE queue[a]
  BY DEF QueueTypeOK
<1>2. queue[m] \in Seq(Message)
  BY DEF QueueTypeOK
<1>3. CASE a = m
  <2>1. i \in DOMAIN queue'[a] =>
          i \in Nat \ {0} /\ i + 1 \in DOMAIN queue[a] /\ queue'[a][i] = queue[a][i + 1]
    <3> DEFINE q == queue[m]
    <3>1. queue'[a] = Tail(q) /\ queue[a] = q /\ q \in Seq(Message) /\ q # <<>>
      BY <1>1, <1>2, <1>3
    <3> HIDE DEF q
    <3> QED
      BY <3>1, TailIndex
  <2> QED
    BY <1>3, <2>1 DEF AtQueue
<1>4. CASE a # m
  BY <1>1, <1>4 DEF AtQueue
<1> QED
  BY <1>3, <1>4

\* A request is written at the end of a channel ...
LEMMA WireGains ==
  ASSUME WireTypeOK, NEW m \in Nodes, NEW p \in Nodes, NEW req \in Request,
         wire' = [wire EXCEPT ![m][p] = Append(@, req)],
         NEW n, NEW e, NEW a \in Nodes, NEW b \in Nodes, NEW i, AtWire(n, e, a, b, i)'
  PROVE  \/ /\ a = m /\ b = p /\ i = Len(wire[m][p]) + 1
            /\ req.func = "PROCESS_MESSAGE" /\ Holds(req.msg, n, e)
         \/ AtWire(n, e, a, b, i)
<1>1. wire'[a][b] = IF a = m /\ b = p THEN Append(wire[m][p], req) ELSE wire[a][b]
  BY DEF WireTypeOK
<1>2. wire[m][p] \in Seq(Request)
  BY DEF WireTypeOK
<1> HIDE DEF Request
<1>3. CASE a = m /\ b = p /\ i = Len(wire[m][p]) + 1
  <2>1. wire'[a][b][i] = req
    BY <1>1, <1>2, <1>3
  <2> QED
    BY <1>3, <2>1 DEF AtWire
<1>4. CASE ~(a = m /\ b = p /\ i = Len(wire[m][p]) + 1)
  <2>1. i \in DOMAIN wire'[a][b] => i \in DOMAIN wire[a][b] /\ wire'[a][b][i] = wire[a][b][i]
    BY <1>1, <1>2, <1>4
  <2> QED
    BY <2>1 DEF AtWire
<1> QED
  BY <1>3, <1>4

\* ... and read from its front.
LEMMA WireShifts ==
  ASSUME WireTypeOK, NEW m \in Nodes, NEW p \in Nodes, wire[p][m] # <<>>,
         wire' = [wire EXCEPT ![p][m] = Tail(@)],
         NEW n, NEW e, NEW a \in Nodes, NEW b \in Nodes, NEW i, AtWire(n, e, a, b, i)'
  PROVE  \/ a = p /\ b = m /\ i \in Nat \ {0} /\ AtWire(n, e, a, b, i + 1)
         \/ ~(a = p /\ b = m) /\ AtWire(n, e, a, b, i)
<1>1. wire'[a][b] = IF a = p /\ b = m THEN Tail(wire[p][m]) ELSE wire[a][b]
  BY DEF WireTypeOK
<1>2. wire[p][m] \in Seq(Request)
  BY DEF WireTypeOK
<1>3. CASE a = p /\ b = m
  <2>1. i \in DOMAIN wire'[a][b] =>
          i \in Nat \ {0} /\ i + 1 \in DOMAIN wire[a][b] /\ wire'[a][b][i] = wire[a][b][i + 1]
    <3> DEFINE q == wire[p][m]
    <3>1. wire'[a][b] = Tail(q) /\ wire[a][b] = q /\ q \in Seq(Request) /\ q # <<>>
      BY <1>1, <1>2, <1>3
    <3> HIDE DEF q
    <3> QED
      BY <3>1, TailIndex
  <2> QED
    BY <1>3, <2>1 DEF AtWire
<1>4. CASE ~(a = p /\ b = m)
  BY <1>1, <1>4 DEF AtWire
<1> QED
  BY <1>3, <1>4

-----------------------------------------------------------------------------
(***************************************************************************)
(* What each step does to the places                                       *)
(***************************************************************************)

\* A handler of the RPC thread that neither receives nor hands over a message.
LEMMA RpcOnly ==
  ASSUME RpcTypeOK, OnePlace, NEW m \in Nodes, NEW R,
         R.pc \notin {"enqueue", "route", "accept"}, rpc' = [rpc EXCEPT ![m] = R],
         UNCHANGED <<queue, thread, wire>>
  PROVE  OnePlace' /\ NoneAppears
<1>1. ASSUME NEW n \in Nodes, NEW e \in ExecIds, NEW k, NEW a, NEW b, NEW i,
             Place(n, e, k, a, b, i)'
      PROVE  Place(n, e, k, a, b, i)
  <2>1. a \in Nodes /\ AtRpc(n, e, a)' => AtRpc(n, e, a)
    BY RpcLeaves
  <2> QED
    BY <1>1, <2>1, Untouched DEF Place
<1> QED
  BY <1>1, Stays

\* A step of an executor that leaves it without a message to run.
LEMMA ThreadOnly ==
  ASSUME ThreadTypeOK, OnePlace, NEW m \in Nodes, NEW u \in Executors, NEW T,
         T.pc \notin {"lookup", "run"}, thread' = [thread EXCEPT ![m][u] = T],
         UNCHANGED <<queue, rpc, wire>>
  PROVE  OnePlace' /\ NoneAppears
<1>1. ASSUME NEW n \in Nodes, NEW e \in ExecIds, NEW k, NEW a, NEW b, NEW i,
             Place(n, e, k, a, b, i)'
      PROVE  Place(n, e, k, a, b, i)
  <2>1. a \in Nodes /\ b \in Executors /\ AtThread(n, e, a, b)' => AtThread(n, e, a, b)
    BY ThreadLeaves
  <2> QED
    BY <1>1, <2>1, Untouched DEF Place
<1> QED
  BY <1>1, Stays

\* message_queue_push with the message the RPC thread holds.
Pushes(m) == queue' = [queue EXCEPT ![m] = Append(@, rpc[m].msg)]

\* The RPC thread hands its message to the queue of its node, and ends the
\* handler or goes on to "mark" (SubmitEnqueue, ProcessEnqueue).
LEMMA RpcToQueue ==
  ASSUME RpcTypeOK, QueueTypeOK, OnePlace, NEW m \in Nodes, NEW R,
         rpc[m].pc = "enqueue" \/ rpc[m].pc = "accept",
         R.pc \notin {"enqueue", "route", "accept"}, rpc' = [rpc EXCEPT ![m] = R],
         Pushes(m),
         UNCHANGED <<thread, wire>>
  PROVE  OnePlace' /\ NoneAppears
<1> DEFINE len == Len(queue[m]) + 1
           M == rpc[m].msg
<1>0. M \in Message /\ queue' = [queue EXCEPT ![m] = Append(@, M)]
  BY DEF RpcTypeOK, Pushes
<1>1. ASSUME NEW n \in Nodes, NEW e \in ExecIds, NEW k, NEW a, NEW b, NEW i,
             Place(n, e, k, a, b, i)'
      PROVE  \/ k = "queue" /\ a = m /\ b = m /\ i = len /\ Place(n, e, "rpc", m, m, 0)
             \/ ~(k = "rpc" /\ a = m /\ b = m /\ i = 0) /\ Place(n, e, k, a, b, i)
  <2>1. a \in Nodes /\ AtRpc(n, e, a)' => a # m /\ AtRpc(n, e, a)
    BY RpcLeaves
  <2>2. a \in Nodes /\ AtQueue(n, e, a, i)' =>
          \/ a = m /\ i = len /\ Holds(M, n, e)
          \/ AtQueue(n, e, a, i)
    <3> HIDE DEF M
    <3> QED
      BY <1>0, QueueGains
  <2>3. Holds(M, n, e) => Place(n, e, "rpc", m, m, 0)
    BY DEF Place, AtRpc
  <2>4. CASE k = "rpc"
    BY <1>1, <2>1, <2>4 DEF Place
  <2>5. CASE k = "queue"
    BY <1>1, <2>2, <2>3, <2>5 DEF Place
  <2>6. CASE k \notin {"rpc", "queue"}
    BY <1>1, <2>6, Untouched DEF Place
  <2> QED
    BY <2>4, <2>5, <2>6
<1> HIDE DEF len
<1>2. Moving("rpc", m, m, 0, "queue", m, m, len)
  BY <1>1 DEF Moving
<1> QED
  BY <1>2, Moves

\* The RPC thread of the coordinator writes its message to a channel.
LEMMA RpcToWire ==
  ASSUME RpcTypeOK, WireTypeOK, OnePlace, NEW m \in Nodes, NEW R,
         rpc[m].pc = "route",
         R.pc \notin {"enqueue", "route", "accept"}, rpc' = [rpc EXCEPT ![m] = R],
         NEW p \in Nodes, NEW req \in Request, req.msg = rpc[m].msg,
         wire' = [wire EXCEPT ![m][p] = Append(@, req)],
         UNCHANGED <<thread, queue>>
  PROVE  OnePlace' /\ NoneAppears
<1> DEFINE len == Len(wire[m][p]) + 1
<1>1. ASSUME NEW n \in Nodes, NEW e \in ExecIds, NEW k, NEW a, NEW b, NEW i,
             Place(n, e, k, a, b, i)'
      PROVE  \/ k = "wire" /\ a = m /\ b = p /\ i = len /\ Place(n, e, "rpc", m, m, 0)
             \/ ~(k = "rpc" /\ a = m /\ b = m /\ i = 0) /\ Place(n, e, k, a, b, i)
  <2>1. a \in Nodes /\ AtRpc(n, e, a)' => a # m /\ AtRpc(n, e, a)
    BY RpcLeaves
  <2>2. a \in Nodes /\ b \in Nodes /\ AtWire(n, e, a, b, i)' =>
          \/ a = m /\ b = p /\ i = len /\ Holds(rpc[m].msg, n, e)
          \/ AtWire(n, e, a, b, i)
    BY WireGains
  <2>3. Holds(rpc[m].msg, n, e) => Place(n, e, "rpc", m, m, 0)
    BY DEF Place, AtRpc
  <2> HIDE DEF len
  <2>4. CASE k = "rpc"
    BY <1>1, <2>1, <2>4 DEF Place
  <2>5. CASE k = "wire"
    BY <1>1, <2>2, <2>3, <2>5 DEF Place
  <2>6. CASE k \notin {"rpc", "wire"}
    BY <1>1, <2>6, Untouched DEF Place
  <2> QED
    BY <2>4, <2>5, <2>6
<1> HIDE DEF len
<1>2. Moving("rpc", m, m, 0, "wire", m, p, len)
  BY <1>1 DEF Moving
<1> QED
  BY <1>2, Moves

\* The RPC thread takes a PROCESS_MESSAGE request off a channel.
LEMMA WireToRpc ==
  ASSUME RpcTypeOK, WireTypeOK, OnePlace, NEW m \in Nodes, NEW p \in Nodes,
         wire[p][m] # <<>>, Head(wire[p][m]).func = "PROCESS_MESSAGE",
         wire' = [wire EXCEPT ![p][m] = Tail(@)],
         NEW R, R.msg = Head(wire[p][m]).msg, rpc' = [rpc EXCEPT ![m] = R],
         UNCHANGED <<thread, queue>>
  PROVE  OnePlace' /\ NoneAppears
<1>0. 1 \in DOMAIN wire[p][m] /\ wire[p][m][1] = Head(wire[p][m])
  BY DEF WireTypeOK
<1>1. ASSUME NEW n \in Nodes, NEW e \in ExecIds, NEW k, NEW a, NEW b, NEW i,
             Place(n, e, k, a, b, i)'
      PROVE  \/ k = "rpc" /\ a = m /\ b = m /\ i = 0 /\ Place(n, e, "wire", p, m, 1)
             \/ k = "wire" /\ a = p /\ b = m /\ i \in Nat \ {0} /\ Place(n, e, k, a, b, i + 1)
             \/ ~(k = "wire" /\ a = p /\ b = m) /\ Place(n, e, k, a, b, i)
  <2>1. a \in Nodes /\ AtRpc(n, e, a)' =>
          \/ a = m /\ Holds(R.msg, n, e)
          \/ a # m /\ AtRpc(n, e, a)
    BY RpcTakes
  <2>2. a \in Nodes /\ b \in Nodes /\ AtWire(n, e, a, b, i)' =>
          \/ a = p /\ b = m /\ i \in Nat \ {0} /\ AtWire(n, e, a, b, i + 1)
          \/ ~(a = p /\ b = m) /\ AtWire(n, e, a, b, i)
    BY WireShifts
  <2>3. Holds(R.msg, n, e) => Place(n, e, "wire", p, m, 1)
    BY <1>0 DEF Place, AtWire
  <2>4. CASE k = "rpc"
    BY <1>1, <2>1, <2>3, <2>4 DEF Place
  <2>5. CASE k = "wire"
    BY <1>1, <2>2, <2>5 DEF Place
  <2>6. CASE k \notin {"rpc", "wire"}
    BY <1>1, <2>6, Untouched DEF Place
  <2> QED
    BY <2>4, <2>5, <2>6
<1>2. Shifting("wire", p, m, "rpc", m, m)
  BY <1>1 DEF Shifting
<1> QED
  BY <1>2, Shifts

\* The RPC thread takes an EXECUTION_UPDATE request off a channel.
LEMMA WireOnly ==
  ASSUME WireTypeOK, OnePlace, NEW m \in Nodes, NEW p \in Nodes,
         wire[p][m] # <<>>, wire' = [wire EXCEPT ![p][m] = Tail(@)],
         UNCHANGED <<rpc, thread, queue>>
  PROVE  OnePlace' /\ NoneAppears
<1>1. ASSUME NEW n \in Nodes, NEW e \in ExecIds, NEW k, NEW a, NEW b, NEW i,
             Place(n, e, k, a, b, i)'
      PROVE  \/ k = "wire" /\ a = p /\ b = m /\ i \in Nat \ {0} /\ Place(n, e, k, a, b, i + 1)
             \/ ~(k = "wire" /\ a = p /\ b = m) /\ Place(n, e, k, a, b, i)
  <2>1. a \in Nodes /\ b \in Nodes /\ AtWire(n, e, a, b, i)' =>
          \/ a = p /\ b = m /\ i \in Nat \ {0} /\ AtWire(n, e, a, b, i + 1)
          \/ ~(a = p /\ b = m) /\ AtWire(n, e, a, b, i)
    BY WireShifts
  <2>2. CASE k = "wire"
    BY <1>1, <2>1, <2>2 DEF Place
  <2>3. CASE k # "wire"
    BY <1>1, <2>3, Untouched DEF Place
  <2> QED
    BY <2>2, <2>3
<1>2. Shifting("wire", p, m, "none", m, m)
  BY <1>1 DEF Shifting
<1> QED
  BY <1>2, Shifts

\* An executor takes the head of its node's queue.
LEMMA QueueToThread ==
  ASSUME ThreadTypeOK, QueueTypeOK, OnePlace, NEW m \in Nodes, NEW u \in Executors,
         queue[m] # <<>>, queue' = [queue EXCEPT ![m] = Tail(@)],
         NEW T, T.msg = Head(queue[m]), thread' = [thread EXCEPT ![m][u] = T],
         UNCHANGED <<rpc, wire>>
  PROVE  OnePlace' /\ NoneAppears
<1>0. 1 \in DOMAIN queue[m] /\ queue[m][1] = Head(queue[m])
  BY DEF QueueTypeOK
<1>1. ASSUME NEW n \in Nodes, NEW e \in ExecIds, NEW k, NEW a, NEW b, NEW i,
             Place(n, e, k, a, b, i)'
      PROVE  \/ k = "thread" /\ a = m /\ b = u /\ i = 0 /\ Place(n, e, "queue", m, m, 1)
             \/ k = "queue" /\ a = m /\ b = m /\ i \in Nat \ {0} /\ Place(n, e, k, a, b, i + 1)
             \/ ~(k = "queue" /\ a = m /\ b = m) /\ Place(n, e, k, a, b, i)
  <2>1. a \in Nodes /\ b \in Executors /\ AtThread(n, e, a, b)' =>
          \/ a = m /\ b = u /\ Holds(T.msg, n, e)
          \/ ~(a = m /\ b = u) /\ AtThread(n, e, a, b)
    BY ThreadTakes
  <2>2. a \in Nodes /\ AtQueue(n, e, a, i)' =>
          \/ a = m /\ i \in Nat \ {0} /\ AtQueue(n, e, a, i + 1)
          \/ a # m /\ AtQueue(n, e, a, i)
    BY QueueShifts
  <2>3. Holds(T.msg, n, e) => Place(n, e, "queue", m, m, 1)
    BY <1>0 DEF Place, AtQueue
  <2>4. CASE k = "thread"
    BY <1>1, <2>1, <2>3, <2>4 DEF Place
  <2>5. CASE k = "queue"
    BY <1>1, <2>2, <2>5 DEF Place
  <2>6. CASE k \notin {"thread", "queue"}
    BY <1>1, <2>6, Untouched DEF Place
  <2> QED
    BY <2>4, <2>5, <2>6
<1>2. Shifting("queue", m, m, "thread", m, u)
  BY <1>1 DEF Shifting
<1> QED
  BY <1>2, Shifts

\* Every step of an RPC thread but the beginning of a submission moves or drops
\* messages: it makes no second copy of one.
LEMMA RpcMoves ==
  ASSUME TypeOK, OnePlace, NEW n \in Nodes, RpcStep(n) \/ \E d \in Dags : LearnDag(n, d)
  PROVE  OnePlace' /\ NoneAppears
<1>0. RpcTypeOK /\ QueueTypeOK /\ WireTypeOK
  BY DEF TypeOK
<1> DEFINE R == [rpc[n] EXCEPT !.pc = "mark"]
<1>1. R.pc = "mark"
  BY <1>0 DEF RpcTypeOK, RpcState
<1>2. IdleRpc.pc = "idle"
  BY DEF IdleRpc
<1>3. CASE SubmitEnqueue(n)
  <2>1. /\ (rpc[n].pc = "enqueue" \/ rpc[n].pc = "accept") /\ rpc' = [rpc EXCEPT ![n] = R]
        /\ Pushes(n) /\ UNCHANGED <<thread, wire>>
    BY <1>3 DEF SubmitEnqueue, Pushes
  <2> HIDE DEF R
  <2> QED
    BY <1>0, <1>1, <2>1, RpcToQueue
<1>4. CASE SubmitRoute(n)
  <2> DEFINE p == rpc[n].peer
             req == [func |-> "PROCESS_MESSAGE", msg |-> rpc[n].msg]
  <2>1. /\ rpc[n].pc = "route" /\ rpc' = [rpc EXCEPT ![n] = R]
        /\ wire' = [wire EXCEPT ![n][p] = Append(@, req)]
        /\ UNCHANGED <<thread, queue>>
    BY <1>4 DEF SubmitRoute
  <2>2. rpc[n].msg \in Message /\ p \in Nodes
    BY <1>0, <2>1 DEF RpcTypeOK
  <2>3. req \in Request /\ req.msg = rpc[n].msg
    BY <2>2 DEF Request
  <2> HIDE DEF R, p, req
  <2> QED
    BY <1>0, <1>1, <2>1, <2>2, <2>3, RpcToWire
<1>5. CASE SubmitRouteFails(n)
  BY <1>0, <1>2, <1>5, RpcOnly DEF SubmitRouteFails
<1>6. CASE SubmitNoMemory(n)
  BY <1>0, <1>2, <1>6, RpcOnly DEF SubmitNoMemory
<1>7. CASE SubmitMark(n)
  BY <1>0, <1>2, <1>7, RpcOnly DEF SubmitMark
<1>8. CASE ProcessEnqueue(n)
  <2>1. /\ (rpc[n].pc = "enqueue" \/ rpc[n].pc = "accept") /\ rpc' = [rpc EXCEPT ![n] = IdleRpc]
        /\ Pushes(n) /\ UNCHANGED <<thread, wire>>
    BY <1>8 DEF ProcessEnqueue, Pushes
  <2> HIDE DEF R
  <2> QED
    BY <1>0, <1>2, <2>1, RpcToQueue
<1>9. CASE CatalogAdd(n)
  BY <1>0, <1>2, <1>9, RpcOnly DEF CatalogAdd
<1>10. ASSUME NEW p \in Nodes, ProcessMessage(n, p) PROVE OnePlace' /\ NoneAppears
  <2> DEFINE P == [pc |-> "accept", msg |-> Head(wire[p][n]).msg, peer |-> p, dag |-> NoDag]
  <2>1. /\ wire[p][n] # <<>> /\ Head(wire[p][n]).func = "PROCESS_MESSAGE"
        /\ rpc' = [rpc EXCEPT ![n] = P] /\ wire' = [wire EXCEPT ![p][n] = Tail(@)]
        /\ UNCHANGED <<thread, queue>>
    BY <1>10 DEF ProcessMessage
  <2>2. P.msg = Head(wire[p][n]).msg
    OBVIOUS
  <2> HIDE DEF P
  <2> QED
    BY <1>0, <2>1, <2>2, WireToRpc
<1>11. ASSUME NEW p \in Nodes, ExecutionUpdate(n, p) PROVE OnePlace' /\ NoneAppears
  BY <1>0, <1>11, WireOnly DEF ExecutionUpdate
<1>12. ASSUME NEW d \in Dags, LearnDag(n, d) PROVE OnePlace' /\ NoneAppears
  <2> DEFINE L == [IdleRpc EXCEPT !.pc = "learn", !.dag = d]
  <2>1. rpc' = [rpc EXCEPT ![n] = L] /\ UNCHANGED <<queue, thread, wire>>
    BY <1>12 DEF LearnDag
  <2>2. L.pc = "learn"
    BY DEF IdleRpc
  <2> HIDE DEF L
  <2> QED
    BY <1>0, <2>1, <2>2, RpcOnly
<1> QED
  BY <1>3, <1>4, <1>5, <1>6, <1>7, <1>8, <1>9, <1>10, <1>11, <1>12 DEF RpcStep

\* The same for the steps of an executor.
LEMMA ThreadMoves ==
  ASSUME TypeOK, OnePlace, NEW n \in Nodes, NEW t \in Executors, ExecutorStep(n, t)
  PROVE  OnePlace' /\ NoneAppears
<1>0. ThreadTypeOK /\ QueueTypeOK /\ WireTypeOK
  BY DEF TypeOK
<1>1. IdleThread.pc = "idle"
  BY DEF IdleThread
<1>2. CASE Pop(n, t)
  <2> DEFINE T == [pc |-> "lookup", msg |-> Head(queue[n]), status |-> "FAILED"]
  <2>1. /\ queue[n] # <<>> /\ queue' = [queue EXCEPT ![n] = Tail(@)]
        /\ thread' = [thread EXCEPT ![n][t] = T] /\ UNCHANGED <<rpc, wire>>
    BY <1>2 DEF Pop, PopQueue
  <2>2. T.msg = Head(queue[n])
    OBVIOUS
  <2> HIDE DEF T
  <2> QED
    BY <1>0, <2>1, <2>2, QueueToThread
<1>3. CASE FindDag(n, t)
  <2> DEFINE T == [pc |-> "run", msg |-> thread[n][t].msg, status |-> "FAILED"]
  <2>1. /\ thread[n][t].pc = "lookup" /\ thread' = [thread EXCEPT ![n][t] = T]
        /\ UNCHANGED <<queue, rpc, wire>>
    BY <1>3 DEF FindDag
  <2>2. T.msg = thread[n][t].msg
    OBVIOUS
  <2> HIDE DEF T
  <2>3. ASSUME NEW m \in Nodes, NEW e \in ExecIds, NEW k, NEW a, NEW b, NEW i,
               Place(m, e, k, a, b, i)'
        PROVE  Place(m, e, k, a, b, i)
    <3>1. a \in Nodes /\ b \in Executors /\ AtThread(m, e, a, b)' => AtThread(m, e, a, b)
      <4>1. Holds(T.msg, m, e) => AtThread(m, e, n, t)
        BY <2>1, <2>2 DEF AtThread
      <4> QED
        BY <1>0, <2>1, <4>1, ThreadTakes
    <3> QED
      BY <2>1, <2>3, <3>1, Untouched DEF Place
  <2> QED
    BY <2>3, Stays
<1>4. CASE DagNotFound(n, t)
  BY <1>0, <1>1, <1>4, ThreadOnly DEF DagNotFound
<1>5. CASE RunDag(n, t)
  <2>1. PICK st \in Terminal :
          thread' = [thread EXCEPT ![n][t] = [pc |-> "report", msg |-> thread[n][t].msg, status |-> st]]
    BY <1>5 DEF RunDag
  <2> DEFINE T == [pc |-> "report", msg |-> thread[n][t].msg, status |-> st]
  <2>2. T.pc = "report" /\ UNCHANGED <<queue, rpc, wire>>
    BY <1>5 DEF RunDag
  <2>3. thread' = [thread EXCEPT ![n][t] = T]
    BY <2>1
  <2> HIDE DEF T
  <2> QED
    BY <1>0, <2>2, <2>3, ThreadOnly
<1>6. CASE ReportLocal(n, t)
  BY <1>0, <1>1, <1>6, ThreadOnly DEF ReportLocal
<1>7. CASE ReportRemote(n, t)
  <2> DEFINE p == thread[n][t].msg.sender
             req == [func |-> "EXECUTION_UPDATE", exec |-> thread[n][t].msg.exec,
                     status |-> thread[n][t].status, origin |-> thread[n][t].msg.origin]
  <2>1. /\ thread[n][t].pc = "report" /\ <<n, p>> \in Channels
        /\ thread' = [thread EXCEPT ![n][t] = IdleThread]
        /\ wire' = [wire EXCEPT ![n][p] = Append(@, req)] /\ UNCHANGED <<queue, rpc>>
    BY <1>7 DEF ReportRemote
  <2>2. p \in Nodes
    <3>1. <<n, p>> \in Channels
      BY <2>1
    <3> HIDE DEF p
    <3> QED
      BY <3>1, ConstantsAssumption
  <2>3. req \in Request /\ req.func = "EXECUTION_UPDATE"
    <3>1. thread[n][t].msg \in Message /\ thread[n][t].status \in Terminal
      BY <1>0, <2>1 DEF ThreadTypeOK, ThreadState
    <3> QED
      BY <3>1 DEF Request, Message
  <2> HIDE DEF p, req
  <2>4. ASSUME NEW m \in Nodes, NEW e \in ExecIds, NEW k, NEW a, NEW b, NEW i,
               Place(m, e, k, a, b, i)'
        PROVE  Place(m, e, k, a, b, i)
    <3>1. a \in Nodes /\ b \in Executors /\ AtThread(m, e, a, b)' => AtThread(m, e, a, b)
      BY <1>0, <1>1, <2>1, ThreadLeaves
    <3>2. a \in Nodes /\ b \in Nodes /\ AtWire(m, e, a, b, i)' => AtWire(m, e, a, b, i)
      BY <1>0, <2>1, <2>2, <2>3, WireGains
    <3> QED
      BY <2>1, <2>4, <3>1, <3>2, Untouched DEF Place
  <2> QED
    BY <2>4, Stays
<1>8. CASE ReportLost(n, t)
  BY <1>0, <1>1, <1>8, ThreadOnly DEF ReportLost
<1>9. CASE ExecutorExit(n, t)
  <2> DEFINE T == [IdleThread EXCEPT !.pc = "exited"]
  <2>1. thread' = [thread EXCEPT ![n][t] = T] /\ UNCHANGED <<queue, rpc, wire>>
    BY <1>9 DEF ExecutorExit
  <2>2. T.pc = "exited"
    BY DEF IdleThread
  <2> HIDE DEF T
  <2> QED
    BY <1>0, <2>1, <2>2, ThreadOnly
<1> QED
  BY <1>2, <1>3, <1>4, <1>5, <1>6, <1>7, <1>8, <1>9 DEF ExecutorStep

\* ... and for the steps that touch no message at all.
LEMMA OthersMove ==
  ASSUME OnePlace, UNCHANGED <<rpc, queue, thread, wire>>
  PROVE  OnePlace' /\ NoneAppears
<1>1. ASSUME NEW n \in Nodes, NEW e \in ExecIds, NEW k, NEW a, NEW b, NEW i,
             Place(n, e, k, a, b, i)'
      PROVE  Place(n, e, k, a, b, i)
  BY <1>1, Untouched DEF Place
<1> QED
  BY <1>1, Stays

\* A message that an RPC thread lets go of without handing it on is nowhere.
LEMMA RpcDrops ==
  ASSUME RpcTypeOK, OnePlace, NEW m \in Nodes, NEW R,
         R.pc \notin {"enqueue", "route", "accept"}, rpc' = [rpc EXCEPT ![m] = R],
         UNCHANGED <<queue, thread, wire>>,
         NEW n \in Nodes, NEW e \in ExecIds, AtRpc(n, e, m)
  PROVE  ~Unrun(n, e)'
<1> SUFFICES ASSUME NEW k, NEW a, NEW b, NEW i, Place(n, e, k, a, b, i)'
             PROVE  FALSE
  BY UnrunIsPlaceNext
<1>1. Place(n, e, "rpc", m, m, 0)
  BY DEF Place
<1>2. a \in Nodes /\ AtRpc(n, e, a)' => a # m /\ AtRpc(n, e, a)
  BY RpcLeaves
<1>3. Place(n, e, k, a, b, i) /\ ~(k = "rpc" /\ a = m)
  BY <1>2, Untouched DEF Place
<1> QED
  BY <1>1, <1>3 DEF OnePlace

\* A message whose DAG an executor has run, or could not find, is nowhere.
LEMMA ThreadDrops ==
  ASSUME ThreadTypeOK, OnePlace, NEW m \in Nodes, NEW u \in Executors, NEW T,
         T.pc \notin {"lookup", "run"}, thread' = [thread EXCEPT ![m][u] = T],
         UNCHANGED <<queue, rpc, wire>>,
         NEW n \in Nodes, NEW e \in ExecIds, AtThread(n, e, m, u)
  PROVE  ~Unrun(n, e)'
<1> SUFFICES ASSUME NEW k, NEW a, NEW b, NEW i, Place(n, e, k, a, b, i)'
             PROVE  FALSE
  BY UnrunIsPlaceNext
<1>1. Place(n, e, "thread", m, u, 0)
  BY DEF Place
<1>2. a \in Nodes /\ b \in Executors /\ AtThread(n, e, a, b)' =>
        ~(a = m /\ b = u) /\ AtThread(n, e, a, b)
  BY ThreadLeaves
<1>3. Place(n, e, k, a, b, i) /\ ~(k = "thread" /\ a = m /\ b = u)
  BY <1>2, Untouched DEF Place
<1> QED
  BY <1>1, <1>3 DEF OnePlace

-----------------------------------------------------------------------------
(***************************************************************************)
(* Executed at most once                                                   *)
(***************************************************************************)

\* A message that waits carries an id that was handed out and that has no
\* outcome, and an id still to be handed out has none.
Fresh ==
  \A n \in Nodes, e \in ExecIds :
    /\ Unrun(n, e) => e < nextExec[n] /\ outcome[n][e] = <<>>
    /\ nextExec[n] <= e => outcome[n][e] = <<>>

\* The inductive invariant for ExecutedAtMostOnce, next to TypeOK.
Once == OnePlace /\ Fresh /\ ExecutedAtMostOnce

\* A submission puts one message, with an id nobody used, in one place.
LEMMA SubmitPlaces ==
  ASSUME TypeOK, OnePlace, Fresh, NEW n \in Nodes, NEW d \in Dags, Submit(n, d)
  PROVE  /\ OnePlace'
         /\ \A m \in Nodes, e \in ExecIds :
              Unrun(m, e)' => Unrun(m, e) \/ (m = n /\ e = nextExec[n])
<1>0. RpcTypeOK /\ nextExec[n] \in Int
  BY DEF TypeOK, TrackerTypeOK
<1>00. PICK peer \in Targets(n), sender \in StaleSenders :
        rpc' = [rpc EXCEPT ![n] =
                  [pc |-> IF peer = n THEN "enqueue" ELSE "route",
                   msg |-> [exec |-> nextExec[n], dag |-> d, sender |-> sender, origin |-> n],
                   peer |-> peer, dag |-> NoDag]]
  BY DEF Submit
<1> DEFINE R == [pc |-> IF peer = n THEN "enqueue" ELSE "route",
                 msg |-> [exec |-> nextExec[n], dag |-> d, sender |-> sender, origin |-> n],
                 peer |-> peer, dag |-> NoDag]
<1>1. /\ rpc' = [rpc EXCEPT ![n] = R]
      /\ R.msg.exec = nextExec[n] /\ R.msg.origin = n
  BY <1>00
<1> HIDE DEF R
<1>2. UNCHANGED <<queue, thread, wire>>
  BY DEF Submit
<1>3. ASSUME NEW m \in Nodes, NEW e \in ExecIds, NEW k, NEW a, NEW b, NEW i,
             Place(m, e, k, a, b, i)'
      PROVE  \/ m = n /\ e = nextExec[n] /\ k = "rpc" /\ a = n /\ b = n /\ i = 0
             \/ Place(m, e, k, a, b, i)
  <2>1. a \in Nodes /\ AtRpc(m, e, a)' =>
          \/ a = n /\ m = n /\ e = nextExec[n]
          \/ AtRpc(m, e, a)
    BY <1>0, <1>1, RpcTakes DEF Holds
  <2> QED
    BY <1>2, <1>3, <2>1, Untouched DEF Place
<1>4. \A k, a, b, i : ~Place(n, nextExec[n], k, a, b, i)
  <2>1. nextExec[n] \in ExecIds
    BY DEF Submit, TypeOK, TrackerTypeOK, ExecIds
  <2>2. ~Unrun(n, nextExec[n])
    BY <1>0, <2>1 DEF Fresh
  <2> QED
    BY <2>2, UnrunIsPlace
<1>5. OnePlace'
  BY <1>3, <1>4 DEF OnePlace
<1>6. ASSUME NEW m \in Nodes, NEW e \in ExecIds, Unrun(m, e)'
      PROVE  Unrun(m, e) \/ (m = n /\ e = nextExec[n])
  BY <1>3, <1>6, UnrunIsPlace, UnrunIsPlaceNext
<1> QED
  BY <1>5, <1>6

\* Every step keeps the invariant: only a submission makes a message appear,
\* only RunDag adds an outcome, and it takes the message away.
LEMMA NextOnce == TypeOK /\ Once /\ [Next]_vars => Once'
<1> SUFFICES ASSUME TypeOK, Once, [Next]_vars PROVE Once'
  OBVIOUS
<1>0. /\ OnePlace /\ Fresh /\ ExecutedAtMostOnce
      /\ \A n \in Nodes : nextExec[n] \in Int
      /\ \A n \in Nodes, e \in ExecIds : e \in Int
  BY DEF Once, TypeOK, TrackerTypeOK, ExecIds
<1>1. ASSUME OnePlace', NoneAppears, UNCHANGED <<nextExec, outcome>> PROVE Once'
  <2>1. Fresh'
    <3> SUFFICES ASSUME NEW n \in Nodes, NEW e \in ExecIds
                 PROVE  /\ Unrun(n, e)' => e < nextExec'[n] /\ outcome'[n][e] = <<>>
                        /\ nextExec'[n] <= e => outcome'[n][e] = <<>>
      BY DEF Fresh
    <3> QED
      BY <1>0, <1>1 DEF Fresh, NoneAppears
  <2>2. ExecutedAtMostOnce'
    BY <1>0, <1>1 DEF ExecutedAtMostOnce
  <2> QED
    BY <1>1, <2>1, <2>2 DEF Once
<1>2. ASSUME NEW n \in Nodes, NEW d \in Dags, Submit(n, d) PROVE Once'
  <2>1. /\ OnePlace'
        /\ \A m \in Nodes, e \in ExecIds :
             Unrun(m, e)' => Unrun(m, e) \/ (m = n /\ e = nextExec[n])
    BY <1>0, <1>2, SubmitPlaces
  <2>2. outcome' = outcome /\ \A m \in Nodes : nextExec'[m] = IF m = n THEN nextExec[m] + 1 ELSE nextExec[m]
    BY <1>2 DEF Submit, TakeExecId, TypeOK, TrackerTypeOK
  <2>3. Fresh'
    <3> SUFFICES ASSUME NEW m \in Nodes, NEW e \in ExecIds
                 PROVE  /\ Unrun(m, e)' => e < nextExec'[m] /\ outcome'[m][e] = <<>>
                        /\ nextExec'[m] <= e => outcome'[m][e] = <<>>
      BY DEF Fresh
    <3> QED
      BY <1>0, <2>1, <2>2 DEF Fresh
  <2>4. ExecutedAtMostOnce'
    BY <1>0, <2>2 DEF ExecutedAtMostOnce
  <2> QED
    BY <2>1, <2>3, <2>4 DEF Once
<1>3. ASSUME NEW n \in Nodes, NEW t \in Executors, RunDag(n, t) PROVE Once'
  <2>1. OnePlace' /\ NoneAppears
    BY <1>0, <1>3, ThreadMoves DEF ExecutorStep
  <2>0. thread[n][t].pc = "run" /\ thread[n][t].msg \in Message
    BY <1>3 DEF RunDag, TypeOK, ThreadTypeOK
  <2>2. PICK o \in Nodes, x \in ExecIds :
          o = thread[n][t].msg.origin /\ x = thread[n][t].msg.exec
    BY <2>0 DEF Message
  <2>3. PICK st \in Terminal :
          /\ thread' = [thread EXCEPT ![n][t] = [pc |-> "report", msg |-> thread[n][t].msg, status |-> st]]
          /\ outcome' = [outcome EXCEPT ![o][x] = Append(@, st)]
    BY <1>3, <2>2 DEF RunDag
  <2>4. UNCHANGED <<nextExec, queue, rpc, wire>>
    BY <1>3 DEF RunDag
  <2>5. AtThread(o, x, n, t)
    BY <2>0, <2>2, NullAssumption DEF AtThread, Holds
  <2>6. ~Unrun(o, x)'
    <3> DEFINE T == [pc |-> "report", msg |-> thread[n][t].msg, status |-> st]
    <3>1. thread' = [thread EXCEPT ![n][t] = T] /\ T.pc = "report" /\ ThreadTypeOK
      BY <2>3 DEF TypeOK
    <3> HIDE DEF T
    <3> QED
      BY <1>0, <2>2, <2>4, <2>5, <3>1, ThreadDrops
  <2>7. Unrun(o, x)
    <3>1. Place(o, x, "thread", n, t, 0)
      BY <2>5 DEF Place
    <3> QED
      BY <3>1, UnrunIsPlace
  <2>8. /\ outcome[o][x] = <<>> /\ x < nextExec[o]
        /\ outcome'[o][x] = <<st>>
        /\ \A m \in Nodes, e \in ExecIds : ~(m = o /\ e = x) => outcome'[m][e] = outcome[m][e]
    <3>1. outcome[o][x] = <<>> /\ x < nextExec[o]
      BY <1>0, <2>2, <2>7 DEF Fresh
    <3>2. outcome \in [Nodes -> [ExecIds -> Seq(Terminal)]]
      BY DEF TypeOK
    <3>3. outcome'[o][x] = Append(outcome[o][x], st)
      BY <2>2, <2>3, <3>2
    <3>4. ASSUME NEW m \in Nodes, NEW e \in ExecIds, ~(m = o /\ e = x)
          PROVE  outcome'[m][e] = outcome[m][e]
      BY <2>3, <3>2, <3>4
    <3>5. outcome'[o][x] = <<st>>
      BY <3>1, <3>3
    <3> QED
      BY <3>1, <3>4, <3>5
  <2>9. Fresh'
    <3> SUFFICES ASSUME NEW m \in Nodes, NEW e \in ExecIds
                 PROVE  /\ Unrun(m, e)' => e < nextExec'[m] /\ outcome'[m][e] = <<>>
                        /\ nextExec'[m] <= e => outcome'[m][e] = <<>>
      BY DEF Fresh
    <3> QED
      BY <1>0, <2>1, <2>4, <2>6, <2>8 DEF Fresh, NoneAppears
  <2>10. ExecutedAtMostOnce'
    <3>2. ASSUME NEW m \in Nodes, NEW e \in ExecIds PROVE Len(outcome'[m][e]) <= 1
      <4>1. CASE m = o /\ e = x
        <5>1. outcome'[m][e] = <<st>>
          BY <2>8, <4>1
        <5> QED
          BY <5>1
      <4>2. CASE ~(m = o /\ e = x)
        <5>1. outcome'[m][e] = outcome[m][e]
          BY <2>8, <4>2
        <5>2. Len(outcome[m][e]) <= 1
          BY <1>0 DEF ExecutedAtMostOnce
        <5> QED
          BY <5>1, <5>2
      <4> QED
        BY <4>1, <4>2
    <3> QED
      BY <3>2 DEF ExecutedAtMostOnce
  <2> QED
    BY <2>1, <2>9, <2>10 DEF Once
<1>4. ASSUME NEW n \in Nodes, RpcStep(n) \/ \E d \in Dags : LearnDag(n, d) PROVE Once'
  <2>1. UNCHANGED <<nextExec, outcome>>
    BY <1>4 DEF RpcStep, LearnDag, SubmitEnqueue, SubmitRoute, SubmitRouteFails, SubmitNoMemory,
                SubmitMark, ProcessEnqueue, CatalogAdd, ProcessMessage, ExecutionUpdate
  <2> QED
    BY <1>0, <1>1, <1>4, <2>1, RpcMoves
<1>5. ASSUME NEW n \in Nodes, NEW t \in Executors, ExecutorStep(n, t), ~RunDag(n, t) PROVE Once'
  <2>1. UNCHANGED <<nextExec, outcome>>
    BY <1>5 DEF ExecutorStep, Pop, FindDag, DagNotFound, ReportLocal, ReportRemote, ReportLost,
                ExecutorExit
  <2> QED
    BY <1>0, <1>1, <1>5, <2>1, ThreadMoves
<1>6. ASSUME UNCHANGED <<rpc, queue, thread, wire, nextExec, outcome>> PROVE Once'
  BY <1>0, <1>1, <1>6, OthersMove
<1>7. ASSUME NEW n \in Nodes, Cleanup(n) \/ StopExecutors(n) PROVE Once'
  BY <1>6, <1>7 DEF Cleanup, StopExecutors
<1>8. CASE UNCHANGED vars
  BY <1>6, <1>8 DEF vars
<1> QED
  BY <1>2, <1>3, <1>4, <1>5, <1>7, <1>8 DEF Next

\* Nothing waits and nothing has run when the nodes start.
LEMMA InitOnce == Init => Once
<1> SUFFICES ASSUME Init PROVE Once
  OBVIOUS
<1>1. \A n, e, k, a, b, i : ~Place(n, e, k, a, b, i)
  BY DEF Init, IdleRpc, IdleThread, Place, AtRpc, AtQueue, AtThread, AtWire
<1>2. \A n, e : ~Unrun(n, e)
  BY <1>1, UnrunIsPlace
<1>3. \A n \in Nodes, e \in ExecIds : outcome[n][e] = <<>>
  BY DEF Init
<1> QED
  BY <1>1, <1>2, <1>3 DEF Once, OnePlace, Fresh, ExecutedAtMostOnce

\* The DAG of a submitted message runs at most once, for every cluster, every
\* interleaving of its threads and every value of the unassigned sender_id.
THEOREM RunAtMostOnce == Spec => []ExecutedAtMostOnce
<1>1. Once => ExecutedAtMostOnce
  BY DEF Once
<1> QED
  BY <1>1, InitOnce, NextOnce, TypeCorrect, PTL DEF Spec
============================================================================
