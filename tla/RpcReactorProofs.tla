-------------------------- MODULE RpcReactorProofs --------------------------
(***************************************************************************)
(* Machine-checked proofs about RpcReactor, for every set of connections,  *)
(* every way the clients' requests are cut into bytes and every buffer     *)
(* size, with and without the faults of accept and of the allocator.       *)
(***************************************************************************)
EXTENDS RpcReactor, TLAPS

(***************************************************************************)
(* The inductive invariant: Typing holds on its own, the other three parts *)
(* on top of it.                                                           *)
(***************************************************************************)

\* Sockets: only a connection that nobody has opened has no channel.
Sockets ==
  /\ \A c \in Conns : plan[c] \in Plans[c]
  /\ client \in [Conns -> {"idle", "connected", "gone"}]
  /\ chan \in [Conns -> {"none", "backlog", "open", "closed"}]
  /\ edge \subseteq {c \in Conns : chan[c] = "open"}
  /\ knock \subseteq Listeners
  /\ shutdown \in BOOLEAN
  /\ \A c \in Conns : client[c] = "idle" => chan[c] = "none"

\* Receive buffers, and the histories, as functions on the connections
Buffers ==
  /\ sent \in [Conns -> Nat] /\ taken \in [Conns -> Nat]
  /\ done \in [Conns -> Nat] /\ unread \in [Conns -> Nat]
  /\ \A c \in Conns : BufferOK(c)

Histories ==
  /\ runs \in [Conns -> Seq(Nat)] /\ out \in [Conns -> Seq(Nat)]
  /\ DOMAIN marks = Conns

LoopStates ==
  [pc : {"top", "wait", "batch", "process", "handler", "notfound", "again", "exited", "dead"},
   batch : SUBSET Conns, hup : SUBSET Conns, accepts : SUBSET Listeners,
   conn : Conns \cup {NoConn}, frame : Nat, calls : Nat]

\* The connections of a batch are open until their turn comes; the one whose data
\* is being processed had its turn, and its next request begins in the buffer.
Turns ==
  /\ loop \in LoopStates
  /\ \A c \in loop.batch : chan[c] = "open"
  /\ Busy => /\ Current \in Conns /\ Current \notin loop.batch
             /\ chan[Current] = "open"
             /\ done[Current] <= loop.frame /\ loop.frame <= Len(plan[Current])
             /\ End(Current, loop.frame) <= taken[Current]
  /\ Busy /\ loop.pc # "process" => Complete(Current, Request)
  /\ ~Busy /\ loop.pc # "dead" => Current = NoConn

Typing == Sockets /\ Buffers /\ Histories /\ Turns /\ pending \subseteq Conns \X Nat

\* The list of pending contexts holds the request whose handler runs, or nothing.
PendingIsCurrent ==
  loop.pc # "dead" =>
    pending \subseteq (IF loop.pc = "handler" THEN {<<Current, Request>>} ELSE {})

\* The requests of c whose processing began since the connection was opened: those
\* dropped from the buffer, or, while its data is processed, those before the next.
Begun(c) ==
  IF c = Current /\ Busy THEN (IF loop.pc = "process" THEN loop.frame ELSE Request) ELSE done[c]

RunsAreBegun ==
  \A c \in Conns : "memory" \notin marks[c] =>
    /\ \A i \in DOMAIN runs[c] : runs[c][i] = i
    /\ loop.pc # "dead" => Len(runs[c]) = Begun(c)

\* A response is owed to the request that is being answered only, unless one of
\* its connection was lost; the second call for one request follows a lost one.
OwedToCurrent ==
  /\ loop.pc = "again" => "failed" \in marks[Current]
  /\ \A c \in Conns : "failed" \notin marks[c] =>
       \/ out[c] = runs[c] /\ ~(c = Current /\ Responding)
       \/ c = Current /\ (Responding \/ loop.pc = "dead") /\ Append(out[c], Request) = runs[c]

\* Nothing on a connection is forgotten: what epoll_wait has not reported is an
\* edge, what it has reported waits for its turn in the batch, and what has been
\* read is processed or being processed.
Announced(c) ==
  /\ chan[c] \in {"none", "backlog"} => taken[c] = 0 /\ done[c] = 0
  /\ chan[c] = "backlog" /\ "left" \notin marks[c] => Port[c] \in knock \cup loop.accepts
  /\ chan[c] = "open" /\ marks[c] \cap {"filled", "memory"} = {} =>
       /\ sent[c] > taken[c] \/ client[c] = "gone" => c \in edge \cup loop.batch
       /\ Complete(c, done[c] + 1) => Busy /\ c = Current

NothingForgotten ==
  ~Stopped =>
    /\ loop.pc \in {"top", "wait"} => loop.batch = {} /\ loop.accepts = {}
    /\ \A c \in Conns : Announced(c)

USE ReactorAssumption

-----------------------------------------------------------------------------
(***************************************************************************)
(* Plans                                                                   *)
(***************************************************************************)

\* Requests are numbered from 1, as bytes are, and each ends at some byte.
LEMMA PlanRequests ==
  ASSUME NEW c \in Conns, NEW p \in Plans[c]
  PROVE  /\ Len(p) \in Nat /\ DOMAIN p = 1 .. Len(p)
         /\ \A i \in DOMAIN p : p[i].end \in Nat /\ p[i].end > 0
<1> DEFINE R == [end : Nat \ {0}, func : STRING]
<1>1. p \in Seq(R)
  BY PlanAssumption
<1> HIDE DEF R
<1>2. Len(p) \in Nat /\ DOMAIN p = 1 .. Len(p) /\ \A i \in DOMAIN p : p[i] \in R
  BY <1>1
<1> QED
  BY <1>2 DEF R

\* The end of a request is a byte number.
LEMMA EndType ==
  ASSUME NEW c \in Conns, NEW p \in Plans[c], NEW k \in 0 .. Len(p)
  PROVE  EndOf(p, k) \in Nat
BY PlanRequests DEF EndOf

\* Later requests end later.
LEMMA EndGrows ==
  ASSUME NEW c \in Conns, NEW p \in Plans[c], NEW j \in 0 .. Len(p), NEW k \in 0 .. Len(p), j <= k
  PROVE  EndOf(p, j) <= EndOf(p, k)
<1>1. \A i, l \in DOMAIN p : i < l => p[i].end < p[l].end
  BY PlanAssumption
<1> QED
  BY <1>1, PlanRequests DEF EndOf

-----------------------------------------------------------------------------
(***************************************************************************)
(* Typing                                                                  *)
(***************************************************************************)

\* The parts say all that the type invariant says.
LEMMA TypingIsTypeOK == Typing => TypeOK
BY DEF Typing, Sockets, Buffers, Turns, LoopStates, TypeOK

\* Sockets stay as they are in a step that touches none.
LEMMA SocketsFrame ==
  ASSUME Sockets, UNCHANGED <<plan, client, chan, edge, knock, shutdown>>
  PROVE  Sockets'
BY DEF Sockets

\* Receive buffers stay as they are in a step that neither reads nor processes.
LEMMA BuffersFrame ==
  ASSUME Buffers, UNCHANGED <<plan, sent, taken, done, unread>>
  PROVE  Buffers'
BY DEF Buffers, BufferOK, End, Total, Buffered

\* The histories stay as they are in a step that writes none.
LEMMA HistoriesFrame ==
  ASSUME Histories, UNCHANGED <<runs, out, marks>>
  PROVE  Histories'
BY DEF Histories

\* A step of the clients leaves the server thread where it is.
LEMMA TurnsFrame ==
  ASSUME Turns, UNCHANGED <<plan, taken, done, loop>>,
         \A c \in Conns : chan[c] = "open" => chan'[c] = "open"
  PROVE  Turns'
BY DEF Turns, LoopStates, Busy, Current, Request, Complete, End

\* What a receive buffer holds, as numbers.
LEMMA BufferFacts ==
  ASSUME Sockets, Buffers, NEW c \in Conns
  PROVE  /\ plan[c] \in Plans[c]
         /\ Len(plan[c]) \in Nat /\ done[c] \in 0 .. Len(plan[c])
         /\ EndOf(plan[c], done[c]) \in Nat /\ Total(c) \in Nat
         /\ taken[c] \in Nat /\ sent[c] \in Nat /\ unread[c] \in 0 .. SendCap
         /\ EndOf(plan[c], done[c]) <= taken[c]
         /\ taken[c] <= sent[c] /\ sent[c] <= Total(c)
         /\ taken[c] - EndOf(plan[c], done[c]) <= RxSize
<1>1. plan[c] \in Plans[c]
  BY DEF Sockets
<1>2. BufferOK(c) /\ taken[c] \in Nat /\ sent[c] \in Nat
  BY DEF Buffers
<1>3. Len(plan[c]) \in Nat
  BY <1>1, PlanRequests
<1>4. done[c] \in 0 .. Len(plan[c]) /\ Len(plan[c]) \in 0 .. Len(plan[c])
  BY <1>2, <1>3 DEF BufferOK
<1>5. EndOf(plan[c], done[c]) \in Nat /\ Total(c) \in Nat
  BY <1>1, <1>4, EndType DEF Total, End
<1> QED
  BY <1>1, <1>2, <1>3, <1>4, <1>5 DEF BufferOK, Buffered, End

\* The buffer of one connection changes, and the new one is within its bounds.
LEMMA BufferChange ==
  ASSUME Sockets, Buffers, NEW c \in Conns, UNCHANGED plan,
         sent' \in [Conns -> Nat], taken' \in [Conns -> Nat], done' \in [Conns -> Nat],
         unread' \in [Conns -> Nat],
         \A b \in Conns \ {c} : /\ sent'[b] = sent[b] /\ taken'[b] = taken[b]
                                /\ done'[b] = done[b] /\ unread'[b] = unread[b],
         done'[c] \in 0 .. Len(plan[c]),
         EndOf(plan[c], done'[c]) <= taken'[c], taken'[c] <= sent'[c], sent'[c] <= Total(c),
         taken'[c] - EndOf(plan[c], done'[c]) <= RxSize,
         unread'[c] \in 0 .. SendCap
  PROVE  Buffers'
<1>1. ASSUME NEW b \in Conns PROVE BufferOK(b)'
  <2>1. CASE b # c
    BY <2>1 DEF Buffers, BufferOK, End, Total, Buffered
  <2>2. CASE b = c
    <3>1. EndOf(plan[c], done'[c]) \in Nat
      BY EndType DEF Sockets
    <3> QED
      BY <2>2, <3>1 DEF BufferOK, End, Total, Buffered
  <2> QED
    BY <2>1, <2>2
<1> QED
  BY <1>1 DEF Buffers

\* close_connection leaves the other connections alone.
LEMMA CloseSockets ==
  ASSUME Sockets, NEW c \in Conns, chan[c] = "open", Close(c), UNCHANGED <<plan, client, knock, shutdown>>
  PROVE  Sockets' /\ \A b \in Conns \ {c} : chan'[b] = chan[b]
<1>1. /\ chan \in [Conns -> {"none", "backlog", "open", "closed"}]
      /\ chan' = [chan EXCEPT ![c] = "closed"] /\ edge' = edge \ {c}
  BY DEF Close, Sockets
<1>2. /\ chan' \in [Conns -> {"none", "backlog", "open", "closed"}]
      /\ chan'[c] = "closed" /\ \A b \in Conns \ {c} : chan'[b] = chan[b]
  BY <1>1
<1>3. edge' \subseteq {b \in Conns : chan'[b] = "open"}
  BY <1>1, <1>2 DEF Sockets
<1>4. \A b \in Conns : client'[b] = "idle" => chan'[b] = "none"
  BY <1>1, <1>2 DEF Sockets
<1> QED
  BY <1>2, <1>3, <1>4 DEF Sockets

\* After process_buffered_data the connection is closed or left as it is.
LEMMA AfterProcessingSockets ==
  ASSUME Sockets, NEW c \in Conns, chan[c] = "open", NEW k, AfterProcessing(c, k),
         UNCHANGED <<plan, client, knock, shutdown>>
  PROVE  Sockets' /\ \A b \in Conns \ {c} : chan'[b] = chan[b]
<1>1. CASE Close(c)
  BY <1>1, CloseSockets
<1>2. CASE UNCHANGED <<chan, edge>>
  BY <1>2, SocketsFrame
<1> QED
  BY <1>1, <1>2 DEF AfterProcessing

\* A response that is written takes a place in the socket buffer.
LEMMA SendBuffers ==
  ASSUME Sockets, Buffers, NEW c \in Conns, SendSucceeds(c), UNCHANGED <<plan, sent, taken, done>>
  PROVE  Buffers'
<1> DEFINE n == IF client[c] = "gone" THEN unread[c] ELSE unread[c] + 1
<1>1. unread \in [Conns -> Nat] /\ unread' = [unread EXCEPT ![c] = n] /\ unread[c] < SendCap
  BY DEF Buffers, SendSucceeds
<1>2. n \in 0 .. SendCap
  BY <1>1
<1> HIDE DEF n
<1>3. /\ unread' \in [Conns -> Nat] /\ unread'[c] \in 0 .. SendCap
      /\ \A b \in Conns \ {c} : unread'[b] = unread[b]
  BY <1>1, <1>2
<1>4. sent' \in [Conns -> Nat] /\ taken' \in [Conns -> Nat] /\ done' \in [Conns -> Nat]
  BY DEF Buffers
<1>5. /\ done'[c] \in 0 .. Len(plan[c]) /\ EndOf(plan[c], done'[c]) <= taken'[c]
      /\ taken'[c] <= sent'[c] /\ sent'[c] <= Total(c)
      /\ taken'[c] - EndOf(plan[c], done'[c]) <= RxSize
  BY BufferFacts
<1> QED
  BY <1>3, <1>4, <1>5, BufferChange

\* The mark of a fault leaves the other histories alone.
LEMMA MarkHistories ==
  ASSUME Histories, NEW c \in Conns, NEW m, Mark(c, m), UNCHANGED <<runs, out>>
  PROVE  Histories'
BY DEF Histories, Mark

\* rpc_send_async_response has returned and the next request comes up.
LEMMA NextRequestLoop ==
  ASSUME loop \in LoopStates, loop' = [NextRequest EXCEPT !.calls = @ + 1]
  PROVE  /\ loop' \in LoopStates /\ loop'.pc = "process" /\ loop'.frame = loop.frame + 1
         /\ loop'.conn = loop.conn /\ loop'.batch = loop.batch
<1> DEFINE f == loop.frame + 1
           g == loop.calls + 1
<1>1. f \in Nat /\ g \in Nat
  BY DEF LoopStates
<1>2. loop' = [loop EXCEPT !.pc = "process", !.frame = f, !.calls = g]
  BY DEF NextRequest, LoopStates
<1> HIDE DEF f, g
<1>3. /\ loop' \in LoopStates /\ loop'.pc = "process" /\ loop'.frame = f
      /\ loop'.conn = loop.conn /\ loop'.batch = loop.batch
  BY <1>1, <1>2 DEF LoopStates
<1> QED
  BY <1>3 DEF f

\* The server starts with empty buffers, waiting for its first event.
LEMMA InitTyping == Init => Typing
<1> SUFFICES ASSUME Init PROVE Typing
  OBVIOUS
<1>1. \A c \in Conns : plan[c] \in Plans[c]
  BY DEF Init
<1>2. Sockets
  BY <1>1 DEF Init, Sockets
<1>3. Histories /\ pending \subseteq Conns \X Nat
  BY DEF Init, Histories
<1>4. Turns
  BY DEF Init, AtTop, Turns, LoopStates, Busy, Current
<1>5. ASSUME NEW c \in Conns PROVE Len(plan[c]) \in Nat /\ Total(c) \in Nat
  <2>1. Len(plan[c]) \in Nat /\ Len(plan[c]) \in 0 .. Len(plan[c])
    BY <1>1, PlanRequests
  <2> QED
    BY <1>1, <2>1, EndType DEF Total, End
<1>6. Buffers
  BY <1>5 DEF Init, Buffers, BufferOK, Buffered, End, EndOf
<1> QED
  BY <1>2, <1>3, <1>4, <1>6 DEF Typing

\* Every step of the clients and of the server thread keeps the typing.
LEMMA NextTyping == Typing /\ [Next]_vars => Typing'
<1> SUFFICES ASSUME Typing, [Next]_vars PROVE Typing'
  OBVIOUS
<1>1. ASSUME NEW c \in Conns, Connect(c) PROVE Typing'
  <2>1. Buffers' /\ Histories' /\ Turns'
    BY <1>1, BuffersFrame, HistoriesFrame, TurnsFrame DEF Typing, Connect, clients, histories, Sockets
  <2>2. Sockets'
    BY <1>1 DEF Typing, Sockets, Connect, Listeners
  <2> QED
    BY <1>1, <2>1, <2>2 DEF Typing, Connect
<1>2. ASSUME NEW c \in Conns, Arrive(c) PROVE Typing'
  <2>1. Histories' /\ Turns'
    BY <1>2, HistoriesFrame, TurnsFrame DEF Typing, Arrive, clients, histories
  <2>2. Sockets'
    BY <1>2 DEF Typing, Sockets, Arrive, Listeners
  <2>3. Buffers'
    <3>1. PICK n \in (sent[c] + 1) .. Total(c) : sent' = [sent EXCEPT ![c] = n]
      BY <1>2 DEF Arrive
    <3>2. /\ Total(c) \in Nat /\ sent[c] \in Nat /\ taken[c] <= sent[c] /\ taken[c] \in Nat
          /\ sent \in [Conns -> Nat]
      BY BufferFacts DEF Typing, Buffers
    <3>3. n \in Nat /\ sent[c] <= n /\ n <= Total(c) /\ taken[c] <= n
      BY <3>2
    <3>4. sent' \in [Conns -> Nat] /\ sent'[c] = n /\ \A b \in Conns \ {c} : sent'[b] = sent[b]
      BY <3>1, <3>2, <3>3
    <3> QED
      BY <1>2, <3>3, <3>4, BufferFacts, BufferChange DEF Arrive, Typing, Buffers
  <2> QED
    BY <1>2, <2>1, <2>2, <2>3 DEF Typing, Arrive
<1>3. ASSUME NEW c \in Conns, ClientClose(c) PROVE Typing'
  <2>1. Buffers' /\ Histories' /\ Turns'
    BY <1>3, BuffersFrame, HistoriesFrame, TurnsFrame DEF Typing, ClientClose, clients, histories
  <2>2. Sockets'
    BY <1>3 DEF Typing, Sockets, ClientClose
  <2> QED
    BY <1>3, <2>1, <2>2 DEF Typing, ClientClose
<1>4. ASSUME NEW c \in Conns, ClientReads(c) PROVE Typing'
  <2>1. Sockets' /\ Histories' /\ Turns'
    BY <1>4, SocketsFrame, HistoriesFrame, TurnsFrame DEF Typing, ClientReads, clients, histories
  <2>2. Buffers'
    <3>1. unread[c] \in 0 .. SendCap /\ unread \in [Conns -> Nat]
      BY BufferFacts DEF Typing, Buffers
    <3>2. /\ unread' \in [Conns -> Nat] /\ unread'[c] \in 0 .. SendCap
          /\ \A b \in Conns \ {c} : unread'[b] = unread[b]
      BY <1>4, <3>1 DEF ClientReads
    <3> QED
      BY <1>4, <3>2, BufferFacts, BufferChange DEF ClientReads, Typing, Buffers, clients
  <2> QED
    BY <1>4, <2>1, <2>2 DEF Typing, ClientReads
<1>5. ASSUME Shutdown PROVE Typing'
  <2>1. Buffers' /\ Histories' /\ Turns'
    BY <1>5, BuffersFrame, HistoriesFrame, TurnsFrame DEF Typing, Shutdown, clients, histories
  <2>2. Sockets'
    BY <1>5 DEF Typing, Sockets, Shutdown, clients
  <2> QED
    BY <1>5, <2>1, <2>2 DEF Typing, Shutdown
<1>6. ASSUME LoopTop PROVE Typing'
  <2>1. Sockets' /\ Buffers' /\ Histories'
    BY <1>6, SocketsFrame, BuffersFrame, HistoriesFrame DEF Typing, LoopTop, clients, histories
  <2>2. Turns'
    BY <1>6 DEF Typing, LoopTop, clients, Turns, LoopStates, Busy, Current, Complete, End, Request
  <2> QED
    BY <1>6, <2>1, <2>2 DEF Typing, LoopTop
<1>7. ASSUME EpollWait PROVE Typing'
  <2>1. Buffers' /\ Histories'
    BY <1>7, BuffersFrame, HistoriesFrame DEF Typing, EpollWait, clients, histories
  <2>2. Sockets'
    BY <1>7 DEF Typing, Sockets, EpollWait, clients
  <2>3. Turns'
    BY <1>7 DEF Typing, Sockets, EpollWait, clients, Turns, LoopStates, Busy, Current
  <2> QED
    BY <1>7, <2>1, <2>2, <2>3 DEF Typing, EpollWait
<1>8. ASSUME Interrupted PROVE Typing'
  <2>1. Sockets' /\ Buffers' /\ Histories'
    BY <1>8, SocketsFrame, BuffersFrame, HistoriesFrame DEF Typing, Interrupted, clients, histories
  <2>2. Turns'
    BY <1>8 DEF Typing, Interrupted, clients, Turns, LoopStates, Busy, Current
  <2> QED
    BY <1>8, <2>1, <2>2 DEF Typing, Interrupted
<1>9. ASSUME NEW p \in Listeners, Accept(p) PROVE Typing'
  <2> DEFINE backlog == {c \in Conns : chan[c] = "backlog" /\ Port[c] = p}
  <2>1. PICK ok \in SUBSET backlog, left \in SUBSET backlog :
          /\ chan' = [c \in Conns |-> IF c \in ok THEN "open"
                                      ELSE IF c \in backlog \ (ok \cup left) THEN "closed" ELSE chan[c]]
          /\ edge' = edge \cup {c \in ok : sent[c] > 0 \/ client[c] = "gone"}
          /\ marks' = [c \in Conns |-> IF c \in left THEN marks[c] \cup {"left"} ELSE marks[c]]
    BY <1>9 DEF Accept
  <2>2. \A c \in backlog : c \in Conns /\ chan[c] = "backlog"
    OBVIOUS
  <2> HIDE DEF backlog
  <2>3. UNCHANGED <<plan, client, sent, taken, done, knock, unread, pending, shutdown, runs, out>>
    BY <1>9 DEF Accept, clients
  <2>4. \A c \in Conns : c \notin backlog => chan'[c] = chan[c]
    BY <2>1
  <2>5. Sockets'
    BY <2>1, <2>2, <2>3 DEF Typing, Sockets
  <2>6. Histories' /\ Buffers'
    BY <2>1, <2>3, BuffersFrame DEF Typing, Histories
  <2>7. Turns'
    BY <1>9, <2>2, <2>3, <2>4 DEF Typing, Sockets, Accept, Turns, LoopStates, Busy, Current
  <2> QED
    BY <2>3, <2>5, <2>6, <2>7 DEF Typing
<1>10. ASSUME NEW c \in Conns, Read(c) PROVE Typing'
  <2> DEFINE room == RxSize - Buffered(c, done[c])
             n == ReadLength(c, room)
             closing == c \in loop.hup \/ (client[c] = "gone" /\ n < room)
  <2>1. /\ plan[c] \in Plans[c] /\ EndOf(plan[c], done[c]) \in Nat
        /\ done[c] \in 0 .. Len(plan[c]) /\ Len(plan[c]) \in Nat
        /\ taken[c] \in Nat /\ sent[c] \in Nat /\ EndOf(plan[c], done[c]) <= taken[c]
        /\ taken[c] <= sent[c] /\ taken[c] - EndOf(plan[c], done[c]) <= RxSize
    BY BufferFacts DEF Typing
  <2>2. /\ n \in Nat /\ taken[c] + n <= sent[c]
        /\ taken[c] + n - EndOf(plan[c], done[c]) <= RxSize
    BY <2>1 DEF ReadLength, Buffered, End
  <2>3. /\ taken' = [taken EXCEPT ![c] = @ + n]
        /\ IF n = room THEN Mark(c, "filled") ELSE UNCHANGED marks
        /\ IF closing THEN Close(c) ELSE UNCHANGED <<chan, edge>>
        /\ loop' = IF closing \/ Buffered(c, done[c]) + n = 0
                   THEN [loop EXCEPT !.batch = @ \ {c}, !.hup = @ \ {c}]
                   ELSE [loop EXCEPT !.batch = @ \ {c}, !.hup = @ \ {c}, !.pc = "process",
                                     !.conn = c, !.frame = done[c]]
    BY <1>10 DEF Read
  <2>4. /\ UNCHANGED <<plan, client, sent, done, knock, unread, pending, shutdown, runs, out>>
        /\ loop.pc = "batch" /\ c \in loop.batch
    BY <1>10 DEF Read, clients
  <2> HIDE DEF n, closing, room
  <2>5. /\ taken' \in [Conns -> Nat] /\ taken'[c] = taken[c] + n
        /\ \A b \in Conns \ {c} : taken'[b] = taken[b]
    BY <2>2, <2>3 DEF Typing, Buffers
  <2>6. Buffers'
    <3>1. sent' \in [Conns -> Nat] /\ done' \in [Conns -> Nat] /\ unread' \in [Conns -> Nat]
      BY <2>4 DEF Typing, Buffers
    <3>2. sent'[c] <= Total(c) /\ unread'[c] \in 0 .. SendCap /\ Sockets /\ Buffers
      BY <2>4, BufferFacts DEF Typing
    <3>3. /\ done'[c] \in 0 .. Len(plan[c]) /\ EndOf(plan[c], done'[c]) <= taken'[c]
          /\ taken'[c] <= sent'[c] /\ taken'[c] - EndOf(plan[c], done'[c]) <= RxSize
      BY <2>1, <2>2, <2>4, <2>5
    <3> QED
      BY <2>4, <2>5, <3>1, <3>2, <3>3, BufferChange
  <2>7. Histories'
    BY <2>3, <2>4, MarkHistories, HistoriesFrame DEF Typing
  <2>8. loop \in LoopStates /\ chan[c] = "open" /\ done[c] \in Nat
    BY <2>1, <2>4 DEF Typing, Turns
  <2>9. Sockets' /\ \A b \in Conns \ {c} : chan'[b] = chan[b]
    BY <2>3, <2>4, <2>8, CloseSockets, SocketsFrame DEF Typing
  <2>10. Turns'
    <3>1. CASE loop' = [loop EXCEPT !.batch = @ \ {c}, !.hup = @ \ {c}]
      <4>1. /\ loop' \in LoopStates /\ loop'.pc = "batch" /\ loop'.conn = loop.conn
            /\ loop'.batch = loop.batch \ {c}
        BY <2>4, <2>8, <3>1 DEF LoopStates
      <4> QED
        BY <2>4, <2>8, <2>9, <4>1 DEF Typing, Turns, LoopStates, Busy, Current
    <3>2. CASE ~closing /\ loop' = [loop EXCEPT !.batch = @ \ {c}, !.hup = @ \ {c}, !.pc = "process",
                                                !.conn = c, !.frame = done[c]]
      <4>1. /\ loop' \in LoopStates /\ loop'.pc = "process" /\ loop'.conn = c
            /\ loop'.batch = loop.batch \ {c} /\ loop'.frame = done[c]
        BY <2>8, <3>2 DEF LoopStates
      <4>2. UNCHANGED chan
        BY <2>3, <3>2
      <4> QED
        BY <2>1, <2>2, <2>4, <2>5, <2>8, <4>1, <4>2 DEF Typing, Turns, Busy, Current, End
    <3> QED
      BY <2>3, <3>1, <3>2
  <2> QED
    BY <2>4, <2>6, <2>7, <2>9, <2>10 DEF Typing
<1>11. ASSUME EndBatch PROVE Typing'
  <2>1. Sockets' /\ Buffers' /\ Histories'
    BY <1>11, SocketsFrame, BuffersFrame, HistoriesFrame DEF Typing, EndBatch, clients, histories
  <2>2. Turns'
    BY <1>11 DEF Typing, EndBatch, AtTop, clients, Turns, LoopStates, Busy, Current
  <2> QED
    BY <1>11, <2>1, <2>2 DEF Typing, EndBatch
<1>12. ASSUME Dispatch PROVE Typing'
  <2>1. Sockets' /\ Buffers'
    BY <1>12, SocketsFrame, BuffersFrame DEF Typing, Dispatch, clients, histories
  <2>2. Current \in Conns /\ loop \in LoopStates /\ loop.pc = "process" /\ Request \in Nat
    BY <1>12 DEF Typing, Dispatch, AtRequest, Turns, Busy, LoopStates, Request
  <2>3. Histories'
    BY <1>12, <2>2 DEF Typing, Histories, Dispatch
  <2>4. Turns'
    BY <1>12, <2>2 DEF Typing, Dispatch, AtRequest, clients, Turns, LoopStates, Busy, Current, Complete, End, Request
  <2>5. pending' \subseteq Conns \X Nat
    BY <1>12, <2>2 DEF Typing, Dispatch
  <2> QED
    BY <1>12, <2>1, <2>2, <2>3, <2>4, <2>5 DEF Typing, Dispatch
<1>13. ASSUME ContextNoMemory PROVE Typing'
  <2>1. /\ Current \in Conns /\ Current \notin loop.batch /\ chan[Current] = "open"
        /\ UNCHANGED <<plan, client, knock, shutdown, sent, taken, done, unread, runs, out, pending>>
    BY <1>13 DEF Typing, ContextNoMemory, AtRequest, Turns, Busy, clients
  <2>2. Sockets' /\ \A b \in Conns \ {Current} : chan'[b] = chan[b]
    BY <1>13, <2>1, AfterProcessingSockets DEF Typing, ContextNoMemory
  <2>3. Histories' /\ Buffers'
    BY <1>13, <2>1, MarkHistories, BuffersFrame DEF Typing, ContextNoMemory
  <2>4. /\ loop' \in LoopStates /\ loop'.pc = "batch" /\ loop'.conn = NoConn
        /\ loop'.batch = loop.batch
    BY <1>13 DEF ContextNoMemory, Typing, Turns, LoopStates
  <2>5. Turns'
    BY <2>1, <2>2, <2>4 DEF Typing, Turns, LoopStates, Busy, Current
  <2> QED
    BY <2>1, <2>2, <2>3, <2>5 DEF Typing
<1>14. ASSUME EndProcess PROVE Typing'
  <2>1. /\ Current \in Conns /\ Current \notin loop.batch /\ chan[Current] = "open"
        /\ loop.frame \in Nat /\ loop.frame <= Len(plan[Current])
        /\ done[Current] <= loop.frame /\ EndOf(plan[Current], loop.frame) <= taken[Current]
        /\ UNCHANGED <<plan, client, knock, shutdown, sent, taken, unread, pending, runs, out, marks>>
    BY <1>14 DEF Typing, EndProcess, Turns, Busy, LoopStates, End, clients, histories
  <2>2. /\ plan[Current] \in Plans[Current] /\ Len(plan[Current]) \in Nat
        /\ done[Current] \in 0 .. Len(plan[Current])
        /\ EndOf(plan[Current], done[Current]) \in Nat /\ taken[Current] \in Nat
        /\ taken[Current] - EndOf(plan[Current], done[Current]) <= RxSize
    BY <2>1, BufferFacts DEF Typing
  <2>3. loop.frame \in 0 .. Len(plan[Current])
    BY <2>1, <2>2
  <2>4. /\ EndOf(plan[Current], loop.frame) \in Nat
        /\ EndOf(plan[Current], done[Current]) <= EndOf(plan[Current], loop.frame)
    BY <2>1, <2>2, <2>3, EndType, EndGrows
  <2>5. taken[Current] - EndOf(plan[Current], loop.frame) <= RxSize
    BY <2>2, <2>4
  <2>6. /\ done' \in [Conns -> Nat] /\ done'[Current] = loop.frame
        /\ \A b \in Conns \ {Current} : done'[b] = done[b]
    BY <1>14, <2>1 DEF EndProcess, Typing, Buffers
  <2>7. Buffers'
    BY <2>1, <2>3, <2>5, <2>6, BufferFacts, BufferChange DEF Typing, Buffers
  <2>8. Sockets' /\ \A b \in Conns \ {Current} : chan'[b] = chan[b]
    BY <1>14, <2>1, AfterProcessingSockets DEF Typing, EndProcess
  <2>9. /\ loop' \in LoopStates /\ loop'.pc = "batch" /\ loop'.conn = NoConn
        /\ loop'.batch = loop.batch
    BY <1>14 DEF EndProcess, Typing, Turns, LoopStates
  <2>10. Turns'
    BY <2>1, <2>8, <2>9 DEF Typing, Turns, LoopStates, Busy, Current
  <2>11. Histories'
    BY <2>1, HistoriesFrame DEF Typing
  <2> QED
    BY <2>1, <2>7, <2>8, <2>10, <2>11 DEF Typing
<1>15. ASSUME Respond PROVE Typing'
  <2>1. /\ Current \in Conns /\ loop \in LoopStates /\ loop.frame + 1 <= Len(plan[Current])
        /\ End(Current, loop.frame + 1) <= taken[Current] /\ Busy /\ Request \in Nat
        /\ UNCHANGED <<plan, client, chan, edge, knock, shutdown, sent, taken, done, runs, marks>>
    BY <1>15 DEF Typing, Respond, Responding, Turns, Busy, LoopStates, Complete, Request, clients
  <2>2. Sockets' /\ Buffers'
    BY <1>15, <2>1, SocketsFrame, SendBuffers DEF Respond, Typing
  <2>3. Histories'
    BY <1>15, <2>1 DEF Typing, Histories, Respond
  <2>4. /\ loop' \in LoopStates /\ loop'.pc = "process" /\ loop'.frame = loop.frame + 1
        /\ loop'.conn = loop.conn /\ loop'.batch = loop.batch
    BY <1>15, <2>1, NextRequestLoop DEF Respond
  <2>5. Turns'
    BY <2>1, <2>4 DEF Typing, Turns, Busy, Current, End, Buffers, LoopStates
  <2> QED
    BY <1>15, <2>2, <2>3, <2>5 DEF Typing, Respond, DropContext
<1>16. ASSUME RespondFails PROVE Typing'
  <2>1. /\ Current \in Conns /\ loop \in LoopStates /\ loop.frame + 1 <= Len(plan[Current])
        /\ End(Current, loop.frame + 1) <= taken[Current] /\ Busy
        /\ UNCHANGED <<plan, client, chan, edge, knock, shutdown, sent, taken, done, unread, runs, out>>
    BY <1>16 DEF Typing, RespondFails, Responding, Turns, Busy, LoopStates, Complete, Request, clients
  <2>2. Sockets' /\ Buffers' /\ Histories'
    BY <1>16, <2>1, SocketsFrame, BuffersFrame, MarkHistories DEF RespondFails, Typing
  <2>3. Turns'
    <3>1. CASE loop' = [loop EXCEPT !.pc = "again", !.calls = @ + 1]
      <4> DEFINE g == loop.calls + 1
      <4>1. g \in Nat
        BY <2>1 DEF LoopStates
      <4>2. loop' = [loop EXCEPT !.pc = "again", !.calls = g]
        BY <3>1
      <4> HIDE DEF g
      <4>3. /\ loop' \in LoopStates /\ loop'.pc = "again" /\ loop'.frame = loop.frame
            /\ loop'.conn = loop.conn /\ loop'.batch = loop.batch
        BY <2>1, <4>1, <4>2 DEF LoopStates
      <4> QED
        BY <2>1, <4>3 DEF Typing, Turns, Busy, Current, Complete, Request, End
    <3>2. CASE loop' = [NextRequest EXCEPT !.calls = @ + 1]
      <4>1. /\ loop' \in LoopStates /\ loop'.pc = "process" /\ loop'.frame = loop.frame + 1
            /\ loop'.conn = loop.conn /\ loop'.batch = loop.batch
        BY <2>1, <3>2, NextRequestLoop
      <4> QED
        BY <2>1, <4>1 DEF Typing, Turns, Busy, Current, End, Buffers, LoopStates
    <3> QED
      BY <1>16, <3>1, <3>2 DEF RespondFails
  <2> QED
    BY <1>16, <2>2, <2>3 DEF Typing, RespondFails, DropContext
<1>17. ASSUME RespondAgain PROVE Typing'
  <2>1. /\ Current \in Conns /\ loop \in LoopStates /\ loop.frame + 1 <= Len(plan[Current])
        /\ End(Current, loop.frame + 1) <= taken[Current] /\ Busy /\ Request \in Nat
        /\ UNCHANGED <<plan, client, chan, edge, knock, shutdown, sent, taken, done, runs, marks, pending>>
    BY <1>17 DEF Typing, RespondAgain, Turns, Busy, LoopStates, Complete, Request, clients
  <2>2. Sockets' /\ Buffers'
    BY <1>17, <2>1, SocketsFrame, BuffersFrame, SendBuffers DEF RespondAgain, Typing
  <2>3. Histories'
    <3>1. CASE out' = out
      BY <2>1, <3>1, HistoriesFrame DEF Typing
    <3>2. CASE out' = [out EXCEPT ![Current] = Append(@, Request)]
      BY <2>1, <3>2 DEF Typing, Histories
    <3> QED
      BY <1>17, <3>1, <3>2 DEF RespondAgain
  <2>4. Turns'
    <3>1. CASE loop' = [loop EXCEPT !.pc = "dead"]
      <4>1. loop' \in LoopStates /\ loop'.pc = "dead" /\ loop'.batch = loop.batch
        BY <2>1, <3>1 DEF LoopStates
      <4> QED
        BY <2>1, <4>1 DEF Typing, Turns, Busy
    <3>2. CASE loop' = [NextRequest EXCEPT !.calls = @ + 1]
      <4>1. /\ loop' \in LoopStates /\ loop'.pc = "process" /\ loop'.frame = loop.frame + 1
            /\ loop'.conn = loop.conn /\ loop'.batch = loop.batch
        BY <2>1, <3>2, NextRequestLoop
      <4> QED
        BY <2>1, <4>1 DEF Typing, Turns, Busy, Current, End, Buffers, LoopStates
    <3> QED
      BY <1>17, <3>1, <3>2 DEF RespondAgain
  <2> QED
    BY <2>1, <2>2, <2>3, <2>4 DEF Typing
<1>18. ASSUME Killed PROVE Typing'
  <2>1. Sockets' /\ Buffers' /\ Histories'
    BY <1>18, SocketsFrame, BuffersFrame, HistoriesFrame DEF Typing, Killed, clients, histories
  <2>2. Turns'
    BY <1>18 DEF Typing, Killed, clients, Turns, LoopStates, Busy, Current
  <2> QED
    BY <1>18, <2>1, <2>2 DEF Typing, Killed
<1>19. CASE UNCHANGED vars
  BY <1>19, SocketsFrame, BuffersFrame, HistoriesFrame, TurnsFrame DEF Typing, vars
<1> QED
  BY <1>1, <1>2, <1>3, <1>4, <1>5, <1>6, <1>7, <1>8, <1>9, <1>10, <1>11, <1>12, <1>13, <1>14, <1>15,
     <1>16, <1>17, <1>18, <1>19 DEF Next, ServerStep, ClientStep

-----------------------------------------------------------------------------
(***************************************************************************)
(* Pending contexts, requests and responses                                *)
(***************************************************************************)

\* What the steps of clients and kernel, and an edge of a listening socket, leave
\* alone.
LEMMA OutsideSteps ==
  ASSUME Typing, ClientStep \/ Shutdown \/ UNCHANGED vars
  PROVE  UNCHANGED <<done, pending, loop, runs, out, marks>>
BY DEF ClientStep, Connect, Arrive, ClientClose, ClientReads, Shutdown, vars, clients, histories

\* Steps of the event loop that are about no request.
LEMMA LoopSteps ==
  ASSUME Typing, LoopTop \/ EpollWait \/ Interrupted \/ EndBatch
  PROVE  /\ UNCHANGED <<done, pending, runs, out, marks>>
         /\ ~Busy /\ ~Busy' /\ loop.pc # "dead" /\ loop'.pc # "dead"
<1>1. UNCHANGED <<done, pending, runs, out, marks>> /\ loop.pc \in {"top", "wait", "batch"}
  BY DEF LoopTop, EpollWait, Interrupted, EndBatch, histories
<1>2. loop \in LoopStates
  BY DEF Typing, Turns
<1>3. loop'.pc \in {"top", "wait", "batch", "exited"}
  <2>1. CASE LoopTop
    BY <1>2, <2>1 DEF LoopTop, LoopStates
  <2>2. CASE EpollWait
    BY <1>2, <2>2 DEF EpollWait, LoopStates
  <2>3. CASE Interrupted
    BY <1>2, <2>3 DEF Interrupted, LoopStates
  <2>4. CASE EndBatch
    BY <2>4 DEF EndBatch, AtTop
  <2> QED
    BY <2>1, <2>2, <2>3, <2>4
<1> QED
  BY <1>1, <1>3 DEF Busy

\* An edge of a listening socket is about no request either.
LEMMA AcceptStep ==
  ASSUME Typing, NEW p \in Listeners, Accept(p)
  PROVE  /\ UNCHANGED <<done, pending, runs, out>>
         /\ loop.pc = "batch" /\ loop'.pc = "batch"
         /\ \A c \in Conns : marks[c] \subseteq marks'[c]
<1>1. UNCHANGED <<done, pending, runs, out>> /\ loop.pc = "batch"
  BY DEF Accept
<1>2. loop \in LoopStates
  BY DEF Typing, Turns
<1>3. loop'.pc = "batch"
  BY <1>1, <1>2 DEF Accept, LoopStates
<1>4. PICK left : marks' = [c \in Conns |-> IF c \in left THEN marks[c] \cup {"left"} ELSE marks[c]]
  BY DEF Accept
<1> QED
  BY <1>1, <1>3, <1>4

\* An edge of a connection: it is closed or its buffer is processed from the front.
LEMMA ReadStep ==
  ASSUME Typing, NEW c \in Conns, Read(c)
  PROVE  /\ UNCHANGED <<done, pending, runs, out>>
         /\ loop.pc = "batch"
         /\ loop'.pc = "batch" \/ (loop'.pc = "process" /\ loop'.conn = c /\ loop'.frame = done[c])
         /\ \A b \in Conns : marks[b] \subseteq marks'[b]
<1>1. UNCHANGED <<done, pending, runs, out>> /\ loop.pc = "batch"
  BY DEF Read
<1>2. loop \in LoopStates
  BY DEF Typing, Turns
<1>3. \/ loop' = [loop EXCEPT !.batch = @ \ {c}, !.hup = @ \ {c}]
      \/ loop' = [loop EXCEPT !.batch = @ \ {c}, !.hup = @ \ {c}, !.pc = "process",
                              !.conn = c, !.frame = done[c]]
  BY DEF Read
<1>4. UNCHANGED marks \/ Mark(c, "filled")
  BY DEF Read
<1>5. \A b \in Conns : marks[b] \subseteq marks'[b]
  BY <1>4 DEF Mark, Typing, Histories
<1>6. loop'.pc = "batch" \/ (loop'.pc = "process" /\ loop'.conn = c /\ loop'.frame = done[c])
  BY <1>1, <1>2, <1>3 DEF LoopStates
<1> QED
  BY <1>1, <1>5, <1>6

\* A request comes up: a handler is called, or there is none.
LEMMA DispatchStep ==
  ASSUME Typing, Dispatch
  PROVE  /\ UNCHANGED <<done, out, marks>> /\ Current \in Conns /\ loop.frame \in Nat
         /\ loop.pc = "process" /\ loop'.pc \in {"handler", "notfound"}
         /\ loop'.conn = loop.conn /\ loop'.frame = loop.frame
         /\ pending' = IF loop'.pc = "handler" THEN pending \cup {<<Current, Request>>} ELSE pending
         /\ runs' = [runs EXCEPT ![Current] = Append(@, Request)]
<1>1. loop \in LoopStates /\ loop.pc = "process"
  BY DEF Typing, Turns, Dispatch, AtRequest
<1>2. Current \in Conns /\ loop.frame \in Nat
  BY <1>1 DEF Typing, Turns, Busy, LoopStates
<1>3. /\ loop'.pc = IF plan[Current][Request].func \in ServiceTable THEN "handler" ELSE "notfound"
      /\ loop'.conn = loop.conn /\ loop'.frame = loop.frame
  BY <1>1 DEF Dispatch, LoopStates
<1> QED
  BY <1>1, <1>2, <1>3 DEF Dispatch

\* process_buffered_data returns, early or with the processed requests dropped.
LEMMA ReturnStep ==
  ASSUME Typing, ContextNoMemory \/ EndProcess
  PROVE  /\ UNCHANGED <<pending, runs, out>> /\ Current \in Conns
         /\ loop.pc = "process" /\ loop'.pc = "batch"
         /\ \A c \in Conns : marks[c] \subseteq marks'[c]
         /\ \A c \in Conns \ {Current} : done'[c] = done[c]
         /\ "memory" \in marks'[Current] \/ done'[Current] = loop.frame
<1>1. loop \in LoopStates /\ loop.pc = "process" /\ UNCHANGED <<pending, runs, out>>
  BY DEF Typing, Turns, ContextNoMemory, EndProcess, AtRequest, histories
<1>2. Current \in Conns /\ DOMAIN marks = Conns /\ DOMAIN done = Conns
  BY <1>1 DEF Typing, Turns, Busy, Histories, Buffers
<1>3. loop'.pc = "batch"
  BY <1>1 DEF ContextNoMemory, EndProcess, LoopStates
<1>4. CASE ContextNoMemory
  BY <1>1, <1>2, <1>3, <1>4 DEF ContextNoMemory, Mark
<1>5. CASE EndProcess
  BY <1>1, <1>2, <1>3, <1>5 DEF EndProcess, histories
<1> QED
  BY <1>4, <1>5

\* rpc_send_async_response has been called for the request at hand, or the process
\* ends in it.  Whatever it returns, the context of a handler's request is dropped.
LEMMA ResponseStep ==
  ASSUME Typing, Respond \/ RespondFails \/ RespondAgain \/ Killed
  PROVE  /\ UNCHANGED <<done, runs>> /\ Current \in Conns /\ loop.frame \in Nat
         /\ loop.pc \in {"handler", "notfound", "again"}
         /\ loop'.conn = loop.conn
         /\ \/ loop'.pc = "process" /\ loop'.frame = loop.frame + 1
            \/ loop'.pc \in {"again", "dead"} /\ loop'.frame = loop.frame
         /\ \A c \in Conns : marks[c] \subseteq marks'[c]
<1>1. /\ loop \in LoopStates /\ loop.pc \in {"handler", "notfound", "again"} /\ UNCHANGED <<done, runs>>
      /\ UNCHANGED marks \/ Mark(Current, "failed")
  BY DEF Typing, Turns, Respond, RespondFails, RespondAgain, Killed, Responding, histories
<1>2. Current \in Conns /\ DOMAIN marks = Conns /\ loop.frame \in Nat
  BY <1>1 DEF Typing, Turns, Busy, Histories, LoopStates
<1>3. \/ loop' = [NextRequest EXCEPT !.calls = @ + 1]
      \/ loop' = [loop EXCEPT !.pc = "again", !.calls = @ + 1]
      \/ loop' = [loop EXCEPT !.pc = "dead"]
  BY DEF Respond, RespondFails, RespondAgain, Killed
<1>4. /\ loop'.conn = loop.conn
      /\ \/ loop'.pc = "process" /\ loop'.frame = loop.frame + 1
         \/ loop'.pc \in {"again", "dead"} /\ loop'.frame = loop.frame
  BY <1>1, <1>3, NextRequestLoop DEF LoopStates
<1> QED
  BY <1>1, <1>2, <1>4 DEF Mark

\* A context is on the list of pending ones from the call of its handler to the
\* call of rpc_send_async_response, and no other is.
LEMMA NextPending == Typing /\ PendingIsCurrent /\ [Next]_vars => PendingIsCurrent'
<1> SUFFICES ASSUME Typing, PendingIsCurrent, [Next]_vars PROVE PendingIsCurrent'
  OBVIOUS
<1>1. CASE ClientStep \/ Shutdown \/ UNCHANGED vars
  BY <1>1, OutsideSteps DEF PendingIsCurrent, Current, Request
<1>2. CASE LoopTop \/ EpollWait \/ Interrupted \/ EndBatch
  BY <1>2, LoopSteps DEF PendingIsCurrent, Busy
<1>3. ASSUME NEW p \in Listeners, Accept(p) PROVE PendingIsCurrent'
  BY <1>3, AcceptStep DEF PendingIsCurrent
<1>4. ASSUME NEW c \in Conns, Read(c) PROVE PendingIsCurrent'
  BY <1>4, ReadStep DEF PendingIsCurrent
<1>5. CASE Dispatch
  BY <1>5, DispatchStep DEF PendingIsCurrent, Current, Request
<1>6. CASE ContextNoMemory \/ EndProcess
  BY <1>6, ReturnStep DEF PendingIsCurrent
<1>7. CASE Respond \/ RespondFails
  BY <1>7, ResponseStep DEF PendingIsCurrent, Respond, RespondFails, DropContext
<1>8. CASE RespondAgain
  BY <1>8, ResponseStep DEF PendingIsCurrent, RespondAgain
<1>9. CASE Killed
  BY <1>9 DEF PendingIsCurrent, Killed, Typing, Turns, LoopStates
<1> QED
  BY <1>1, <1>2, <1>3, <1>4, <1>5, <1>6, <1>7, <1>8, <1>9 DEF Next, ServerStep

\* A request is begun after those before it, and dropped from the buffer once.
LEMMA NextRuns == Typing /\ RunsAreBegun /\ [Next]_vars => RunsAreBegun'
<1> SUFFICES ASSUME Typing, RunsAreBegun, [Next]_vars PROVE RunsAreBegun'
  OBVIOUS
<1>1. CASE ClientStep \/ Shutdown \/ UNCHANGED vars
  BY <1>1, OutsideSteps DEF RunsAreBegun, Begun, Busy, Current, Request
<1>2. CASE LoopTop \/ EpollWait \/ Interrupted \/ EndBatch
  BY <1>2, LoopSteps DEF RunsAreBegun, Begun
<1>3. ASSUME NEW p \in Listeners, Accept(p) PROVE RunsAreBegun'
  BY <1>3, AcceptStep DEF RunsAreBegun, Begun, Busy
<1>4. ASSUME NEW c \in Conns, Read(c) PROVE RunsAreBegun'
  BY <1>4, ReadStep DEF RunsAreBegun, Begun, Busy, Current
<1>5. CASE Dispatch
  <2>1. /\ UNCHANGED <<done, marks>> /\ Current \in Conns /\ loop.frame \in Nat
        /\ loop.pc = "process" /\ loop'.pc \in {"handler", "notfound"}
        /\ loop'.conn = loop.conn /\ loop'.frame = loop.frame
        /\ runs \in [Conns -> Seq(Nat)]
        /\ runs' = [runs EXCEPT ![Current] = Append(@, Request)]
    BY <1>5, DispatchStep DEF Typing, Histories
  <2>2. ASSUME NEW c \in Conns \ {Current}, "memory" \notin marks'[c]
        PROVE  /\ \A i \in DOMAIN runs'[c] : runs'[c][i] = i
               /\ Len(runs'[c]) = Begun(c)'
    BY <2>1, <2>2 DEF RunsAreBegun, Begun, Current
  <2>3. ASSUME "memory" \notin marks'[Current]
        PROVE  /\ \A i \in DOMAIN runs'[Current] : runs'[Current][i] = i
               /\ Len(runs'[Current]) = Request
    <3>1. /\ runs[Current] \in Seq(Nat) /\ Request \in Nat /\ Request = Len(runs[Current]) + 1
          /\ \A i \in DOMAIN runs[Current] : runs[Current][i] = i
          /\ runs'[Current] = Append(runs[Current], Request)
      BY <2>1, <2>3 DEF RunsAreBegun, Begun, Busy, Request
    <3> QED
      BY <3>1
  <2>4. Begun(Current)' = Request /\ Current' = Current
    BY <2>1 DEF Begun, Busy, Current, Request
  <2> QED
    BY <2>1, <2>2, <2>3, <2>4 DEF RunsAreBegun, Begun, Busy, Current, Request
<1>6. CASE ContextNoMemory \/ EndProcess
  BY <1>6, ReturnStep DEF RunsAreBegun, Begun, Busy
<1>7. CASE Respond \/ RespondFails \/ RespondAgain \/ Killed
  BY <1>7, ResponseStep DEF RunsAreBegun, Begun, Busy, Current, Request
<1> QED
  BY <1>1, <1>2, <1>3, <1>4, <1>5, <1>6, <1>7 DEF Next, ServerStep

\* A request is answered before the next one begins, or its connection has lost
\* a response.
LEMMA NextOwed == Typing /\ OwedToCurrent /\ [Next]_vars => OwedToCurrent'
<1> SUFFICES ASSUME Typing, OwedToCurrent, [Next]_vars PROVE OwedToCurrent'
  OBVIOUS
<1>1. CASE ClientStep \/ Shutdown \/ UNCHANGED vars
  BY <1>1, OutsideSteps DEF OwedToCurrent, Responding, Current, Request
<1>2. CASE LoopTop \/ EpollWait \/ Interrupted \/ EndBatch
  BY <1>2, LoopSteps DEF OwedToCurrent, Responding, Busy
<1>3. ASSUME NEW p \in Listeners, Accept(p) PROVE OwedToCurrent'
  BY <1>3, AcceptStep DEF OwedToCurrent, Responding
<1>4. ASSUME NEW c \in Conns, Read(c) PROVE OwedToCurrent'
  BY <1>4, ReadStep DEF OwedToCurrent, Responding
<1>5. CASE Dispatch
  <2>1. /\ UNCHANGED <<out, marks>> /\ Current \in Conns
        /\ loop.pc = "process" /\ loop'.pc \in {"handler", "notfound"}
        /\ Current' = Current /\ Request' = Request
        /\ runs \in [Conns -> Seq(Nat)]
        /\ runs' = [runs EXCEPT ![Current] = Append(@, Request)]
    BY <1>5, DispatchStep DEF Current, Request, Typing, Histories
  <2>2. \A c \in Conns : "failed" \notin marks[c] => out[c] = runs[c]
    BY <2>1 DEF OwedToCurrent, Responding
  <2>3. /\ runs'[Current] = Append(runs[Current], Request)
        /\ \A c \in Conns \ {Current} : runs'[c] = runs[c]
    BY <2>1
  <2> QED
    BY <2>1, <2>2, <2>3 DEF OwedToCurrent, Responding
<1>6. CASE ContextNoMemory \/ EndProcess
  BY <1>6, ReturnStep DEF OwedToCurrent, Responding
<1>7. CASE Respond
  <2>1. /\ UNCHANGED <<runs, marks>> /\ Current \in Conns /\ Responding
        /\ loop'.pc = "process" /\ Current' = Current
        /\ out \in [Conns -> Seq(Nat)]
        /\ out' = [out EXCEPT ![Current] = Append(@, Request)]
    BY <1>7, ResponseStep, NextRequestLoop DEF Respond, Current, Typing, Histories, Turns
  <2>2. \A c \in Conns : "failed" \notin marks[c] =>
          runs[c] = IF c = Current THEN Append(out[c], Request) ELSE out[c]
    BY <2>1 DEF OwedToCurrent
  <2>3. /\ out'[Current] = Append(out[Current], Request)
        /\ \A c \in Conns \ {Current} : out'[c] = out[c]
    BY <2>1
  <2> QED
    BY <2>1, <2>2, <2>3 DEF OwedToCurrent, Responding
<1>8. CASE RespondFails
  BY <1>8, ResponseStep DEF OwedToCurrent, RespondFails, Responding, Mark, Current, Request, Typing, Histories
<1>9. CASE RespondAgain
  BY <1>9, ResponseStep DEF OwedToCurrent, RespondAgain, Responding, Current, Request, Typing, Histories
<1>10. CASE Killed
  BY <1>10, ResponseStep DEF OwedToCurrent, Killed, Responding, Current, Request, histories
<1> QED
  BY <1>1, <1>2, <1>3, <1>4, <1>5, <1>6, <1>7, <1>8, <1>9, <1>10 DEF Next, ServerStep

-----------------------------------------------------------------------------
(***************************************************************************)
(* Edges                                                                   *)
(***************************************************************************)

\* What is announced of a connection stays announced in a step that is not about it.
LEMMA AnnouncedFrame ==
  ASSUME NEW c \in Conns, Announced(c),
         plan'[c] = plan[c], chan'[c] = chan[c], taken'[c] = taken[c], done'[c] = done[c],
         sent'[c] = sent[c], client'[c] = client[c], marks[c] \subseteq marks'[c],
         c \in edge \cup loop.batch => c \in edge' \cup loop'.batch,
         Port[c] \in knock \cup loop.accepts => Port[c] \in knock' \cup loop'.accepts,
         Busy /\ c = Current => Busy' /\ c = Current'
  PROVE  Announced(c)'
<1>1. Complete(c, done[c] + 1)' <=> Complete(c, done[c] + 1)
  BY DEF Complete, End
<1>2. marks'[c] \cap {"filled", "memory"} = {} => marks[c] \cap {"filled", "memory"} = {}
  OBVIOUS
<1> QED
  BY <1>1, <1>2 DEF Announced

\* The first request that is not dropped is not in a buffer that holds none of its
\* bytes.
LEMMA EmptyBuffer ==
  ASSUME Typing, NEW c \in Conns, NEW k \in 0 .. Len(plan[c])
  PROVE  k + 1 <= Len(plan[c]) => End(c, k) < End(c, k + 1)
<1> DEFINE p == plan[c]
<1>1. p \in Plans[c]
  BY DEF Typing, Sockets
<1> HIDE DEF p
<1> SUFFICES ASSUME k + 1 <= Len(p) PROVE EndOf(p, k) < EndOf(p, k + 1)
  BY DEF End, p
<1>2. Len(p) \in Nat /\ DOMAIN p = 1 .. Len(p)
  BY <1>1, PlanRequests
<1>3. k \in 0 .. Len(p)
  BY DEF p
<1>4. CASE k = 0
  BY <1>1, <1>2, <1>4, PlanRequests DEF EndOf
<1>5. CASE k # 0
  <2>1. k \in DOMAIN p /\ k + 1 \in DOMAIN p /\ k < k + 1
    BY <1>2, <1>3, <1>5
  <2>2. p[k].end < p[k + 1].end
    BY <1>1, <2>1, PlanAssumption
  <2> QED
    BY <1>3, <1>5, <2>2 DEF EndOf
<1> QED
  BY <1>4, <1>5

\* A step of the clients announces what it does.
LEMMA ClientsAnnounce ==
  ASSUME Typing, NEW b \in Conns, Announced(b), ClientStep
  PROVE  Announced(b)'
<1>1. PICK c \in Conns : Connect(c) \/ Arrive(c) \/ ClientClose(c) \/ ClientReads(c)
  BY DEF ClientStep
<1>2. /\ client \in [Conns -> {"idle", "connected", "gone"}]
      /\ chan \in [Conns -> {"none", "backlog", "open", "closed"}]
      /\ client[c] = "idle" => chan[c] = "none"
      /\ sent \in [Conns -> Nat]
  BY DEF Typing, Sockets, Buffers
<1>3. UNCHANGED <<plan, taken, done, loop, marks>> /\ Busy' = Busy /\ Current' = Current
  BY <1>1 DEF Connect, Arrive, ClientClose, ClientReads, clients, histories, Busy, Current
<1>4. CASE b # c
  <2>1. chan'[b] = chan[b] /\ sent'[b] = sent[b] /\ client'[b] = client[b]
    BY <1>1, <1>2, <1>4 DEF Connect, Arrive, ClientClose, ClientReads, clients
  <2>2. edge \subseteq edge' /\ knock \subseteq knock'
    BY <1>1 DEF Connect, Arrive, ClientClose, ClientReads
  <2> QED
    BY <1>3, <2>1, <2>2, AnnouncedFrame
<1>5. CASE b = c
  <2>1. Complete(b, done[b] + 1)' <=> Complete(b, done[b] + 1)
    BY <1>3 DEF Complete, End
  <2>2. CASE Connect(c)
    BY <1>2, <1>3, <1>5, <2>1, <2>2 DEF Connect, Announced
  <2>3. CASE Arrive(c)
    <3>1. chan' = chan /\ client' = client /\ knock' = knock /\ chan[c] \in {"backlog", "open"}
      BY <2>3 DEF Arrive
    <3>2. chan[c] = "open" => c \in edge'
      BY <2>3 DEF Arrive
    <3> QED
      BY <1>3, <1>5, <2>1, <3>1, <3>2 DEF Announced
  <2>4. CASE ClientClose(c)
    <3>1. chan' = chan /\ sent' = sent /\ knock' = knock
      BY <2>4 DEF ClientClose
    <3>2. chan[c] = "open" => c \in edge'
      BY <2>4 DEF ClientClose
    <3> QED
      BY <1>3, <1>5, <2>1, <3>1, <3>2 DEF Announced
  <2>5. CASE ClientReads(c)
    BY <1>3, <1>5, <2>5, AnnouncedFrame DEF ClientReads, clients
  <2> QED
    BY <1>1, <2>2, <2>3, <2>4, <2>5
<1> QED
  BY <1>4, <1>5

\* A round of accept leaves nobody in the backlog without a mark, and a connection
\* that has data or no client any more begins with an edge.
LEMMA AcceptAnnounces ==
  ASSUME Typing, NEW b \in Conns, Announced(b), NEW p \in Listeners, Accept(p)
  PROVE  Announced(b)'
<1> DEFINE backlog == {c \in Conns : chan[c] = "backlog" /\ Port[c] = p}
<1>0. PICK ok \in SUBSET backlog : \E left \in SUBSET (backlog \ ok) :
        /\ chan' = [c \in Conns |-> IF c \in ok THEN "open"
                                    ELSE IF c \in backlog \ (ok \cup left) THEN "closed" ELSE chan[c]]
        /\ edge' = edge \cup {c \in ok : sent[c] > 0 \/ client[c] = "gone"}
        /\ marks' = [c \in Conns |-> IF c \in left THEN marks[c] \cup {"left"} ELSE marks[c]]
  BY DEF Accept
<1>1. PICK left \in SUBSET (backlog \ ok) :
        /\ chan' = [c \in Conns |-> IF c \in ok THEN "open"
                                    ELSE IF c \in backlog \ (ok \cup left) THEN "closed" ELSE chan[c]]
        /\ edge' = edge \cup {c \in ok : sent[c] > 0 \/ client[c] = "gone"}
        /\ marks' = [c \in Conns |-> IF c \in left THEN marks[c] \cup {"left"} ELSE marks[c]]
  BY <1>0
<1>2. /\ UNCHANGED <<plan, client, sent, taken, done, knock>> /\ ~Busy
      /\ loop' = [loop EXCEPT !.accepts = @ \ {p}]
  BY DEF Accept, clients, Busy
<1>3. loop'.batch = loop.batch /\ loop'.accepts = loop.accepts \ {p}
  BY <1>2 DEF Typing, Turns, LoopStates
<1>4. CASE b \notin backlog
  <2>1. chan'[b] = chan[b] /\ marks'[b] = marks[b]
    BY <1>1, <1>4
  <2>2. CASE Port[b] # p
    BY <1>1, <1>2, <1>3, <2>1, <2>2, AnnouncedFrame
  <2>3. CASE chan[b] # "backlog"
    <3>1. Complete(b, done[b] + 1)' <=> Complete(b, done[b] + 1)
      BY <1>2 DEF Complete, End
    <3> QED
      BY <1>1, <1>2, <1>3, <2>1, <2>3, <3>1 DEF Announced
  <2> QED
    BY <1>4, <2>2, <2>3
<1>5. CASE b \in backlog
  <2>1. taken[b] = 0 /\ done[b] = 0 /\ chan[b] = "backlog"
    BY <1>5 DEF Announced
  <2>2. CASE b \in left
    BY <1>1, <1>2, <2>1, <2>2 DEF Announced
  <2>3. CASE b \in ok
    <3>1. ~Complete(b, 1)'
      <4>1. Len(plan[b]) \in Nat /\ plan[b] \in Plans[b]
        BY PlanRequests DEF Typing, Sockets
      <4>2. 0 \in 0 .. Len(plan[b])
        BY <4>1
      <4>3. 0 + 1 <= Len(plan[b]) => End(b, 0) < End(b, 0 + 1)
        BY <4>2, EmptyBuffer
      <4>4. 1 <= Len(plan[b]) => End(b, 0) = 0 /\ End(b, 1) \in Nat
        BY <4>1, EndType DEF End, EndOf
      <4>5. ~(1 <= Len(plan[b]) /\ End(b, 1) <= 0)
        BY <4>3, <4>4
      <4> QED
        BY <1>2, <2>1, <4>5 DEF Complete, End
    <3>2. chan'[b] = "open" /\ (sent[b] > 0 \/ client[b] = "gone" => b \in edge')
      BY <1>1, <2>3
    <3> QED
      BY <1>2, <2>1, <3>1, <3>2 DEF Announced
  <2>4. CASE b \in backlog \ (ok \cup left)
    BY <1>1, <2>4 DEF Announced
  <2> QED
    BY <1>5, <2>2, <2>3, <2>4
<1> QED
  BY <1>4, <1>5

\* A connection that has been read has nothing left to read, or is closed or
\* marked; what is in its buffer is processed next.
LEMMA ReadAnnounces ==
  ASSUME Typing, NEW b \in Conns, Announced(b), NEW c \in Conns, Read(c)
  PROVE  Announced(b)'
<1> DEFINE room == RxSize - Buffered(c, done[c])
           n == ReadLength(c, room)
           closing == c \in loop.hup \/ (client[c] = "gone" /\ n < room)
<1>1. /\ taken' = [taken EXCEPT ![c] = @ + n]
      /\ IF n = room THEN Mark(c, "filled") ELSE UNCHANGED marks
      /\ IF closing THEN Close(c) ELSE UNCHANGED <<chan, edge>>
      /\ loop' = IF closing \/ Buffered(c, done[c]) + n = 0
                 THEN [loop EXCEPT !.batch = @ \ {c}, !.hup = @ \ {c}]
                 ELSE [loop EXCEPT !.batch = @ \ {c}, !.hup = @ \ {c}, !.pc = "process",
                                   !.conn = c, !.frame = done[c]]
      /\ UNCHANGED <<plan, client, sent, done, knock>> /\ ~Busy /\ c \in loop.batch
  BY DEF Read, clients, Busy
<1>2. /\ loop'.batch = loop.batch \ {c} /\ loop'.accepts = loop.accepts
      /\ ~closing /\ Buffered(c, done[c]) + n # 0 => loop'.pc = "process" /\ loop'.conn = c
  BY <1>1 DEF Typing, Turns, LoopStates
<1>3. DOMAIN marks = Conns /\ taken \in [Conns -> Nat] /\ DOMAIN chan = Conns /\ sent[c] \in Nat
  BY DEF Typing, Histories, Buffers, Sockets
<1>4. CASE b # c
  <2>1. chan'[b] = chan[b] /\ taken'[b] = taken[b] /\ marks[b] \subseteq marks'[b]
    BY <1>1, <1>3, <1>4 DEF Mark, Close
  <2>2. b \in edge => b \in edge'
    BY <1>1, <1>4 DEF Close
  <2> QED
    BY <1>1, <1>2, <1>4, <2>1, <2>2, AnnouncedFrame
<1>5. CASE b = c
  <2>1. chan[c] = "open"
    BY <1>1 DEF Typing, Turns
  <2>2. CASE closing
    BY <1>1, <1>3, <1>5, <2>1, <2>2 DEF Close, Announced
  <2>3. CASE ~closing /\ n = room
    <3>1. "filled" \in marks'[c] /\ chan'[c] = "open"
      BY <1>1, <1>3, <2>1, <2>3 DEF Mark
    <3> QED
      BY <1>5, <3>1 DEF Announced
  <2>4. CASE ~closing /\ n # room
    <3>1. room \in Int /\ Buffered(c, done[c]) \in Int /\ End(c, done[c]) \in Nat
          /\ done[c] \in 0 .. Len(plan[c]) /\ taken[c] <= sent[c] /\ 0 <= room
      BY BufferFacts DEF Typing, Buffered, End
    <3>2. n = sent[c] - taken[c] /\ n < room
      BY <1>3, <2>4, <3>1 DEF ReadLength
    <3>3. taken'[c] = sent'[c] /\ client'[c] # "gone" /\ chan'[c] = "open"
      BY <1>1, <1>3, <2>1, <2>4, <3>2
    <3>4. CASE Buffered(c, done[c]) + n # 0
      <4>1. Busy' /\ Current' = c
        BY <1>2, <2>4, <3>4 DEF Busy, Current
      <4> QED
        BY <1>3, <1>1, <1>5, <3>3, <4>1 DEF Announced
    <3>5. CASE Buffered(c, done[c]) + n = 0
      <4>1. taken'[c] = End(c, done[c])
        BY <1>1, <1>3, <3>1, <3>2, <3>5 DEF Buffered
      <4>2. done[c] + 1 <= Len(plan[c]) => End(c, done[c]) < End(c, done[c] + 1)
        BY <3>1, EmptyBuffer
      <4>3. done[c] + 1 <= Len(plan[c]) => End(c, done[c] + 1) \in Nat
        <5>1. plan[c] \in Plans[c] /\ Len(plan[c]) \in Nat
          BY PlanRequests DEF Typing, Sockets
        <5> QED
          BY <3>1, <5>1, EndType DEF End
      <4>4. ~Complete(c, done[c] + 1)'
        BY <1>1, <3>1, <4>1, <4>2, <4>3 DEF Complete, End
      <4> QED
        BY <1>1, <1>3, <1>5, <3>3, <4>4 DEF Announced
    <3> QED
      BY <3>4, <3>5
  <2> QED
    BY <2>2, <2>3, <2>4
<1> QED
  BY <1>4, <1>5

\* process_buffered_data leaves no complete request in the buffer when it returns,
\* but for a context that could not be allocated.
LEMMA ReturnAnnounces ==
  ASSUME Typing, NEW b \in Conns, Announced(b), ContextNoMemory \/ EndProcess
  PROVE  Announced(b)'
<1>1. /\ Current \in Conns /\ loop.pc = "process" /\ \A c \in Conns : marks[c] \subseteq marks'[c]
      /\ \A c \in Conns \ {Current} : done'[c] = done[c]
  BY ReturnStep
<1>2. /\ loop' = [loop EXCEPT !.pc = "batch", !.conn = NoConn, !.frame = 0, !.calls = 0]
      /\ UNCHANGED <<plan, client, sent, taken, knock>>
      /\ Close(Current) \/ UNCHANGED <<chan, edge>>
  BY DEF ContextNoMemory, EndProcess, AfterProcessing, clients
<1>3. loop'.batch = loop.batch /\ loop'.accepts = loop.accepts
  BY <1>2 DEF Typing, Turns, LoopStates
<1>4. DOMAIN chan = Conns /\ chan[Current] = "open" /\ DOMAIN marks = Conns /\ DOMAIN done = Conns
  BY <1>1 DEF Typing, Sockets, Turns, Busy, Histories, Buffers
<1>5. CASE b # Current
  <2>1. chan'[b] = chan[b] /\ (b \in edge => b \in edge')
    BY <1>2, <1>4, <1>5 DEF Close
  <2> QED
    BY <1>1, <1>2, <1>3, <1>5, <2>1, AnnouncedFrame
<1>6. CASE b = Current /\ Close(Current)
  BY <1>4, <1>6 DEF Close, Announced
<1>7. CASE b = Current /\ UNCHANGED <<chan, edge>> /\ ContextNoMemory
  <2>1. "memory" \in marks'[b]
    BY <1>1, <1>4, <1>7 DEF ContextNoMemory, Mark
  <2> QED
    BY <1>4, <1>7, <2>1 DEF Announced
<1>8. CASE b = Current /\ UNCHANGED <<chan, edge>> /\ EndProcess
  <2>1. done'[b] = loop.frame /\ marks' = marks /\ ~Complete(b, loop.frame + 1)
    BY <1>1, <1>4, <1>8 DEF EndProcess, AtRequest, Request, histories
  <2>2. ~Complete(b, done[b] + 1)'
    BY <1>2, <2>1 DEF Complete, End
  <2> QED
    BY <1>2, <1>3, <1>4, <1>8, <2>1, <2>2 DEF Announced
<1> QED
  BY <1>2, <1>5, <1>6, <1>7, <1>8

\* Every step keeps what is to be done announced, until the server stops.
LEMMA NextForgotten == Typing /\ NothingForgotten /\ [Next]_vars => NothingForgotten'
<1> SUFFICES ASSUME Typing, NothingForgotten, [Next]_vars, ~Stopped'
             PROVE  NothingForgotten'
  BY DEF NothingForgotten
<1> DEFINE Rest == loop.pc \in {"top", "wait"} => loop.batch = {} /\ loop.accepts = {}
           All == \A c \in Conns : Announced(c)
<1> SUFFICES Rest' /\ All'
  BY DEF NothingForgotten
<1>0. loop \in LoopStates
  BY DEF Typing, Turns
<1>1. ~Stopped
  <2>1. CASE Stopped /\ ServerStep
    BY <2>1 DEF Stopped, ServerStep, LoopTop, EpollWait, EndBatch, Accept, Read, Dispatch, ContextNoMemory,
                AtRequest, Respond, RespondFails, Responding, RespondAgain, Killed, EndProcess
  <2>2. CASE Stopped /\ ~ServerStep
    BY <2>2 DEF Stopped, Next, ClientStep, Shutdown, Interrupted, vars
  <2> QED
    BY <2>1, <2>2
<1>2. Rest /\ All
  BY <1>1 DEF NothingForgotten
<1>3. CASE ClientStep
  <2>1. UNCHANGED loop
    BY <1>3, OutsideSteps
  <2>2. All'
    BY <1>2, <1>3, ClientsAnnounce
  <2> QED
    BY <1>2, <2>1, <2>2
<1>4. CASE Shutdown \/ UNCHANGED vars
  <2>1. UNCHANGED <<plan, client, chan, sent, taken, done, edge, knock, loop, marks>>
    BY <1>4 DEF Shutdown, vars, clients, histories
  <2>2. Busy' = Busy /\ Current' = Current
    BY <2>1 DEF Busy, Current
  <2> QED
    BY <1>2, <2>1, <2>2, AnnouncedFrame
<1>5. CASE LoopTop \/ Interrupted
  <2>1. /\ UNCHANGED <<plan, client, chan, sent, taken, done, edge, knock, marks>> /\ ~Busy
        /\ loop.pc \in {"top", "wait"} /\ \E q \in {"top", "wait", "exited"} : loop' = [loop EXCEPT !.pc = q]
    BY <1>5 DEF LoopTop, Interrupted, clients, histories, Busy
  <2>2. loop'.batch = loop.batch /\ loop'.accepts = loop.accepts
    BY <1>0, <2>1 DEF LoopStates
  <2> QED
    BY <1>2, <2>1, <2>2, AnnouncedFrame
<1>6. CASE EpollWait
  <2>1. /\ UNCHANGED <<plan, client, chan, sent, taken, done, marks>> /\ ~Busy /\ loop.pc = "wait"
        /\ loop' = IF shutdown THEN [loop EXCEPT !.pc = "exited"]
                   ELSE [loop EXCEPT !.pc = "batch", !.batch = edge, !.accepts = knock,
                                     !.hup = {c \in edge : client[c] = "gone"}]
    BY <1>6 DEF EpollWait, clients, histories, Busy
  <2>2. ~shutdown
    BY <1>0, <2>1 DEF Stopped, LoopStates
  <2>3. loop'.pc = "batch" /\ loop'.batch = edge /\ loop'.accepts = knock
    BY <1>0, <2>1, <2>2 DEF LoopStates
  <2> QED
    BY <1>2, <2>1, <2>3, AnnouncedFrame
<1>7. CASE EndBatch
  <2>1. /\ UNCHANGED <<plan, client, chan, sent, taken, done, edge, knock, marks>> /\ ~Busy
        /\ loop.batch = {} /\ loop.accepts = {} /\ loop' = AtTop
    BY <1>7 DEF EndBatch, clients, histories, Busy
  <2>2. loop'.batch = {} /\ loop'.accepts = {}
    BY <2>1 DEF AtTop
  <2> QED
    BY <1>2, <2>1, <2>2, AnnouncedFrame
<1>8. ASSUME NEW p \in Listeners, Accept(p) PROVE Rest' /\ All'
  BY <1>2, <1>8, AcceptStep, AcceptAnnounces
<1>9. ASSUME NEW c \in Conns, Read(c) PROVE Rest' /\ All'
  BY <1>2, <1>9, ReadStep, ReadAnnounces
<1>10. CASE ContextNoMemory \/ EndProcess
  BY <1>2, <1>10, ReturnStep, ReturnAnnounces
<1>11. CASE Dispatch
  <2>1. /\ UNCHANGED <<plan, client, chan, sent, taken, done, edge, knock, marks>>
        /\ loop'.pc \in {"handler", "notfound"} /\ loop'.conn = loop.conn
        /\ \E q : loop' = [loop EXCEPT !.pc = q, !.calls = 0]
    BY <1>11, DispatchStep DEF Dispatch, clients
  <2>2. loop'.batch = loop.batch /\ loop'.accepts = loop.accepts
    BY <1>0, <2>1 DEF LoopStates
  <2>3. Busy' /\ Current' = Current
    BY <2>1 DEF Busy, Current
  <2> QED
    BY <1>2, <2>1, <2>2, <2>3, AnnouncedFrame
<1>12. CASE Respond \/ RespondFails \/ RespondAgain \/ Killed
  <2>1. /\ UNCHANGED <<plan, client, chan, sent, taken, done, edge, knock>>
        /\ \A c \in Conns : marks[c] \subseteq marks'[c]
        /\ loop'.conn = loop.conn /\ loop'.pc \in {"process", "again", "dead"}
    BY <1>12, ResponseStep DEF Respond, RespondFails, RespondAgain, Killed, clients
  <2>2. \/ loop' = [NextRequest EXCEPT !.calls = @ + 1]
        \/ loop' = [loop EXCEPT !.pc = "again", !.calls = @ + 1]
        \/ loop' = [loop EXCEPT !.pc = "dead"]
    BY <1>12 DEF Respond, RespondFails, RespondAgain, Killed
  <2>3. loop'.batch = loop.batch /\ loop'.accepts = loop.accepts
    BY <1>0, <2>2 DEF NextRequest, LoopStates
  <2>4. Busy' /\ Current' = Current
    BY <2>1 DEF Busy, Current, Stopped
  <2>5. Rest'
    BY <2>1
  <2> QED
    BY <1>2, <2>1, <2>3, <2>4, <2>5, AnnouncedFrame
<1> QED
  BY <1>3, <1>4, <1>5, <1>6, <1>7, <1>8, <1>9, <1>10, <1>11, <1>12 DEF Next, ServerStep

-----------------------------------------------------------------------------
(***************************************************************************)
(* Theorems                                                                *)
(***************************************************************************)

Inductive == Typing /\ PendingIsCurrent /\ RunsAreBegun /\ OwedToCurrent /\ NothingForgotten

\* The inductive invariant holds of every reachable state.
LEMMA AlwaysInductive == Spec => []Inductive
<1>1. Init => Inductive
  <2> SUFFICES ASSUME Init PROVE Inductive
    OBVIOUS
  <2>1. Typing /\ PendingIsCurrent
    BY InitTyping DEF Init, AtTop, PendingIsCurrent
  <2>2. RunsAreBegun /\ OwedToCurrent
    BY DEF Init, AtTop, RunsAreBegun, Begun, OwedToCurrent, Busy, Responding
  <2>3. NothingForgotten
    BY DEF Init, AtTop, NothingForgotten, Announced
  <2> QED
    BY <2>1, <2>2, <2>3 DEF Inductive
<1>2. Inductive /\ [Next]_vars => Inductive'
  BY NextTyping, NextPending, NextRuns, NextOwed, NextForgotten DEF Inductive
<1> QED
  BY <1>1, <1>2, PTL DEF Spec

\* No receive buffer overflows and every request that is processed lies in it as
\* a whole, however the kernel cuts the bytes into reads.
THEOREM TypeCorrect == Spec => []TypeOK
<1>1. Inductive => TypeOK
  BY TypingIsTypeOK DEF Inductive
<1> QED
  BY <1>1, AlwaysInductive, PTL

\* process_buffered_data processes the requests of a connection in order, each
\* once, unless an allocation failed on it.
THEOREM RequestsInOrder == Spec => []InOrderOnce
<1>1. Inductive => InOrderOnce
  BY DEF Inductive, RunsAreBegun, InOrderOnce
<1> QED
  BY <1>1, AlwaysInductive, PTL

\* A client gets one response to each processed request, in order, until one could
\* not be sent.
THEOREM ResponsesMatch == Spec => []OneResponseEach
<1>1. Inductive => OneResponseEach
  BY DEF Inductive, OwedToCurrent, OneResponseEach, Stopped
<1> QED
  BY <1>1, AlwaysInductive, PTL

\* The list of pending contexts is empty whenever the loop waits or may close a
\* connection: no context outlives its channel.
THEOREM ContextsAreDropped == Spec => []NoContextLeft
<1>1. Inductive => NoContextLeft
  BY DEF Inductive, PendingIsCurrent, NoContextLeft
<1> QED
  BY <1>1, AlwaysInductive, PTL

\* The edge-triggered loop misses no edge: while epoll_wait blocks, every request
\* that has arrived is processed and nobody waits in the backlog, but for the
\* cases that AsleepIsIdle names.
THEOREM NoEdgeIsMissed == Spec => []AsleepIsIdle
<1>1. Inductive => AsleepIsIdle
  <2> SUFFICES ASSUME Inductive, loop.pc = "wait", edge = {}, knock = {}, NEW c \in Conns
               PROVE  /\ chan[c] = "backlog" => "left" \in marks[c]
                      /\ chan[c] = "open" /\ marks[c] \cap {"filled", "memory"} = {} =>
                           /\ client[c] = "connected" /\ taken[c] = sent[c]
                           /\ \A k \in DOMAIN plan[c] : End(c, k) <= sent[c] => k <= Len(runs[c])
    BY DEF AsleepIsIdle
  <2>1. Announced(c) /\ loop.batch = {} /\ loop.accepts = {}
    BY DEF Inductive, NothingForgotten, Stopped
  <2>2. chan[c] = "backlog" => "left" \in marks[c]
    BY <2>1 DEF Announced
  <2>3. ASSUME chan[c] = "open", marks[c] \cap {"filled", "memory"} = {}
        PROVE  /\ client[c] = "connected" /\ taken[c] = sent[c]
               /\ \A k \in DOMAIN plan[c] : End(c, k) <= sent[c] => k <= Len(runs[c])
    <3>1. ~(sent[c] > taken[c]) /\ client[c] # "gone" /\ ~Complete(c, done[c] + 1)
      BY <2>1, <2>3 DEF Announced, Busy
    <3>2. client[c] = "connected"
      BY <2>3, <3>1 DEF Inductive, Typing, Sockets
    <3>3. sent[c] \in Nat /\ taken[c] \in Nat /\ taken[c] <= sent[c] /\ done[c] \in 0 .. Len(plan[c])
      BY DEF Inductive, Typing, Buffers, BufferOK
    <3>4. taken[c] = sent[c]
      BY <3>1, <3>3
    <3>5. Len(runs[c]) = done[c]
      BY <2>3 DEF Inductive, RunsAreBegun, Begun, Busy
    <3>6. plan[c] \in Plans[c] /\ Len(plan[c]) \in Nat /\ DOMAIN plan[c] = 1 .. Len(plan[c])
      BY PlanRequests DEF Inductive, Typing, Sockets
    <3>7. ASSUME NEW k \in DOMAIN plan[c], End(c, k) <= sent[c], ~(k <= done[c]) PROVE FALSE
      <4>1. done[c] + 1 \in 0 .. Len(plan[c]) /\ k \in 0 .. Len(plan[c]) /\ done[c] + 1 <= k
        BY <3>3, <3>6, <3>7
      <4>2. End(c, done[c] + 1) <= End(c, k) /\ End(c, done[c] + 1) \in Nat /\ End(c, k) \in Nat
        BY <3>6, <4>1, EndGrows, EndType DEF End
      <4>3. Complete(c, done[c] + 1)
        BY <3>3, <3>4, <3>6, <3>7, <4>1, <4>2 DEF Complete
      <4> QED
        BY <3>1, <4>3
    <3> QED
      BY <3>2, <3>4, <3>5, <3>7
  <2> QED
    BY <2>2, <2>3
<1> QED
  BY <1>1, AlwaysInductive, PTL
=============================================================================
