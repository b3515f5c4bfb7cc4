---------------------------- MODULE RpcReactor ----------------------------
(***************************************************************************)
(* The RPC server of a node: one thread, an edge-triggered epoll loop, a   *)
(* receive buffer per connection and handlers that are called one request  *)
(* at a time.                                                              *)
(*                                                                         *)
(* The bytes of a connection are numbered: plan[c] is the sequence of the  *)
(* requests its client will write, each with the number of its last byte.  *)
(* A connection is then described by how far the client has written        *)
(* (sent), the server has read (taken) and how many requests it has        *)
(* dropped from the front of the receive buffer (done).                    *)
(***************************************************************************)
EXTENDS Integers, Sequences

CONSTANTS
  Conns,        \* connections that clients and peers may open
  Port,         \* Port[c]: the listening socket c connects to
  Readers,      \* connections whose client reads its responses: a peer never
                \* reads from the DATA channel it opened
  HasIngress,   \* the node's ingress capability
  Plans,        \* Plans[c]: what the client of c may write, sequences of [end, func]
  RxSize,       \* MAX_BUFFER_SIZE
  SendCap,      \* responses that fit in the socket buffers
  Faults,       \* which of "memory", "accept", "refuse" may happen
  NoConn        \* no connection

ASSUME ReactorAssumption ==
  /\ Port \in [Conns -> {"DATA", "INGRESS"}]
  /\ Readers \subseteq Conns
  /\ NoConn \notin Conns
  /\ HasIngress \in BOOLEAN
  /\ RxSize \in Nat \ {0}
  /\ SendCap \in Nat \ {0}
  /\ Faults \subseteq {"memory", "accept", "refuse"}

\* Requests of a plan take at least one byte each.
ASSUME PlanAssumption ==
  \A c \in Conns : \A p \in Plans[c] :
    /\ p \in Seq([end : Nat \ {0}, func : STRING])
    /\ \A i, j \in DOMAIN p : i < j => p[i].end < p[j].end

VARIABLES
  plan,      \* plan[c]: the requests the client of c writes, in order
  client,    \* client[c]: "idle", "connected" or "gone"
  chan,      \* chan[c]: "none", "backlog" (not accepted), "open" or "closed"
  sent,      \* sent[c]: bytes of c that have reached the server's socket
  taken,     \* taken[c]: bytes of c that were read into its rx_buffer
  done,      \* done[c]: requests dropped from the front of the rx_buffer
  edge,      \* connections with an edge epoll_wait has not reported
  knock,     \* listening sockets with an edge epoll_wait has not reported
  unread,    \* unread[c]: responses in the socket buffers towards the client
  pending,   \* g_pending_contexts
  loop,      \* where the server thread is
  shutdown,  \* state->shutdown_flag
  runs,      \* history: runs[c], the requests of c whose processing began
  out,       \* history: out[c], the requests of c whose response was written
  marks      \* history: what went wrong on each connection

vars == <<plan, client, chan, sent, taken, done, edge, knock, unread, pending,
          loop, shutdown, runs, out, marks>>

clients == <<plan, client, sent>>
histories == <<runs, out, marks>>

\* node_build_rpc_service_table_ex
ServiceTable ==
  {"PROCESS_MESSAGE", "EXECUTION_UPDATE", "SYNC_CATALOG"} \cup
  (IF HasIngress THEN {"SUBMIT_MESSAGE", "GET_STATUS", "LIST_DAGS", "ADD_DAG"} ELSE {})

\* rpc_router_run listens on two ports, rpc_worker_run on one.
Listeners == IF HasIngress THEN {"DATA", "INGRESS"} ELSE {"DATA"}

AtTop == [pc |-> "top", batch |-> {}, hup |-> {}, accepts |-> {},
          conn |-> NoConn, frame |-> 0, calls |-> 0]

Init ==
  /\ plan \in {p \in [Conns -> UNION {Plans[c] : c \in Conns}] : \A c \in Conns : p[c] \in Plans[c]}
  /\ client = [c \in Conns |-> "idle"]
  /\ chan = [c \in Conns |-> "none"]
  /\ sent = [c \in Conns |-> 0]
  /\ taken = [c \in Conns |-> 0]
  /\ done = [c \in Conns |-> 0]
  /\ edge = {}
  /\ knock = {}
  /\ unread = [c \in Conns |-> 0]
  /\ pending = {}
  /\ loop = AtTop
  /\ shutdown = FALSE
  /\ runs = [c \in Conns |-> <<>>]
  /\ out = [c \in Conns |-> <<>>]
  /\ marks = [c \in Conns |-> {}]

\* The byte at which request k of a plan ends
EndOf(p, k) == IF k = 0 THEN 0 ELSE p[k].end

End(c, k) == EndOf(plan[c], k)

Total(c) == End(c, Len(plan[c]))

\* rx_data_len when k requests have been dropped
Buffered(c, k) == taken[c] - End(c, k)

\* Request k of c is in the buffer from its first byte to its last.
Complete(c, k) == k <= Len(plan[c]) /\ End(c, k) <= taken[c]

Mark(c, m) == marks' = [marks EXCEPT ![c] = @ \cup {m}]

-----------------------------------------------------------------------------
(***************************************************************************)
(* Clients and the kernel (external)                                       *)
(***************************************************************************)

Connect(c) ==
  /\ client[c] = "idle"
  /\ Port[c] \in Listeners
  /\ client' = [client EXCEPT ![c] = "connected"]
  /\ chan' = [chan EXCEPT ![c] = "backlog"]
  /\ knock' = knock \cup {Port[c]}
  /\ UNCHANGED <<plan, sent, taken, done, edge, unread, pending, loop, shutdown, histories>>

\* Some of the client's bytes arrive: an edge, if the socket is watched.
Arrive(c) ==
  /\ client[c] = "connected"
  /\ chan[c] \in {"backlog", "open"}
  /\ \E n \in (sent[c] + 1) .. Total(c) : sent' = [sent EXCEPT ![c] = n]
  /\ edge' = IF chan[c] = "open" THEN edge \cup {c} ELSE edge
  /\ UNCHANGED <<plan, client, chan, taken, done, knock, unread, pending, loop, shutdown, histories>>

ClientClose(c) ==
  /\ client[c] = "connected"
  /\ client' = [client EXCEPT ![c] = "gone"]
  /\ edge' = IF chan[c] = "open" THEN edge \cup {c} ELSE edge
  /\ UNCHANGED <<plan, chan, sent, taken, done, knock, unread, pending, loop, shutdown, histories>>

ClientReads(c) ==
  /\ c \in Readers
  /\ client[c] = "connected"
  /\ unread[c] > 0
  /\ unread' = [unread EXCEPT ![c] = @ - 1]
  /\ UNCHANGED <<clients, chan, taken, done, edge, knock, pending, loop, shutdown, histories>>

-----------------------------------------------------------------------------
(***************************************************************************)
(* The event loop: rpc_multi_channel_event_loop                            *)
(***************************************************************************)

\* Some thread of the node asks for the shutdown.
Shutdown ==
  /\ ~shutdown /\ loop.pc \notin {"exited", "dead"}
  /\ shutdown' = TRUE
  /\ UNCHANGED <<clients, chan, taken, done, edge, knock, unread, pending, loop, histories>>

\* Mutant: the flag is read after epoll_wait only.
LoopTop_blind ==
  /\ loop.pc = "top"
  /\ loop' = [loop EXCEPT !.pc = "wait"]
  /\ UNCHANGED <<clients, chan, taken, done, edge, knock, unread, pending, shutdown, histories>>

\* The flag is read before epoll_wait, which has no timeout ...
LoopTop ==
  /\ loop.pc = "top"
  /\ loop' = [loop EXCEPT !.pc = IF shutdown THEN "exited" ELSE "wait"]
  /\ UNCHANGED <<clients, chan, taken, done, edge, knock, unread, pending, shutdown, histories>>

\* ... and again when it has returned with every edge that is pending.
EpollWait ==
  /\ loop.pc = "wait"
  /\ edge # {} \/ knock # {}
  /\ loop' = IF shutdown THEN [loop EXCEPT !.pc = "exited"]
             ELSE [loop EXCEPT !.pc = "batch", !.batch = edge, !.accepts = knock,
                               !.hup = {c \in edge : client[c] = "gone"}]
  /\ edge' = {}
  /\ knock' = {}
  /\ UNCHANGED <<clients, chan, taken, done, unread, pending, shutdown, histories>>

\* A signal interrupts epoll_wait, which has nothing to report.
Interrupted ==
  /\ loop.pc = "wait"
  /\ edge = {} /\ knock = {}
  /\ loop' = [loop EXCEPT !.pc = "top"]
  /\ UNCHANGED <<clients, chan, taken, done, edge, knock, unread, pending, shutdown, histories>>

\* Mutant: one call of accept for each edge.
Accept_once(p) ==
  /\ loop.pc = "batch"
  /\ p \in loop.accepts
  /\ \E c \in Conns :
       /\ chan[c] = "backlog" /\ Port[c] = p
       /\ chan' = [chan EXCEPT ![c] = "open"]
       /\ edge' = IF sent[c] > 0 \/ client[c] = "gone" THEN edge \cup {c} ELSE edge
  /\ loop' = [loop EXCEPT !.accepts = @ \ {p}]
  /\ UNCHANGED <<clients, taken, done, knock, unread, pending, shutdown, histories>>

\* An edge of a listening socket: connections are accepted until accept fails.
\* Those for which the channel cannot be set up are closed; when accept fails
\* for another reason than an empty backlog, the rest stays there.  A socket
\* that has data or was closed already reports an edge once it is watched.
Accept(p) ==
  /\ loop.pc = "batch"
  /\ p \in loop.accepts
  /\ LET backlog == {c \in Conns : chan[c] = "backlog" /\ Port[c] = p} IN
     \E ok \in SUBSET backlog : \E left \in SUBSET (backlog \ ok) :
       LET refused == backlog \ (ok \cup left) IN
       /\ left # {} => "accept" \in Faults
       /\ refused # {} => "refuse" \in Faults
       /\ chan' = [c \in Conns |-> IF c \in ok THEN "open"
                                   ELSE IF c \in refused THEN "closed" ELSE chan[c]]
       /\ edge' = edge \cup {c \in ok : sent[c] > 0 \/ client[c] = "gone"}
       /\ marks' = [c \in Conns |-> IF c \in left THEN marks[c] \cup {"left"} ELSE marks[c]]
  /\ loop' = [loop EXCEPT !.accepts = @ \ {p}]
  /\ UNCHANGED <<clients, taken, done, knock, unread, pending, shutdown, runs, out>>

\* The connection is closed: what is buffered or still in the socket is lost.
Close(c) == chan' = [chan EXCEPT ![c] = "closed"] /\ edge' = edge \ {c}

\* Mutants: read does not stop at the end of the buffer; read is called once.
ReadLength_over(c, room) == sent[c] - taken[c]
ReadLength_once(c, room) == IF sent[c] > taken[c] THEN 1 ELSE 0

\* read is called until it would block or the buffer is full.
ReadLength(c, room) == IF sent[c] - taken[c] < room THEN sent[c] - taken[c] ELSE room

\* An edge of a connection.  After a hang-up, or when read meets the end of the
\* stream, the connection is closed and the data that has been read with it.
Read(c) ==
  /\ loop.pc = "batch"
  /\ c \in loop.batch
  /\ LET room == RxSize - Buffered(c, done[c])
         n == ReadLength(c, room)
         eof == client[c] = "gone" /\ n < room
         closing == c \in loop.hup \/ eof
     IN /\ taken' = [taken EXCEPT ![c] = @ + n]
        /\ IF n = room THEN Mark(c, "filled") ELSE UNCHANGED marks
        /\ IF closing THEN Close(c) ELSE UNCHANGED <<chan, edge>>
        /\ loop' = IF closing \/ Buffered(c, done[c]) + n = 0
                   THEN [loop EXCEPT !.batch = @ \ {c}, !.hup = @ \ {c}]
                   ELSE [loop EXCEPT !.batch = @ \ {c}, !.hup = @ \ {c}, !.pc = "process",
                                     !.conn = c, !.frame = done[c]]
  /\ UNCHANGED <<clients, done, knock, unread, pending, shutdown, runs, out>>

EndBatch ==
  /\ loop.pc = "batch"
  /\ loop.batch = {} /\ loop.accepts = {}
  /\ loop' = AtTop
  /\ UNCHANGED <<clients, chan, taken, done, edge, knock, unread, pending, shutdown, histories>>

-----------------------------------------------------------------------------
(***************************************************************************)
(* Requests: process_buffered_data, rpc_send_async_response                *)
(***************************************************************************)

Current == loop.conn
Request == loop.frame + 1

AtRequest == loop.pc = "process" /\ Complete(Current, Request)

\* Mutant: a request that no handler serves is skipped.
Dispatch_skips ==
  /\ AtRequest
  /\ LET known == plan[Current][Request].func \in ServiceTable IN
     /\ loop' = IF known THEN [loop EXCEPT !.pc = "handler", !.calls = 0]
                ELSE [loop EXCEPT !.frame = @ + 1]
     /\ pending' = IF known THEN pending \cup {<<Current, Request>>} ELSE pending
  /\ runs' = [runs EXCEPT ![Current] = Append(@, Request)]
  /\ UNCHANGED <<clients, chan, taken, done, edge, knock, unread, shutdown, out, marks>>

\* The next complete request: its context is put in the list of pending ones
\* and its handler called; one that no handler serves is answered at once.
Dispatch ==
  /\ AtRequest
  /\ LET known == plan[Current][Request].func \in ServiceTable IN
     /\ loop' = [loop EXCEPT !.pc = IF known THEN "handler" ELSE "notfound", !.calls = 0]
     /\ pending' = IF known THEN pending \cup {<<Current, Request>>} ELSE pending
  /\ runs' = [runs EXCEPT ![Current] = Append(@, Request)]
  /\ UNCHANGED <<clients, chan, taken, done, edge, knock, unread, shutdown, out, marks>>

\* The buffer is full after all that could be processed was: closed.
AfterProcessing(c, dropped) ==
  IF Buffered(c, dropped) = RxSize THEN Close(c) ELSE UNCHANGED <<chan, edge>>

\* The context cannot be allocated: process_buffered_data returns at once,
\* with the requests it has processed still in the buffer.
ContextNoMemory ==
  /\ AtRequest
  /\ "memory" \in Faults
  /\ Mark(Current, "memory")
  /\ AfterProcessing(Current, done[Current])
  /\ loop' = [loop EXCEPT !.pc = "batch", !.conn = NoConn, !.frame = 0, !.calls = 0]
  /\ UNCHANGED <<clients, taken, done, knock, unread, pending, shutdown, runs, out>>

Responding == loop.pc \in {"handler", "notfound"}

\* The context leaves the list and is freed, whether or not send succeeded.
DropContext == pending' = pending \ {<<Current, Request>>}

NextRequest == [loop EXCEPT !.pc = "process", !.frame = @ + 1]

\* A client that is gone may still be written to, until the kernel knows.
SendSucceeds(c) ==
  /\ unread[c] < SendCap
  /\ unread' = [unread EXCEPT ![c] = IF client[c] = "gone" THEN @ ELSE @ + 1]

\* Every handler ends with the call of rpc_send_async_response and returns its
\* result; so far the request has not been answered.
Respond ==
  /\ Responding
  /\ SendSucceeds(Current)
  /\ out' = [out EXCEPT ![Current] = Append(@, Request)]
  /\ DropContext
  /\ loop' = [NextRequest EXCEPT !.calls = @ + 1]
  /\ UNCHANGED <<clients, chan, taken, done, edge, knock, shutdown, runs, marks>>

\* Mutant: the context is dropped when send succeeds only.
RespondFails_keeps ==
  /\ Responding
  /\ unread[Current] = SendCap \/ client[Current] = "gone"
  /\ Mark(Current, "failed")
  /\ loop' = [NextRequest EXCEPT !.calls = @ + 1]
  /\ UNCHANGED <<clients, chan, taken, done, edge, knock, unread, pending, shutdown, runs, out>>

\* send fails: the buffers are full, or the client is gone.  A handler returns
\* the error.
RespondFails ==
  /\ Responding
  /\ unread[Current] = SendCap \/ client[Current] = "gone"
  /\ DropContext
  /\ Mark(Current, "failed")
  /\ loop' = IF loop.pc = "handler" THEN [loop EXCEPT !.pc = "again", !.calls = @ + 1]
             ELSE [NextRequest EXCEPT !.calls = @ + 1]
  /\ UNCHANGED <<clients, chan, taken, done, edge, knock, unread, shutdown, runs, out>>

\* A handler that returned an error: rpc_send_async_response is called on the
\* context it has freed.  What the memory holds decides: the call returns, sends
\* once more, or the process ends.
RespondAgain ==
  /\ loop.pc = "again"
  /\ \/ /\ loop' = [NextRequest EXCEPT !.calls = @ + 1]
        /\ UNCHANGED <<unread, out>>
     \/ /\ SendSucceeds(Current)
        /\ out' = [out EXCEPT ![Current] = Append(@, Request)]
        /\ loop' = [NextRequest EXCEPT !.calls = @ + 1]
     \/ /\ loop' = [loop EXCEPT !.pc = "dead"]
        /\ UNCHANGED <<unread, out>>
  /\ UNCHANGED <<clients, chan, taken, done, edge, knock, pending, shutdown, runs, marks>>

\* send to a connection that the client has reset raises SIGPIPE, which is not
\* handled.
Killed ==
  /\ loop.pc \in {"handler", "notfound", "again"}
  /\ client[Current] = "gone"
  /\ loop' = [loop EXCEPT !.pc = "dead"]
  /\ UNCHANGED <<clients, chan, taken, done, edge, knock, unread, pending, shutdown, histories>>

\* Mutant: the buffer is compacted only when it is not empty afterwards.
EndProcess_keeps ==
  /\ loop.pc = "process" /\ ~AtRequest
  /\ done' = IF Buffered(Current, loop.frame) > 0
             THEN [done EXCEPT ![Current] = loop.frame] ELSE done
  /\ AfterProcessing(Current, loop.frame)
  /\ loop' = [loop EXCEPT !.pc = "batch", !.conn = NoConn, !.frame = 0, !.calls = 0]
  /\ UNCHANGED <<clients, taken, knock, unread, pending, shutdown, histories>>

\* Only a part of a request is left, or nothing: the processed requests are
\* dropped from the buffer.
EndProcess ==
  /\ loop.pc = "process" /\ ~AtRequest
  /\ done' = [done EXCEPT ![Current] = loop.frame]
  /\ AfterProcessing(Current, loop.frame)
  /\ loop' = [loop EXCEPT !.pc = "batch", !.conn = NoConn, !.frame = 0, !.calls = 0]
  /\ UNCHANGED <<clients, taken, knock, unread, pending, shutdown, histories>>

-----------------------------------------------------------------------------
ServerStep ==
  \/ LoopTop \/ EpollWait \/ EndBatch
  \/ \E p \in Listeners : Accept(p)
  \/ \E c \in Conns : Read(c)
  \/ Dispatch \/ ContextNoMemory \/ Respond \/ RespondFails \/ RespondAgain \/ Killed \/ EndProcess

\* The process ends with its server thread, and its sockets with it.
Stopped == loop.pc \in {"exited", "dead"}

ClientStep ==
  /\ ~Stopped
  /\ \E c \in Conns : Connect(c) \/ Arrive(c) \/ ClientClose(c) \/ ClientReads(c)

Next == ServerStep \/ ClientStep \/ Shutdown \/ Interrupted

\* The server thread runs; nothing is assumed of clients or signals.
Spec == Init /\ [][Next]_vars /\ WF_vars(ServerStep)

-----------------------------------------------------------------------------
(***************************************************************************)
(* Properties                                                              *)
(***************************************************************************)

\* A receive buffer holds at most rx_buffer_size bytes, all of which have arrived.
BufferOK(c) ==
  /\ done[c] \in 0 .. Len(plan[c])
  /\ 0 <= End(c, done[c]) /\ End(c, done[c]) <= taken[c]
  /\ taken[c] <= sent[c] /\ sent[c] <= Total(c)
  /\ Buffered(c, done[c]) <= RxSize
  /\ unread[c] \in 0 .. SendCap

\* The server thread is inside process_buffered_data.
Busy == loop.pc \in {"process", "handler", "notfound", "again"}

\* Every variable has the type of the C state it stands for, receive buffers
\* included, and a request that is being processed is one of the buffer.
TypeOK ==
  /\ \A c \in Conns : plan[c] \in Plans[c]
  /\ client \in [Conns -> {"idle", "connected", "gone"}]
  /\ chan \in [Conns -> {"none", "backlog", "open", "closed"}]
  /\ \A c \in Conns : BufferOK(c)
  /\ edge \subseteq {c \in Conns : chan[c] = "open"}
  /\ knock \subseteq Listeners
  /\ pending \subseteq Conns \X Nat
  /\ loop.pc \in {"top", "wait", "batch", "process", "handler", "notfound", "again", "exited", "dead"}
  /\ Busy => chan[Current] = "open" /\ done[Current] <= loop.frame
  /\ Busy /\ loop.pc # "process" => Complete(Current, Request)
  /\ shutdown \in BOOLEAN

\* The requests of a connection are processed in the order they were written,
\* each once, however they are cut into reads: unless an allocation failed, for
\* then the requests before it are still in the buffer.
InOrderOnce ==
  \A c \in Conns : "memory" \notin marks[c] =>
    \A i \in DOMAIN runs[c] : runs[c][i] = i

\* A client gets one response to each request that was processed, in the same
\* order, until a response to it could not be sent.
OneResponseEach ==
  \A c \in Conns : "failed" \notin marks[c] =>
    \/ out[c] = runs[c]
    \/ /\ c = Current /\ (Responding \/ Stopped)
       /\ Append(out[c], Request) = runs[c]

\* "TODO: Close all pending contexts for this channel": there are none.  When
\* the loop waits or closes a connection no context points to a channel, since
\* every handler has answered, or failed to, before it returned.
NoContextLeft == loop.pc \in {"top", "wait", "batch", "process", "exited"} => pending = {}

\* An edge-triggered loop sleeps with work to do if it ever misses an edge.  While
\* epoll_wait blocks, every open connection has a client, has been read to the end
\* and all requests that have arrived on it have been processed, but for the two
\* cases that leave data behind without a new edge: a buffer that was full and a
\* context that could not be allocated.  And nobody is in the backlog, but those
\* that an error of accept has left there.
AsleepIsIdle ==
  loop.pc = "wait" /\ edge = {} /\ knock = {} =>
    \A c \in Conns :
      /\ chan[c] = "backlog" => "left" \in marks[c]
      /\ chan[c] = "open" /\ marks[c] \cap {"filled", "memory"} = {} =>
           /\ client[c] = "connected" /\ taken[c] = sent[c]
           /\ \A k \in DOMAIN plan[c] : End(c, k) <= sent[c] => k <= Len(runs[c])

RequestIds == UNION {{c} \X UNION {DOMAIN p : p \in Plans[c]} : c \in Conns}

\* A request that has arrived as a whole on a watched connection is processed,
\* unless the connection is closed, the server stops, or the connection met one
\* of the two cases that leave data behind without a new edge: a buffer that was
\* full (the socket may hold more) and a context that could not be allocated.
ArrivedIsProcessed ==
  \A r \in RequestIds : LET c == r[1] k == r[2] IN
    (chan[c] = "open" /\ k <= Len(plan[c]) /\ End(c, k) <= sent[c])
      ~> \/ Len(runs[c]) >= k
         \/ chan[c] = "closed"
         \/ Stopped
         \/ marks[c] \cap {"filled", "memory"} # {}

\* A connection in the backlog is accepted or refused, unless the server stops
\* or an error of accept has ended an earlier round with connections left.
BacklogIsAccepted ==
  \A c \in Conns :
    chan[c] = "backlog" ~> chan[c] # "backlog" \/ Stopped \/ "left" \in marks[c]

\* epoll_wait has no timeout, so a loop that waits learns of the shutdown with
\* the next event only; one that is busy, or has an event to report, ends.
ShutdownIsSeen ==
  shutdown /\ (loop.pc # "wait" \/ edge # {} \/ knock # {}) ~> Stopped

\* "Must be called exactly once per async handler invocation."
ResponseSentOnce == loop.calls <= 1
=============================================================================
