------------------------------- MODULE Gossip -------------------------------
(***************************************************************************)
(* The SWIM gossip engine of gossip_engine.c on every node of a cluster,   *)
(* with the bootstrap of node_bootstrap.c and an unreliable network.       *)
(*                                                                         *)
(* A node runs two threads on one shared cluster view: the listener, which *)
(* handles one datagram at a time, and the protocol thread, which pings,   *)
(* checks timeouts and gossips.  A step is one critical section, so the    *)
(* two interleave wherever the code releases the view's lock.              *)
(*                                                                         *)
(* Time is not modelled: a wait that the code bounds by a timeout may end  *)
(* at any moment, so the protocol thread takes the parts of its round in   *)
(* any order.  SUSPECT, DEAD and PING_REQ datagrams are not modelled: no   *)
(* code sends them.  Bind addresses are taken to be reachable.             *)
(***************************************************************************)
EXTENDS ClusterView, Sequences

CONSTANTS
  Routers,         \* nodes of type ROUTER: no seed configured, they answer joins
  SeedJoiners,     \* nodes that may join with membership_join instead of the bootstrap
  MaxPiggyback,    \* config.max_piggyback
  QueueCapacity,   \* MAX_UPDATE_QUEUE
  AckCapacity,     \* MAX_PENDING_ACKS
  JoinCopies,      \* copies of an update queued for a join (5)
  RejoinCopies,    \* copies queued for a rejoin (10)
  LeaveSeqs,       \* values sequence_num may have when a node leaves
  MaxInc,          \* bound: incarnations
  MaxStarts,       \* bound: times a node is started
  MaxRounds,       \* bound: pings, gossips and join attempts of each node; 0 is no bound
  MaxNet,          \* bound: datagrams in flight, more are lost
  Lossy,           \* whether datagrams may be lost
  Duplicating,     \* whether datagrams may be delivered twice
  Partitions,      \* whether the network may be cut
  CanCrash,        \* nodes that may crash or be stopped
  NoNode,          \* no peer
  NoDatagram       \* no datagram

\* A full-state message has room for every member.
ASSUME GossipAssumption ==
  /\ NoNode \notin Nodes
  /\ IsFiniteSet(Nodes)
  /\ Routers \subseteq Nodes
  /\ SeedJoiners \subseteq Nodes \ Routers
  /\ CanCrash \subseteq Nodes
  /\ {MaxPiggyback, QueueCapacity, AckCapacity, JoinCopies, RejoinCopies,
      MaxStarts, MaxNet} \subseteq Nat
  /\ MaxInc \in Nat \ {0}
  /\ MaxRounds \in [Nodes -> Nat]
  /\ LeaveSeqs \subseteq 0 .. MaxInc
  /\ {Lossy, Duplicating, Partitions} \subseteq BOOLEAN

AckSlots == 1 .. AckCapacity

Update == [node : Nodes, status : NodeStatus, inc : 0 .. MaxInc, addr : BOOLEAN]

\* A datagram; again tells whether the network may deliver it a second time.
Datagram ==
  [type : {"PING", "ACK", "ALIVE", "JOIN", "WORKER_JOIN", "JOIN_RESPONSE", "LEAVE"},
   from : Nodes, to : Nodes, upds : Seq(Update), seq : 0 .. MaxInc, again : BOOLEAN]

VARIABLES
  view,      \* view[n]: node n's cluster view
  updq,      \* updq[n]: the engine's update queue
  pending,   \* pending[n][k]: the target of slot k of pending_acks
  listener,  \* listener[n]: where the listener thread is, and its datagram
  proto,     \* proto[n]: where the protocol thread is
  starts,    \* starts[n]: how often node n was started
  rounds,    \* rounds[n]: what counts against MaxRounds
  life,      \* life[n]: "down", "joining", "waiting", "up" or "left"
  net,       \* datagrams in flight
  cut        \* the network is partitioned: nothing gets through

vars == <<view, updq, pending, listener, proto, starts, rounds, life, net, cut>>

Fresh == [status |-> "ALIVE", inc |-> 0, addr |-> TRUE]
SelfUpdate(n) == [node |-> n, status |-> "ALIVE", inc |-> 0, addr |-> TRUE]

IdleListener == [pc |-> "idle", msg |-> NoDatagram, rejoin |-> FALSE, inc |-> 0]
IdleProto == [pc |-> "idle", peer |-> NoNode, inc |-> 0, addr |-> FALSE, slot |-> 1]

Running(n) == life[n] # "down"

\* The state of a node that is not running, or has just been started.
EmptyView(n) == [m \in Nodes |-> IF m = n THEN Fresh ELSE NoMember]
NoAcks == [k \in AckSlots |-> NoNode]

Init ==
  /\ view = [n \in Nodes |-> EmptyView(n)]
  /\ updq = [n \in Nodes |-> <<>>]
  /\ pending = [n \in Nodes |-> NoAcks]
  /\ listener = [n \in Nodes |-> IdleListener]
  /\ proto = [n \in Nodes |-> IdleProto]
  /\ starts = [n \in Nodes |-> 0]
  /\ rounds = [n \in Nodes |-> 0]
  /\ life = [n \in Nodes |-> "down"]
  /\ net = {}
  /\ cut = FALSE

\* A cluster whose nodes have joined and pinged each other until nothing was
\* left to tell: every node knows every other one.  The network may be cut.
InitJoined ==
  /\ view = [n \in Nodes |-> [m \in Nodes |-> Fresh]]
  /\ updq = [n \in Nodes |-> <<>>]
  /\ pending = [n \in Nodes |-> NoAcks]
  /\ listener = [n \in Nodes |-> IdleListener]
  /\ proto = [n \in Nodes |-> IdleProto]
  /\ starts = [n \in Nodes |-> 1]
  /\ rounds = [n \in Nodes |-> 0]
  /\ life = [n \in Nodes |-> "up"]
  /\ net = {}
  /\ cut \in {FALSE, Partitions}

-----------------------------------------------------------------------------
(***************************************************************************)
(* Update queue, pending acks, network                                     *)
(***************************************************************************)

\* Mutant: the capacity is not checked.
Push_unbounded(q, u, c) == q \o [k \in 1 .. c |-> u]

\* update_queue_push of c copies: what does not fit is dropped.
Push(q, u, c) ==
  q \o [k \in 1 .. (IF Len(q) + c <= QueueCapacity THEN c ELSE QueueCapacity - Len(q)) |-> u]

\* update_queue_pop_batch: the batch, and what remains of the queue.
BatchLen(q) == IF Len(q) < MaxPiggyback THEN Len(q) ELSE MaxPiggyback
Batch(q) == SubSeq(q, 1, BatchLen(q))
AfterBatch(q) == SubSeq(q, BatchLen(q) + 1, Len(q))

\* add_pending_ack: the first inactive slot; a full table records nothing.
AddPending(acks, m) ==
  [k \in AckSlots |-> IF acks[k] = NoNode /\ \A j \in 1 .. (k - 1) : acks[j] # NoNode
                      THEN m ELSE acks[k]]

\* remove_pending_ack: the first active slot for the target.
RemovePending(acks, m) ==
  [k \in AckSlots |-> IF acks[k] = m /\ \A j \in 1 .. (k - 1) : acks[j] # m
                      THEN NoNode ELSE acks[k]]

\* The network takes a set of datagrams, or loses them: when it is cut, when a
\* receiver's address is missing, and beyond the bound on datagrams in flight.
Send(ds) ==
  net' = IF cut \/ Cardinality(net \cup ds) > MaxNet THEN net ELSE net \cup ds

Dgram(ty, from, to, upds) ==
  [type |-> ty, from |-> from, to |-> to, upds |-> upds, seq |-> 0, again |-> Duplicating]

\* Datagram d is delivered; it may stay in the network once.
Take(d) ==
  \/ net' = net \ {d}
  \/ d.again /\ net' = (net \ {d}) \cup {[d EXCEPT !.again = FALSE]}

CountRound(n) ==
  /\ MaxRounds[n] = 0 \/ rounds[n] < MaxRounds[n]
  /\ rounds' = IF MaxRounds[n] = 0 THEN rounds ELSE [rounds EXCEPT ![n] = @ + 1]

\* select_random_peer and gossip_to_random_peers consider the members that are
\* not DEAD, suspects included.
Peers(n) == {m \in Nodes \ {n} : view[n][m] # NoMember /\ view[n][m].status # "DEAD"}

MemberUpdate(v, m) == [node |-> m, status |-> v[m].status, inc |-> v[m].inc, addr |-> v[m].addr]

\* The members of a set, one after the other.  The view's array has them in the
\* order in which they were added, on which nothing here depends.
Listing(S) == CHOOSE f \in [1 .. Cardinality(S) -> S] : \A i, j \in DOMAIN f : f[i] = f[j] => i = j

\* The updates of a full-state message: every other member that is not DEAD.
FullState(n) ==
  LET listed == Listing(Peers(n))
  IN [k \in DOMAIN listed |-> MemberUpdate(view[n], listed[k])]

\* update_self_in_cluster_view
RefreshSelf(v, n) == [v EXCEPT ![n] = [@ EXCEPT !.status = "ALIVE", !.inc = 0]]

-----------------------------------------------------------------------------
(***************************************************************************)
(* Start, bootstrap, leave and crash                                       *)
(***************************************************************************)

\* gossip_engine_announce_join queues copies of the node's own update.
Announce(n, c) ==
  /\ view' = [view EXCEPT ![n] = ViewAdd(@, n, Fresh)]
  /\ updq' = [updq EXCEPT ![n] = Push(@, SelfUpdate(n), c)]

\* A router has no seed configured: it announces itself.  Other nodes go on to
\* join through a router.
Start(n) ==
  /\ life[n] = "down"
  /\ starts[n] < MaxStarts
  /\ starts' = [starts EXCEPT ![n] = @ + 1]
  /\ life' = [life EXCEPT ![n] = IF n \in Routers THEN "up" ELSE "joining"]
  /\ Announce(n, IF n \in Routers THEN JoinCopies ELSE 0)
  /\ UNCHANGED <<pending, listener, proto, rounds, net, cut>>

\* node_bootstrap_from_config_ex sends WORKER_JOIN to a router and waits.
Bootstrap(n, r) ==
  /\ life[n] = "joining"
  /\ r \in Routers
  /\ CountRound(n)
  /\ Send({Dgram("WORKER_JOIN", n, r, <<SelfUpdate(n)>>)})
  /\ life' = [life EXCEPT ![n] = "waiting"]
  /\ UNCHANGED <<view, updq, pending, listener, proto, starts, cut>>

\* The answer fills the peer pool, not the cluster view.
BootstrapAnswered(n) ==
  /\ life[n] = "waiting"
  /\ \E d \in net : d.type = "JOIN_RESPONSE" /\ d.to = n /\ Take(d)
  /\ life' = [life EXCEPT ![n] = "up"]
  /\ UNCHANGED <<view, updq, pending, listener, proto, starts, rounds, cut>>

\* No answer, or a socket error: the node announces itself (not after a socket
\* error) and tries again, or gives up after announcing itself once more.
BootstrapFails(n) ==
  /\ life[n] = "waiting"
  /\ \E c \in {0, JoinCopies} :
       \/ Announce(n, c) /\ life' = [life EXCEPT ![n] = "joining"]
       \/ Announce(n, c + JoinCopies) /\ life' = [life EXCEPT ![n] = "up"]
  /\ UNCHANGED <<pending, listener, proto, starts, rounds, net, cut>>

AddSeed(n, seed) == Send({Dgram("JOIN", n, seed, <<SelfUpdate(n)>>)})

\* membership_join: JOIN to a seed, and the announcement.
MembershipJoin(n, seed) ==
  /\ life[n] = "joining" /\ n \in SeedJoiners
  /\ seed # n
  /\ CountRound(n)
  /\ AddSeed(n, seed)
  /\ Announce(n, JoinCopies)
  /\ life' = [life EXCEPT ![n] = "up"]
  /\ UNCHANGED <<pending, listener, proto, starts, cut>>

\* gossip_engine_leave tells every member it has an address for, dead ones too.
\* How many messages the node sent before is not modelled: sequence_num is any
\* of LeaveSeqs.
Leave(n) ==
  /\ life[n] = "up" /\ n \in CanCrash
  /\ \E q \in LeaveSeqs :
       Send({[Dgram("LEAVE", n, m, <<>>) EXCEPT !.seq = q] :
               m \in {k \in Nodes \ {n} : view[n][k] # NoMember /\ view[n][k].addr}})
  /\ life' = [life EXCEPT ![n] = "left"]
  /\ UNCHANGED <<view, updq, pending, listener, proto, starts, rounds, cut>>

\* The process ends, by a crash or after gossip_engine_shutdown: all of its
\* state is lost.
Crash(n) ==
  /\ Running(n) /\ n \in CanCrash
  /\ view' = [view EXCEPT ![n] = EmptyView(n)]
  /\ updq' = [updq EXCEPT ![n] = <<>>]
  /\ pending' = [pending EXCEPT ![n] = NoAcks]
  /\ listener' = [listener EXCEPT ![n] = IdleListener]
  /\ proto' = [proto EXCEPT ![n] = IdleProto]
  /\ life' = [life EXCEPT ![n] = "down"]
  /\ UNCHANGED <<starts, rounds, net, cut>>

-----------------------------------------------------------------------------
(***************************************************************************)
(* The protocol thread                                                     *)
(***************************************************************************)

\* A round that finds a peer: the node refreshes its own entry, takes a batch
\* of queued updates (or the full state when none is queued) and pings.  The
\* batch is gone even if the peer has no address and nothing can be sent.
Ping(n, m) ==
  /\ Running(n) /\ proto[n].pc = "idle"
  /\ m \in Peers(n)
  /\ CountRound(n)
  /\ view' = [view EXCEPT ![n] = RefreshSelf(@, n)]
  /\ updq' = [updq EXCEPT ![n] = AfterBatch(@)]
  /\ IF view[n][m].addr
     THEN /\ Send({Dgram("PING", n, m, IF updq[n] = <<>> THEN FullState(n) ELSE Batch(updq[n]))})
          /\ proto' = [proto EXCEPT ![n] = [IdleProto EXCEPT !.pc = "sent", !.peer = m]]
     ELSE UNCHANGED <<net, proto>>
  /\ UNCHANGED <<pending, listener, starts, life, cut>>

\* The pending ack is recorded after the datagram has left.
PingSent(n) ==
  /\ proto[n].pc = "sent"
  /\ pending' = [pending EXCEPT ![n] = AddPending(@, proto[n].peer)]
  /\ proto' = [proto EXCEPT ![n] = IdleProto]
  /\ UNCHANGED <<view, updq, listener, starts, rounds, life, net, cut>>

\* A round without peers.
RoundAlone(n) ==
  /\ Running(n) /\ proto[n].pc = "idle"
  /\ Peers(n) = {}
  /\ view' = [view EXCEPT ![n] = RefreshSelf(@, n)]
  /\ UNCHANGED <<updq, pending, listener, proto, starts, rounds, life, net, cut>>

\* check_ack_timeouts finds an expired slot.  Only an ALIVE target becomes a
\* suspect; its incarnation is read here and written later, with the lock on
\* the pending acks held in between.
AckTimeout(n, k) ==
  /\ Running(n) /\ proto[n].pc = "idle"
  /\ pending[n][k] # NoNode
  /\ LET m == pending[n][k] IN
     IF view[n][m].status = "ALIVE"
     THEN /\ proto' = [proto EXCEPT ![n] = [pc |-> "suspect", peer |-> m, inc |-> view[n][m].inc,
                                            addr |-> FALSE, slot |-> k]]
          /\ UNCHANGED pending
     ELSE /\ pending' = [pending EXCEPT ![n][k] = NoNode]
          /\ UNCHANGED proto
  /\ UNCHANGED <<view, updq, listener, starts, rounds, life, net, cut>>

\* What the protocol thread announces of the member it is marking.
Verdict(n, st) == [node |-> proto[n].peer, status |-> st, inc |-> proto[n].inc, addr |-> proto[n].addr]

\* The suspicion is queued without the member's address.
MarkSuspect(n) ==
  /\ proto[n].pc = "suspect"
  /\ view' = [view EXCEPT ![n] = ViewUpdateStatus(@, proto[n].peer, "SUSPECT", proto[n].inc)]
  /\ updq' = [updq EXCEPT ![n] = Push(@, Verdict(n, "SUSPECT"), 1)]
  /\ pending' = [pending EXCEPT ![n][proto[n].slot] = NoNode]
  /\ proto' = [proto EXCEPT ![n] = IdleProto]
  /\ UNCHANGED <<listener, starts, rounds, life, net, cut>>

\* check_suspect_timeouts finds a suspect that is overdue and releases the lock
\* on the view ...  It does not pass over the node's own entry, but the round it
\* is part of has just refreshed that one: it is never overdue.
SuspectTimeout(n, m) ==
  /\ Running(n) /\ proto[n].pc = "idle"
  /\ m # n /\ view[n][m] # NoMember /\ view[n][m].status = "SUSPECT"
  /\ proto' = [proto EXCEPT ![n] = [pc |-> "kill", peer |-> m, inc |-> view[n][m].inc,
                                    addr |-> view[n][m].addr, slot |-> 1]]
  /\ UNCHANGED <<view, updq, pending, listener, starts, rounds, life, net, cut>>

\* ... and takes it again to mark the member DEAD, without another look at it.
MarkDead(n) ==
  /\ proto[n].pc = "kill"
  /\ view' = [view EXCEPT ![n] = ViewUpdateStatus(@, proto[n].peer, "DEAD", proto[n].inc)]
  /\ updq' = [updq EXCEPT ![n] = Push(@, Verdict(n, "DEAD"), 1)]
  /\ proto' = [proto EXCEPT ![n] = IdleProto]
  /\ UNCHANGED <<pending, listener, starts, rounds, life, net, cut>>

\* gossip_to_random_peers, one peer of the fanout at a time.
Gossip(n, m) ==
  /\ Running(n) /\ proto[n].pc = "idle"
  /\ m \in Peers(n) /\ view[n][m].addr
  /\ CountRound(n)
  /\ Send({Dgram("ALIVE", n, m, FullState(n))})
  /\ UNCHANGED <<view, updq, pending, listener, proto, starts, life, cut>>

-----------------------------------------------------------------------------
(***************************************************************************)
(* The listener thread                                                     *)
(***************************************************************************)

\* The listener goes through the updates of a datagram, one step for each, and
\* answers a PING when it is done.
Work(d) ==
  IF d.upds = <<>> /\ d.type # "PING"
  THEN IdleListener
  ELSE [IdleListener EXCEPT !.pc = "updates", !.msg = d]

\* The listener of n takes datagram d.  Incarnations stay within the bound:
\* a datagram that could exceed it is not delivered.
Accepts(n, d) ==
  /\ Running(n) /\ listener[n].pc = "idle"
  /\ d \in net /\ d.to = n
  /\ \A k \in DOMAIN d.upds : d.upds[k].inc < MaxInc

\* handle_ping_message, handle_alive_message
ReceiveUpdates(n, d) ==
  /\ Accepts(n, d)
  /\ d.type \in {"PING", "ALIVE"}
  /\ Take(d)
  /\ listener' = [listener EXCEPT ![n] = Work(d)]
  /\ UNCHANGED <<view, updq, pending, proto, starts, rounds, life, cut>>

\* handle_ack_message: the pending ack is cleared (its lock must be free) and
\* the sender's status is read; a suspect is revived in a step of its own.
ReceiveAck(n, d) ==
  /\ Accepts(n, d)
  /\ d.type = "ACK"
  /\ proto[n].pc # "suspect"
  /\ Take(d)
  /\ pending' = [pending EXCEPT ![n] = RemovePending(@, d.from)]
  /\ listener' = [listener EXCEPT ![n] =
       IF view[n][d.from] # NoMember /\ view[n][d.from].status = "SUSPECT"
       THEN [IdleListener EXCEPT !.pc = "revive", !.msg = d]
       ELSE Work(d)]
  /\ UNCHANGED <<view, updq, proto, starts, rounds, life, cut>>

\* The incarnation is the one the entry has now.
Revive(n) ==
  /\ listener[n].pc = "revive"
  /\ LET m == listener[n].msg.from IN
     view' = [view EXCEPT ![n] = ViewUpdateStatus(@, m, "ALIVE", @[m].inc)]
  /\ listener' = [listener EXCEPT ![n] = Work(listener[n].msg)]
  /\ UNCHANGED <<updq, pending, proto, starts, rounds, life, net, cut>>

\* The next update of the listener's datagram, which is of type ty.
Applies(n, ty) ==
  /\ listener[n].pc = "updates"
  /\ listener[n].msg.type = ty
  /\ listener[n].msg.upds # <<>>

Upd(n) == Head(listener[n].msg.upds)

NextUpdate(n) ==
  listener' = [listener EXCEPT ![n] = Work([listener[n].msg EXCEPT !.upds = Tail(@)])]

Carried(u) == [status |-> u.status, inc |-> u.inc, addr |-> u.addr]

\* An update of a PING: an unknown member is added and passed on; a dead one
\* comes back alive with a higher incarnation; otherwise a higher incarnation
\* brings its status.
ViewAfterPing(v, u) ==
  IF v[u.node] = NoMember THEN ViewAdd(v, u.node, Carried(u))
  ELSE IF u.inc <= v[u.node].inc THEN v
  ELSE IF v[u.node].status = "DEAD" /\ u.status = "ALIVE" THEN ViewAdd(v, u.node, Carried(u))
  ELSE ViewUpdateStatus(v, u.node, u.status, u.inc)

ApplyPing(n) ==
  /\ Applies(n, "PING")
  /\ view' = [view EXCEPT ![n] = ViewAfterPing(@, Upd(n))]
  /\ updq' = IF view[n][Upd(n).node] = NoMember
             THEN [updq EXCEPT ![n] = Push(@, Upd(n), 1)] ELSE updq
  /\ NextUpdate(n)
  /\ UNCHANGED <<pending, proto, starts, rounds, life, net, cut>>

\* An update of an ACK: the same, without the special case of a dead member and
\* without passing anything on.
ViewAfterAck(v, u) ==
  IF v[u.node] = NoMember THEN ViewAdd(v, u.node, Carried(u))
  ELSE IF u.inc <= v[u.node].inc THEN v
  ELSE ViewUpdateStatus(v, u.node, u.status, u.inc)

ApplyAck(n) ==
  /\ Applies(n, "ACK")
  /\ view' = [view EXCEPT ![n] = ViewAfterAck(@, Upd(n))]
  /\ NextUpdate(n)
  /\ UNCHANGED <<updq, pending, proto, starts, rounds, life, net, cut>>

\* An update of an ALIVE datagram: a higher incarnation of a known member makes
\* it ALIVE, whatever status the update carries, and is passed on.
ApplyAlive(n) ==
  /\ Applies(n, "ALIVE")
  /\ LET u == Upd(n)
         newer == view[n][u.node] # NoMember /\ u.inc > view[n][u.node].inc
     IN IF newer
        THEN /\ view' = [view EXCEPT ![n] = ViewUpdateStatus(@, u.node, "ALIVE", u.inc)]
             /\ updq' = [updq EXCEPT ![n] = Push(@, u, 1)]
        ELSE UNCHANGED <<view, updq>>
  /\ NextUpdate(n)
  /\ UNCHANGED <<pending, proto, starts, rounds, life, net, cut>>

\* The ACK of a PING carries the full state, to the address the PING came from.
Reply(n) ==
  /\ listener[n].pc = "updates"
  /\ listener[n].msg.type = "PING" /\ listener[n].msg.upds = <<>>
  /\ Send({Dgram("ACK", n, listener[n].msg.from, FullState(n))})
  /\ listener' = [listener EXCEPT ![n] = IdleListener]
  /\ UNCHANGED <<view, updq, pending, proto, starts, rounds, life, cut>>

\* handle_join_message
ReceiveJoin(n, d) ==
  /\ Accepts(n, d)
  /\ d.type = "JOIN"
  /\ Take(d)
  /\ view' = [view EXCEPT ![n] = ViewAdd(@, d.from, [Fresh EXCEPT !.inc = d.upds[1].inc])]
  /\ updq' = [updq EXCEPT ![n] = Push(@, d.upds[1], 1)]
  /\ UNCHANGED <<pending, listener, proto, starts, rounds, life, cut>>

\* handle_worker_join_message reads the sender's entry: a dead or suspect member
\* rejoins with a raised incarnation, any other one with the one it brings.
ReceiveWorkerJoin(n, d) ==
  /\ Accepts(n, d)
  /\ d.type = "WORKER_JOIN"
  /\ n \in Routers
  /\ view[n][d.from] # NoMember => view[n][d.from].inc + 2 <= MaxInc
  /\ Take(d)
  /\ LET old == view[n][d.from]
         rejoin == old # NoMember /\ old.status \in {"DEAD", "SUSPECT"}
     IN listener' = [listener EXCEPT ![n] =
          [pc |-> "admit", msg |-> d, rejoin |-> rejoin,
           inc |-> IF rejoin THEN old.inc + 1 ELSE d.upds[1].inc]]
  /\ UNCHANGED <<view, updq, pending, proto, starts, rounds, life, cut>>

\* "Immediate gossip burst to all existing members"
JoinNews(n, w, upd) ==
  {Dgram("ALIVE", n, m, <<upd>>) : m \in {p \in Peers(n) \ {w} : view[n][p].addr}}

\* The answer to the bootstrap; the routers it lists go to the peer pool.
JoinResponse(n, w) == Dgram("JOIN_RESPONSE", n, w, <<>>)

\* The second half of the handler writes the entry, queues copies of the join,
\* tells every other member at once and answers.
AdmitWorker(n) ==
  /\ listener[n].pc = "admit"
  /\ LET w == listener[n].msg.from
         mem == [Fresh EXCEPT !.inc = listener[n].inc]
         upd == [SelfUpdate(w) EXCEPT !.inc = listener[n].inc]
     IN /\ view' = [view EXCEPT ![n] = ViewAdd(@, w, mem)]
        /\ updq' = [updq EXCEPT ![n] = Push(@, upd, IF listener[n].rejoin THEN RejoinCopies ELSE JoinCopies)]
        /\ Send({JoinResponse(n, w)} \cup JoinNews(n, w, upd))
  /\ listener' = [listener EXCEPT ![n] = IdleListener]
  /\ UNCHANGED <<pending, proto, starts, rounds, life, cut>>

\* A LEAVE marks its sender DEAD, with the sequence number of the datagram as
\* the incarnation.
ReceiveLeave(n, d) ==
  /\ Accepts(n, d)
  /\ d.type = "LEAVE"
  /\ Take(d)
  /\ view' = [view EXCEPT ![n] = ViewUpdateStatus(@, d.from, "DEAD", d.seq)]
  /\ UNCHANGED <<updq, pending, listener, proto, starts, rounds, life, cut>>

-----------------------------------------------------------------------------
(***************************************************************************)
(* The network                                                             *)
(***************************************************************************)

\* A datagram is lost: by the network, or because nobody reads it (a node that
\* is down, a bootstrap socket that is closed, a WORKER_JOIN that is ignored).
Lose(d) ==
  /\ d \in net
  /\ \/ Lossy
     \/ ~Running(d.to)
     \/ d.type = "JOIN_RESPONSE" /\ life[d.to] # "waiting"
  /\ net' = net \ {d}
  /\ UNCHANGED <<view, updq, pending, listener, proto, starts, rounds, life, cut>>

Cut ==
  /\ Partitions /\ ~cut
  /\ cut' = TRUE
  /\ net' = {}
  /\ UNCHANGED <<view, updq, pending, listener, proto, starts, rounds, life>>

Heal ==
  /\ cut
  /\ cut' = FALSE
  /\ UNCHANGED <<view, updq, pending, listener, proto, starts, rounds, life, net>>

-----------------------------------------------------------------------------
LifeStep(n) ==
  \/ Start(n) \/ BootstrapAnswered(n) \/ BootstrapFails(n) \/ Leave(n) \/ Crash(n)
  \/ \E m \in Nodes : Bootstrap(n, m) \/ MembershipJoin(n, m)

ProtoStep(n) ==
  \/ PingSent(n) \/ RoundAlone(n) \/ MarkSuspect(n) \/ MarkDead(n)
  \/ \E m \in Nodes : Ping(n, m) \/ SuspectTimeout(n, m) \/ Gossip(n, m)
  \/ \E k \in AckSlots : AckTimeout(n, k)

ListenerStep(n) ==
  \/ Revive(n) \/ ApplyPing(n) \/ ApplyAck(n) \/ ApplyAlive(n) \/ Reply(n) \/ AdmitWorker(n)
  \/ \E d \in net : \/ ReceiveUpdates(n, d) \/ ReceiveAck(n, d) \/ ReceiveJoin(n, d)
                    \/ ReceiveWorkerJoin(n, d) \/ ReceiveLeave(n, d)

Next ==
  \/ \E n \in Nodes : LifeStep(n) \/ ProtoStep(n) \/ ListenerStep(n)
  \/ \E d \in net : Lose(d)
  \/ Cut \/ Heal

Spec == Init /\ [][Next]_vars

\* Both threads of a node of S keep going as long as it runs: a step they have
\* begun is finished, a datagram is read.  rand() gives every peer its turn
\* again and again.  Every round checks the timeouts: they do expire for a node
\* that is down, and may or may not for one whose answers are only late.
Fairness(S) ==
  \A n \in S :
    /\ WF_vars(ListenerStep(n))
    /\ WF_vars(PingSent(n) \/ MarkSuspect(n) \/ MarkDead(n))
    /\ \A m \in Nodes \ {n} : /\ SF_vars(Ping(n, m))
                              /\ SF_vars(~Running(m) /\ SuspectTimeout(n, m))
    /\ \A k \in AckSlots, m \in Nodes \ {n} :
         SF_vars(pending[n][k] = m /\ ~Running(m) /\ AckTimeout(n, k))

\* Nothing is assumed of a node that may crash.
JoinedSpec == InitJoined /\ [][Next]_vars /\ Fairness(Nodes \ CanCrash)

\* A node that may crash is scheduled fairly while it runs.
RestartSpec == InitJoined /\ [][Next]_vars /\ Fairness(Nodes)

-----------------------------------------------------------------------------
(***************************************************************************)
(* Properties                                                              *)
(***************************************************************************)

\* Every variable has the type of the C state it stands for: queues and the
\* table of pending acks stay within their capacity, whatever is pushed.
TypeOK ==
  /\ view \in [Nodes -> [Nodes -> Member \cup {NoMember}]]
  /\ \A n \in Nodes : view[n][n] # NoMember
  /\ \A n, m \in Nodes : view[n][m] # NoMember => view[n][m].inc <= MaxInc
  /\ updq \in [Nodes -> Seq(Update)]
  /\ \A n \in Nodes : Len(updq[n]) <= QueueCapacity
  /\ pending \in [Nodes -> [AckSlots -> Nodes \cup {NoNode}]]
  /\ listener \in [Nodes -> [pc : {"idle", "updates", "revive", "admit"},
                             msg : Datagram \cup {NoDatagram}, rejoin : BOOLEAN, inc : 0 .. MaxInc]]
  /\ proto \in [Nodes -> [pc : {"idle", "sent", "suspect", "kill"}, peer : Nodes \cup {NoNode},
                          inc : 0 .. MaxInc, addr : BOOLEAN, slot : AckSlots \cup {1}]]
  /\ starts \in [Nodes -> 0 .. MaxStarts]
  /\ rounds \in [Nodes -> Nat] /\ \A n \in Nodes : rounds[n] <= MaxRounds[n]
  /\ life \in [Nodes -> {"down", "joining", "waiting", "up", "left"}]
  /\ net \subseteq Datagram
  /\ cut \in BOOLEAN

\* A node that runs never goes back to an older incarnation of another member,
\* whichever of its two threads writes last; the one exception is a dead member
\* that comes back alive.
IncarnationMonotone ==
  [][\A n, m \in Nodes :
       Running(n) /\ Running(n)' /\ m # n /\ view[n][m] # NoMember =>
         /\ view'[n][m] # NoMember
         /\ \/ view'[n][m].inc >= view[n][m].inc
            \/ view[n][m].status = "DEAD" /\ view'[n][m].status = "ALIVE"]_vars

\* A member that has crashed for good is, at every node that keeps running and
\* knows it, DEAD from some time on: late answers and rumours cannot keep it
\* alive.
CrashDetected ==
  \A n, m \in Nodes :
    <>[](Running(n) /\ ~Running(m))
      => <>[](view[n][m] = NoMember \/ view[n][m].status = "DEAD")

\* "SUSPECT->DEAD timeout": the protocol thread declares a member dead only if
\* it is a suspect, not one whose ACK has just been accepted.
DeadWasSuspect ==
  [][\A n \in Nodes : MarkDead(n) /\ view[n][proto[n].peer].status = "ALIVE"
       => view'[n][proto[n].peer].status = "ALIVE"]_vars

\* "Partition tolerance: Nodes can rejoin after network splits": two nodes that
\* keep running see each other alive again after the network has healed.
RejoinAfterSplit ==
  \A n, m \in Nodes :
    <>[](Running(n) /\ Running(m) /\ ~cut)
      => []<>(view[n][m] = NoMember \/ view[n][m].status # "DEAD")

\* "Eventual consistency: Cluster state converges within seconds": if a node is
\* a live member for another one from some time on, it gets to know that one too.
LiveMembersKnowEachOther ==
  \A n, m \in Nodes :
    <>[](/\ life[n] = "up" /\ life[m] = "up" /\ ~cut
         /\ view[m][n] # NoMember /\ view[m][n].status = "ALIVE")
      => <>[](view[n][m] # NoMember)
=============================================================================
