---------------------------- MODULE GossipProofs ----------------------------
(***************************************************************************)
(* Machine-checked proofs about Gossip, for any number of nodes, any       *)
(* queue, table and piggyback sizes, any loss, duplication and crashes:    *)
(* every node's state is well typed, and no node that runs goes back to an *)
(* older incarnation of another member.                                    *)
(***************************************************************************)
EXTENDS Gossip, FiniteSetTheorems, SequenceTheorems, TLAPS

-----------------------------------------------------------------------------
(***************************************************************************)
(* The inductive invariant                                                 *)
(***************************************************************************)

\* A member whose incarnation is within the bound, a view of such members, an
\* update queue within its capacity.
Entry == [status : NodeStatus, inc : 0 .. MaxInc, addr : BOOLEAN]
View == [Nodes -> Entry \cup {NoMember}]
Queue == {q \in Seq(Update) : Len(q) <= QueueCapacity}
Acks == [AckSlots -> Nodes \cup {NoNode}]

\* A join carries the update of the node that joins.
Wire == {d \in Datagram : d.type \in {"JOIN", "WORKER_JOIN"} => d.upds # <<>>}

\* What a listener accepts: its incarnations can be raised by one.
Calm == {d \in Wire : \A k \in DOMAIN d.upds : d.upds[k].inc < MaxInc}

ListenerState ==
  {l \in [pc : {"idle", "updates", "revive", "admit"},
          msg : Datagram \cup {NoDatagram}, rejoin : BOOLEAN, inc : 0 .. MaxInc] :
     /\ l.pc # "idle" => l.msg \in Calm
     /\ l.pc = "admit" => l.inc < MaxInc}

ProtoState ==
  {x \in [pc : {"idle", "sent", "suspect", "kill"}, peer : Nodes \cup {NoNode},
          inc : 0 .. MaxInc, addr : BOOLEAN, slot : AckSlots \cup {1}] :
     x.pc # "idle" => x.peer \in Nodes}

\* The members a node's protocol thread is concerned with, pr and acks, are in
\* its view v.
KnowsPeers(v, pr, acks) ==
  /\ pr.pc # "idle" => v[pr.peer] # NoMember
  /\ \A k \in AckSlots : acks[k] # NoNode => v[acks[k]] # NoMember

Typing ==
  /\ view \in [Nodes -> View] /\ \A n \in Nodes : view[n][n] # NoMember
  /\ updq \in [Nodes -> Queue]
  /\ pending \in [Nodes -> Acks]
  /\ listener \in [Nodes -> ListenerState]
  /\ proto \in [Nodes -> ProtoState]
  /\ net \subseteq Wire
  /\ \A n \in Nodes : KnowsPeers(view[n], proto[n], pending[n])

Counting ==
  /\ starts \in [Nodes -> 0 .. MaxStarts]
  /\ rounds \in [Nodes -> Nat] /\ \A n \in Nodes : rounds[n] <= MaxRounds[n]
  /\ life \in [Nodes -> {"down", "joining", "waiting", "up", "left"}]
  /\ cut \in BOOLEAN

\* A node n whose view v becomes w knows every member it knew, and none of an
\* older incarnation, unless it is back from the dead.
Newer(n, v, w) ==
  \A m \in Nodes \ {n} : v[m] # NoMember =>
    /\ w[m] # NoMember
    /\ \/ w[m].inc >= v[m].inc
       \/ v[m].status = "DEAD" /\ w[m].status = "ALIVE"

GoesTo(n, v, w) == w \in View /\ w[n] # NoMember /\ Newer(n, v, w)

-----------------------------------------------------------------------------
(***************************************************************************)
(* Lemmas about views                                                      *)
(***************************************************************************)

\* Members of a view are records.
LEMMA EntryFields ==
  ASSUME NEW e \in Entry
  PROVE  /\ e # NoMember /\ e \in Member
         /\ e.status \in NodeStatus /\ e.inc \in 0 .. MaxInc /\ e.inc \in Int /\ e.addr \in BOOLEAN
BY GossipAssumption, ViewAssumption DEF Entry, Member

\* One entry is replaced by one that is no older, or brings a dead one back.
LEMMA EntryGoes ==
  ASSUME NEW n \in Nodes, NEW m \in Nodes, NEW v \in View, v[n] # NoMember, NEW e \in Entry,
         \/ v[m] = NoMember \/ m = n
         \/ e.inc >= v[m].inc
         \/ v[m].status = "DEAD" /\ e.status = "ALIVE",
         NEW w, w = [v EXCEPT ![m] = e]
  PROVE  GoesTo(n, v, w)
<1>1. w \in View /\ \A k \in Nodes : w[k] = IF k = m THEN e ELSE v[k]
  BY DEF View
<1>2. e # NoMember
  BY EntryFields
<1>3. ASSUME NEW k \in Nodes \ {n}, v[k] # NoMember
      PROVE  w[k] # NoMember /\ (w[k].inc >= v[k].inc \/ (v[k].status = "DEAD" /\ w[k].status = "ALIVE"))
  <2>1. CASE k = m
    BY <1>1, <1>2, <1>3, <2>1
  <2>2. CASE k # m
    <3>1. w[k] = v[k] /\ v[k] \in Entry
      BY <1>1, <1>3, <2>2 DEF View
    <3>2. v[k].inc \in Int
      BY <3>1, EntryFields
    <3> QED
      BY <1>3, <3>1, <3>2
  <2> QED
    BY <2>1, <2>2
<1>4. w[n] # NoMember
  BY <1>1, <1>2
<1> QED
  BY <1>1, <1>3, <1>4 DEF GoesTo, Newer

\* A view that stays as it is.
LEMMA ViewStays ==
  ASSUME NEW n \in Nodes, NEW v \in View, v[n] # NoMember
  PROVE  GoesTo(n, v, v)
<1>1. ASSUME NEW k \in Nodes, v[k] # NoMember PROVE v[k].inc >= v[k].inc
  <2>1. v[k] \in Entry
    BY <1>1 DEF View
  <2>2. v[k].inc \in Int
    BY <2>1, EntryFields
  <2> QED
    BY <2>2
<1> QED
  BY <1>1 DEF GoesTo, Newer

\* cluster_view_add
LEMMA AddGoes ==
  ASSUME NEW n \in Nodes, NEW m \in Nodes, NEW v \in View, v[n] # NoMember,
         NEW mem \in Entry, mem.inc < MaxInc
  PROVE  GoesTo(n, v, ViewAdd(v, m, mem))
<1>1. CASE v[m] = NoMember
  BY <1>1, EntryGoes, ViewStays DEF ViewAdd
<1>2. CASE v[m] # NoMember /\ mem.status = "ALIVE" /\ v[m].status = "DEAD"
  <2> DEFINE i == mem.inc + 1
             e == [mem EXCEPT !.inc = i]
  <2>1. i \in 0 .. MaxInc
    BY EntryFields, GossipAssumption
  <2>2. ViewAdd(v, m, mem) = [v EXCEPT ![m] = e]
    BY <1>2 DEF ViewAdd
  <2> HIDE DEF i
  <2>3. e \in Entry /\ e.status = "ALIVE"
    BY <1>2, <2>1 DEF Entry
  <2> HIDE DEF e
  <2> QED
    BY <1>2, <2>2, <2>3, EntryGoes
<1>3. CASE v[m] # NoMember /\ ~(mem.status = "ALIVE" /\ v[m].status = "DEAD")
  <2>1. CASE mem.inc >= v[m].inc
    BY <1>3, <2>1, EntryGoes DEF ViewAdd
  <2>2. CASE ~(mem.inc >= v[m].inc)
    BY <1>3, <2>2, ViewStays DEF ViewAdd
  <2> QED
    BY <2>1, <2>2
<1> QED
  BY <1>1, <1>2, <1>3

\* cluster_view_update_status
LEMMA UpdateGoes ==
  ASSUME NEW n \in Nodes, NEW m \in Nodes, NEW v \in View, v[n] # NoMember,
         NEW st \in NodeStatus, NEW i, v[m] # NoMember => i \in 0 .. MaxInc
  PROVE  GoesTo(n, v, ViewUpdateStatus(v, m, st, i))
<1>1. CASE v[m] # NoMember /\ i >= v[m].inc
  <2> DEFINE o == v[m]
             e == [o EXCEPT !.status = st, !.inc = i]
  <2>1. ViewUpdateStatus(v, m, st, i) = [v EXCEPT ![m] = e]
    BY <1>1 DEF ViewUpdateStatus
  <2>2. o \in Entry
    BY <1>1 DEF View
  <2> HIDE DEF o
  <2>3. e \in Entry /\ e.inc = i
    BY <1>1, <2>2 DEF Entry
  <2> HIDE DEF e
  <2> QED
    BY <1>1, <2>1, <2>3, EntryGoes
<1>2. CASE ~(v[m] # NoMember /\ i >= v[m].inc)
  BY <1>2, ViewStays DEF ViewUpdateStatus
<1> QED
  BY <1>1, <1>2

\* update_self_in_cluster_view
LEMMA RefreshGoes ==
  ASSUME NEW n \in Nodes, NEW v \in View, v[n] # NoMember
  PROVE  GoesTo(n, v, RefreshSelf(v, n))
<1> DEFINE o == v[n]
           e == [o EXCEPT !.status = "ALIVE", !.inc = 0]
<1>1. RefreshSelf(v, n) = [v EXCEPT ![n] = e]
  BY DEF RefreshSelf
<1>2. o \in Entry
  BY DEF View
<1> HIDE DEF o
<1>3. 0 \in 0 .. MaxInc /\ "ALIVE" \in NodeStatus
  BY GossipAssumption DEF NodeStatus
<1>4. e \in Entry
  BY <1>2, <1>3 DEF Entry
<1> HIDE DEF e
<1> QED
  BY <1>1, <1>4, EntryGoes

-----------------------------------------------------------------------------
(***************************************************************************)
(* Lemmas about queues, datagrams and threads                              *)
(***************************************************************************)

\* c copies of u.
LEMMA Copies ==
  ASSUME NEW S, NEW u \in S, NEW c \in Nat, NEW r, r = [k \in 1 .. c |-> u]
  PROVE  r \in Seq(S) /\ Len(r) = c
<1>1. r \in [1 .. c -> S]
  OBVIOUS
<1> QED
  BY <1>1

\* update_queue_push never exceeds the capacity.
LEMMA PushFits ==
  ASSUME NEW q \in Queue, NEW u \in Update, NEW c \in Nat
  PROVE  Push(q, u, c) \in Queue
<1> DEFINE x == IF Len(q) + c <= QueueCapacity THEN c ELSE QueueCapacity - Len(q)
           r == [k \in 1 .. x |-> u]
<1>1. q \in Seq(Update) /\ Len(q) \in Nat /\ Len(q) <= QueueCapacity /\ QueueCapacity \in Nat
  BY GossipAssumption DEF Queue
<1>2. x \in Nat /\ Len(q) + x <= QueueCapacity
  BY <1>1
<1>3. Push(q, u, c) = q \o r
  BY DEF Push
<1> HIDE DEF x
<1>4. r \in Seq(Update) /\ Len(r) = x
  BY <1>2, Copies
<1> HIDE DEF r
<1>5. q \o r \in Seq(Update) /\ Len(q \o r) = Len(q) + Len(r)
  BY <1>1, <1>4, ConcatProperties
<1> QED
  BY <1>1, <1>2, <1>3, <1>4, <1>5 DEF Queue

\* update_queue_pop_batch
LEMMA BatchFits ==
  ASSUME NEW q \in Queue
  PROVE  Batch(q) \in Seq(Update) /\ AfterBatch(q) \in Queue
<1> DEFINE b == BatchLen(q)
<1>1. q \in Seq(Update) /\ Len(q) \in Nat /\ Len(q) <= QueueCapacity /\ QueueCapacity \in Nat
  BY GossipAssumption DEF Queue
<1>2. b \in 0 .. Len(q)
  BY <1>1, GossipAssumption DEF BatchLen
<1>3. Batch(q) = SubSeq(q, 1, b) /\ AfterBatch(q) = SubSeq(q, b + 1, Len(q))
  BY DEF Batch, AfterBatch
<1> HIDE DEF b
<1>4. SubSeq(q, 1, b) \in Seq(Update)
  BY <1>1, <1>2, SubSeqProperties
<1>5. SubSeq(q, b + 1, Len(q)) \in Seq(Update) /\ Len(SubSeq(q, b + 1, Len(q))) <= Len(q)
  BY <1>1, <1>2, SubSeqProperties
<1> QED
  BY <1>1, <1>3, <1>4, <1>5 DEF Queue

\* A finite set can be listed.
LEMMA Listed ==
  ASSUME NEW S, IsFiniteSet(S)
  PROVE  Cardinality(S) \in Nat /\ Listing(S) \in [1 .. Cardinality(S) -> S]
<1>1. Cardinality(S) \in Nat /\ ExistsBijection(1 .. Cardinality(S), S)
  BY FS_CardinalityType
<1>2. PICK f \in [1 .. Cardinality(S) -> S] : \A i, j \in DOMAIN f : f[i] = f[j] => i = j
  BY <1>1 DEF ExistsBijection, Bijection, Injection, IsInjective
<1> QED
  BY <1>1, <1>2 DEF Listing

\* The updates of a full-state message.
LEMMA FullStateOK ==
  ASSUME NEW n \in Nodes, view[n] \in View
  PROVE  FullState(n) \in Seq(Update)
<1> DEFINE S == Peers(n)
           f == Listing(S)
           r == [k \in DOMAIN f |-> MemberUpdate(view[n], f[k])]
<1>1. S \subseteq Nodes /\ \A m \in S : view[n][m] # NoMember
  BY DEF Peers
<1>2. FullState(n) = r
  BY DEF FullState
<1> HIDE DEF S
<1>3. IsFiniteSet(S)
  BY <1>1, FS_Subset, GossipAssumption
<1>4. Cardinality(S) \in Nat /\ f \in [1 .. Cardinality(S) -> S]
  BY <1>3, Listed
<1> HIDE DEF f
<1>5. ASSUME NEW m \in S PROVE MemberUpdate(view[n], m) \in Update
  <2> DEFINE e == view[n][m]
  <2>1. m \in Nodes /\ e \in Entry
    BY <1>1 DEF View
  <2> HIDE DEF e
  <2>2. [node |-> m, status |-> e.status, inc |-> e.inc, addr |-> e.addr] \in Update
    BY <2>1, EntryFields DEF Update
  <2> QED
    BY <2>2 DEF MemberUpdate, e
<1>6. DOMAIN f = 1 .. Cardinality(S) /\ \A k \in DOMAIN f : f[k] \in S
  BY <1>4
<1>7. r \in [1 .. Cardinality(S) -> Update]
  BY <1>5, <1>6
<1> HIDE DEF r
<1>8. r \in Seq(Update)
  BY <1>4, <1>7
<1> QED
  BY <1>2, <1>8

\* A datagram of the code.
LEMMA DgramOK ==
  ASSUME NEW ty \in {"PING", "ACK", "ALIVE", "JOIN", "WORKER_JOIN", "JOIN_RESPONSE", "LEAVE"},
         NEW n \in Nodes, NEW m \in Nodes, NEW us \in Seq(Update),
         (ty = "JOIN" \/ ty = "WORKER_JOIN") => us # <<>>
  PROVE  Dgram(ty, n, m, us) \in Wire
<1> DEFINE d == Dgram(ty, n, m, us)
<1>0. 0 \in 0 .. MaxInc /\ Duplicating \in BOOLEAN
  BY GossipAssumption
<1>1. d \in Datagram /\ d.type = ty /\ d.upds = us
  BY <1>0 DEF Datagram, Dgram
<1> HIDE DEF d
<1>2. d \in Wire
  BY <1>1 DEF Wire
<1> QED
  BY <1>2 DEF d

\* The network holds what was sent to it ...
LEMMA SendOK ==
  ASSUME net \subseteq Wire, NEW ds, ds \subseteq Wire, Send(ds)
  PROVE  net' \subseteq Wire
BY DEF Send

\* ... and a second copy of it.
LEMMA TakeOK ==
  ASSUME net \subseteq Wire, NEW d \in net, Take(d)
  PROVE  net' \subseteq Wire
<1> DEFINE c == [d EXCEPT !.again = FALSE]
<1>1. c \in Datagram /\ c.type = d.type /\ c.upds = d.upds
  BY DEF Datagram, Wire
<1>2. net' \subseteq net \cup {c}
  BY DEF Take
<1> HIDE DEF c
<1>3. c \in Wire
  BY <1>1 DEF Wire
<1> QED
  BY <1>2, <1>3

\* The listener at rest, and with work to do.
LEMMA ListenerIdle == IdleListener \in ListenerState /\ IdleListener.pc = "idle"
<1>1. 0 \in 0 .. MaxInc
  BY GossipAssumption
<1> QED
  BY <1>1 DEF IdleListener, ListenerState

\* The listener once it has taken a datagram whose updates it has to apply, or
\* an ACK that may revive its sender.
LEMMA ListenerWorks ==
  ASSUME NEW d \in Calm
  PROVE  Work(d) \in ListenerState /\ [IdleListener EXCEPT !.pc = "revive", !.msg = d] \in ListenerState
<1>0. 0 \in 0 .. MaxInc /\ d \in Datagram
  BY GossipAssumption DEF Calm, Wire
<1> DEFINE a == [IdleListener EXCEPT !.pc = "updates", !.msg = d]
           b == [IdleListener EXCEPT !.pc = "revive", !.msg = d]
           S == [pc : {"idle", "updates", "revive", "admit"},
                 msg : Datagram \cup {NoDatagram}, rejoin : BOOLEAN, inc : 0 .. MaxInc]
<1>1. a \in S /\ a.pc = "updates" /\ a.msg = d
  BY <1>0 DEF IdleListener
<1>2. b \in S /\ b.pc = "revive" /\ b.msg = d
  BY <1>0 DEF IdleListener
<1>3. Work(d) = a \/ Work(d) = IdleListener
  BY DEF Work
<1> HIDE DEF a, b
<1>4. a \in ListenerState /\ b \in ListenerState
  BY <1>0, <1>1, <1>2 DEF ListenerState
<1> QED
  BY <1>3, <1>4, ListenerIdle DEF b

\* The next update of a datagram, and what remains of it.
LEMMA UpdatesGoOn ==
  ASSUME NEW d \in Calm, d.upds # <<>>, d.type # "JOIN", d.type # "WORKER_JOIN"
  PROVE  /\ Head(d.upds) \in Update /\ Head(d.upds).inc < MaxInc
         /\ [d EXCEPT !.upds = Tail(@)] \in Calm
<1> DEFINE s == d.upds
           r == Tail(s)
           c == [d EXCEPT !.upds = r]
<1>1. d \in Datagram /\ s \in Seq(Update) /\ s # <<>> /\ \A k \in DOMAIN s : s[k].inc < MaxInc
  BY DEF Calm, Wire, Datagram
<1>2. [d EXCEPT !.upds = Tail(@)] = c
  OBVIOUS
<1> HIDE DEF s
<1>3. /\ Head(s) \in Update /\ r \in Seq(Update) /\ Len(r) = Len(s) - 1
      /\ \A i \in 1 .. Len(r) : r[i] = s[i + 1]
  BY <1>1, HeadTailProperties
<1>4. DOMAIN s = 1 .. Len(s) /\ Len(s) \in Nat \ {0} /\ Head(s) = s[1]
  BY <1>1, LenProperties, EmptySeq
<1>5. DOMAIN r = 1 .. Len(r)
  BY <1>3, LenProperties
<1>6. \A k \in DOMAIN r : r[k].inc < MaxInc
  BY <1>1, <1>3, <1>4, <1>5
<1> HIDE DEF r
<1>7. c \in Datagram /\ c.upds = r /\ c.type = d.type
  BY <1>1, <1>3 DEF Datagram
<1> HIDE DEF c
<1>8. c \in Calm
  BY <1>6, <1>7 DEF Calm, Wire
<1>9. Head(s).inc < MaxInc
  BY <1>1, <1>4
<1> QED
  BY <1>2, <1>3, <1>8, <1>9 DEF s

\* The protocol thread at rest.
LEMMA ProtoIdle == IdleProto \in ProtoState /\ IdleProto.pc = "idle"
<1>1. 0 \in 0 .. MaxInc
  BY GossipAssumption
<1> QED
  BY <1>1 DEF IdleProto, ProtoState

\* add_pending_ack and remove_pending_ack
LEMMA AcksOK ==
  ASSUME NEW acks \in Acks, NEW m \in Nodes
  PROVE  /\ AddPending(acks, m) \in Acks /\ RemovePending(acks, m) \in Acks
         /\ \A k \in AckSlots : /\ AddPending(acks, m)[k] = acks[k] \/ AddPending(acks, m)[k] = m
                                /\ RemovePending(acks, m)[k] = acks[k] \/ RemovePending(acks, m)[k] = NoNode
BY DEF Acks, AddPending, RemovePending

-----------------------------------------------------------------------------
(***************************************************************************)
(* What a step establishes                                                 *)
(***************************************************************************)

Stepped ==
  /\ Typing'
  /\ \A n \in Nodes : Running(n) /\ Running(n)' => Newer(n, view[n], view'[n])

\* The state of one node.
LEMMA NodeParts ==
  ASSUME Typing, NEW n \in Nodes
  PROVE  /\ view[n] \in View /\ view[n][n] # NoMember /\ updq[n] \in Queue /\ pending[n] \in Acks
         /\ listener[n] \in ListenerState /\ proto[n] \in ProtoState
         /\ KnowsPeers(view[n], proto[n], pending[n])
BY DEF Typing

\* A step concerns the view and the protocol thread of one node.
OnlyNode(n) ==
  \A m \in Nodes \ {n} : view'[m] = view[m] /\ proto'[m] = proto[m] /\ pending'[m] = pending[m]

\* Such a step is one that the invariant and IncarnationMonotone allow, if it
\* moves every entry of the node's view forward and keeps its state typed.
LEMMA NodeStep ==
  ASSUME Typing, NEW n \in Nodes, OnlyNode(n), view' \in [Nodes -> View],
         GoesTo(n, view[n], view'[n]), updq' \in [Nodes -> Queue], pending' \in [Nodes -> Acks],
         listener' \in [Nodes -> ListenerState], proto' \in [Nodes -> ProtoState],
         net' \subseteq Wire, KnowsPeers(view'[n], proto'[n], pending'[n])
  PROVE  Stepped
<1>1. ASSUME NEW m \in Nodes
      PROVE  /\ view'[m][m] # NoMember /\ KnowsPeers(view'[m], proto'[m], pending'[m])
             /\ Newer(m, view[m], view'[m])
  <2>1. CASE m = n
    BY <2>1 DEF GoesTo
  <2>2. CASE m # n
    <3>1. view'[m] = view[m] /\ proto'[m] = proto[m] /\ pending'[m] = pending[m]
      BY <2>2 DEF OnlyNode
    <3>2. view[m] \in View /\ view[m][m] # NoMember /\ KnowsPeers(view[m], proto[m], pending[m])
      BY NodeParts
    <3>3. GoesTo(m, view[m], view[m])
      BY <3>2, ViewStays
    <3> QED
      BY <3>1, <3>2, <3>3 DEF GoesTo
  <2> QED
    BY <2>1, <2>2
<1>2. Typing'
  BY <1>1 DEF Typing
<1> QED
  BY <1>1, <1>2 DEF Stepped

\* A growing view goes on to hold the peers.
LEMMA StillKnown ==
  ASSUME NEW n \in Nodes, NEW v \in View, NEW w \in View, GoesTo(n, v, w),
         NEW pr \in ProtoState, NEW acks \in Acks, KnowsPeers(v, pr, acks)
  PROVE  KnowsPeers(w, pr, acks)
<1>1. \A m \in Nodes : v[m] # NoMember => w[m] # NoMember
  BY DEF GoesTo, Newer
<1>2. pr.pc # "idle" => pr.peer \in Nodes
  BY DEF ProtoState
<1>3. \A k \in AckSlots : acks[k] # NoNode => acks[k] \in Nodes
  BY DEF Acks
<1> QED
  BY <1>1, <1>2, <1>3 DEF KnowsPeers

\* A step that leaves the protocol thread alone, and sets the view of n to w.
LEMMA ViewStep ==
  ASSUME Typing, NEW n \in Nodes, NEW w, view' = [view EXCEPT ![n] = w], GoesTo(n, view[n], w),
         proto' = proto, pending' = pending, updq' \in [Nodes -> Queue],
         listener' \in [Nodes -> ListenerState], net' \subseteq Wire
  PROVE  Stepped
<1>0. /\ view \in [Nodes -> View] /\ pending \in [Nodes -> Acks] /\ proto \in [Nodes -> ProtoState]
      /\ view[n] \in View /\ KnowsPeers(view[n], proto[n], pending[n])
      /\ pending[n] \in Acks /\ proto[n] \in ProtoState /\ w \in View
  BY NodeParts DEF Typing, GoesTo
<1>1. view' \in [Nodes -> View] /\ \A m \in Nodes : view'[m] = IF m = n THEN w ELSE view[m]
  BY <1>0
<1>2. OnlyNode(n)
  BY <1>1 DEF OnlyNode
<1>3. GoesTo(n, view[n], view'[n])
  BY <1>1
<1>4. KnowsPeers(w, proto[n], pending[n])
  BY <1>0, StillKnown
<1>5. KnowsPeers(view'[n], proto'[n], pending'[n])
  BY <1>1, <1>4
<1> QED
  BY <1>0, <1>1, <1>2, <1>3, <1>5, NodeStep

\* A step that changes no view and no protocol thread.
LEMMA NetStep ==
  ASSUME Typing, view' = view, proto' = proto, pending' = pending, updq' \in [Nodes -> Queue],
         listener' \in [Nodes -> ListenerState], net' \subseteq Wire
  PROVE  Stepped
<1>1. Typing'
  BY DEF Typing
<1>2. ASSUME NEW n \in Nodes PROVE Newer(n, view[n], view'[n])
  BY NodeParts, ViewStays DEF GoesTo
<1> QED
  BY <1>1, <1>2 DEF Stepped

\* A step of the protocol thread of n, which leaves its view alone.
LEMMA ThreadStep ==
  ASSUME Typing, NEW n \in Nodes, view' = view, updq' = updq, listener' = listener, net' \subseteq Wire,
         NEW pr \in ProtoState, proto' = [proto EXCEPT ![n] = pr],
         NEW acks \in Acks, pending' = [pending EXCEPT ![n] = acks],
         KnowsPeers(view[n], pr, acks)
  PROVE  Stepped
<1>0. /\ view \in [Nodes -> View] /\ pending \in [Nodes -> Acks] /\ proto \in [Nodes -> ProtoState]
      /\ updq \in [Nodes -> Queue] /\ listener \in [Nodes -> ListenerState]
      /\ GoesTo(n, view[n], view[n])
  BY NodeParts, ViewStays DEF Typing
<1>1. /\ proto' \in [Nodes -> ProtoState] /\ pending' \in [Nodes -> Acks]
      /\ \A m \in Nodes : /\ proto'[m] = IF m = n THEN pr ELSE proto[m]
                          /\ pending'[m] = IF m = n THEN acks ELSE pending[m]
  BY <1>0
<1>2. OnlyNode(n) /\ KnowsPeers(view'[n], proto'[n], pending'[n])
  BY <1>1 DEF OnlyNode
<1> QED
  BY <1>0, <1>1, <1>2, NodeStep

\* Something is queued.
LEMMA QueuePush ==
  ASSUME Typing, NEW n \in Nodes, NEW u \in Update, NEW c \in Nat,
         updq' = [updq EXCEPT ![n] = Push(@, u, c)]
  PROVE  updq' \in [Nodes -> Queue]
<1> DEFINE q == Push(updq[n], u, c)
<1>1. updq' = [updq EXCEPT ![n] = q] /\ updq \in [Nodes -> Queue]
  BY DEF Typing
<1>2. q \in Queue
  BY NodeParts, PushFits
<1> HIDE DEF q
<1> QED
  BY <1>1, <1>2

\* What a node says of itself.
LEMMA FreshOK ==
  ASSUME NEW i \in 0 .. MaxInc
  PROVE  /\ [Fresh EXCEPT !.inc = i] \in Entry /\ [Fresh EXCEPT !.inc = i].inc = i
         /\ Fresh \in Entry /\ Fresh.inc = 0 /\ 0 < MaxInc
         /\ \A n \in Nodes : /\ SelfUpdate(n) \in Update
                             /\ [SelfUpdate(n) EXCEPT !.inc = i] \in Update
<1>0. 0 \in 0 .. MaxInc /\ 0 < MaxInc /\ "ALIVE" \in NodeStatus
  BY GossipAssumption DEF NodeStatus
<1>1. Fresh \in Entry /\ Fresh.inc = 0
  BY <1>0 DEF Fresh, Entry
<1>2. [Fresh EXCEPT !.inc = i] \in Entry /\ [Fresh EXCEPT !.inc = i].inc = i
  BY <1>1 DEF Entry
<1>3. ASSUME NEW n \in Nodes
      PROVE  SelfUpdate(n) \in Update /\ [SelfUpdate(n) EXCEPT !.inc = i] \in Update
  <2>1. SelfUpdate(n) \in Update
    BY <1>0 DEF SelfUpdate, Update
  <2> QED
    BY <2>1 DEF Update
<1> QED
  BY <1>0, <1>1, <1>2, <1>3

\* gossip_engine_announce_join
LEMMA AnnounceStep ==
  ASSUME Typing, NEW n \in Nodes, NEW c \in Nat, Announce(n, c), proto' = proto, pending' = pending,
         listener' = listener, net' \subseteq Wire
  PROVE  Stepped
<1> DEFINE w == ViewAdd(view[n], n, Fresh)
<1>0. Fresh \in Entry /\ Fresh.inc < MaxInc /\ SelfUpdate(n) \in Update
  <2>1. 0 \in 0 .. MaxInc
    BY GossipAssumption
  <2> QED
    BY <2>1, FreshOK
<1>1. GoesTo(n, view[n], w)
  BY <1>0, NodeParts, AddGoes
<1>2. view' = [view EXCEPT ![n] = w]
  BY DEF Announce
<1> HIDE DEF w
<1>3. updq' \in [Nodes -> Queue]
  BY <1>0, QueuePush DEF Announce
<1>4. listener' \in [Nodes -> ListenerState]
  BY DEF Typing
<1> QED
  BY <1>1, <1>2, <1>3, <1>4, ViewStep

-----------------------------------------------------------------------------
(***************************************************************************)
(* Starting, joining, leaving and crashing                                 *)
(***************************************************************************)

\* A node's own update, alone in a datagram.
LEMMA JoinDgram ==
  ASSUME NEW n \in Nodes, NEW m \in Nodes, NEW ty \in {"JOIN", "WORKER_JOIN", "ALIVE"}, NEW u \in Update
  PROVE  Dgram(ty, n, m, <<u>>) \in Wire
<1>1. <<u>> \in Seq(Update) /\ <<u>> # <<>>
  OBVIOUS
<1> QED
  BY <1>1, DgramOK

\* The process ends: its view goes, but so does the node.
LEMMA CrashStep ==
  ASSUME Typing, life \in [Nodes -> {"down", "joining", "waiting", "up", "left"}], NEW n \in Nodes, Crash(n)
  PROVE  Stepped
<1>0. /\ view \in [Nodes -> View] /\ pending \in [Nodes -> Acks] /\ proto \in [Nodes -> ProtoState]
      /\ updq \in [Nodes -> Queue] /\ listener \in [Nodes -> ListenerState] /\ net \subseteq Wire
  BY DEF Typing
<1>1. 0 \in 0 .. MaxInc
  BY GossipAssumption
<1>2. Fresh \in Entry /\ Fresh # NoMember
  BY <1>1, FreshOK, EntryFields
<1>3. EmptyView(n) \in View /\ EmptyView(n)[n] # NoMember
  BY <1>2 DEF EmptyView, View
<1>4. <<>> \in Queue
  <2>1. <<>> \in Seq(Update) /\ Len(<<>>) = 0
    BY EmptySeq
  <2> QED
    BY <2>1, GossipAssumption DEF Queue
<1>5. NoAcks \in Acks /\ \A k \in AckSlots : NoAcks[k] = NoNode
  BY DEF NoAcks, Acks
<1>6. /\ view' \in [Nodes -> View] /\ view'[n] = EmptyView(n)
      /\ \A m \in Nodes \ {n} : view'[m] = view[m]
  BY <1>0, <1>3 DEF Crash
<1>7. /\ proto' \in [Nodes -> ProtoState] /\ proto'[n] = IdleProto
      /\ \A m \in Nodes \ {n} : proto'[m] = proto[m]
  BY <1>0, ProtoIdle DEF Crash
<1>8. /\ pending' \in [Nodes -> Acks] /\ pending'[n] = NoAcks
      /\ \A m \in Nodes \ {n} : pending'[m] = pending[m]
  BY <1>0, <1>5 DEF Crash
<1>9. updq' \in [Nodes -> Queue] /\ listener' \in [Nodes -> ListenerState] /\ net' \subseteq Wire
  BY <1>0, <1>4, ListenerIdle DEF Crash
<1>10. ~Running(n)'
  BY DEF Crash, Running
<1>11. ASSUME NEW m \in Nodes
       PROVE  /\ view'[m][m] # NoMember /\ KnowsPeers(view'[m], proto'[m], pending'[m])
              /\ Running(m)' => Newer(m, view[m], view'[m])
  <2>1. CASE m = n
    <3>1. KnowsPeers(view'[n], proto'[n], pending'[n])
      BY <1>5, <1>7, <1>8, ProtoIdle DEF KnowsPeers
    <3> QED
      BY <1>3, <1>6, <1>10, <2>1, <3>1
  <2>2. CASE m # n
    <3>1. view'[m] = view[m] /\ proto'[m] = proto[m] /\ pending'[m] = pending[m]
      BY <1>6, <1>7, <1>8, <2>2
    <3>2. view[m] \in View /\ view[m][m] # NoMember /\ KnowsPeers(view[m], proto[m], pending[m])
      BY NodeParts
    <3>3. GoesTo(m, view[m], view[m])
      BY <3>2, ViewStays
    <3> QED
      BY <3>1, <3>2, <3>3 DEF GoesTo
  <2> QED
    BY <2>1, <2>2
<1>12. Typing'
  BY <1>6, <1>7, <1>8, <1>9, <1>11 DEF Typing
<1> QED
  BY <1>11, <1>12 DEF Stepped

\* Everything that happens to a node before and after it takes part.
LEMMA LifeSteps ==
  ASSUME Typing, life \in [Nodes -> {"down", "joining", "waiting", "up", "left"}],
         NEW n \in Nodes, LifeStep(n)
  PROVE  Stepped
<1>0. /\ updq \in [Nodes -> Queue] /\ listener \in [Nodes -> ListenerState] /\ net \subseteq Wire
      /\ JoinCopies \in Nat /\ 0 \in Nat /\ 0 \in 0 .. MaxInc /\ LeaveSeqs \subseteq 0 .. MaxInc
  BY GossipAssumption DEF Typing
<1>1. SelfUpdate(n) \in Update
  BY <1>0, FreshOK
<1>2. CASE Start(n)
  <2>1. PICK c \in Nat : Announce(n, c)
    BY <1>0, <1>2 DEF Start
  <2>2. proto' = proto /\ pending' = pending /\ listener' = listener /\ net' = net
    BY <1>2 DEF Start
  <2> QED
    BY <1>0, <2>1, <2>2, AnnounceStep
<1>3. CASE BootstrapAnswered(n)
  <2>1. PICK d \in net : Take(d)
    BY <1>3 DEF BootstrapAnswered
  <2>2. net' \subseteq Wire
    BY <1>0, <2>1, TakeOK
  <2>3. view' = view /\ updq' = updq /\ proto' = proto /\ pending' = pending /\ listener' = listener
    BY <1>3 DEF BootstrapAnswered
  <2> QED
    BY <1>0, <2>2, <2>3, NetStep
<1>4. CASE BootstrapFails(n)
  <2>1. \E c \in {0, JoinCopies} : Announce(n, c) \/ Announce(n, c + JoinCopies)
    BY <1>4 DEF BootstrapFails
  <2>2. PICK c \in Nat : Announce(n, c)
    BY <1>0, <2>1
  <2>3. proto' = proto /\ pending' = pending /\ listener' = listener /\ net' = net
    BY <1>4 DEF BootstrapFails
  <2> QED
    BY <1>0, <2>2, <2>3, AnnounceStep
<1>5. CASE Leave(n)
  <2> DEFINE S == {k \in Nodes \ {n} : view[n][k] # NoMember /\ view[n][k].addr}
  <2>1. PICK q \in LeaveSeqs : Send({[Dgram("LEAVE", n, m, <<>>) EXCEPT !.seq = q] : m \in S})
    BY <1>5 DEF Leave
  <2>2. ASSUME NEW m \in Nodes PROVE [Dgram("LEAVE", n, m, <<>>) EXCEPT !.seq = q] \in Wire
    <3> DEFINE d == Dgram("LEAVE", n, m, <<>>)
               c == [d EXCEPT !.seq = q]
    <3>1. <<>> \in Seq(Update) /\ q \in 0 .. MaxInc
      BY <1>0, EmptySeq
    <3>2. d \in Wire /\ d.type = "LEAVE"
      BY <3>1, DgramOK DEF Dgram
    <3> HIDE DEF d
    <3>3. c \in Datagram /\ c.type = "LEAVE"
      BY <3>1, <3>2 DEF Wire, Datagram
    <3> HIDE DEF c
    <3>4. c \in Wire
      BY <3>3 DEF Wire
    <3> QED
      BY <3>4 DEF c, d
  <2> DEFINE ds == {[Dgram("LEAVE", n, m, <<>>) EXCEPT !.seq = q] : m \in S}
  <2>3. ds \subseteq Wire /\ Send(ds)
    BY <2>1, <2>2
  <2> HIDE DEF ds
  <2>4. net' \subseteq Wire
    BY <1>0, <2>3, SendOK
  <2>5. view' = view /\ updq' = updq /\ proto' = proto /\ pending' = pending /\ listener' = listener
    BY <1>5 DEF Leave
  <2> QED
    BY <1>0, <2>4, <2>5, NetStep
<1>6. ASSUME NEW r \in Nodes, Bootstrap(n, r) PROVE Stepped
  <2> DEFINE ds == {Dgram("WORKER_JOIN", n, r, <<SelfUpdate(n)>>)}
  <2>1. ds \subseteq Wire
    BY <1>1, JoinDgram
  <2>2. Send(ds)
    BY <1>6 DEF Bootstrap
  <2> HIDE DEF ds
  <2>3. net' \subseteq Wire
    BY <1>0, <2>1, <2>2, SendOK
  <2>4. view' = view /\ updq' = updq /\ proto' = proto /\ pending' = pending /\ listener' = listener
    BY <1>6 DEF Bootstrap
  <2> QED
    BY <1>0, <2>3, <2>4, NetStep
<1>7. ASSUME NEW r \in Nodes, MembershipJoin(n, r) PROVE Stepped
  <2> DEFINE ds == {Dgram("JOIN", n, r, <<SelfUpdate(n)>>)}
  <2>1. ds \subseteq Wire
    BY <1>1, JoinDgram
  <2>2. Send(ds)
    BY <1>7 DEF MembershipJoin, AddSeed
  <2> HIDE DEF ds
  <2>3. net' \subseteq Wire
    BY <1>0, <2>1, <2>2, SendOK
  <2>4. proto' = proto /\ pending' = pending /\ listener' = listener /\ Announce(n, JoinCopies)
    BY <1>7 DEF MembershipJoin
  <2> QED
    BY <1>0, <2>3, <2>4, AnnounceStep
<1> QED
  BY <1>2, <1>3, <1>4, <1>5, <1>6, <1>7, CrashStep DEF LifeStep

-----------------------------------------------------------------------------
(***************************************************************************)
(* The protocol thread                                                     *)
(***************************************************************************)

\* A step of the protocol thread of n that also writes the view and the queue.
LEMMA WriterStep ==
  ASSUME Typing, NEW n \in Nodes, NEW w, view' = [view EXCEPT ![n] = w], GoesTo(n, view[n], w),
         NEW q \in Queue, updq' = [updq EXCEPT ![n] = q], listener' = listener, net' \subseteq Wire,
         NEW pr \in ProtoState, proto' = [proto EXCEPT ![n] = pr],
         NEW acks \in Acks, pending' = [pending EXCEPT ![n] = acks],
         KnowsPeers(view[n], pr, acks)
  PROVE  Stepped
<1>0. /\ view \in [Nodes -> View] /\ pending \in [Nodes -> Acks] /\ proto \in [Nodes -> ProtoState]
      /\ updq \in [Nodes -> Queue] /\ listener' \in [Nodes -> ListenerState]
      /\ view[n] \in View /\ w \in View
  BY NodeParts DEF Typing, GoesTo
<1>1. /\ proto' \in [Nodes -> ProtoState] /\ pending' \in [Nodes -> Acks] /\ view' \in [Nodes -> View]
      /\ \A m \in Nodes : /\ proto'[m] = IF m = n THEN pr ELSE proto[m]
                          /\ pending'[m] = IF m = n THEN acks ELSE pending[m]
                          /\ view'[m] = IF m = n THEN w ELSE view[m]
  BY <1>0
<1>2. updq' \in [Nodes -> Queue]
  BY <1>0
<1>3. KnowsPeers(w, pr, acks)
  BY <1>0, StillKnown
<1>4. OnlyNode(n) /\ KnowsPeers(view'[n], proto'[n], pending'[n]) /\ GoesTo(n, view[n], view'[n])
  BY <1>1, <1>3 DEF OnlyNode
<1> QED
  BY <1>0, <1>1, <1>2, <1>4, NodeStep

\* One round: the thread looks for a peer, and pings it.
LEMMA PingStep ==
  ASSUME Typing, NEW n \in Nodes, NEW m \in Nodes, Ping(n, m)
  PROVE  Stepped
<1>0. /\ view[n] \in View /\ view[n][n] # NoMember /\ updq[n] \in Queue /\ pending[n] \in Acks
      /\ proto[n] \in ProtoState /\ KnowsPeers(view[n], proto[n], pending[n])
      /\ pending \in [Nodes -> Acks] /\ proto \in [Nodes -> ProtoState] /\ net \subseteq Wire
  BY NodeParts DEF Typing
<1> DEFINE w == RefreshSelf(view[n], n)
           q == AfterBatch(updq[n])
           us == IF updq[n] = <<>> THEN FullState(n) ELSE Batch(updq[n])
           x == [IdleProto EXCEPT !.pc = "sent", !.peer = m]
           pr == IF view[n][m].addr THEN x ELSE proto[n]
           acks == pending[n]
<1>1. GoesTo(n, view[n], w) /\ q \in Queue /\ us \in Seq(Update)
  BY <1>0, RefreshGoes, BatchFits, FullStateOK
<1>2. /\ view' = [view EXCEPT ![n] = w] /\ updq' = [updq EXCEPT ![n] = q] /\ listener' = listener
      /\ pending' = pending /\ view[n][m] # NoMember
  BY DEF Ping, Peers
<1>3. /\ view[n][m].addr => proto' = [proto EXCEPT ![n] = x] /\ Send({Dgram("PING", n, m, us)})
      /\ ~view[n][m].addr => proto' = proto /\ net' = net
  BY DEF Ping
<1> HIDE DEF w, q, us
<1>4. Dgram("PING", n, m, us) \in Wire
  BY <1>1, DgramOK
<1>5. net' \subseteq Wire
  BY <1>0, <1>3, <1>4, SendOK
<1>6. x \in ProtoState /\ x.peer = m
  <2>1. 0 \in 0 .. MaxInc
    BY GossipAssumption
  <2>2. x \in [pc : {"idle", "sent", "suspect", "kill"}, peer : Nodes \cup {NoNode},
               inc : 0 .. MaxInc, addr : BOOLEAN, slot : AckSlots \cup {1}] /\ x.peer = m
    BY <2>1 DEF IdleProto
  <2> HIDE DEF x
  <2> QED
    BY <2>2 DEF ProtoState
<1> HIDE DEF x
<1>7. pr \in ProtoState /\ KnowsPeers(view[n], pr, acks)
  BY <1>0, <1>2, <1>6 DEF KnowsPeers
<1>8. proto' = [proto EXCEPT ![n] = pr]
  BY <1>0, <1>3
<1>9. pending' = [pending EXCEPT ![n] = acks] /\ acks \in Acks
  BY <1>0, <1>2
<1> HIDE DEF pr, acks
<1> QED
  BY <1>1, <1>2, <1>5, <1>7, <1>8, <1>9, WriterStep

\* The bookkeeping of pings.
LEMMA AckSteps ==
  ASSUME Typing, NEW n \in Nodes,
         PingSent(n) \/ (\E k \in AckSlots : AckTimeout(n, k)) \/ \E m \in Nodes : SuspectTimeout(n, m)
  PROVE  Stepped
<1>0. /\ view[n] \in View /\ pending[n] \in Acks
      /\ proto[n] \in ProtoState /\ KnowsPeers(view[n], proto[n], pending[n])
      /\ pending \in [Nodes -> Acks] /\ proto \in [Nodes -> ProtoState] /\ net \subseteq Wire
      /\ proto = [proto EXCEPT ![n] = proto[n]] /\ pending = [pending EXCEPT ![n] = pending[n]]
  BY NodeParts DEF Typing
<1>1. view' = view /\ updq' = updq /\ listener' = listener /\ net' = net
  BY DEF PingSent, AckTimeout, SuspectTimeout
<1>2. CASE PingSent(n)
  <2> DEFINE m == proto[n].peer
             acks == AddPending(pending[n], m)
  <2>1. m \in Nodes /\ view[n][m] # NoMember
    BY <1>0, <1>2 DEF PingSent, ProtoState, KnowsPeers
  <2>2. proto' = [proto EXCEPT ![n] = IdleProto] /\ pending' = [pending EXCEPT ![n] = acks]
    BY <1>2 DEF PingSent
  <2> HIDE DEF m
  <2>3. acks \in Acks /\ \A k \in AckSlots : acks[k] = pending[n][k] \/ acks[k] = m
    BY <1>0, <2>1, AcksOK
  <2> HIDE DEF acks
  <2>4. KnowsPeers(view[n], IdleProto, acks)
    BY <1>0, <2>1, <2>3, ProtoIdle DEF KnowsPeers
  <2> QED
    BY <1>0, <1>1, <2>2, <2>3, <2>4, ProtoIdle, ThreadStep
<1>3. ASSUME NEW k \in AckSlots, AckTimeout(n, k) PROVE Stepped
  <2> DEFINE m == pending[n][k]
             e == view[n][m]
             x == [pc |-> "suspect", peer |-> m, inc |-> e.inc, addr |-> FALSE, slot |-> k]
             acks == [pending[n] EXCEPT ![k] = NoNode]
  <2>1. m # NoNode
    BY <1>3 DEF AckTimeout
  <2>2. m \in Nodes /\ e \in Entry /\ e # NoMember
    BY <1>0, <2>1 DEF Acks, View, KnowsPeers
  <2>3. \/ proto' = [proto EXCEPT ![n] = x] /\ pending' = pending
        \/ proto' = proto /\ pending' = [pending EXCEPT ![n] = acks]
    BY <1>3 DEF AckTimeout
  <2>4. x \in ProtoState /\ x.peer = m
    <3>1. e.inc \in 0 .. MaxInc
      BY <2>2, EntryFields
    <3> HIDE DEF m, e
    <3> QED
      BY <2>2, <3>1 DEF ProtoState
  <2>5. KnowsPeers(view[n], x, pending[n])
    BY <1>0, <2>2, <2>4 DEF KnowsPeers
  <2>6. acks \in Acks /\ \A j \in AckSlots : acks[j] = pending[n][j] \/ acks[j] = NoNode
    BY <1>0 DEF Acks
  <2>7. KnowsPeers(view[n], proto[n], acks)
    BY <1>0, <2>6 DEF KnowsPeers
  <2> HIDE DEF x, acks
  <2>8. CASE proto' = [proto EXCEPT ![n] = x] /\ pending' = pending
    BY <1>0, <1>1, <2>4, <2>5, <2>8, ThreadStep
  <2>9. CASE proto' = proto /\ pending' = [pending EXCEPT ![n] = acks]
    BY <1>0, <1>1, <2>6, <2>7, <2>9, ThreadStep
  <2> QED
    BY <2>3, <2>8, <2>9
<1>4. ASSUME NEW m \in Nodes, SuspectTimeout(n, m) PROVE Stepped
  <2> DEFINE e == view[n][m]
             x == [pc |-> "kill", peer |-> m, inc |-> e.inc, addr |-> e.addr, slot |-> 1]
  <2>1. e \in Entry /\ e # NoMember /\ proto' = [proto EXCEPT ![n] = x] /\ pending' = pending
    BY <1>0, <1>4 DEF SuspectTimeout, View
  <2>2. e.inc \in 0 .. MaxInc /\ e.addr \in BOOLEAN
    BY <2>1, EntryFields
  <2>3. x \in ProtoState /\ x.peer = m
    <3> HIDE DEF e
    <3> QED
      BY <2>2 DEF ProtoState
  <2>4. KnowsPeers(view[n], x, pending[n])
    BY <1>0, <2>1, <2>3 DEF KnowsPeers
  <2> HIDE DEF x
  <2> QED
    BY <1>0, <1>1, <2>1, <2>3, <2>4, ThreadStep
<1> QED
  BY <1>2, <1>3, <1>4

\* The verdict on a member whose answer did not come.
LEMMA MarkSteps ==
  ASSUME Typing, NEW n \in Nodes, MarkSuspect(n) \/ MarkDead(n)
  PROVE  Stepped
<1>0. /\ view[n] \in View /\ view[n][n] # NoMember /\ updq[n] \in Queue /\ pending[n] \in Acks
      /\ proto[n] \in ProtoState /\ KnowsPeers(view[n], proto[n], pending[n])
      /\ pending \in [Nodes -> Acks] /\ net \subseteq Wire
      /\ pending = [pending EXCEPT ![n] = pending[n]]
  BY NodeParts DEF Typing
<1> DEFINE m == proto[n].peer
           i == proto[n].inc
<1>1. m \in Nodes /\ i \in 0 .. MaxInc /\ proto[n].addr \in BOOLEAN
  BY <1>0 DEF ProtoState, MarkSuspect, MarkDead
<1>2. ASSUME NEW st \in NodeStatus PROVE Verdict(n, st) \in Update
  BY <1>1 DEF Verdict, Update
<1>3. proto' = [proto EXCEPT ![n] = IdleProto] /\ listener' = listener /\ net' = net
  BY DEF MarkSuspect, MarkDead
<1>4. ASSUME NEW st \in NodeStatus, NEW acks \in Acks,
             \A k \in AckSlots : acks[k] = pending[n][k] \/ acks[k] = NoNode,
             pending' = [pending EXCEPT ![n] = acks],
             view' = [view EXCEPT ![n] = ViewUpdateStatus(@, m, st, i)],
             updq' = [updq EXCEPT ![n] = Push(@, Verdict(n, st), 1)]
      PROVE  Stepped
  <2> DEFINE w == ViewUpdateStatus(view[n], m, st, i)
             q == Push(updq[n], Verdict(n, st), 1)
  <2>1. view' = [view EXCEPT ![n] = w] /\ updq' = [updq EXCEPT ![n] = q]
    BY <1>4
  <2>2. GoesTo(n, view[n], w)
    BY <1>0, <1>1, UpdateGoes
  <2>3. q \in Queue
    <3> DEFINE u == Verdict(n, st)
    <3>1. u \in Update /\ 1 \in Nat
      BY <1>2
    <3> HIDE DEF u
    <3>2. Push(updq[n], u, 1) \in Queue
      BY <1>0, <3>1, PushFits
    <3> QED
      BY <3>2 DEF u
  <2>4. KnowsPeers(view[n], IdleProto, acks)
    BY <1>0, <1>4, ProtoIdle DEF KnowsPeers
  <2> HIDE DEF w, q
  <2> QED
    BY <1>0, <1>3, <1>4, <2>1, <2>2, <2>3, <2>4, ProtoIdle, WriterStep
<1>5. CASE MarkSuspect(n)
  <2> DEFINE acks == [pending[n] EXCEPT ![proto[n].slot] = NoNode]
  <2>1. acks \in Acks /\ \A k \in AckSlots : acks[k] = pending[n][k] \/ acks[k] = NoNode
    BY <1>0 DEF Acks
  <2>2. /\ pending' = [pending EXCEPT ![n] = acks]
        /\ view' = [view EXCEPT ![n] = ViewUpdateStatus(@, m, "SUSPECT", i)]
        /\ updq' = [updq EXCEPT ![n] = Push(@, Verdict(n, "SUSPECT"), 1)]
    BY <1>5 DEF MarkSuspect
  <2>3. "SUSPECT" \in NodeStatus
    BY DEF NodeStatus
  <2> HIDE DEF acks, m, i
  <2> QED
    BY <1>4, <2>1, <2>2, <2>3
<1>6. CASE MarkDead(n)
  <2>1. /\ pending' = pending
        /\ view' = [view EXCEPT ![n] = ViewUpdateStatus(@, m, "DEAD", i)]
        /\ updq' = [updq EXCEPT ![n] = Push(@, Verdict(n, "DEAD"), 1)]
    BY <1>6 DEF MarkDead
  <2>2. "DEAD" \in NodeStatus
    BY DEF NodeStatus
  <2> HIDE DEF m, i
  <2> QED
    BY <1>0, <1>4, <2>1, <2>2
<1> QED
  BY <1>5, <1>6

\* The protocol thread.
LEMMA ProtoSteps ==
  ASSUME Typing, NEW n \in Nodes, ProtoStep(n)
  PROVE  Stepped
<1>0. /\ view[n] \in View /\ view[n][n] # NoMember /\ net \subseteq Wire
      /\ updq \in [Nodes -> Queue] /\ listener \in [Nodes -> ListenerState]
  BY NodeParts DEF Typing
<1>1. CASE RoundAlone(n)
  <2> DEFINE w == RefreshSelf(view[n], n)
  <2>1. GoesTo(n, view[n], w)
    BY <1>0, RefreshGoes
  <2>2. view' = [view EXCEPT ![n] = w] /\ updq' = updq /\ listener' = listener /\ net' = net
        /\ proto' = proto /\ pending' = pending
    BY <1>1 DEF RoundAlone
  <2> HIDE DEF w
  <2> QED
    BY <1>0, <2>1, <2>2, ViewStep
<1>2. ASSUME NEW m \in Nodes, Gossip(n, m) PROVE Stepped
  <2> DEFINE us == FullState(n)
  <2>1. us \in Seq(Update)
    BY <1>0, FullStateOK
  <2>2. /\ view' = view /\ updq' = updq /\ listener' = listener /\ proto' = proto /\ pending' = pending
        /\ Send({Dgram("ALIVE", n, m, us)})
    BY <1>2 DEF Gossip
  <2> HIDE DEF us
  <2>3. Dgram("ALIVE", n, m, us) \in Wire
    BY <2>1, DgramOK
  <2>4. net' \subseteq Wire
    BY <1>0, <2>2, <2>3, SendOK
  <2> QED
    BY <1>0, <2>2, <2>4, NetStep
<1> QED
  BY <1>1, <1>2, PingStep, AckSteps, MarkSteps DEF ProtoStep

-----------------------------------------------------------------------------
(***************************************************************************)
(* The listener thread                                                     *)
(***************************************************************************)

\* The listener of n goes on to l.
LEMMA ListenerGoes ==
  ASSUME Typing, NEW n \in Nodes, NEW l \in ListenerState, listener' = [listener EXCEPT ![n] = l]
  PROVE  listener' \in [Nodes -> ListenerState]
BY DEF Typing

\* A datagram that is accepted is one the listener can work on.
LEMMA AcceptedOK ==
  ASSUME Typing, NEW n \in Nodes, NEW d \in net, Accepts(n, d), Take(d)
  PROVE  /\ d \in Calm /\ d \in Datagram /\ d.from \in Nodes /\ d.seq \in 0 .. MaxInc
         /\ net' \subseteq Wire
         /\ d.type = "JOIN" \/ d.type = "WORKER_JOIN" => d.upds[1] \in Update /\ d.upds[1].inc < MaxInc
<1>1. net \subseteq Wire /\ d \in Wire /\ d \in Datagram
  BY DEF Typing, Wire
<1>2. d \in Calm /\ d.from \in Nodes /\ d.seq \in 0 .. MaxInc /\ d.upds \in Seq(Update)
  BY <1>1 DEF Accepts, Calm, Datagram
<1>3. net' \subseteq Wire
  BY <1>1, TakeOK
<1>4. ASSUME d.type = "JOIN" \/ d.type = "WORKER_JOIN"
      PROVE  d.upds[1] \in Update /\ d.upds[1].inc < MaxInc
  <2> DEFINE s == d.upds
  <2>1. s # <<>> /\ s \in Seq(Update) /\ \A k \in DOMAIN s : s[k].inc < MaxInc
    BY <1>1, <1>2, <1>4 DEF Wire, Calm
  <2> HIDE DEF s
  <2>2. 1 \in DOMAIN s /\ s[1] \in Update
    BY <2>1, EmptySeq, LenProperties
  <2>3. s[1] \in Update /\ s[1].inc < MaxInc
    BY <2>1, <2>2
  <2> QED
    BY <2>3 DEF s
<1> QED
  BY <1>1, <1>2, <1>3, <1>4

\* The fields of an update.
LEMMA UpdateFields ==
  ASSUME NEW u \in Update
  PROVE  /\ u.node \in Nodes /\ u.status \in NodeStatus /\ u.inc \in 0 .. MaxInc
         /\ Carried(u) \in Entry /\ Carried(u).inc = u.inc
BY DEF Update, Carried, Entry

\* What an update of a PING or an ACK does to the view.
LEMMA AppliedGoes ==
  ASSUME NEW n \in Nodes, NEW v \in View, v[n] # NoMember, NEW u \in Update, u.inc < MaxInc
  PROVE  GoesTo(n, v, ViewAfterPing(v, u)) /\ GoesTo(n, v, ViewAfterAck(v, u))
<1> DEFINE m == u.node
           mem == Carried(u)
           st == u.status
           i == u.inc
<1>1. m \in Nodes /\ mem \in Entry /\ mem.inc < MaxInc /\ st \in NodeStatus /\ i \in 0 .. MaxInc
  BY UpdateFields
<1>2. /\ ViewAfterPing(v, u) = v \/ ViewAfterPing(v, u) = ViewAdd(v, m, mem)
           \/ ViewAfterPing(v, u) = ViewUpdateStatus(v, m, st, i)
      /\ ViewAfterAck(v, u) = v \/ ViewAfterAck(v, u) = ViewAdd(v, m, mem)
           \/ ViewAfterAck(v, u) = ViewUpdateStatus(v, m, st, i)
  BY DEF ViewAfterPing, ViewAfterAck
<1> HIDE DEF m, mem, st, i
<1>3. GoesTo(n, v, v) /\ GoesTo(n, v, ViewAdd(v, m, mem)) /\ GoesTo(n, v, ViewUpdateStatus(v, m, st, i))
  BY <1>1, ViewStays, AddGoes, UpdateGoes
<1> QED
  BY <1>2, <1>3

\* The listener applies one update.
LEMMA ApplySteps ==
  ASSUME Typing, NEW n \in Nodes, ApplyPing(n) \/ ApplyAck(n) \/ ApplyAlive(n)
  PROVE  Stepped
<1>0. /\ view[n] \in View /\ view[n][n] # NoMember /\ net \subseteq Wire /\ listener[n] \in ListenerState
      /\ updq \in [Nodes -> Queue] /\ view \in [Nodes -> View]
  BY NodeParts DEF Typing
<1> DEFINE d == listener[n].msg
           u == Head(d.upds)
           r == [d EXCEPT !.upds = Tail(@)]
           l == Work(r)
<1>1. /\ d.upds # <<>> /\ d.type \in {"PING", "ACK", "ALIVE"} /\ listener[n].pc = "updates"
      /\ listener' = [listener EXCEPT ![n] = l]
      /\ proto' = proto /\ pending' = pending /\ net' = net
  BY DEF ApplyPing, ApplyAck, ApplyAlive, Applies, NextUpdate
<1>2. d \in Calm
  BY <1>0, <1>1 DEF ListenerState
<1>3. u = Upd(n)
  BY DEF Upd
<1>4. u \in Update /\ u.inc < MaxInc /\ r \in Calm
  <2> HIDE DEF d
  <2> QED
    BY <1>1, <1>2, UpdatesGoOn
<1> HIDE DEF d, u, r
<1>5. l \in ListenerState
  BY <1>4, ListenerWorks
<1> HIDE DEF l
<1>6. listener' \in [Nodes -> ListenerState]
  BY <1>1, <1>5, ListenerGoes
<1>7. CASE ApplyPing(n)
  <2> DEFINE w == ViewAfterPing(view[n], u)
  <2>1. GoesTo(n, view[n], w)
    BY <1>0, <1>4, AppliedGoes
  <2>2. /\ view' = [view EXCEPT ![n] = w]
        /\ updq' = updq \/ updq' = [updq EXCEPT ![n] = Push(@, u, 1)]
    BY <1>3, <1>7 DEF ApplyPing
  <2> HIDE DEF w
  <2>3. updq' \in [Nodes -> Queue]
    BY <1>0, <1>4, <2>2, QueuePush
  <2> QED
    BY <1>0, <1>1, <1>6, <2>1, <2>2, <2>3, ViewStep
<1>8. CASE ApplyAck(n)
  <2> DEFINE w == ViewAfterAck(view[n], u)
  <2>1. GoesTo(n, view[n], w)
    BY <1>0, <1>4, AppliedGoes
  <2>2. view' = [view EXCEPT ![n] = w] /\ updq' = updq
    BY <1>3, <1>8 DEF ApplyAck
  <2> HIDE DEF w
  <2> QED
    BY <1>0, <1>1, <1>6, <2>1, <2>2, ViewStep
<1>9. CASE ApplyAlive(n)
  <2> DEFINE m == u.node
             i == u.inc
             w == ViewUpdateStatus(view[n], m, "ALIVE", i)
  <2>1. m \in Nodes /\ i \in 0 .. MaxInc /\ "ALIVE" \in NodeStatus
    BY <1>4, UpdateFields DEF NodeStatus
  <2>2. \/ view' = [view EXCEPT ![n] = w] /\ updq' = [updq EXCEPT ![n] = Push(@, u, 1)]
        \/ view' = view /\ updq' = updq
    BY <1>3, <1>9 DEF ApplyAlive
  <2> HIDE DEF m, i
  <2>3. GoesTo(n, view[n], w)
    BY <1>0, <2>1, UpdateGoes
  <2> HIDE DEF w
  <2>4. updq' \in [Nodes -> Queue]
    BY <1>0, <1>4, <2>2, QueuePush
  <2> QED
    BY <1>0, <1>1, <1>6, <2>2, <2>3, <2>4, ViewStep, NetStep
<1> QED
  BY <1>7, <1>8, <1>9

\* The listener revives a suspect, answers a PING, and admits a worker.
LEMMA AnswerSteps ==
  ASSUME Typing, NEW n \in Nodes, Revive(n) \/ Reply(n) \/ AdmitWorker(n)
  PROVE  Stepped
<1>0. /\ view[n] \in View /\ view[n][n] # NoMember /\ net \subseteq Wire /\ listener[n] \in ListenerState
      /\ updq \in [Nodes -> Queue] /\ view \in [Nodes -> View]
  BY NodeParts DEF Typing
<1> DEFINE d == listener[n].msg
           m == d.from
<1>1. d \in Calm /\ d \in Datagram /\ m \in Nodes
  BY <1>0 DEF ListenerState, Revive, Reply, AdmitWorker, Calm, Wire, Datagram
<1>2. CASE Revive(n)
  <2> DEFINE i == view[n][m].inc
             w == ViewUpdateStatus(view[n], m, "ALIVE", i)
             l == Work(d)
  <2>1. /\ view' = [view EXCEPT ![n] = w] /\ listener' = [listener EXCEPT ![n] = l]
        /\ updq' = updq /\ proto' = proto /\ pending' = pending /\ net' = net
    BY <1>2 DEF Revive
  <2>2. view[n][m] # NoMember => i \in 0 .. MaxInc
    BY <1>0, <1>1, EntryFields DEF View
  <2> HIDE DEF d, m, i
  <2>3. GoesTo(n, view[n], w) /\ l \in ListenerState
    <3>1. "ALIVE" \in NodeStatus
      BY DEF NodeStatus
    <3> QED
      BY <1>0, <1>1, <2>2, <3>1, UpdateGoes, ListenerWorks
  <2> HIDE DEF w, l
  <2>4. listener' \in [Nodes -> ListenerState]
    BY <2>1, <2>3, ListenerGoes
  <2> QED
    BY <1>0, <2>1, <2>3, <2>4, ViewStep
<1>3. CASE Reply(n)
  <2> DEFINE us == FullState(n)
  <2>1. us \in Seq(Update)
    BY <1>0, FullStateOK
  <2>2. /\ view' = view /\ updq' = updq /\ proto' = proto /\ pending' = pending
        /\ Send({Dgram("ACK", n, m, us)}) /\ listener' = [listener EXCEPT ![n] = IdleListener]
    BY <1>3 DEF Reply
  <2> HIDE DEF us, d, m
  <2>3. Dgram("ACK", n, m, us) \in Wire
    BY <1>1, <2>1, DgramOK
  <2>4. net' \subseteq Wire
    BY <1>0, <2>2, <2>3, SendOK
  <2>5. listener' \in [Nodes -> ListenerState]
    BY <2>2, ListenerIdle, ListenerGoes
  <2> QED
    BY <1>0, <2>2, <2>4, <2>5, NetStep
<1>4. CASE AdmitWorker(n)
  <2> DEFINE i == listener[n].inc
             mem == [Fresh EXCEPT !.inc = i]
             upd == [SelfUpdate(m) EXCEPT !.inc = i]
             c == IF listener[n].rejoin THEN RejoinCopies ELSE JoinCopies
             w == ViewAdd(view[n], m, mem)
             ds == {JoinResponse(n, m)} \cup JoinNews(n, m, upd)
  <2>1. /\ view' = [view EXCEPT ![n] = w] /\ updq' = [updq EXCEPT ![n] = Push(@, upd, c)]
        /\ Send(ds) /\ listener' = [listener EXCEPT ![n] = IdleListener]
        /\ proto' = proto /\ pending' = pending
    BY <1>4 DEF AdmitWorker
  <2>2. i \in 0 .. MaxInc /\ i < MaxInc /\ c \in Nat
    BY <1>0, <1>4, GossipAssumption DEF AdmitWorker, ListenerState
  <2> HIDE DEF i, c, d, m
  <2>3. mem \in Entry /\ mem.inc = i /\ upd \in Update
    BY <1>1, <2>2, FreshOK
  <2> HIDE DEF mem, upd
  <2>4. GoesTo(n, view[n], w)
    BY <1>0, <1>1, <2>2, <2>3, AddGoes
  <2>5. updq' \in [Nodes -> Queue]
    BY <2>1, <2>2, <2>3, QueuePush
  <2>6. ds \subseteq Wire
    <3>1. <<>> \in Seq(Update)
      BY EmptySeq
    <3>2. JoinResponse(n, m) \in Wire
      BY <1>1, <3>1, DgramOK DEF JoinResponse
    <3>3. ASSUME NEW k \in Nodes PROVE Dgram("ALIVE", n, k, <<upd>>) \in Wire
      BY <2>3, JoinDgram
    <3>4. JoinNews(n, m, upd) \subseteq Wire
      BY <3>3 DEF JoinNews, Peers
    <3> QED
      BY <3>2, <3>4
  <2> HIDE DEF ds, w
  <2>7. net' \subseteq Wire
    BY <1>0, <2>1, <2>6, SendOK
  <2>8. listener' \in [Nodes -> ListenerState]
    BY <2>1, ListenerIdle, ListenerGoes
  <2> QED
    BY <2>1, <2>4, <2>5, <2>7, <2>8, ViewStep
<1> QED
  BY <1>2, <1>3, <1>4

\* The listener takes a datagram.
LEMMA ReceiveSteps ==
  ASSUME Typing, NEW n \in Nodes, NEW d \in net,
         ReceiveUpdates(n, d) \/ ReceiveAck(n, d) \/ ReceiveJoin(n, d)
           \/ ReceiveWorkerJoin(n, d) \/ ReceiveLeave(n, d)
  PROVE  Stepped
<1>0. /\ view[n] \in View /\ view[n][n] # NoMember /\ net \subseteq Wire /\ pending[n] \in Acks
      /\ updq \in [Nodes -> Queue] /\ view \in [Nodes -> View] /\ listener \in [Nodes -> ListenerState]
      /\ proto[n] \in ProtoState /\ KnowsPeers(view[n], proto[n], pending[n])
      /\ proto \in [Nodes -> ProtoState] /\ pending \in [Nodes -> Acks]
  BY NodeParts DEF Typing
<1>1. Accepts(n, d) /\ Take(d)
  BY DEF ReceiveUpdates, ReceiveAck, ReceiveJoin, ReceiveWorkerJoin, ReceiveLeave
<1> DEFINE m == d.from
           u == d.upds[1]
           l == Work(d)
<1>2. /\ d \in Calm /\ d \in Datagram /\ m \in Nodes /\ d.seq \in 0 .. MaxInc /\ net' \subseteq Wire
      /\ d.type = "JOIN" \/ d.type = "WORKER_JOIN" => u \in Update /\ u.inc < MaxInc
  BY <1>1, AcceptedOK
<1>3. l \in ListenerState
  BY <1>2, ListenerWorks
<1>4. CASE ReceiveUpdates(n, d)
  <2>1. /\ listener' = [listener EXCEPT ![n] = l] /\ view' = view /\ updq' = updq
        /\ proto' = proto /\ pending' = pending
    BY <1>4 DEF ReceiveUpdates
  <2> HIDE DEF l
  <2>2. listener' \in [Nodes -> ListenerState]
    BY <1>3, <2>1, ListenerGoes
  <2> QED
    BY <1>0, <1>2, <2>1, <2>2, NetStep
<1>5. CASE ReceiveAck(n, d)
  <2> DEFINE a == [IdleListener EXCEPT !.pc = "revive", !.msg = d]
             b == view[n][m] # NoMember /\ view[n][m].status = "SUSPECT"
             x == IF b THEN a ELSE l
             acks == RemovePending(pending[n], m)
  <2>1. /\ listener' = [listener EXCEPT ![n] = x] /\ pending' = [pending EXCEPT ![n] = acks]
        /\ view' = view /\ updq' = updq /\ proto' = proto
    BY <1>5 DEF ReceiveAck
  <2>2. x \in ListenerState
    BY <1>2, <1>3, ListenerWorks
  <2> HIDE DEF x, m
  <2>3. listener' \in [Nodes -> ListenerState]
    BY <2>1, <2>2, ListenerGoes
  <2>4. acks \in Acks /\ \A k \in AckSlots : acks[k] = pending[n][k] \/ acks[k] = NoNode
    BY <1>0, <1>2, AcksOK
  <2> HIDE DEF acks
  <2>5. KnowsPeers(view[n], proto[n], acks)
    BY <1>0, <2>4 DEF KnowsPeers
  <2>6. pending' \in [Nodes -> Acks] /\ \A k \in Nodes : pending'[k] = IF k = n THEN acks ELSE pending[k]
    BY <1>0, <2>1, <2>4
  <2>7. OnlyNode(n) /\ KnowsPeers(view'[n], proto'[n], pending'[n])
    BY <2>1, <2>5, <2>6 DEF OnlyNode
  <2>8. GoesTo(n, view[n], view'[n])
    BY <1>0, <2>1, ViewStays
  <2> QED
    BY <1>0, <1>2, <2>1, <2>3, <2>6, <2>7, <2>8, NodeStep
<1>6. CASE ReceiveJoin(n, d)
  <2> DEFINE i == u.inc
             mem == [Fresh EXCEPT !.inc = i]
             w == ViewAdd(view[n], m, mem)
  <2>1. /\ view' = [view EXCEPT ![n] = w] /\ updq' = [updq EXCEPT ![n] = Push(@, u, 1)]
        /\ proto' = proto /\ pending' = pending /\ listener' = listener /\ d.type = "JOIN"
    BY <1>6 DEF ReceiveJoin
  <2> HIDE DEF m, u
  <2>2. u \in Update /\ i \in 0 .. MaxInc /\ i < MaxInc
    BY <1>2, <2>1, UpdateFields
  <2> HIDE DEF i
  <2>3. mem \in Entry /\ mem.inc = i
    BY <2>2, FreshOK
  <2> HIDE DEF mem
  <2>4. GoesTo(n, view[n], w)
    BY <1>0, <1>2, <2>2, <2>3, AddGoes
  <2> HIDE DEF w
  <2>5. updq' \in [Nodes -> Queue]
    BY <2>1, <2>2, QueuePush
  <2> QED
    BY <1>0, <1>2, <2>1, <2>4, <2>5, ViewStep
<1>7. CASE ReceiveWorkerJoin(n, d)
  <2> DEFINE o == view[n][m]
             b == o # NoMember /\ o.status \in {"DEAD", "SUSPECT"}
             i == IF b THEN o.inc + 1 ELSE u.inc
             x == [pc |-> "admit", msg |-> d, rejoin |-> b, inc |-> i]
  <2>1. /\ listener' = [listener EXCEPT ![n] = x] /\ view' = view /\ updq' = updq
        /\ proto' = proto /\ pending' = pending /\ d.type = "WORKER_JOIN"
        /\ o # NoMember => o.inc + 2 <= MaxInc
    BY <1>7 DEF ReceiveWorkerJoin
  <2>2. o # NoMember => o.inc \in 0 .. MaxInc
    BY <1>0, <1>2, EntryFields DEF View
  <2>3. u.inc \in 0 .. MaxInc /\ u.inc < MaxInc
    BY <1>2, <2>1, UpdateFields
  <2> HIDE DEF o, u, m
  <2>4. i \in 0 .. MaxInc /\ i < MaxInc /\ b \in BOOLEAN
    BY <2>1, <2>2, <2>3, GossipAssumption
  <2> HIDE DEF b, i
  <2>5. x \in ListenerState
    BY <1>2, <2>4 DEF ListenerState
  <2> HIDE DEF x
  <2>6. listener' \in [Nodes -> ListenerState]
    BY <2>1, <2>5, ListenerGoes
  <2> QED
    BY <1>0, <1>2, <2>1, <2>6, NetStep
<1>8. CASE ReceiveLeave(n, d)
  <2> DEFINE i == d.seq
             w == ViewUpdateStatus(view[n], m, "DEAD", i)
  <2>1. /\ view' = [view EXCEPT ![n] = w] /\ updq' = updq
        /\ proto' = proto /\ pending' = pending /\ listener' = listener
    BY <1>8 DEF ReceiveLeave
  <2>2. i \in 0 .. MaxInc /\ "DEAD" \in NodeStatus
    BY <1>2 DEF NodeStatus
  <2> HIDE DEF i, m
  <2>3. GoesTo(n, view[n], w)
    BY <1>0, <1>2, <2>2, UpdateGoes
  <2> HIDE DEF w
  <2> QED
    BY <1>0, <1>2, <2>1, <2>3, ViewStep
<1> QED
  BY <1>4, <1>5, <1>6, <1>7, <1>8

-----------------------------------------------------------------------------
(***************************************************************************)
(* The theorems                                                            *)
(***************************************************************************)

\* Every step of the cluster.
LEMMA NextSteps == Typing /\ Counting /\ [Next]_vars => Stepped
<1> SUFFICES ASSUME Typing, Counting, [Next]_vars PROVE Stepped
  OBVIOUS
<1>0. /\ life \in [Nodes -> {"down", "joining", "waiting", "up", "left"}] /\ net \subseteq Wire
      /\ updq \in [Nodes -> Queue] /\ listener \in [Nodes -> ListenerState]
  BY DEF Typing, Counting
<1>1. CASE \E n \in Nodes : LifeStep(n)
  BY <1>0, <1>1, LifeSteps
<1>2. CASE \E n \in Nodes : ProtoStep(n)
  BY <1>2, ProtoSteps
<1>3. CASE \E n \in Nodes : ListenerStep(n)
  BY <1>3, AnswerSteps, ApplySteps, ReceiveSteps DEF ListenerStep
<1>4. CASE (\E d \in net : Lose(d)) \/ Cut \/ Heal \/ UNCHANGED vars
  <2>1. /\ view' = view /\ proto' = proto /\ pending' = pending /\ updq' = updq /\ listener' = listener
        /\ net' \subseteq net
    BY <1>4 DEF Lose, Cut, Heal, vars
  <2> QED
    BY <1>0, <2>1, NetStep
<1> QED
  BY <1>1, <1>2, <1>3, <1>4 DEF Next

\* A node counts a round, or does not.
LEMMA RoundCounted ==
  ASSUME Counting, NEW n \in Nodes, CountRound(n) \/ rounds' = rounds
  PROVE  rounds' \in [Nodes -> Nat] /\ \A k \in Nodes : rounds'[k] <= MaxRounds[k]
<1>0. MaxRounds \in [Nodes -> Nat] /\ rounds \in [Nodes -> Nat] /\ \A k \in Nodes : rounds[k] <= MaxRounds[k]
  BY GossipAssumption DEF Counting
<1>1. CASE rounds' = rounds
  BY <1>0, <1>1
<1>2. CASE rounds' # rounds
  <2>1. rounds' = [rounds EXCEPT ![n] = @ + 1] /\ rounds[n] < MaxRounds[n]
    BY <1>2 DEF CountRound
  <2> QED
    BY <1>0, <2>1
<1> QED
  BY <1>1, <1>2

\* The counters that bound a behaviour, and the life of a node.
LEMMA NextCounting == Counting /\ [Next]_vars => Counting'
<1> SUFFICES ASSUME Counting, [Next]_vars PROVE Counting'
  OBVIOUS
<1>0. /\ MaxStarts \in Nat /\ starts \in [Nodes -> 0 .. MaxStarts] /\ cut \in BOOLEAN
      /\ life \in [Nodes -> {"down", "joining", "waiting", "up", "left"}]
      /\ rounds \in [Nodes -> Nat] /\ \A n \in Nodes : rounds[n] <= MaxRounds[n]
  BY GossipAssumption DEF Counting
<1>1. ASSUME NEW n \in Nodes, LifeStep(n) PROVE Counting'
  <2>1. cut' = cut
    BY <1>1 DEF LifeStep, Start, BootstrapAnswered, BootstrapFails, Leave, Crash, Bootstrap, MembershipJoin
  <2>2. CountRound(n) \/ rounds' = rounds
    BY <1>1 DEF LifeStep, Start, BootstrapAnswered, BootstrapFails, Leave, Crash, Bootstrap, MembershipJoin
  <2>3. starts' = starts \/ (starts[n] < MaxStarts /\ starts' = [starts EXCEPT ![n] = @ + 1])
    BY <1>1 DEF LifeStep, Start, BootstrapAnswered, BootstrapFails, Leave, Crash, Bootstrap, MembershipJoin
  <2>4. \E l \in {"down", "joining", "waiting", "up", "left"} : life' = [life EXCEPT ![n] = l]
    BY <1>1 DEF LifeStep, Start, BootstrapAnswered, BootstrapFails, Leave, Crash, Bootstrap, MembershipJoin
  <2>5. starts' \in [Nodes -> 0 .. MaxStarts]
    BY <1>0, <2>3
  <2>6. life' \in [Nodes -> {"down", "joining", "waiting", "up", "left"}]
    BY <1>0, <2>4
  <2>7. rounds' \in [Nodes -> Nat] /\ \A k \in Nodes : rounds'[k] <= MaxRounds[k]
    BY <2>2, RoundCounted
  <2> QED
    BY <1>0, <2>1, <2>5, <2>6, <2>7 DEF Counting
<1>2. ASSUME NEW n \in Nodes, ProtoStep(n) PROVE Counting'
  <2>1. CountRound(n) \/ rounds' = rounds
    BY <1>2 DEF ProtoStep, PingSent, RoundAlone, MarkSuspect, MarkDead, Ping, SuspectTimeout, Gossip, AckTimeout
  <2>2. starts' = starts /\ life' = life /\ cut' = cut
    BY <1>2 DEF ProtoStep, PingSent, RoundAlone, MarkSuspect, MarkDead, Ping, SuspectTimeout, Gossip, AckTimeout
  <2>3. rounds' \in [Nodes -> Nat] /\ \A k \in Nodes : rounds'[k] <= MaxRounds[k]
    BY <2>1, RoundCounted
  <2> QED
    BY <1>0, <2>2, <2>3 DEF Counting
<1>3. ASSUME NEW n \in Nodes, ListenerStep(n) PROVE Counting'
  <2>1. starts' = starts /\ life' = life /\ cut' = cut /\ rounds' = rounds
    BY <1>3 DEF ListenerStep, Revive, ApplyPing, ApplyAck, ApplyAlive, Reply, AdmitWorker, ReceiveUpdates,
                ReceiveAck, ReceiveJoin, ReceiveWorkerJoin, ReceiveLeave
  <2> QED
    BY <1>0, <2>1 DEF Counting
<1>4. CASE (\E d \in net : Lose(d)) \/ Cut \/ Heal \/ UNCHANGED vars
  <2>1. starts' = starts /\ life' = life /\ rounds' = rounds
    BY <1>4 DEF Lose, Cut, Heal, vars
  <2>2. cut' \in BOOLEAN
    BY <1>0, <1>4 DEF Lose, Cut, Heal, vars
  <2> QED
    BY <1>0, <2>1, <2>2 DEF Counting
<1> QED
  BY <1>1, <1>2, <1>3, <1>4 DEF Next

\* Before any node is started.
LEMMA InitOK == Init => Typing /\ Counting
<1> SUFFICES ASSUME Init PROVE Typing /\ Counting
  OBVIOUS
<1>1. 0 \in 0 .. MaxInc /\ MaxStarts \in Nat /\ MaxRounds \in [Nodes -> Nat] /\ QueueCapacity \in Nat
  BY GossipAssumption
<1>2. Fresh \in Entry /\ Fresh # NoMember
  BY <1>1, FreshOK, EntryFields
<1>3. \A n \in Nodes : EmptyView(n) \in View /\ EmptyView(n)[n] # NoMember
  BY <1>2 DEF EmptyView, View
<1>4. <<>> \in Queue
  <2>1. <<>> \in Seq(Update) /\ Len(<<>>) = 0
    BY EmptySeq
  <2> QED
    BY <1>1, <2>1 DEF Queue
<1>5. NoAcks \in Acks /\ \A k \in AckSlots : NoAcks[k] = NoNode
  BY DEF NoAcks, Acks
<1>6. view \in [Nodes -> View] /\ \A n \in Nodes : view[n][n] # NoMember
  BY <1>3 DEF Init
<1>7. updq \in [Nodes -> Queue] /\ pending \in [Nodes -> Acks] /\ net \subseteq Wire
  BY <1>4, <1>5 DEF Init
<1>8. listener \in [Nodes -> ListenerState] /\ proto \in [Nodes -> ProtoState]
  BY ListenerIdle, ProtoIdle DEF Init
<1>9. ASSUME NEW n \in Nodes PROVE KnowsPeers(view[n], proto[n], pending[n])
  <2>1. proto[n].pc = "idle" /\ pending[n] = NoAcks
    BY ProtoIdle DEF Init
  <2> QED
    BY <1>5, <2>1 DEF KnowsPeers
<1>10. Counting
  <2>1. /\ starts \in [Nodes -> 0 .. MaxStarts] /\ rounds \in [Nodes -> Nat]
        /\ \A n \in Nodes : rounds[n] = 0 /\ MaxRounds[n] \in Nat
    BY <1>1 DEF Init
  <2>2. life \in [Nodes -> {"down", "joining", "waiting", "up", "left"}] /\ cut \in BOOLEAN
    BY DEF Init
  <2> QED
    BY <2>1, <2>2 DEF Counting
<1> QED
  BY <1>6, <1>7, <1>8, <1>9, <1>10 DEF Typing

\* Always: typing, and what the steps establish with it.
LEMMA AlwaysTyping == Spec => [](Typing /\ Counting)
<1>1. Typing /\ Counting /\ [Next]_vars => (Typing /\ Counting)'
  BY NextSteps, NextCounting DEF Stepped
<1> QED
  BY <1>1, InitOK, PTL DEF Spec

\* Every node's state is well formed: the queue of updates and the table of
\* pending acks stay within their capacity, a node is always a member of its own
\* view, and what a thread keeps of a member is what it read there.
THEOREM TypeCorrect == Spec => []TypeOK
<1>1. Typing /\ Counting => TypeOK
  <2> SUFFICES ASSUME Typing, Counting PROVE TypeOK
    OBVIOUS
  <2>1. Entry \subseteq Member /\ \A e \in Entry : e.inc <= MaxInc
    BY GossipAssumption, EntryFields
  <2>2. /\ view \in [Nodes -> [Nodes -> Member \cup {NoMember}]]
        /\ \A n, m \in Nodes : view[n][m] # NoMember => view[n][m].inc <= MaxInc
    BY <2>1 DEF Typing, View
  <2>3. updq \in [Nodes -> Seq(Update)] /\ \A n \in Nodes : Len(updq[n]) <= QueueCapacity
    BY DEF Typing, Queue
  <2>4. pending \in [Nodes -> [AckSlots -> Nodes \cup {NoNode}]]
    BY DEF Typing, Acks
  <2>5. listener \in [Nodes -> [pc : {"idle", "updates", "revive", "admit"},
                                msg : Datagram \cup {NoDatagram}, rejoin : BOOLEAN, inc : 0 .. MaxInc]]
    BY DEF Typing, ListenerState
  <2>6. proto \in [Nodes -> [pc : {"idle", "sent", "suspect", "kill"}, peer : Nodes \cup {NoNode},
                             inc : 0 .. MaxInc, addr : BOOLEAN, slot : AckSlots \cup {1}]]
    BY DEF Typing, ProtoState
  <2>7. net \subseteq Datagram
    BY DEF Typing, Wire
  <2>8. \A n \in Nodes : view[n][n] # NoMember
    BY DEF Typing
  <2> QED
    BY <2>2, <2>3, <2>4, <2>5, <2>6, <2>7, <2>8 DEF TypeOK, Counting
<1> QED
  BY <1>1, AlwaysTyping, PTL

\* No step of a node that runs takes it back to an older incarnation of another
\* member, or makes it forget one: whichever of the listener and the protocol
\* thread writes last, with any delay between what a thread read and what it
\* writes, and however datagrams are lost, repeated or reordered.  The exception
\* is cluster_view_add, which takes a dead member back alive.
THEOREM IncarnationsGrow == Spec => IncarnationMonotone
<1>1. Typing /\ Counting /\ [Next]_vars =>
        [\A n, m \in Nodes :
           Running(n) /\ Running(n)' /\ m # n /\ view[n][m] # NoMember =>
             /\ view'[n][m] # NoMember
             /\ \/ view'[n][m].inc >= view[n][m].inc
                \/ view[n][m].status = "DEAD" /\ view'[n][m].status = "ALIVE"]_vars
  BY NextSteps DEF Stepped, Newer
<1> QED
  BY <1>1, AlwaysTyping, PTL DEF Spec, IncarnationMonotone
=============================================================================
