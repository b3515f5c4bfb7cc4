--------------------------- MODULE EventBusProofs ---------------------------
(***************************************************************************)
(* Machine-checked proofs about EventBus, for any number of publishers,    *)
(* handlers and event types, any ring and any table size: the bus is well  *)
(* typed, calls only subscribed handlers, implements the bounded channel   *)
(* of EventChannel, and keeps the order of publication.                    *)
(***************************************************************************)
EXTENDS EventBus, Integers, SequenceTheorems, TLAPS

-----------------------------------------------------------------------------
(***************************************************************************)
(* The inductive invariant                                                 *)
(***************************************************************************)

\* The program points at which a thread holds an event, those of
\* dispatch_event_to_subscribers among them.
Delivering == {"lock", "scan", "call", "count"}
Queueing == {"push", "drop", "signal"}

\* The shape of a thread's entry and of the ring.
AtState == [pc : {"idle", "push", "drop", "signal", "lock", "scan", "call", "count",
                  "loop", "pop", "wait", "exited"},
            ev : Event \cup {NoEvent}, slot : 1 .. MaxSubs + 1]

RingState == [events : [0 .. Capacity - 1 -> Event \cup {NoEvent}],
              head : 0 .. Capacity - 1, tail : 0 .. Capacity - 1, count : 0 .. Capacity]

\* A thread t whose entry is a holds an event exactly between taking or making
\* it and being done with it, and scans a table only for an event of a known
\* type.
HandOK(t, a) ==
  /\ a.pc \in Delivering \cup Queueing => a.ev \in Event
  /\ a.pc \in {"scan", "call", "count"} => a.ev.type \in Types
  /\ a.pc \in {"call", "count"} => a.slot \in Slots
  /\ IF t = Dispatcher THEN a.pc \in {"loop", "pop", "wait", "exited"} \cup Delivering
                       ELSE a.pc \in {"idle"} \cup Delivering \cup Queueing

InHand == \A t \in Threads : HandOK(t, at[t])

\* sent[p] never runs ahead of events_published, which the bound bounds.
Counted == stats.published <= MaxEvents /\ \A p \in Publishers : sent[p] <= stats.published

\* The occupied part of the ring ends at the tail and holds events.
RingOK ==
  /\ ring.tail = (ring.head + ring.count) % Capacity
  /\ \A i \in 1 .. ring.count : RingContents[i] \in Event

Typing == TypeOK /\ InHand /\ Counted /\ RingOK

\* x was published before y, if by the same thread.
Precedes(x, y) == x.from = y.from => x.seq < y.seq

\* x was published before everything in the ring and about to be pushed.
Past(x) ==
  /\ x.seq <= sent[x.from]
  /\ \A i \in 1 .. ring.count : Precedes(x, RingContents[i])
  /\ \A p \in Publishers : at[p].pc = "push" => Precedes(x, at[p].ev)

\* What a publisher holds is its latest event; only the events of
\* event_bus_publish pass through the ring.
Authors ==
  \A p \in Publishers :
    /\ at[p].pc \in Queueing => ~at[p].ev.sync
    /\ at[p].pc \in Delivering => at[p].ev.sync
    /\ at[p].pc \in Queueing \cup Delivering => at[p].ev.from = p /\ at[p].ev.seq = sent[p]

\* The ring is in order of publication.
RingOrder ==
  \A i \in 1 .. ring.count :
    LET x == RingContents[i] IN
    /\ ~x.sync
    /\ x.seq <= sent[x.from]
    /\ \A j \in 1 .. ring.count : i < j => Precedes(x, RingContents[j])
    /\ \A p \in Publishers : at[p].pc = "push" => Precedes(x, at[p].ev)

\* The event the dispatch thread delivers came before all of that ...
HandOrder ==
  at[Dispatcher].pc \in Delivering => ~at[Dispatcher].ev.sync /\ Past(at[Dispatcher].ev)

\* ... and a queued event that a handler has been called with came before all
\* that, and is or came before the one being delivered.
Handed(x) ==
  ~x.sync => /\ Past(x)
             /\ at[Dispatcher].pc \in Delivering /\ x.from = at[Dispatcher].ev.from
                  => x.seq <= at[Dispatcher].ev.seq

GotOrder ==
  /\ got \in [Handlers -> Seq(Event)]
  /\ \A h \in Handlers : \A i \in 1 .. Len(got[h]) : Handed(got[h][i])

Order == Authors /\ RingOrder /\ HandOrder /\ GotOrder /\ PublicationOrder

-----------------------------------------------------------------------------
(***************************************************************************)
(* Lemmas about threads and the ring                                       *)
(***************************************************************************)

\* Index arithmetic of the ring: an index wraps at most once.
LEMMA Wrap ==
  ASSUME NEW C \in Nat \ {0}, NEW i \in Int, 0 <= i, i < 2 * C
  PROVE  i % C = IF i < C THEN i ELSE i - C
OBVIOUS

\* The n occupied cells from h on are others than the one at the tail.
LEMMA WrapFree ==
  ASSUME NEW C \in Nat \ {0}, NEW h \in 0 .. C - 1, NEW n \in 0 .. C - 1, NEW i \in 1 .. n
  PROVE  (h + i - 1) % C \in 0 .. C - 1 /\ (h + i - 1) % C # (h + n) % C
<1> DEFINE x == h + i - 1
           y == h + n
<1>1. /\ x \in Int /\ 0 <= x /\ x < 2 * C /\ y \in Int /\ 0 <= y /\ y < 2 * C
      /\ x < y /\ y < x + C
  OBVIOUS
<1> HIDE DEF x, y
<1>2. x % C = IF x < C THEN x ELSE x - C
  BY <1>1, Wrap
<1>3. y % C = IF y < C THEN y ELSE y - C
  BY <1>1, Wrap
<1>4. x % C \in 0 .. C - 1 /\ x % C # y % C
  BY <1>1, <1>2, <1>3
<1> QED
  BY <1>4 DEF x, y

\* The index after (h + n) % C.
LEMMA WrapNext ==
  ASSUME NEW C \in Nat \ {0}, NEW h \in 0 .. C - 1, NEW n \in 0 .. C - 1
  PROVE  (((h + n) % C) + 1) % C = (h + (n + 1)) % C
<1> DEFINE x == h + n
           y == h + (n + 1)
<1>1. /\ x \in Int /\ 0 <= x /\ x < 2 * C - 1 /\ x < 2 * C /\ y \in Int /\ 0 <= y /\ y < 2 * C /\ y = x + 1
  OBVIOUS
<1> HIDE DEF x, y
<1>2. x % C = IF x < C THEN x ELSE x - C
  BY <1>1, Wrap
<1>3. y % C = IF y < C THEN y ELSE y - C
  BY <1>1, Wrap
<1> DEFINE z == (x % C) + 1
<1>4. z \in Int /\ 0 <= z /\ z < 2 * C /\ z = IF x < C THEN x + 1 ELSE x - C + 1
  BY <1>1, <1>2
<1> HIDE DEF z
<1>5. z % C = IF z < C THEN z ELSE z - C
  BY <1>4, Wrap
<1>6. z % C = y % C
  BY <1>1, <1>3, <1>4, <1>5
<1> QED
  BY <1>6 DEF x, y, z

\* Counting from the index after h is counting one further from h.
LEMMA WrapShift ==
  ASSUME NEW C \in Nat \ {0}, NEW h \in 0 .. C - 1, NEW j \in 0 .. C - 1
  PROVE  (((h + 1) % C) + j) % C = (h + (j + 1)) % C
<1> DEFINE x == h + 1
           y == h + (j + 1)
<1>1. /\ x \in Int /\ 0 <= x /\ x <= C /\ x < 2 * C /\ y \in Int /\ 0 <= y /\ y < 2 * C /\ y = x + j
  OBVIOUS
<1> HIDE DEF x, y
<1>2. x % C = IF x < C THEN x ELSE x - C
  BY <1>1, Wrap
<1>3. y % C = IF y < C THEN y ELSE y - C
  BY <1>1, Wrap
<1> DEFINE z == (x % C) + j
<1>4. z \in Int /\ 0 <= z /\ z < 2 * C /\ z = IF x < C THEN x + j ELSE x - C + j
  BY <1>1, <1>2
<1> HIDE DEF z
<1>5. z % C = IF z < C THEN z ELSE z - C
  BY <1>4, Wrap
<1>6. z % C = y % C
  BY <1>1, <1>3, <1>4, <1>5
<1> QED
  BY <1>6 DEF x, y, z

\* A thread's entry with another program point ...
LEMMA FieldPc ==
  ASSUME NEW a \in AtState,
         NEW label \in {"idle", "push", "drop", "signal", "lock", "scan", "call", "count",
                        "loop", "pop", "wait", "exited"},
         NEW A, A = [a EXCEPT !.pc = label]
  PROVE  A \in AtState /\ A.pc = label /\ A.ev = a.ev /\ A.slot = a.slot
BY DEF AtState

\* ... or with another slot.
LEMMA FieldSlot ==
  ASSUME NEW a \in AtState, NEW i \in 1 .. MaxSubs + 1, NEW A, A = [a EXCEPT !.slot = i]
  PROVE  A \in AtState /\ A.pc = a.pc /\ A.ev = a.ev /\ A.slot = i
BY DEF AtState

\* Thread t takes a step, to entry A.
LEMMA ThreadGoes ==
  ASSUME at \in [Threads -> AtState], InHand, NEW t \in Threads, NEW A \in AtState,
         HandOK(t, A), at' = [at EXCEPT ![t] = A]
  PROVE  /\ at' \in [Threads -> AtState] /\ InHand'
         /\ \A u \in Threads : at'[u] = IF u = t THEN A ELSE at[u]
<1>1. /\ at' \in [Threads -> AtState]
      /\ \A u \in Threads : at'[u] = IF u = t THEN A ELSE at[u]
  OBVIOUS
<1>2. ASSUME NEW u \in Threads PROVE HandOK(u, at'[u])
  BY <1>1 DEF InHand
<1> QED
  BY <1>1, <1>2 DEF InHand

\* A thread that is done is back in its loop or outside the bus.
LEMMA BetweenOK ==
  ASSUME NEW t \in Threads
  PROVE  /\ Between(t) \in AtState /\ HandOK(t, Between(t))
         /\ Between(t).pc = IF t = Dispatcher THEN "loop" ELSE "idle"
<1>1. Between(t).pc = IF t = Dispatcher THEN "loop" ELSE "idle"
  BY DEF Between
<1>2. Between(t) \in AtState
  BY BusAssumption DEF Between, AtState
<1> QED
  BY <1>1, <1>2 DEF HandOK, Delivering, Queueing

\* event_queue_push: one more event, at the end.
LEMMA RingPush ==
  ASSUME ring \in RingState, RingOK, NEW e \in Event, ring.count < Capacity,
         ring' = [ring EXCEPT !.events[ring.tail] = e,
                              !.tail = (@ + 1) % Capacity, !.count = @ + 1]
  PROVE  /\ ring' \in RingState /\ RingOK'
         /\ ring'.count = ring.count + 1
         /\ RingContents'[ring.count + 1] = e
         /\ \A i \in 1 .. ring.count : RingContents'[i] = RingContents[i]
<1>0. /\ Capacity \in Nat \ {0} /\ ring.head \in 0 .. Capacity - 1 /\ ring.tail \in 0 .. Capacity - 1
      /\ ring.count \in 0 .. Capacity /\ ring.events \in [0 .. Capacity - 1 -> Event \cup {NoEvent}]
  BY BusAssumption DEF RingState
<1> DEFINE tl == (ring.tail + 1) % Capacity
           ct == ring.count + 1
           es == [ring.events EXCEPT ![ring.tail] = e]
<1>1. tl \in 0 .. Capacity - 1 /\ ct \in 0 .. Capacity /\ es \in [0 .. Capacity - 1 -> Event \cup {NoEvent}]
  BY <1>0
<1>2. ring' = [ring EXCEPT !.events = es, !.tail = tl, !.count = ct]
  OBVIOUS
<1> HIDE DEF tl, ct, es
<1>3. /\ ring' \in RingState
      /\ ring'.events = es /\ ring'.tail = tl /\ ring'.count = ct /\ ring'.head = ring.head
  BY <1>1, <1>2 DEF RingState
<1>4. ASSUME NEW i \in 1 .. ct
      PROVE  RingContents'[i] = es[(ring.head + i - 1) % Capacity]
  BY <1>3 DEF RingContents
<1>5. ring.tail = (ring.head + ring.count) % Capacity
  BY DEF RingOK
<1>6. RingContents'[ring.count + 1] = e
  <2>1. ring.count + 1 \in 1 .. ct /\ ring.head + (ring.count + 1) - 1 = ring.head + ring.count
    BY <1>0 DEF ct
  <2>2. RingContents'[ring.count + 1] = es[(ring.head + (ring.count + 1) - 1) % Capacity]
    BY <1>4, <2>1
  <2>3. es[ring.tail] = e
    BY <1>0 DEF es
  <2> QED
    BY <1>5, <2>1, <2>2, <2>3
<1>7. ASSUME NEW i \in 1 .. ring.count PROVE RingContents'[i] = RingContents[i]
  <2> DEFINE k == (ring.head + i - 1) % Capacity
  <2>1. ring.count \in 0 .. Capacity - 1
    BY <1>0
  <2>4. k # ring.tail /\ k \in 0 .. Capacity - 1
    BY <1>0, <1>5, <2>1, WrapFree
  <2>5. RingContents'[i] = es[k]
    BY <1>0, <1>4 DEF ct
  <2>6. RingContents[i] = ring.events[k]
    BY DEF RingContents
  <2> HIDE DEF k
  <2> QED
    BY <1>0, <2>4, <2>5, <2>6 DEF es
<1>8. tl = (ring.head + ct) % Capacity
  <2>1. ring.count \in 0 .. Capacity - 1
    BY <1>0
  <2> QED
    BY <1>0, <1>5, <2>1, WrapNext DEF tl, ct
<1>9. ASSUME NEW i \in 1 .. ct PROVE RingContents'[i] \in Event
  <2>1. i = ring.count + 1 \/ i \in 1 .. ring.count
    BY <1>0 DEF ct
  <2> QED
    BY <1>6, <1>7, <2>1 DEF RingOK
<1>10. RingOK'
  BY <1>3, <1>8, <1>9 DEF RingOK
<1> QED
  BY <1>3, <1>6, <1>7, <1>10 DEF ct

\* event_queue_pop: the first event goes, the others move up.
LEMMA RingPop ==
  ASSUME ring \in RingState, RingOK, ring.count > 0,
         ring' = [ring EXCEPT !.head = (@ + 1) % Capacity, !.count = @ - 1]
  PROVE  /\ ring' \in RingState /\ RingOK'
         /\ ring'.count = ring.count - 1
         /\ Oldest = RingContents[1] /\ Oldest \in Event
         /\ \A i \in 1 .. ring.count - 1 : RingContents'[i] = RingContents[i + 1]
<1>0. /\ Capacity \in Nat \ {0} /\ ring.head \in 0 .. Capacity - 1 /\ ring.tail \in 0 .. Capacity - 1
      /\ ring.count \in 1 .. Capacity
  BY BusAssumption DEF RingState
<1> DEFINE hd == (ring.head + 1) % Capacity
           ct == ring.count - 1
<1>1. hd \in 0 .. Capacity - 1 /\ ct \in 0 .. Capacity
  BY <1>0
<1>2. ring' = [ring EXCEPT !.head = hd, !.count = ct]
  OBVIOUS
<1> HIDE DEF hd, ct
<1>3. /\ ring' \in RingState
      /\ ring'.events = ring.events /\ ring'.tail = ring.tail /\ ring'.count = ct /\ ring'.head = hd
  BY <1>1, <1>2 DEF RingState
<1>5. ASSUME NEW i \in 1 .. ct PROVE RingContents'[i] = RingContents[i + 1]
  <2>1. i + 1 \in 1 .. ring.count
    BY <1>0 DEF ct
  <2>2. RingContents'[i] = ring.events[(hd + i - 1) % Capacity]
    BY <1>3 DEF RingContents
  <2>3. RingContents[i + 1] = ring.events[(ring.head + (i + 1) - 1) % Capacity]
    BY <2>1 DEF RingContents
  <2>4. i - 1 \in 0 .. Capacity - 1
    BY <1>0 DEF ct
  <2>5. (hd + (i - 1)) % Capacity = (ring.head + ((i - 1) + 1)) % Capacity
    BY <1>0, <2>4, WrapShift DEF hd
  <2>6. hd + (i - 1) = hd + i - 1 /\ ring.head + ((i - 1) + 1) = ring.head + (i + 1) - 1
    BY <1>0, <1>1
  <2> QED
    BY <2>2, <2>3, <2>5, <2>6
<1>6. Oldest = RingContents[1] /\ Oldest \in Event
  <2>1. ring.head \in Int /\ 0 <= ring.head /\ ring.head < Capacity /\ ring.head + 1 - 1 = ring.head
    BY <1>0
  <2>2. ring.head % Capacity = ring.head
    BY <1>0, <2>1
  <2>3. 1 \in 1 .. ring.count
    BY <1>0
  <2>4. RingContents[1] = ring.events[(ring.head + 1 - 1) % Capacity]
    BY <2>3 DEF RingContents
  <2>5. RingContents[1] = Oldest
    BY <2>1, <2>2, <2>4 DEF Oldest
  <2> QED
    BY <2>3, <2>5 DEF RingOK
<1>7. ring.tail = (hd + ct) % Capacity
  <2>1. ring.tail = (ring.head + ring.count) % Capacity
    BY DEF RingOK
  <2>2. ct \in 0 .. Capacity - 1 /\ ct + 1 = ring.count
    BY <1>0 DEF ct
  <2>3. (hd + ct) % Capacity = (ring.head + (ct + 1)) % Capacity
    BY <1>0, <2>2, WrapShift DEF hd
  <2> QED
    BY <2>1, <2>2, <2>3
<1>8. ASSUME NEW i \in 1 .. ct PROVE RingContents'[i] \in Event
  <2>1. i + 1 \in 1 .. ring.count
    BY <1>0 DEF ct
  <2> QED
    BY <1>5, <2>1 DEF RingOK
<1>9. RingOK'
  BY <1>3, <1>7, <1>8 DEF RingOK
<1> QED
  BY <1>3, <1>5, <1>6, <1>9 DEF ct

-----------------------------------------------------------------------------
(***************************************************************************)
(* Types and subscriptions                                                 *)
(***************************************************************************)

\* The parts of the type invariant.
LEMMA TypeParts ==
  TypeOK <=> /\ ring \in RingState /\ at \in [Threads -> AtState]
             /\ subs \in [Types -> [Slots -> Handlers \cup {NoHandler}]]
             /\ stats \in [published : Nat, dispatched : Nat, dropped : Nat]
             /\ life \in {"up", "signal", "join", "gone"}
             /\ sent \in [Publishers -> 0 .. MaxEvents]
BY DEF TypeOK, RingState, AtState

\* ... after a step.
LEMMA TypePartsNext ==
  TypeOK' <=> /\ ring' \in RingState /\ at' \in [Threads -> AtState]
              /\ subs' \in [Types -> [Slots -> Handlers \cup {NoHandler}]]
              /\ stats' \in [published : Nat, dispatched : Nat, dropped : Nat]
              /\ life' \in {"up", "signal", "join", "gone"}
              /\ sent' \in [Publishers -> 0 .. MaxEvents]
BY DEF TypeOK, RingState, AtState

\* What a thread leaves alone stays as it should be.
LEMMA RingIdle == RingOK /\ ring' = ring => RingOK'
BY DEF RingOK, RingContents

\* Where a thread goes when it steps within dispatch_event_to_subscribers.
LEMMA DeliverGoes ==
  ASSUME Typing, NEW t \in Threads, Deliver(t)
  PROVE  /\ at' \in [Threads -> AtState] /\ InHand'
         /\ \A u \in Threads \ {t} : at'[u] = at[u]
         /\ at[t].pc \in Delivering
         /\ at'[t].pc \in Delivering => at'[t].ev = at[t].ev
         /\ at'[t].pc \notin Queueing
         /\ at'[t].pc = "call" => Scan(t)
<1>0. at \in [Threads -> AtState] /\ at[t] \in AtState /\ InHand /\ HandOK(t, at[t])
  BY TypeParts DEF Typing, InHand
<1>1. ASSUME NEW A \in AtState, HandOK(t, A), at' = [at EXCEPT ![t] = A], at[t].pc \in Delivering,
             A.pc \in Delivering => A.ev = at[t].ev, A.pc \notin Queueing,
             A.pc = "call" => Scan(t)
      PROVE  /\ at' \in [Threads -> AtState] /\ InHand'
             /\ \A u \in Threads \ {t} : at'[u] = at[u]
             /\ at[t].pc \in Delivering
             /\ at'[t].pc \in Delivering => at'[t].ev = at[t].ev
             /\ at'[t].pc \notin Queueing
             /\ at'[t].pc = "call" => Scan(t)
  <2>1. /\ at' \in [Threads -> AtState] /\ InHand'
        /\ \A u \in Threads : at'[u] = IF u = t THEN A ELSE at[u]
    BY <1>0, <1>1, ThreadGoes
  <2> QED
    BY <1>1, <2>1
<1>2. CASE ReadLock(t)
  <2> DEFINE A == IF at[t].ev.type \in Types THEN [at[t] EXCEPT !.pc = "scan"] ELSE Between(t)
  <2>1. at' = [at EXCEPT ![t] = A] /\ at[t].pc = "lock"
    BY <1>2 DEF ReadLock
  <2>2. CASE at[t].ev.type \in Types
    <3>1. A \in AtState /\ A.pc = "scan" /\ A.ev = at[t].ev
      BY <1>0, <2>2, FieldPc
    <3>2. HandOK(t, A)
      BY <1>0, <2>1, <2>2, <3>1 DEF HandOK, Delivering, Queueing
    <3> HIDE DEF A
    <3> QED
      BY <1>1, <2>1, <3>1, <3>2 DEF Delivering, Queueing
  <2>3. CASE at[t].ev.type \notin Types
    <3>1. A = Between(t)
      BY <2>3
    <3> HIDE DEF A
    <3>2. A \in AtState /\ HandOK(t, A) /\ A.pc \in {"loop", "idle"}
      BY <3>1, BetweenOK
    <3> QED
      BY <1>1, <2>1, <3>2 DEF Delivering, Queueing
  <2> QED
    BY <2>2, <2>3
<1>3. CASE Scan(t)
  <2>0. at[t].pc = "scan" /\ at[t].slot \in Slots
    BY <1>3 DEF Scan
  <2>1. CASE subs[at[t].ev.type][at[t].slot] # NoHandler
    <3> DEFINE A == [at[t] EXCEPT !.pc = "call"]
    <3>1. at' = [at EXCEPT ![t] = A]
      BY <1>3, <2>1 DEF Scan
    <3>2. A \in AtState /\ A.pc = "call" /\ A.ev = at[t].ev /\ A.slot = at[t].slot
      BY <1>0, FieldPc
    <3> HIDE DEF A
    <3>3. HandOK(t, A)
      BY <1>0, <2>0, <3>2 DEF HandOK, Delivering, Queueing
    <3> QED
      BY <1>1, <1>3, <2>0, <3>1, <3>2, <3>3 DEF Delivering, Queueing
  <2>2. CASE subs[at[t].ev.type][at[t].slot] = NoHandler
    <3> DEFINE i == at[t].slot + 1
               A == [at[t] EXCEPT !.slot = i]
    <3>1. at' = [at EXCEPT ![t] = A]
      BY <1>3, <2>2 DEF Scan
    <3>2. i \in 1 .. MaxSubs + 1
      BY <2>0, BusAssumption DEF Slots
    <3> HIDE DEF i
    <3>3. A \in AtState /\ A.pc = "scan" /\ A.ev = at[t].ev
      BY <1>0, <2>0, <3>2, FieldSlot
    <3> HIDE DEF A
    <3>4. HandOK(t, A)
      BY <1>0, <2>0, <3>3 DEF HandOK, Delivering, Queueing
    <3> QED
      BY <1>1, <2>0, <3>1, <3>3, <3>4 DEF Delivering, Queueing
  <2> QED
    BY <2>1, <2>2
<1>4. CASE Call(t)
  <2> DEFINE A == [at[t] EXCEPT !.pc = "count"]
  <2>1. at' = [at EXCEPT ![t] = A] /\ at[t].pc = "call"
    BY <1>4 DEF Call, Goto
  <2>2. A \in AtState /\ A.pc = "count" /\ A.ev = at[t].ev /\ A.slot = at[t].slot
    BY <1>0, FieldPc
  <2> HIDE DEF A
  <2>3. HandOK(t, A)
    BY <1>0, <2>1, <2>2 DEF HandOK, Delivering, Queueing
  <2> QED
    BY <1>1, <2>1, <2>2, <2>3 DEF Delivering, Queueing
<1>5. CASE CountDispatched(t)
  <2> DEFINE i == at[t].slot + 1
             B == [at[t] EXCEPT !.slot = i]
             A == [B EXCEPT !.pc = "scan"]
  <2>0. at[t].pc = "count" /\ at[t].slot \in Slots
    BY <1>0, <1>5 DEF CountDispatched, HandOK
  <2>1. at' = [at EXCEPT ![t] = A]
    BY <1>5 DEF CountDispatched
  <2>2. i \in 1 .. MaxSubs + 1
    BY <2>0, BusAssumption DEF Slots
  <2> HIDE DEF i
  <2>3. B \in AtState /\ B.ev = at[t].ev
    BY <1>0, <2>2, FieldSlot
  <2> HIDE DEF B
  <2>4. A \in AtState /\ A.pc = "scan" /\ A.ev = at[t].ev
    BY <2>3, FieldPc
  <2> HIDE DEF A
  <2>5. HandOK(t, A)
    BY <1>0, <2>0, <2>4 DEF HandOK, Delivering, Queueing
  <2> QED
    BY <1>1, <2>0, <2>1, <2>4, <2>5 DEF Delivering, Queueing
<1>6. CASE ReadUnlock(t)
  <2>1. at' = [at EXCEPT ![t] = Between(t)] /\ at[t].pc = "scan"
    BY <1>6 DEF ReadUnlock
  <2>2. Between(t) \in AtState /\ HandOK(t, Between(t)) /\ Between(t).pc \in {"loop", "idle"}
    BY BetweenOK
  <2> QED
    BY <1>1, <2>1, <2>2 DEF Delivering, Queueing
<1> QED
  BY <1>2, <1>3, <1>4, <1>5, <1>6 DEF Deliver

\* Thread t moves to another program point, its event and slot as they are.
LEMMA PcGoes ==
  ASSUME at \in [Threads -> AtState], InHand, NEW t \in Threads,
         NEW label \in {"idle", "push", "drop", "signal", "lock", "scan", "call", "count",
                        "loop", "pop", "wait", "exited"},
         \A A \in AtState : A.pc = label /\ A.ev = at[t].ev /\ A.slot = at[t].slot => HandOK(t, A),
         Goto(t, label)
  PROVE  /\ at' \in [Threads -> AtState] /\ InHand'
         /\ \A u \in Threads \ {t} : at'[u] = at[u]
         /\ at'[t].pc = label /\ at'[t].ev = at[t].ev
<1> DEFINE A == [at[t] EXCEPT !.pc = label]
<1>1. at' = [at EXCEPT ![t] = A]
  BY DEF Goto
<1>2. A \in AtState /\ A.pc = label /\ A.ev = at[t].ev /\ A.slot = at[t].slot
  BY FieldPc
<1> HIDE DEF A
<1>3. HandOK(t, A)
  BY <1>2
<1>4. /\ at' \in [Threads -> AtState] /\ InHand'
      /\ \A u \in Threads : at'[u] = IF u = t THEN A ELSE at[u]
  BY <1>1, <1>2, <1>3, ThreadGoes
<1> QED
  BY <1>2, <1>4

\* pthread_cond_signal moves a waiting dispatch thread, and nobody else.
LEMMA WakeGoes ==
  ASSUME NEW f \in [Threads -> AtState], \A t \in Threads : HandOK(t, f[t]), at' = Wake(f)
  PROVE  /\ at' \in [Threads -> AtState] /\ InHand'
         /\ \A p \in Publishers : at'[p] = f[p]
         /\ at'[Dispatcher] = f[Dispatcher] \/ at'[Dispatcher].pc = "pop"
<1>0. Dispatcher \in Threads /\ Publishers \subseteq Threads /\ Dispatcher \notin Publishers
  BY BusAssumption DEF Threads
<1>1. CASE f[Dispatcher].pc = "wait"
  <2> DEFINE A == [f[Dispatcher] EXCEPT !.pc = "pop"]
  <2>1. at' = [f EXCEPT ![Dispatcher] = A]
    BY <1>1 DEF Wake
  <2>2. A \in AtState /\ A.pc = "pop"
    BY <1>0, FieldPc
  <2> HIDE DEF A
  <2>3. HandOK(Dispatcher, A)
    BY <2>2 DEF HandOK, Delivering, Queueing
  <2>4. /\ at' \in [Threads -> AtState]
        /\ \A u \in Threads : at'[u] = IF u = Dispatcher THEN A ELSE f[u]
    BY <1>0, <2>1, <2>2
  <2>5. ASSUME NEW u \in Threads PROVE HandOK(u, at'[u])
    BY <2>3, <2>4
  <2> QED
    BY <1>0, <2>2, <2>4, <2>5 DEF InHand
<1>2. CASE f[Dispatcher].pc # "wait"
  BY <1>2 DEF Wake, InHand
<1> QED
  BY <1>1, <1>2

-----------------------------------------------------------------------------
(***************************************************************************)
(* What a step does to the events that are on their way                    *)
(***************************************************************************)

\* Thread t comes by no event in this step.
KeepsHand(t) ==
  /\ at'[t].pc = "push" => at[t].pc = "push"
  /\ at'[t].pc \in Queueing => at[t].pc \in Queueing /\ at'[t].ev = at[t].ev
  /\ at'[t].pc \in Delivering => at[t].pc \in Delivering /\ at'[t].ev = at[t].ev

\* Nobody calls a handler whose slot was not tested in this or an earlier step.
KeepsCallees == \A t \in Threads : at'[t].pc = "call" => at'[t] = at[t] \/ Scan(t)

\* No event moves,
Quiet == ring' = ring /\ sent' = sent /\ \A t \in Threads : KeepsHand(t)

\* a publisher makes one,
Published(p) ==
  /\ ring' = ring /\ sent' = [sent EXCEPT ![p] = @ + 1]
  /\ \A t \in Threads \ {p} : KeepsHand(t)
  /\ at'[p].ev.from = p /\ at'[p].ev.seq = sent[p] + 1
  /\ at'[p].pc = IF at'[p].ev.sync THEN "lock" ELSE "push"

\* puts one in the ring,
Pushed(p) ==
  /\ at[p].pc = "push" /\ at'[p].pc # "push" /\ ring.count < Capacity
  /\ ring' = [ring EXCEPT !.events[ring.tail] = at[p].ev,
                          !.tail = (@ + 1) % Capacity, !.count = @ + 1]
  /\ sent' = sent /\ \A t \in Threads : KeepsHand(t)

\* or the dispatch thread takes one.
Popped ==
  /\ ring.count > 0
  /\ ring' = [ring EXCEPT !.head = (@ + 1) % Capacity, !.count = @ - 1]
  /\ at'[Dispatcher].ev = Oldest
  /\ sent' = sent /\ \A p \in Publishers : KeepsHand(p)

Kinds == Quiet \/ Popped \/ \E p \in Publishers : Published(p) \/ Pushed(p)

\* What a step establishes.
Stepped == Typing' /\ KeepsCallees /\ Kinds

\* A step that only moves threads and counts.
LEMMA QuietStep ==
  ASSUME Typing, at' \in [Threads -> AtState], InHand', KeepsCallees, \A t \in Threads : KeepsHand(t),
         ring' = ring, sent' = sent, stats'.published = stats.published,
         stats' \in [published : Nat, dispatched : Nat, dropped : Nat],
         life' \in {"up", "signal", "join", "gone"},
         subs' \in [Types -> [Slots -> Handlers \cup {NoHandler}]]
  PROVE  Stepped
<1>1. RingOK' /\ ring' \in RingState /\ sent' \in [Publishers -> 0 .. MaxEvents]
  BY RingIdle, TypeParts DEF Typing
<1>2. Counted'
  BY DEF Typing, Counted
<1>3. Typing'
  BY <1>1, <1>2, TypePartsNext DEF Typing
<1> QED
  BY <1>3 DEF Stepped, Kinds, Quiet

\* dispatch_event_to_subscribers only moves its thread.
LEMMA DeliverStep ==
  ASSUME Typing, NEW t \in Threads, Deliver(t)
  PROVE  Stepped
<1>1. /\ at' \in [Threads -> AtState] /\ InHand'
      /\ \A u \in Threads \ {t} : at'[u] = at[u]
      /\ at[t].pc \in Delivering
      /\ at'[t].pc \in Delivering => at'[t].ev = at[t].ev
      /\ at'[t].pc \notin Queueing
      /\ at'[t].pc = "call" => Scan(t)
  BY DeliverGoes
<1>2. KeepsCallees
  BY <1>1 DEF KeepsCallees
<1>3. ASSUME NEW u \in Threads PROVE KeepsHand(u)
  <2>1. CASE u = t
    BY <1>1, <2>1 DEF KeepsHand, Queueing
  <2>2. CASE u # t
    BY <1>1, <2>2 DEF KeepsHand
  <2> QED
    BY <2>1, <2>2
<1>4. /\ ring' = ring /\ sent' = sent /\ life' = life /\ subs' = subs
      /\ stats' = stats \/ stats' = [stats EXCEPT !.dispatched = @ + 1]
  BY DEF Deliver, ReadLock, Scan, Call, CountDispatched, ReadUnlock
<1>5. /\ stats \in [published : Nat, dispatched : Nat, dropped : Nat]
      /\ life' \in {"up", "signal", "join", "gone"}
      /\ subs' \in [Types -> [Slots -> Handlers \cup {NoHandler}]]
  BY <1>4, TypeParts DEF Typing
<1>6. /\ stats' \in [published : Nat, dispatched : Nat, dropped : Nat]
      /\ stats'.published = stats.published
  BY <1>4, <1>5
<1> QED
  BY <1>1, <1>2, <1>3, <1>4, <1>5, <1>6, QuietStep

\* A thread that moves to a point where it holds no event, or its own, and does
\* not get to call a handler.
LEMMA MoveStep ==
  ASSUME Typing, NEW t \in Threads, at' \in [Threads -> AtState], InHand',
         \A u \in Threads \ {t} : at'[u] = at[u] \/ (u = Dispatcher /\ at'[u].pc = "pop"),
         KeepsHand(t), at'[t].pc # "call",
         ring' = ring, sent' = sent, life' = life, subs' = subs,
         stats' = stats \/ stats' = [stats EXCEPT !.dropped = @ + 1]
  PROVE  Stepped
<1>1. KeepsCallees
  BY DEF KeepsCallees
<1>2. ASSUME NEW u \in Threads PROVE KeepsHand(u)
  BY DEF KeepsHand, Queueing, Delivering
<1>3. /\ stats \in [published : Nat, dispatched : Nat, dropped : Nat]
      /\ life' \in {"up", "signal", "join", "gone"}
      /\ subs' \in [Types -> [Slots -> Handlers \cup {NoHandler}]]
  BY TypeParts DEF Typing
<1>4. /\ stats' \in [published : Nat, dispatched : Nat, dropped : Nat]
      /\ stats'.published = stats.published
  BY <1>3
<1> QED
  BY <1>1, <1>2, <1>3, <1>4, QuietStep

\* The dispatch thread loops, waits and wakes up.
LEMMA LoopStep ==
  ASSUME Typing, DispatchLoop \/ PopEmpty \/ PopTimesOut
  PROVE  Stepped
<1>0. at \in [Threads -> AtState] /\ InHand /\ Dispatcher \in Threads
  BY TypeParts DEF Typing, Threads
<1>1. PICK label \in {"exited", "pop", "wait", "loop"} : Goto(Dispatcher, label)
  BY DEF DispatchLoop, PopEmpty, PopTimesOut
<1>2. \A A \in AtState : A.pc = label /\ A.ev = at[Dispatcher].ev /\ A.slot = at[Dispatcher].slot
                          => HandOK(Dispatcher, A)
  BY DEF HandOK, Delivering, Queueing
<1>3. /\ at' \in [Threads -> AtState] /\ InHand'
      /\ \A u \in Threads \ {Dispatcher} : at'[u] = at[u]
      /\ at'[Dispatcher].pc = label
  BY <1>0, <1>1, <1>2, PcGoes
<1>4. KeepsHand(Dispatcher)
  BY <1>3 DEF KeepsHand, Queueing, Delivering
<1> QED
  BY <1>0, <1>3, <1>4, MoveStep DEF DispatchLoop, PopEmpty, PopTimesOut

\* A publisher is refused, counts the loss, and signals after a push.
LEMMA PublisherMoves ==
  ASSUME Typing, NEW p \in Publishers, PushFull(p) \/ CountDropped(p) \/ Signal(p)
  PROVE  Stepped
<1>0. /\ at \in [Threads -> AtState] /\ InHand /\ p \in Threads /\ p # Dispatcher
      /\ Dispatcher \in Threads /\ Publishers \subseteq Threads
  BY TypeParts, BusAssumption DEF Typing, Threads
<1>1. Between(p) \in AtState /\ HandOK(p, Between(p)) /\ Between(p).pc = "idle"
  BY <1>0, BetweenOK
<1>2. CASE PushFull(p)
  <2>1. at[p].pc = "push" /\ HandOK(p, at[p]) /\ Goto(p, "drop")
    BY <1>0, <1>2 DEF PushFull, InHand
  <2>2. \A A \in AtState : A.pc = "drop" /\ A.ev = at[p].ev /\ A.slot = at[p].slot => HandOK(p, A)
    BY <1>0, <2>1 DEF HandOK, Delivering, Queueing
  <2>3. /\ at' \in [Threads -> AtState] /\ InHand'
        /\ \A u \in Threads \ {p} : at'[u] = at[u]
        /\ at'[p].pc = "drop" /\ at'[p].ev = at[p].ev
    BY <1>0, <2>1, <2>2, PcGoes
  <2>4. KeepsHand(p)
    BY <2>1, <2>3 DEF KeepsHand, Queueing, Delivering
  <2> QED
    BY <1>0, <1>2, <2>3, <2>4, MoveStep DEF PushFull
<1>3. CASE CountDropped(p)
  <2> DEFINE A == Between(p)
  <2>1. at' = [at EXCEPT ![p] = A]
    BY <1>3 DEF CountDropped
  <2> HIDE DEF A
  <2>2. /\ at' \in [Threads -> AtState] /\ InHand'
        /\ \A u \in Threads : at'[u] = IF u = p THEN A ELSE at[u]
    BY <1>0, <1>1, <2>1, ThreadGoes DEF A
  <2>3. A.pc = "idle"
    BY <1>1 DEF A
  <2>4. KeepsHand(p)
    BY <1>0, <2>2, <2>3 DEF KeepsHand, Queueing, Delivering
  <2> QED
    BY <1>0, <1>3, <2>2, <2>3, <2>4, MoveStep DEF CountDropped
<1>4. CASE Signal(p)
  <2> DEFINE A == Between(p)
             f == [at EXCEPT ![p] = A]
  <2>1. at' = Wake(f)
    BY <1>4 DEF Signal
  <2>2. A \in AtState /\ HandOK(p, A) /\ A.pc = "idle"
    BY <1>1
  <2> HIDE DEF A
  <2>3. f \in [Threads -> AtState] /\ \A u \in Threads : f[u] = IF u = p THEN A ELSE at[u]
    BY <1>0, <2>2
  <2> HIDE DEF f
  <2>4. \A u \in Threads : HandOK(u, f[u])
    BY <1>0, <2>2, <2>3 DEF InHand
  <2>5. /\ at' \in [Threads -> AtState] /\ InHand'
        /\ \A q \in Publishers : at'[q] = f[q]
        /\ at'[Dispatcher] = f[Dispatcher] \/ at'[Dispatcher].pc = "pop"
    BY <2>1, <2>3, <2>4, WakeGoes
  <2>6. /\ \A u \in Threads \ {p} : at'[u] = at[u] \/ (u = Dispatcher /\ at'[u].pc = "pop")
        /\ at'[p].pc = "idle"
    BY <1>0, <2>2, <2>3, <2>5 DEF Threads
  <2>7. KeepsHand(p)
    BY <2>6 DEF KeepsHand, Queueing, Delivering
  <2> QED
    BY <1>0, <1>4, <2>5, <2>6, <2>7, MoveStep DEF Signal
<1> QED
  BY <1>2, <1>3, <1>4

\* Subscribing and destroying the bus move no publisher.
LEMMA OtherSteps ==
  ASSUME Typing,
         \/ Destroy \/ DestroySignal \/ DestroyJoined
         \/ \E h \in Handlers, ty \in Types : Subscribe(h, ty) \/ Unsubscribe(h, ty)
  PROVE  Stepped
<1>0. /\ at \in [Threads -> AtState] /\ InHand /\ Dispatcher \in Threads /\ Publishers \subseteq Threads
      /\ stats \in [published : Nat, dispatched : Nat, dropped : Nat]
      /\ life \in {"up", "signal", "join", "gone"}
      /\ subs \in [Types -> [Slots -> Handlers \cup {NoHandler}]]
  BY TypeParts DEF Typing, Threads
<1>1. CASE at' = at
  <2>1. at' \in [Threads -> AtState] /\ InHand' /\ KeepsCallees /\ \A t \in Threads : KeepsHand(t)
    BY <1>0, <1>1 DEF InHand, KeepsCallees, KeepsHand
  <2>2. life' \in {"up", "signal", "join", "gone"} /\ ring' = ring /\ sent' = sent /\ stats' = stats
    BY <1>0 DEF Destroy, DestroySignal, DestroyJoined, Subscribe, Unsubscribe
  <2>3. subs' \in [Types -> [Slots -> Handlers \cup {NoHandler}]]
    <3>1. CASE subs' = subs
      BY <1>0, <3>1
    <3>2. ASSUME NEW h \in Handlers, NEW ty \in Types, NEW i,
                 subs' = [subs EXCEPT ![ty][i] = h] \/ subs' = [subs EXCEPT ![ty][i] = NoHandler]
          PROVE  subs' \in [Types -> [Slots -> Handlers \cup {NoHandler}]]
      BY <1>0, <3>2
    <3> QED
      BY <3>1, <3>2 DEF Destroy, DestroySignal, DestroyJoined, Subscribe, Unsubscribe
  <2> QED
    BY <1>0, <2>1, <2>2, <2>3, QuietStep
<1>2. CASE DestroySignal
  <2>1. at' = Wake(at) /\ \A t \in Threads : HandOK(t, at[t])
    BY <1>0, <1>2 DEF DestroySignal, InHand
  <2>2. /\ at' \in [Threads -> AtState] /\ InHand'
        /\ \A q \in Publishers : at'[q] = at[q]
        /\ at'[Dispatcher] = at[Dispatcher] \/ at'[Dispatcher].pc = "pop"
    BY <1>0, <2>1, WakeGoes
  <2>3. \A t \in Threads : at'[t] = at[t] \/ at'[t].pc = "pop"
    BY <2>2 DEF Threads
  <2>4. KeepsCallees /\ \A t \in Threads : KeepsHand(t)
    BY <2>3 DEF KeepsCallees, KeepsHand, Queueing, Delivering
  <2>5. life' \in {"up", "signal", "join", "gone"} /\ ring' = ring /\ sent' = sent /\ stats' = stats /\ subs' = subs
    BY <1>2 DEF DestroySignal
  <2> QED
    BY <1>0, <2>2, <2>4, <2>5, QuietStep
<1> QED
  BY <1>1, <1>2 DEF Destroy, DestroyJoined, Subscribe, Unsubscribe

\* event_bus_publish makes an event that its thread then holds.
LEMMA PublishStep ==
  ASSUME Typing, NEW p \in Publishers, NEW ty \in Publishes[p], NEW sync \in BOOLEAN, Publish(p, ty, sync)
  PROVE  Stepped
<1>0. /\ at \in [Threads -> AtState] /\ InHand /\ p \in Threads /\ p # Dispatcher
      /\ ring \in RingState /\ RingOK /\ MaxSubs \in Nat \ {0} /\ MaxEvents \in Nat
      /\ stats \in [published : Nat, dispatched : Nat, dropped : Nat]
      /\ sent \in [Publishers -> 0 .. MaxEvents]
      /\ ty \in Types \cup {BadType}
  BY TypeParts, BusAssumption DEF Typing, Threads
<1> DEFINE n == sent[p] + 1
           e == [type |-> ty, from |-> p, seq |-> n, sync |-> sync]
           A == [pc |-> IF sync THEN "lock" ELSE "push", slot |-> 1, ev |-> e]
<1>1. /\ ring' = ring /\ subs' = subs /\ life' = life /\ stats.published < MaxEvents
      /\ sent' = [sent EXCEPT ![p] = n] /\ at' = [at EXCEPT ![p] = A]
      /\ stats' = [stats EXCEPT !.published = @ + 1]
  BY DEF Publish
<1>2. \A q \in Publishers : sent[q] <= stats.published
  BY DEF Typing, Counted
<1>3. n \in 1 .. MaxEvents /\ n <= stats.published + 1
  BY <1>0, <1>1, <1>2
<1> HIDE DEF n
<1>4. e \in Event /\ e.from = p /\ e.seq = n /\ e.sync = sync
  BY <1>0, <1>3 DEF Event
<1> HIDE DEF e
<1>5. A \in AtState /\ A.ev = e /\ A.pc = IF sync THEN "lock" ELSE "push"
  BY <1>0, <1>4 DEF AtState
<1> HIDE DEF A
<1>6. HandOK(p, A)
  BY <1>0, <1>4, <1>5 DEF HandOK, Delivering, Queueing
<1>7. /\ at' \in [Threads -> AtState] /\ InHand'
      /\ \A u \in Threads : at'[u] = IF u = p THEN A ELSE at[u]
  BY <1>0, <1>1, <1>5, <1>6, ThreadGoes
<1>8. KeepsCallees /\ \A u \in Threads \ {p} : KeepsHand(u)
  BY <1>5, <1>7 DEF KeepsCallees, KeepsHand
<1>9. /\ stats' \in [published : Nat, dispatched : Nat, dropped : Nat]
      /\ stats'.published = stats.published + 1
  BY <1>0, <1>1
<1>10. sent' \in [Publishers -> 0 .. MaxEvents] /\ \A q \in Publishers : sent'[q] = IF q = p THEN n ELSE sent[q]
  BY <1>0, <1>1, <1>3
<1>11. Counted'
  <2>1. ASSUME NEW q \in Publishers PROVE sent'[q] <= stats'.published
    BY <1>0, <1>2, <1>3, <1>9, <1>10
  <2>2. stats'.published <= MaxEvents
    BY <1>0, <1>1, <1>9
  <2> QED
    BY <2>1, <2>2 DEF Counted
<1>12. Typing'
  BY <1>0, <1>1, <1>7, <1>9, <1>10, <1>11, RingIdle, TypeParts, TypePartsNext DEF Typing
<1>13. Published(p)
  BY <1>0, <1>1, <1>4, <1>5, <1>7, <1>8 DEF Published, n
<1> QED
  BY <1>8, <1>12, <1>13 DEF Stepped, Kinds

\* event_queue_push moves the event of its thread into the ring.
LEMMA PushStep ==
  ASSUME Typing, NEW p \in Publishers, Push(p)
  PROVE  Stepped
<1>0. /\ at \in [Threads -> AtState] /\ InHand /\ p \in Threads /\ p # Dispatcher
      /\ ring \in RingState /\ RingOK /\ ring.count \in 0 .. Capacity /\ Capacity \in Nat
  BY TypeParts, BusAssumption DEF Typing, Threads, RingState
<1>1. /\ at[p].pc = "push" /\ HandOK(p, at[p]) /\ Goto(p, "signal") /\ ring.count < Capacity
      /\ subs' = subs /\ stats' = stats /\ life' = life /\ sent' = sent
  BY <1>0 DEF Push, Full, InHand
<1> DEFINE e == at[p].ev
<1>2. ring' = [ring EXCEPT !.events[ring.tail] = e, !.tail = (@ + 1) % Capacity, !.count = @ + 1]
  BY DEF Push
<1>3. e \in Event
  BY <1>1 DEF HandOK, Queueing
<1> HIDE DEF e
<1>4. ring' \in RingState /\ RingOK'
  BY <1>0, <1>1, <1>2, <1>3, RingPush
<1>5. \A A \in AtState : A.pc = "signal" /\ A.ev = at[p].ev /\ A.slot = at[p].slot => HandOK(p, A)
  BY <1>0, <1>1 DEF HandOK, Delivering, Queueing
<1>6. /\ at' \in [Threads -> AtState] /\ InHand'
      /\ \A u \in Threads \ {p} : at'[u] = at[u]
      /\ at'[p].pc = "signal" /\ at'[p].ev = at[p].ev
  BY <1>0, <1>1, <1>5, PcGoes
<1>7. KeepsCallees /\ \A u \in Threads : KeepsHand(u)
  BY <1>1, <1>6 DEF KeepsCallees, KeepsHand, Queueing, Delivering
<1>8. Counted'
  BY <1>1 DEF Typing, Counted
<1>9. Typing'
  BY <1>1, <1>4, <1>6, <1>8, TypeParts, TypePartsNext DEF Typing
<1>10. Pushed(p)
  BY <1>1, <1>2, <1>6, <1>7 DEF Pushed, e
<1> QED
  BY <1>7, <1>9, <1>10 DEF Stepped, Kinds

\* event_queue_pop moves the oldest event into the hands of the dispatch thread.
LEMMA PopStep ==
  ASSUME Typing, Pop
  PROVE  Stepped
<1>0. /\ at \in [Threads -> AtState] /\ InHand /\ Dispatcher \in Threads /\ Publishers \subseteq Threads \ {Dispatcher}
      /\ ring \in RingState /\ RingOK /\ MaxSubs \in Nat \ {0}
  BY TypeParts, BusAssumption DEF Typing, Threads
<1>1. /\ ring.count > 0 /\ ring' = [ring EXCEPT !.head = (@ + 1) % Capacity, !.count = @ - 1]
      /\ subs' = subs /\ stats' = stats /\ life' = life /\ sent' = sent
  BY DEF Pop
<1>2. ring' \in RingState /\ RingOK' /\ Oldest \in Event
  BY <1>0, <1>1, RingPop
<1> DEFINE e == Oldest
           A == [pc |-> "lock", ev |-> e, slot |-> 1]
<1>3. at' = [at EXCEPT ![Dispatcher] = A] /\ e \in Event
  BY <1>2 DEF Pop
<1> HIDE DEF e
<1>4. A \in AtState /\ A.pc = "lock" /\ A.ev = e
  BY <1>0, <1>3 DEF AtState
<1> HIDE DEF A
<1>5. HandOK(Dispatcher, A)
  BY <1>3, <1>4 DEF HandOK, Delivering, Queueing
<1>6. /\ at' \in [Threads -> AtState] /\ InHand'
      /\ \A u \in Threads : at'[u] = IF u = Dispatcher THEN A ELSE at[u]
  BY <1>0, <1>3, <1>4, <1>5, ThreadGoes
<1>7. KeepsCallees /\ \A p \in Publishers : KeepsHand(p)
  BY <1>0, <1>4, <1>6 DEF KeepsCallees, KeepsHand
<1>8. Counted'
  BY <1>1 DEF Typing, Counted
<1>9. Typing'
  BY <1>1, <1>2, <1>6, <1>8, TypeParts, TypePartsNext DEF Typing
<1>10. Popped
  BY <1>0, <1>1, <1>4, <1>6, <1>7 DEF Popped, e
<1> QED
  BY <1>7, <1>9, <1>10 DEF Stepped, Kinds

\* Every step of the bus is of one of the kinds, and keeps the typing.
LEMMA NextSteps == Typing /\ [Next]_vars => Stepped
<1> SUFFICES ASSUME Typing, [Next]_vars PROVE Stepped
  OBVIOUS
<1>0. Dispatcher \in Threads /\ Publishers \subseteq Threads
  BY DEF Threads
<1>1. CASE UNCHANGED vars
  <2>1. at \in [Threads -> AtState] /\ InHand /\ stats \in [published : Nat, dispatched : Nat, dropped : Nat]
        /\ life \in {"up", "signal", "join", "gone"} /\ subs \in [Types -> [Slots -> Handlers \cup {NoHandler}]]
    BY TypeParts DEF Typing
  <2>2. at' = at /\ ring' = ring /\ sent' = sent /\ stats' = stats /\ life' = life /\ subs' = subs
    BY <1>1 DEF vars
  <2>3. InHand' /\ KeepsCallees /\ \A t \in Threads : KeepsHand(t)
    BY <2>1, <2>2 DEF InHand, KeepsCallees, KeepsHand
  <2> QED
    BY <2>1, <2>2, <2>3, QuietStep
<1>2. CASE DispatcherStep
  BY <1>0, <1>2, LoopStep, PopStep, DeliverStep DEF DispatcherStep
<1>3. CASE \E p \in Publishers : PublisherStep(p)
  BY <1>0, <1>3, PushStep, PublisherMoves, DeliverStep DEF PublisherStep
<1>4. CASE \E p \in Publishers : \E ty \in Publishes[p], sync \in BOOLEAN : Publish(p, ty, sync)
  BY <1>4, PublishStep
<1>5. CASE \/ Destroy \/ DestroySignal \/ DestroyJoined
           \/ \E h \in Handlers, ty \in Types : Subscribe(h, ty) \/ Unsubscribe(h, ty)
  BY <1>5, OtherSteps
<1> QED
  BY <1>1, <1>2, <1>3, <1>4, <1>5 DEF Next

\* event_bus_create.
LEMMA InitTyping == Init => Typing
<1> SUFFICES ASSUME Init PROVE Typing
  OBVIOUS
<1>0. Capacity \in Nat \ {0} /\ MaxSubs \in Nat \ {0} /\ MaxEvents \in Nat
  BY BusAssumption
<1>1. ring \in RingState /\ ring.head = 0 /\ ring.tail = 0 /\ ring.count = 0
  BY <1>0 DEF Init, EmptyRing, RingState
<1>2. RingOK
  BY <1>0, <1>1 DEF RingOK
<1>3. at \in [Threads -> AtState] /\ InHand
  BY BetweenOK DEF Init, InHand
<1>4. /\ stats \in [published : Nat, dispatched : Nat, dropped : Nat] /\ stats.published = 0
      /\ sent \in [Publishers -> 0 .. MaxEvents] /\ \A p \in Publishers : sent[p] = 0
      /\ subs \in [Types -> [Slots -> Handlers \cup {NoHandler}]] /\ life = "up"
  BY <1>0 DEF Init
<1>5. Counted
  BY <1>0, <1>4 DEF Counted
<1> QED
  BY <1>1, <1>2, <1>3, <1>4, <1>5, TypeParts DEF Typing

\* Always: the typing.
LEMMA AlwaysTyping == Spec => []Typing
<1>1. Typing /\ [Next]_vars => Typing'
  BY NextSteps DEF Stepped
<1> QED
  BY <1>1, InitTyping, PTL DEF Spec

\* Every field of the bus keeps its shape: the indices of the ring stay below
\* EVENT_QUEUE_SIZE, its count at most there, a scan within the table.
THEOREM TypeCorrect == Spec => []TypeOK
<1>1. Typing => TypeOK
  BY DEF Typing
<1> QED
  BY <1>1, AlwaysTyping, PTL

\* The table of a type does not change while a thread reads it.
LEMMA TableStays ==
  ASSUME Typing, [Next]_vars, NEW t \in Threads, at[t].pc \in {"scan", "call", "count"}
  PROVE  subs'[at[t].ev.type] = subs[at[t].ev.type]
<1>1. at[t].ev.type \in Types /\ subs \in [Types -> [Slots -> Handlers \cup {NoHandler}]]
  BY TypeParts DEF Typing, InHand, HandOK
<1>2. ASSUME NEW ty \in Types, Readers(ty) = {}, NEW i, NEW v, subs' = [subs EXCEPT ![ty][i] = v]
      PROVE  subs'[at[t].ev.type] = subs[at[t].ev.type]
  <2>1. at[t].ev.type # ty
    BY <1>2 DEF Readers
  <2> QED
    BY <1>1, <1>2, <2>1
<1>3. subs' = subs \/ \E ty \in Types : Readers(ty) = {} /\ \E i, v : subs' = [subs EXCEPT ![ty][i] = v]
  <2>1. CASE \E h \in Handlers, ty \in Types : Subscribe(h, ty)
    BY <2>1 DEF Subscribe
  <2>2. CASE \E h \in Handlers, ty \in Types : Unsubscribe(h, ty)
    BY <2>2 DEF Unsubscribe
  <2>3. CASE \E p \in Publishers : PublisherStep(p) \/ \E ty \in Publishes[p], sync \in BOOLEAN : Publish(p, ty, sync)
    BY <2>3 DEF PublisherStep, Publish, Push, PushFull, CountDropped, Signal, Deliver, ReadLock, Scan,
                Call, CountDispatched, ReadUnlock
  <2>4. CASE DispatcherStep
    BY <2>4 DEF DispatcherStep, DispatchLoop, Pop, PopEmpty, PopTimesOut, Deliver, ReadLock, Scan,
                Call, CountDispatched, ReadUnlock
  <2>5. CASE Destroy \/ DestroySignal \/ DestroyJoined \/ UNCHANGED vars
    BY <2>5 DEF Destroy, DestroySignal, DestroyJoined, vars
  <2> QED
    BY <2>1, <2>2, <2>3, <2>4, <2>5 DEF Next
<1> QED
  BY <1>2, <1>3

\* The subscriber table of a type changes only while no thread scans it: a step
\* keeps every slot that is about to be called.
LEMMA CalleesStay == Typing /\ CalleeStaysSubscribed /\ [Next]_vars => CalleeStaysSubscribed'
<1> SUFFICES ASSUME Typing, CalleeStaysSubscribed, [Next]_vars, NEW t \in Threads, at'[t].pc = "call"
             PROVE  subs'[at'[t].ev.type][at'[t].slot] # NoHandler
  BY DEF CalleeStaysSubscribed, Callee
<1>0. at' \in [Threads -> AtState] /\ at[t] \in AtState /\ InHand' /\ KeepsCallees
  BY NextSteps, TypeParts, TypePartsNext DEF Stepped, Typing
<1>1. CASE Scan(t)
  <2> DEFINE b == subs[at[t].ev.type][at[t].slot] # NoHandler
             i == at[t].slot + 1
             A == [at[t] EXCEPT !.pc = "call"]
             B == [at[t] EXCEPT !.slot = i]
  <2>1. /\ at[t].pc = "scan" /\ at[t].slot \in Slots /\ subs' = subs
        /\ at' = IF b THEN [at EXCEPT ![t] = A] ELSE [at EXCEPT ![t] = B]
    BY <1>1 DEF Scan
  <2>2. A.ev = at[t].ev /\ A.slot = at[t].slot
    BY <1>0, FieldPc
  <2>3. i \in 1 .. MaxSubs + 1
    BY <2>1, BusAssumption DEF Slots
  <2> HIDE DEF i
  <2>4. B.pc = "scan"
    BY <1>0, <2>1, <2>3, FieldSlot
  <2> HIDE DEF A, B
  <2>5. at \in [Threads -> AtState]
    BY TypeParts DEF Typing
  <2>6. at'[t] = IF b THEN A ELSE B
    BY <2>1, <2>5
  <2> QED
    BY <2>1, <2>2, <2>4, <2>6
<1>2. CASE ~Scan(t)
  <2>1. at'[t] = at[t] /\ subs[at[t].ev.type][at[t].slot] # NoHandler
    BY <1>0, <1>2 DEF KeepsCallees, CalleeStaysSubscribed, Callee
  <2>2. subs'[at[t].ev.type] = subs[at[t].ev.type]
    BY <2>1, TableStays
  <2> QED
    BY <2>1, <2>2
<1> QED
  BY <1>1, <1>2

\* No handler is called through a cleared slot: what dispatch_event_to_subscribers
\* tested under the read lock is still subscribed when it calls.
THEOREM CalleesSubscribed == Spec => []CalleeStaysSubscribed
<1>1. Init => CalleeStaysSubscribed
  <2>1. ASSUME NEW t \in Threads, Init PROVE at[t].pc # "call"
    <3>1. at[t] = Between(t)
      BY <2>1 DEF Init
    <3> QED
      BY <3>1, BetweenOK
  <2> QED
    BY <2>1 DEF CalleeStaysSubscribed
<1> QED
  BY <1>1, AlwaysTyping, CalleesStay, PTL DEF Spec

-----------------------------------------------------------------------------
(***************************************************************************)
(* The bus implements the bounded channel, safety part                     *)
(***************************************************************************)

\* The occupied cells, read from the head, are a sequence of count events.
LEMMA RingSeq ==
  Typing => /\ RingContents \in Seq(Event) /\ Len(RingContents) = ring.count
            /\ ring.count \in 0 .. Capacity /\ Capacity \in Nat \ {0}
<1> SUFFICES ASSUME Typing
             PROVE  /\ RingContents \in Seq(Event) /\ Len(RingContents) = ring.count
                    /\ ring.count \in 0 .. Capacity /\ Capacity \in Nat \ {0}
  OBVIOUS
<1>1. ring.count \in 0 .. Capacity /\ Capacity \in Nat \ {0}
  BY TypeParts, BusAssumption DEF Typing, RingState
<1> DEFINE n == ring.count
<1>2. RingContents \in [1 .. n -> Event]
  BY DEF Typing, RingOK, RingContents
<1>3. n \in Nat
  BY <1>1
<1> HIDE DEF n
<1>4. RingContents \in Seq(Event) /\ Len(RingContents) = n
  BY <1>2, <1>3
<1> QED
  BY <1>1, <1>4 DEF n

\* Two sequences, one with e at its end.
LEMMA IsAppend ==
  ASSUME NEW S, NEW s \in Seq(S), NEW r \in Seq(S), NEW e \in S, Len(r) = Len(s) + 1,
         r[Len(s) + 1] = e, \A i \in 1 .. Len(s) : r[i] = s[i]
  PROVE  r = Append(s, e)
<1>1. /\ Append(s, e) \in Seq(S) /\ Len(Append(s, e)) = Len(s) + 1
      /\ \A i \in 1 .. Len(s) : Append(s, e)[i] = s[i]
      /\ Append(s, e)[Len(s) + 1] = e
  BY AppendProperties
<1>2. ASSUME NEW i \in 1 .. Len(r) PROVE r[i] = Append(s, e)[i]
  BY <1>1
<1> QED
  BY <1>1, <1>2, SeqEqual

\* Two sequences, one without the first element of the other.
LEMMA IsTail ==
  ASSUME NEW S, NEW s \in Seq(S), NEW r \in Seq(S), Len(s) > 0, Len(r) = Len(s) - 1,
         \A i \in 1 .. Len(s) - 1 : r[i] = s[i + 1]
  PROVE  r = Tail(s) /\ s # <<>>
<1>1. s # <<>> /\ Tail(s) \in Seq(S) /\ Len(Tail(s)) = Len(s) - 1
      /\ \A i \in 1 .. Len(s) - 1 : Tail(s)[i] = s[i + 1]
  BY HeadTailProperties, EmptySeq
<1> QED
  BY <1>1, SeqEqual

\* The same after a step.
LEMMA RingSeqNext ==
  Typing' => RingContents' \in Seq(Event) /\ Len(RingContents') = ring'.count
<1>1. Typing => RingContents \in Seq(Event) /\ Len(RingContents) = ring.count
  BY RingSeq
<1>2. (Typing => RingContents \in Seq(Event) /\ Len(RingContents) = ring.count)'
  BY <1>1, PTL
<1> QED
  BY <1>2

\* A step that leaves the ring, the history of it and bus->shutdown alone.
LEMMA ChannelStutters ==
  ASSUME ring' = ring, taken' = taken, refused' = refused, Shutdown' <=> Shutdown
  PROVE  UNCHANGED Channel!vars
<1>1. RingContents' = RingContents
  BY DEF RingContents
<1>2. (~Shutdown)' = ~Shutdown
  OBVIOUS
<1> QED
  BY <1>1, <1>2 DEF Channel!vars

\* Every step of the bus is a step of the channel, or none.
LEMMA ChannelStep == Typing /\ [Next]_vars => [Channel!Next]_(Channel!vars)
<1> SUFFICES ASSUME Typing, [Next]_vars PROVE [Channel!Next]_(Channel!vars)
  OBVIOUS
<1>0. /\ RingContents \in Seq(Event) /\ Len(RingContents) = ring.count
      /\ RingContents' \in Seq(Event) /\ Len(RingContents') = ring'.count
      /\ ring.count \in 0 .. Capacity /\ Capacity \in Nat \ {0}
      /\ ring \in RingState /\ RingOK
  BY NextSteps, RingSeq, RingSeqNext, TypeParts DEF Stepped, Typing
<1>1. ASSUME NEW p \in Publishers, Push(p) PROVE Channel!Next
  <2> DEFINE e == at[p].ev
  <2>1. ring' = [ring EXCEPT !.events[ring.tail] = e, !.tail = (@ + 1) % Capacity, !.count = @ + 1]
    BY <1>1 DEF Push
  <2>2. ring.count < Capacity /\ at[p].pc = "push"
    BY <1>0, <1>1 DEF Push, Full
  <2>3. e \in Event
    BY <2>2 DEF Typing, InHand, HandOK, Queueing, Threads
  <2> HIDE DEF e
  <2>4. /\ ring'.count = ring.count + 1 /\ RingContents'[ring.count + 1] = e
        /\ \A i \in 1 .. ring.count : RingContents'[i] = RingContents[i]
    BY <1>0, <2>1, <2>2, <2>3, RingPush
  <2>5. RingContents' = Append(RingContents, e)
    BY <1>0, <2>3, <2>4, IsAppend
  <2>6. taken' = taken /\ refused' = refused /\ (~Shutdown)' = ~Shutdown
    BY <1>1 DEF Push, Shutdown
  <2>7. Channel!Accept(e)
    BY <1>0, <2>2, <2>5, <2>6 DEF Channel!Accept
  <2> QED
    BY <2>3, <2>7 DEF Channel!Next
<1>2. ASSUME NEW p \in Publishers, PushFull(p) PROVE Channel!Next
  <2>1. ring.count = Capacity /\ at[p].pc = "push"
    BY <1>0, <1>2 DEF PushFull, Full
  <2>2. at[p].ev \in Event
    BY <2>1 DEF Typing, InHand, HandOK, Queueing, Threads
  <2>3. /\ RingContents' = RingContents /\ taken' = taken /\ (~Shutdown)' = ~Shutdown
        /\ refused' = refused \cup {at[p].ev}
    BY <1>2 DEF PushFull, RingContents, Shutdown
  <2>4. Channel!Refuse(at[p].ev)
    BY <1>0, <2>1, <2>3 DEF Channel!Refuse
  <2> QED
    BY <2>2, <2>4 DEF Channel!Next
<1>3. CASE Pop
  <2>1. ring.count > 0 /\ ring' = [ring EXCEPT !.head = (@ + 1) % Capacity, !.count = @ - 1]
    BY <1>3 DEF Pop
  <2>2. /\ ring'.count = ring.count - 1 /\ Oldest = RingContents[1]
        /\ \A i \in 1 .. ring.count - 1 : RingContents'[i] = RingContents[i + 1]
    BY <1>0, <2>1, RingPop
  <2>3. RingContents' = Tail(RingContents) /\ RingContents # <<>>
    BY <1>0, <2>1, <2>2, IsTail
  <2>4. Head(RingContents) = Oldest
    BY <1>0, <2>2, <2>3
  <2>5. taken' = Append(taken, Oldest) /\ refused' = refused /\ (~Shutdown)' = ~Shutdown
    BY <1>3 DEF Pop, Shutdown
  <2>6. Channel!Take
    BY <2>3, <2>4, <2>5 DEF Channel!Take
  <2> QED
    BY <2>6 DEF Channel!Next
<1>4. CASE Destroy
  <2>1. RingContents' = RingContents /\ taken' = taken /\ refused' = refused /\ ~Shutdown /\ (~Shutdown)' = FALSE
    BY <1>4 DEF Destroy, RingContents, Shutdown
  <2>2. Channel!Close
    BY <2>1 DEF Channel!Close
  <2> QED
    BY <2>2 DEF Channel!Next
<1>5. CASE \E p \in Publishers : CountDropped(p) \/ Signal(p) \/ Deliver(p)
                                  \/ \E ty \in Publishes[p], sync \in BOOLEAN : Publish(p, ty, sync)
  <2>1. ring' = ring /\ taken' = taken /\ refused' = refused /\ life' = life
    BY <1>5 DEF CountDropped, Signal, Publish, Deliver, ReadLock, Scan, Call, CountDispatched, ReadUnlock
  <2> QED
    BY <2>1, ChannelStutters DEF Shutdown
<1>6. CASE DispatchLoop \/ PopEmpty \/ PopTimesOut \/ Deliver(Dispatcher)
  <2>1. ring' = ring /\ taken' = taken /\ refused' = refused /\ life' = life
    BY <1>6 DEF DispatchLoop, PopEmpty, PopTimesOut, Deliver, ReadLock, Scan, Call, CountDispatched, ReadUnlock
  <2> QED
    BY <2>1, ChannelStutters DEF Shutdown
<1>7. CASE \/ DestroySignal \/ DestroyJoined \/ UNCHANGED vars
           \/ \E h \in Handlers, ty \in Types : Subscribe(h, ty) \/ Unsubscribe(h, ty)
  <2>1. ring' = ring /\ taken' = taken /\ refused' = refused /\ (Shutdown' <=> Shutdown)
    BY <1>7 DEF DestroySignal, DestroyJoined, vars, Subscribe, Unsubscribe, Shutdown
  <2> QED
    BY <2>1, ChannelStutters
<1> QED
  BY <1>1, <1>2, <1>3, <1>4, <1>5, <1>6, <1>7 DEF Next, DispatcherStep, PublisherStep

\* The ring implements the bounded FIFO channel of EventChannel: event_queue_push
\* refuses an event only when the queue is full, event_queue_pop hands on what was
\* accepted in the order of acceptance, and nothing is accepted, lost or handed
\* on twice otherwise.
THEOREM ChannelSafety == Spec => Channel!Init /\ [][Channel!Next]_(Channel!vars)
<1>1. Init => Channel!Init
  <2> SUFFICES ASSUME Init PROVE Channel!Init
    OBVIOUS
  <2>1. RingContents \in Seq(Event) /\ Len(RingContents) = ring.count
    BY InitTyping, RingSeq
  <2>2. ring.count = 0
    BY DEF Init, EmptyRing
  <2>3. RingContents = <<>>
    BY <2>1, <2>2, EmptySeq
  <2>4. taken = <<>> /\ refused = {} /\ (~Shutdown) = TRUE
    BY DEF Init, Shutdown
  <2> QED
    BY <2>3, <2>4 DEF Channel!Init
<1> QED
  BY <1>1, ChannelStep, AlwaysTyping, PTL DEF Spec

-----------------------------------------------------------------------------
(***************************************************************************)
(* The order of publication                                                *)
(***************************************************************************)

\* The parts of the typing that the order needs, before and after a step.
LEMMA OrderTypes ==
  ASSUME Typing, Typing'
  PROVE  /\ at \in [Threads -> AtState] /\ at' \in [Threads -> AtState] /\ InHand /\ InHand'
         /\ ring \in RingState /\ RingOK /\ RingOK'
         /\ ring.count \in 0 .. Capacity /\ Capacity \in Nat \ {0} /\ MaxEvents \in Nat
         /\ sent \in [Publishers -> 0 .. MaxEvents] /\ sent' \in [Publishers -> 0 .. MaxEvents]
         /\ Dispatcher \in Threads /\ Publishers \subseteq Threads /\ Dispatcher \notin Publishers
         /\ \A p \in Publishers : at[p].pc = "push" => at[p].ev \in Event
BY TypeParts, TypePartsNext, BusAssumption DEF Typing, Threads, RingState, InHand, HandOK, Queueing

\* The fields of an event.
LEMMA EventFields ==
  ASSUME NEW x \in Event
  PROVE  x.from \in Publishers /\ x.seq \in 1 .. MaxEvents /\ x.seq \in Int /\ x.sync \in BOOLEAN
BY BusAssumption DEF Event

\* x was published before the events that are in the ring.
BeforeRing(x) == \A i \in 1 .. ring.count : Precedes(x, RingContents[i])

\* x was published before the events that are about to be pushed.
BeforePush(x) == \A p \in Publishers : at[p].pc = "push" => Precedes(x, at[p].ev)

\* An event is published after what was published so far.
LEMMA StaysBeforePush ==
  ASSUME Typing, Stepped, NEW x \in Event, x.seq <= sent[x.from], BeforePush(x)
  PROVE  x.seq <= sent'[x.from] /\ BeforePush(x)'
<1>0. /\ Publishers \subseteq Threads /\ Dispatcher \notin Publishers
      /\ sent \in [Publishers -> 0 .. MaxEvents] /\ MaxEvents \in Nat
  BY OrderTypes DEF Stepped
<1>1. x.from \in Publishers /\ x.seq \in Int
  BY EventFields
<1>2. ASSUME sent' = sent, \A p \in Publishers : KeepsHand(p)
      PROVE  x.seq <= sent'[x.from] /\ BeforePush(x)'
  <2>1. ASSUME NEW p \in Publishers, at'[p].pc = "push" PROVE Precedes(x, at'[p].ev)
    BY <1>2, <2>1 DEF KeepsHand, BeforePush, Queueing
  <2> QED
    BY <1>2, <2>1 DEF BeforePush
<1>3. ASSUME NEW q \in Publishers, Published(q)
      PROVE  x.seq <= sent'[x.from] /\ BeforePush(x)'
  <2>1. \A p \in Publishers : sent'[p] = IF p = q THEN sent[q] + 1 ELSE sent[p]
    BY <1>0, <1>3 DEF Published
  <2>2. x.seq <= sent'[x.from]
    BY <1>0, <1>1, <2>1
  <2>3. ASSUME NEW p \in Publishers, at'[p].pc = "push" PROVE Precedes(x, at'[p].ev)
    <3>1. CASE p = q
      BY <1>0, <1>1, <1>3, <3>1 DEF Published, Precedes
    <3>2. CASE p # q
      <4>1. KeepsHand(p)
        BY <1>0, <1>3, <3>2 DEF Published
      <4> QED
        BY <2>3, <4>1 DEF KeepsHand, BeforePush, Queueing
    <3> QED
      BY <3>1, <3>2
  <2> QED
    BY <2>2, <2>3 DEF BeforePush
<1> QED
  BY <1>0, <1>2, <1>3 DEF Stepped, Kinds, Quiet, Popped, Pushed

\* What is pushed was about to be, and popping makes the ring shorter.
LEMMA StaysBeforeRing ==
  ASSUME Typing, Stepped, NEW x \in Event, BeforeRing(x), BeforePush(x)
  PROVE  BeforeRing(x)'
<1>0. /\ Publishers \subseteq Threads
      /\ ring \in RingState /\ RingOK /\ ring.count \in 0 .. Capacity /\ Capacity \in Nat \ {0}
      /\ \A p \in Publishers : at[p].pc = "push" => at[p].ev \in Event
  BY OrderTypes DEF Stepped
<1>1. CASE ring' = ring
  BY <1>1 DEF BeforeRing, RingContents
<1>2. ASSUME NEW p \in Publishers, Pushed(p) PROVE BeforeRing(x)'
  <2> DEFINE e == at[p].ev
  <2>1. /\ ring.count < Capacity /\ e \in Event /\ Precedes(x, e)
        /\ ring' = [ring EXCEPT !.events[ring.tail] = e, !.tail = (@ + 1) % Capacity, !.count = @ + 1]
    BY <1>0, <1>2 DEF Pushed, BeforePush
  <2> HIDE DEF e
  <2>2. /\ ring'.count = ring.count + 1 /\ RingContents'[ring.count + 1] = e
        /\ \A i \in 1 .. ring.count : RingContents'[i] = RingContents[i]
    BY <1>0, <2>1, RingPush
  <2>3. ASSUME NEW i \in 1 .. ring'.count PROVE Precedes(x, RingContents'[i])
    <3>1. i = ring.count + 1 \/ i \in 1 .. ring.count
      BY <1>0, <2>2
    <3> QED
      BY <2>1, <2>2, <3>1 DEF BeforeRing
  <2> QED
    BY <2>3 DEF BeforeRing
<1>3. CASE Popped
  <2>1. /\ ring'.count = ring.count - 1
        /\ \A i \in 1 .. ring.count - 1 : RingContents'[i] = RingContents[i + 1]
    BY <1>0, <1>3, RingPop DEF Popped
  <2>2. ASSUME NEW i \in 1 .. ring'.count PROVE Precedes(x, RingContents'[i])
    <3>1. i + 1 \in 1 .. ring.count /\ i \in 1 .. ring.count - 1
      BY <1>0, <2>1
    <3> QED
      BY <2>1, <3>1 DEF BeforeRing
  <2> QED
    BY <2>2 DEF BeforeRing
<1> QED
  BY <1>1, <1>2, <1>3 DEF Stepped, Kinds, Quiet, Published

\* What is past stays past.
LEMMA PastStays ==
  ASSUME Typing, Stepped, NEW x \in Event, Past(x)
  PROVE  Past(x)'
<1>1. x.seq <= sent[x.from] /\ BeforeRing(x) /\ BeforePush(x)
  BY DEF Past, BeforeRing, BeforePush
<1>2. x.seq <= sent'[x.from] /\ BeforePush(x)' /\ BeforeRing(x)'
  BY <1>1, StaysBeforePush, StaysBeforeRing
<1> QED
  BY <1>2 DEF Past, BeforeRing, BeforePush

\* A publisher holds its own, latest event.
LEMMA AuthorsStay ==
  ASSUME Typing, Stepped, Authors
  PROVE  Authors'
<1>0. /\ Publishers \subseteq Threads /\ Dispatcher \notin Publishers
      /\ sent \in [Publishers -> 0 .. MaxEvents] /\ MaxEvents \in Nat
  BY OrderTypes DEF Stepped
<1> SUFFICES ASSUME NEW p \in Publishers
             PROVE  /\ at'[p].pc \in Queueing => ~at'[p].ev.sync
                    /\ at'[p].pc \in Delivering => at'[p].ev.sync
                    /\ at'[p].pc \in Queueing \cup Delivering
                         => at'[p].ev.from = p /\ at'[p].ev.seq = sent'[p]
  BY DEF Authors
<1>1. CASE KeepsHand(p) /\ sent'[p] = sent[p]
  BY <1>1 DEF KeepsHand, Authors
<1>2. CASE Published(p)
  <2>1. sent'[p] = sent[p] + 1
    BY <1>0, <1>2 DEF Published
  <2> QED
    BY <1>2, <2>1 DEF Published, Queueing, Delivering
<1>3. ASSUME NEW q \in Publishers, q # p, Published(q) PROVE KeepsHand(p) /\ sent'[p] = sent[p]
  BY <1>0, <1>3 DEF Published
<1> QED
  BY <1>0, <1>1, <1>2, <1>3 DEF Stepped, Kinds, Quiet, Popped, Pushed

\* The ring stays in order of publication.
LEMMA RingOrderStays ==
  ASSUME Typing, Stepped, Authors, RingOrder
  PROVE  RingOrder'
<1>0. /\ Publishers \subseteq Threads /\ Dispatcher \notin Publishers
      /\ ring \in RingState /\ RingOK /\ ring.count \in 0 .. Capacity /\ Capacity \in Nat \ {0}
      /\ \A p \in Publishers : at[p].pc = "push" => at[p].ev \in Event
  BY OrderTypes DEF Stepped
<1>1. ASSUME NEW i \in 1 .. ring.count
      PROVE  LET x == RingContents[i] IN
             /\ x \in Event /\ ~x.sync /\ BeforePush(x) /\ x.seq <= sent[x.from]
             /\ \A j \in 1 .. ring.count : i < j => Precedes(x, RingContents[j])
  BY <1>0 DEF RingOrder, RingOK, BeforePush
<1>2. ASSUME NEW i \in 1 .. ring.count, NEW x, x = RingContents[i]
      PROVE  ~x.sync /\ x.seq <= sent'[x.from] /\ BeforePush(x)'
  BY <1>1, <1>2, StaysBeforePush
<1>3. ASSUME \A i \in 1 .. ring'.count :
               \E x : /\ x = RingContents'[i]
                      /\ ~x.sync /\ x.seq <= sent'[x.from] /\ BeforePush(x)'
                      /\ \A j \in 1 .. ring'.count : i < j => Precedes(x, RingContents'[j])
      PROVE  RingOrder'
  <2> SUFFICES ASSUME NEW i \in 1 .. ring'.count
               PROVE  /\ ~RingContents'[i].sync
                      /\ RingContents'[i].seq <= sent'[RingContents'[i].from]
                      /\ \A j \in 1 .. ring'.count : i < j => Precedes(RingContents'[i], RingContents'[j])
                      /\ \A p \in Publishers : at'[p].pc = "push" => Precedes(RingContents'[i], at'[p].ev)
    BY DEF RingOrder
  <2>1. PICK x : /\ x = RingContents'[i]
                 /\ ~x.sync /\ x.seq <= sent'[x.from] /\ BeforePush(x)'
                 /\ \A j \in 1 .. ring'.count : i < j => Precedes(x, RingContents'[j])
    BY <1>3
  <2>2. \A p \in Publishers : at'[p].pc = "push" => Precedes(x, at'[p].ev)
    BY <2>1 DEF BeforePush
  <2> QED
    BY <2>1, <2>2
<1>4. CASE ring' = ring
  <2>1. RingContents' = RingContents
    BY <1>4 DEF RingContents
  <2> QED
    BY <1>1, <1>2, <1>3, <1>4, <2>1
<1>5. ASSUME NEW p \in Publishers, Pushed(p) PROVE RingOrder'
  <2>0. PICK e : e = at[p].ev
    OBVIOUS
  <2>1. /\ ring.count < Capacity /\ e \in Event /\ at[p].pc = "push" /\ sent' = sent
        /\ ring' = [ring EXCEPT !.events[ring.tail] = e, !.tail = (@ + 1) % Capacity, !.count = @ + 1]
    BY <1>0, <1>5, <2>0 DEF Pushed
  <2>2. /\ ring'.count = ring.count + 1 /\ RingContents'[ring.count + 1] = e
        /\ \A i \in 1 .. ring.count : RingContents'[i] = RingContents[i]
    BY <1>0, <2>1, RingPush
  <2>3. ~e.sync /\ e.from = p /\ e.seq = sent[p] /\ e.seq \in Int
    BY <2>0, <2>1, EventFields DEF Authors, Queueing
  <2>4. BeforePush(e)'
    <3>1. ASSUME NEW q \in Publishers, at'[q].pc = "push" PROVE Precedes(e, at'[q].ev)
      <4>1. q # p /\ KeepsHand(q)
        BY <1>0, <1>5, <3>1 DEF Pushed
      <4>2. at'[q].ev.from = q
        BY <3>1, <4>1 DEF KeepsHand, Queueing, Authors
      <4> QED
        BY <2>3, <4>1, <4>2 DEF Precedes
    <3> QED
      BY <3>1 DEF BeforePush
  <2>5. ASSUME NEW i \in 1 .. ring'.count
        PROVE  \E x : /\ x = RingContents'[i]
                      /\ ~x.sync /\ x.seq <= sent'[x.from] /\ BeforePush(x)'
                      /\ \A j \in 1 .. ring'.count : i < j => Precedes(x, RingContents'[j])
    <3>1. CASE i = ring.count + 1
      <4>1. \A j \in 1 .. ring'.count : ~(i < j)
        BY <1>0, <2>2, <3>1
      <4>2. e.seq <= sent'[e.from]
        BY <2>1, <2>3
      <4>3. RingContents'[i] = e
        BY <2>2, <3>1
      <4> QED
        BY <2>3, <2>4, <4>1, <4>2, <4>3
    <3>2. CASE i \in 1 .. ring.count
      <4>1. PICK x : x = RingContents[i]
        OBVIOUS
      <4>2. /\ x = RingContents'[i] /\ ~x.sync /\ x.seq <= sent'[x.from] /\ BeforePush(x)' /\ BeforePush(x)
            /\ \A j \in 1 .. ring.count : i < j => Precedes(x, RingContents[j])
        BY <1>1, <1>2, <2>2, <3>2, <4>1
      <4>3. Precedes(x, e)
        BY <2>0, <2>1, <4>2 DEF BeforePush
      <4>4. ASSUME NEW j \in 1 .. ring'.count, i < j PROVE Precedes(x, RingContents'[j])
        <5>1. j = ring.count + 1 \/ j \in 1 .. ring.count
          BY <1>0, <2>2
        <5> QED
          BY <2>2, <4>2, <4>3, <4>4, <5>1
      <4> QED
        BY <4>2, <4>4
    <3>3. i = ring.count + 1 \/ i \in 1 .. ring.count
      BY <1>0, <2>2
    <3> QED
      BY <3>1, <3>2, <3>3
  <2> QED
    BY <1>3, <2>5
<1>6. CASE Popped
  <2>1. /\ ring'.count = ring.count - 1
        /\ \A i \in 1 .. ring.count - 1 : RingContents'[i] = RingContents[i + 1]
    BY <1>0, <1>6, RingPop DEF Popped
  <2>2. ASSUME NEW i \in 1 .. ring'.count
        PROVE  \E x : /\ x = RingContents'[i]
                      /\ ~x.sync /\ x.seq <= sent'[x.from] /\ BeforePush(x)'
                      /\ \A j \in 1 .. ring'.count : i < j => Precedes(x, RingContents'[j])
    <3>1. \A j \in 1 .. ring'.count : j + 1 \in 1 .. ring.count /\ j \in 1 .. ring.count - 1
      BY <1>0, <2>1
    <3>2. PICK k \in 1 .. ring.count : k = i + 1
      BY <3>1
    <3>3. PICK x : x = RingContents[k]
      OBVIOUS
    <3>4. /\ x = RingContents'[i] /\ ~x.sync /\ x.seq <= sent'[x.from] /\ BeforePush(x)'
          /\ \A j \in 1 .. ring.count : k < j => Precedes(x, RingContents[j])
      BY <1>1, <1>2, <2>1, <3>1, <3>2, <3>3
    <3>5. ASSUME NEW j \in 1 .. ring'.count, i < j PROVE Precedes(x, RingContents'[j])
      <4>1. k < j + 1
        BY <3>2, <3>5
      <4> QED
        BY <2>1, <3>1, <3>4, <4>1
    <3> QED
      BY <3>4, <3>5
  <2> QED
    BY <1>3, <2>2
<1> QED
  BY <1>4, <1>5, <1>6 DEF Stepped, Kinds, Quiet, Published

\* What the dispatch thread pops came before the rest of the ring.
LEMMA HandOrderStays ==
  ASSUME Typing, Stepped, Authors, RingOrder, HandOrder
  PROVE  HandOrder'
<1>0. /\ ring \in RingState /\ RingOK /\ ring.count \in 0 .. Capacity /\ Capacity \in Nat \ {0}
      /\ Dispatcher \in Threads /\ Dispatcher \notin Publishers /\ InHand
  BY OrderTypes DEF Stepped
<1>1. ASSUME KeepsHand(Dispatcher) PROVE HandOrder'
  <2> SUFFICES ASSUME at'[Dispatcher].pc \in Delivering
               PROVE  ~at'[Dispatcher].ev.sync /\ Past(at[Dispatcher].ev)'
    BY DEF HandOrder
  <2>1. PICK x : x = at[Dispatcher].ev
    OBVIOUS
  <2>2. at[Dispatcher].pc \in Delivering /\ at'[Dispatcher].ev = x /\ x \in Event
    BY <1>0, <1>1, <2>1 DEF KeepsHand, InHand, HandOK
  <2>3. ~x.sync /\ Past(x)
    BY <2>1, <2>2 DEF HandOrder
  <2>4. Past(x)'
    BY <2>2, <2>3, PastStays
  <2> QED
    BY <2>2, <2>3, <2>4 DEF Past
<1>2. CASE Popped
  <2>1. /\ ring'.count = ring.count - 1 /\ Oldest = RingContents[1] /\ Oldest \in Event
        /\ \A i \in 1 .. ring.count - 1 : RingContents'[i] = RingContents[i + 1]
    BY <1>0, <1>2, RingPop DEF Popped
  <2>2. PICK x : x = Oldest
    OBVIOUS
  <2>3. 1 \in 1 .. ring.count
    BY <1>0, <1>2 DEF Popped
  <2>4. /\ ~x.sync /\ x.seq <= sent[x.from] /\ BeforePush(x)
        /\ \A j \in 1 .. ring.count : 1 < j => Precedes(x, RingContents[j])
    BY <2>1, <2>2, <2>3 DEF RingOrder, BeforePush
  <2>5. x.seq <= sent'[x.from] /\ BeforePush(x)'
    BY <2>1, <2>2, <2>4, StaysBeforePush
  <2>6. BeforeRing(x)'
    <3>1. ASSUME NEW i \in 1 .. ring'.count PROVE Precedes(x, RingContents'[i])
      <4>1. i \in 1 .. ring.count - 1 /\ i + 1 \in 1 .. ring.count /\ 1 < i + 1
        BY <1>0, <2>1
      <4> QED
        BY <2>1, <2>4, <4>1
    <3> QED
      BY <3>1 DEF BeforeRing
  <2>7. at'[Dispatcher].ev = x
    BY <1>2, <2>2 DEF Popped
  <2> QED
    BY <2>4, <2>5, <2>6, <2>7 DEF HandOrder, Past, BeforeRing, BeforePush
<1> QED
  BY <1>0, <1>1, <1>2 DEF Stepped, Kinds, Quiet, Published, Pushed

\* What a handler has been called with came before what is popped next.
LEMMA HandedStays ==
  ASSUME Typing, Stepped, NEW x \in Event, Handed(x)
  PROVE  Handed(x)'
<1>0. /\ ring \in RingState /\ RingOK /\ ring.count \in 0 .. Capacity /\ Capacity \in Nat \ {0}
      /\ Dispatcher \in Threads /\ Dispatcher \notin Publishers
  BY OrderTypes DEF Stepped
<1>1. CASE x.sync
  BY <1>1 DEF Handed
<1>2. CASE ~x.sync
  <2>1. Past(x) /\ Past(x)'
    BY <1>2, PastStays DEF Handed
  <2>2. ASSUME KeepsHand(Dispatcher), at'[Dispatcher].pc \in Delivering, x.from = at'[Dispatcher].ev.from
        PROVE  x.seq <= at'[Dispatcher].ev.seq
    BY <1>2, <2>2 DEF Handed, KeepsHand
  <2>3. ASSUME Popped, x.from = at'[Dispatcher].ev.from
        PROVE  x.seq <= at'[Dispatcher].ev.seq
    <3>1. Oldest = RingContents[1] /\ Oldest \in Event
      BY <1>0, <2>3, RingPop DEF Popped
    <3>2. 1 \in 1 .. ring.count
      BY <1>0, <2>3 DEF Popped
    <3>3. Precedes(x, Oldest) /\ at'[Dispatcher].ev = Oldest
      BY <2>1, <2>3, <3>1, <3>2 DEF Past, Popped
    <3>4. x.seq \in Int /\ Oldest.seq \in Int
      BY <3>1, EventFields
    <3> QED
      BY <2>3, <3>3, <3>4 DEF Precedes
  <2>4. at'[Dispatcher].pc \in Delivering /\ x.from = at'[Dispatcher].ev.from => x.seq <= at'[Dispatcher].ev.seq
    BY <1>0, <2>2, <2>3 DEF Stepped, Kinds, Quiet, Published, Pushed
  <2> QED
    BY <2>1, <2>4 DEF Handed
<1> QED
  BY <1>1, <1>2

\* Handlers are called in Call only.
LEMMA GotSteps == [Next]_vars => got' = got \/ \E t \in Threads : Call(t)
<1> SUFFICES ASSUME [Next]_vars, ~\E t \in Threads : Call(t) PROVE got' = got
  OBVIOUS
<1>1. CASE DispatcherStep
  BY <1>1 DEF DispatcherStep, DispatchLoop, Pop, PopEmpty, PopTimesOut, Deliver, ReadLock, Scan,
              CountDispatched, ReadUnlock, Threads
<1>2. CASE \E p \in Publishers : PublisherStep(p) \/ \E ty \in Publishes[p], sync \in BOOLEAN : Publish(p, ty, sync)
  BY <1>2 DEF PublisherStep, Publish, Push, PushFull, CountDropped, Signal, Deliver, ReadLock, Scan,
              CountDispatched, ReadUnlock, Threads
<1>3. CASE \/ Destroy \/ DestroySignal \/ DestroyJoined \/ UNCHANGED vars
           \/ \E h \in Handlers, ty \in Types : Subscribe(h, ty) \/ Unsubscribe(h, ty)
  BY <1>3 DEF Destroy, DestroySignal, DestroyJoined, vars, Subscribe, Unsubscribe
<1> QED
  BY <1>1, <1>2, <1>3 DEF Next

\* x may be followed by y in what a handler is called with.
InOrder(x, y) == x.from = y.from /\ ~x.sync /\ ~y.sync => x.seq <= y.seq

\* The event of a call is handed over, and follows what was.
LEMMA CallInOrder ==
  ASSUME Typing, Stepped, Order, NEW t \in Threads, Call(t), NEW e, e = at[t].ev
  PROVE  /\ e \in Event /\ Handed(e)'
         /\ \A x \in Event : Handed(x) => InOrder(x, e)
<1>0. Deliver(t) /\ at[t].pc \in Delivering /\ HandOK(t, at[t]) /\ Threads = Publishers \cup {Dispatcher}
  BY DEF Call, Deliver, Delivering, Typing, InHand, Threads
<1>1. e \in Event
  BY <1>0 DEF HandOK
<1>2. CASE t # Dispatcher
  <2>1. e.sync
    BY <1>0, <1>2 DEF Order, Authors
  <2> QED
    BY <1>1, <2>1 DEF Handed, InOrder
<1>3. CASE t = Dispatcher
  <2>1. ~e.sync /\ Past(e)
    BY <1>0, <1>3 DEF Order, HandOrder
  <2>2. Past(e)'
    BY <1>1, <2>1, PastStays
  <2>3. at'[Dispatcher].pc \in Delivering => at'[Dispatcher].ev = e
    BY <1>0, <1>3, DeliverGoes
  <2>4. e.seq \in Int
    BY <1>1, EventFields
  <2>5. Handed(e)'
    BY <2>1, <2>2, <2>3, <2>4 DEF Handed
  <2>6. ASSUME NEW x \in Event, Handed(x) PROVE InOrder(x, e)
    BY <1>0, <1>3, <2>6 DEF Handed, InOrder
  <2> QED
    BY <1>1, <2>5, <2>6
<1> QED
  BY <1>2, <1>3

\* A handler gets the event, or nothing.
LEMMA GotStays ==
  ASSUME Typing, Stepped, [Next]_vars, Order
  PROVE  GotOrder' /\ PublicationOrder'
<1>0. /\ got \in [Handlers -> Seq(Event)]
      /\ \A h \in Handlers : \A i \in 1 .. Len(got[h]) : Handed(got[h][i])
      /\ \A h \in Handlers : \A i, j \in 1 .. Len(got[h]) : i < j => InOrder(got[h][i], got[h][j])
  BY DEF Order, GotOrder, PublicationOrder, InOrder
<1>1. ASSUME got' \in [Handlers -> Seq(Event)],
             \A h \in Handlers : \A i \in 1 .. Len(got'[h]) : \E x : x = got'[h][i] /\ Handed(x)',
             \A h \in Handlers : \A i, j \in 1 .. Len(got'[h]) : i < j => InOrder(got'[h][i], got'[h][j])
      PROVE  GotOrder' /\ PublicationOrder'
  <2>1. PublicationOrder'
    BY <1>1 DEF PublicationOrder, InOrder
  <2>2. ASSUME NEW h \in Handlers, NEW i \in 1 .. Len(got'[h]) PROVE Handed(got[h][i])'
    <3>1. PICK x : x = got'[h][i] /\ Handed(x)'
      BY <1>1
    <3> QED
      BY <3>1 DEF Handed, Past
  <2> QED
    BY <1>1, <2>1, <2>2 DEF GotOrder
<1>2. ASSUME NEW h \in Handlers, NEW i \in 1 .. Len(got[h])
      PROVE  \E x : x = got[h][i] /\ x \in Event /\ Handed(x) /\ Handed(x)'
  <2>1. PICK x : x = got[h][i]
    OBVIOUS
  <2>2. x \in Event /\ Handed(x)
    BY <1>0, <2>1
  <2> QED
    BY <2>1, <2>2, HandedStays
<1>3. CASE got' = got
  BY <1>0, <1>1, <1>2, <1>3
<1>4. ASSUME NEW t \in Threads, Call(t) PROVE GotOrder' /\ PublicationOrder'
  <2>1. PICK e : e = at[t].ev
    OBVIOUS
  <2>2. /\ e \in Event /\ Handed(e)'
        /\ \A x \in Event : Handed(x) => InOrder(x, e)
    BY <1>4, <2>1, CallInOrder
  <2>3. got' = [h \in Handlers |-> IF h = Callee(t) THEN Append(got[h], e) ELSE got[h]]
    BY <1>4, <2>1 DEF Call
  <2>4. ASSUME NEW h \in Handlers
        PROVE  /\ got'[h] \in Seq(Event)
               /\ \A i \in 1 .. Len(got'[h]) : \E x : x = got'[h][i] /\ Handed(x)'
               /\ \A i, j \in 1 .. Len(got'[h]) : i < j => InOrder(got'[h][i], got'[h][j])
    <3>1. CASE got'[h] = got[h]
      BY <1>0, <1>2, <3>1
    <3>2. CASE got'[h] = Append(got[h], e)
      <4>0. PICK s \in Seq(Event), n \in Nat : s = got[h] /\ n = Len(s)
        BY <1>0
      <4>1. PICK r : r = got'[h]
        OBVIOUS
      <4>2. /\ r \in Seq(Event) /\ Len(r) = n + 1 /\ r[n + 1] = e
            /\ \A i \in 1 .. n : r[i] = s[i]
        BY <2>2, <3>2, <4>0, <4>1, AppendProperties
      <4>3. \A i \in 1 .. Len(r) : i = n + 1 \/ i \in 1 .. n
        BY <4>2
      <4>4. ASSUME NEW i \in 1 .. n PROVE \E x : x = s[i] /\ x \in Event /\ Handed(x) /\ Handed(x)'
        BY <1>2, <4>0
      <4>5. ASSUME NEW i \in 1 .. Len(r) PROVE \E x : x = r[i] /\ Handed(x)'
        BY <2>2, <4>2, <4>3, <4>4
      <4>6. ASSUME NEW i \in 1 .. Len(r), NEW j \in 1 .. Len(r), i < j PROVE InOrder(r[i], r[j])
        <5>1. i \in 1 .. n
          BY <4>2, <4>6
        <5>2. CASE j = n + 1
          <6>1. PICK x : x = s[i] /\ x \in Event /\ Handed(x)
            BY <4>4, <5>1
          <6> QED
            BY <2>2, <4>2, <5>1, <5>2, <6>1
        <5>3. CASE j \in 1 .. n
          BY <1>0, <4>0, <4>2, <4>6, <5>1, <5>3
        <5> QED
          BY <4>3, <5>2, <5>3
      <4> QED
        BY <4>1, <4>2, <4>5, <4>6
    <3> QED
      BY <2>3, <3>1, <3>2
  <2>5. got' \in [Handlers -> Seq(Event)]
    BY <2>3, <2>4
  <2> QED
    BY <1>1, <2>4, <2>5
<1> QED
  BY <1>3, <1>4, GotSteps

\* The order is kept by every step.
LEMMA OrderStays == Typing /\ Order /\ [Next]_vars => Order'
<1> SUFFICES ASSUME Typing, Order, [Next]_vars PROVE Order'
  OBVIOUS
<1>1. Stepped
  BY NextSteps
<1>2. Authors' /\ RingOrder' /\ HandOrder'
  BY <1>1, AuthorsStay, RingOrderStays, HandOrderStays DEF Order
<1> QED
  BY <1>1, <1>2, GotStays DEF Order

\* An empty bus is in order.
LEMMA InitOrder == Init => Order
<1> SUFFICES ASSUME Init PROVE Order
  OBVIOUS
<1>1. ring.count = 0
  BY DEF Init, EmptyRing
<1>2. ASSUME NEW t \in Threads PROVE at[t].pc \notin Delivering \cup Queueing
  <2>1. at[t] = Between(t)
    BY DEF Init
  <2> QED
    BY <2>1, BetweenOK DEF Delivering, Queueing
<1>3. RingOrder
  BY <1>1 DEF RingOrder
<1>4. Authors /\ HandOrder
  BY <1>2 DEF Authors, HandOrder, Threads
<1>5. got \in [Handlers -> Seq(Event)] /\ \A h \in Handlers : Len(got[h]) = 0
  BY DEF Init
<1>6. GotOrder /\ PublicationOrder
  BY <1>5 DEF GotOrder, PublicationOrder
<1> QED
  BY <1>3, <1>4, <1>6 DEF Order

\* Queued events of one publisher reach every handler in the order in which
\* event_bus_publish was called, whatever else is published, delivered
\* synchronously, subscribed or destroyed meanwhile.
THEOREM OrderOfPublication == Spec => []PublicationOrder
<1>1. Order => PublicationOrder
  BY DEF Order
<1> QED
  BY <1>1, AlwaysTyping, InitOrder, OrderStays, PTL DEF Spec
=============================================================================
