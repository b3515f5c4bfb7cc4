------------------------ MODULE EventDeliveryProofs ------------------------
(***************************************************************************)
(* dispatch_event_to_subscribers calls every subscriber of the table once  *)
(* with the event it dispatches, for any number of publishers, handlers    *)
(* and types, any ring and any table size.                                 *)
(***************************************************************************)
EXTENDS EventBusProofs, FiniteSetTheorems

-----------------------------------------------------------------------------
(***************************************************************************)
(* The inductive invariant                                                 *)
(***************************************************************************)

\* The calls, of those in s, that passed event e.
Calls(s, e) == {i \in 1 .. Len(s) : s[i] = e}

\* The first k slots of a table that hold h.
Held(table, h, k) == {i \in 1 .. k : table[i] = h}

\* The number of slots that a thread with entry a is done with.
Scanned(a) == IF a.pc = "count" THEN a.slot ELSE a.slot - 1

\* A thread whose entry is a has called each handler g[_] once for each slot of
\* the table that it is done with, and nobody else has called with its event.
SoFar(a, tables, g) ==
  a.pc \in Delivering =>
    /\ a.pc = "lock" => a.slot = 1
    /\ \A h \in Handlers :
         Cardinality(Calls(g[h], a.ev)) = Cardinality(Held(tables[a.ev.type], h, Scanned(a)))

Progress == \A t \in Threads : SoFar(at[t], subs, got)

\* Handlers are called with events that were published.
GotSent == \A h \in Handlers : \A i \in 1 .. Len(got[h]) : got[h][i].seq <= sent[got[h][i].from]

Delivery == Order /\ GotSent /\ Progress

-----------------------------------------------------------------------------
(***************************************************************************)
(* Lemmas about calls and slots                                            *)
(***************************************************************************)

\* A call with x adds to the calls with x, and to no others.
LEMMA CallsAppend ==
  ASSUME NEW s \in Seq(Event), NEW e, NEW x \in Event
  PROVE  /\ IsFiniteSet(Calls(s, e)) /\ Len(s) + 1 \notin Calls(s, e)
         /\ Calls(Append(s, x), e) = IF x = e THEN Calls(s, e) \cup {Len(s) + 1} ELSE Calls(s, e)
<1>0. PICK n \in Nat : n = Len(s)
  OBVIOUS
<1>1. IsFiniteSet(1 .. n)
  BY FS_Interval
<1>2. Calls(s, e) \subseteq 1 .. n
  BY <1>0 DEF Calls
<1>3. IsFiniteSet(Calls(s, e)) /\ n + 1 \notin Calls(s, e)
  BY <1>1, <1>2, FS_Subset
<1>4. PICK r : r = Append(s, x)
  OBVIOUS
<1>5. Len(r) = n + 1 /\ r[n + 1] = x /\ \A i \in 1 .. n : r[i] = s[i]
  BY <1>0, <1>4, AppendProperties
<1>6. \A i : i \in 1 .. n + 1 <=> i \in 1 .. n \/ i = n + 1
  OBVIOUS
<1>7. Calls(r, e) = IF x = e THEN Calls(s, e) \cup {n + 1} ELSE Calls(s, e)
  BY <1>0, <1>5, <1>6 DEF Calls
<1> QED
  BY <1>0, <1>3, <1>4, <1>7

\* The next slot counts for the handler it holds.
LEMMA HeldNext ==
  ASSUME NEW table, NEW h, NEW k \in Nat
  PROVE  /\ IsFiniteSet(Held(table, h, k)) /\ k + 1 \notin Held(table, h, k)
         /\ Held(table, h, k + 1) = IF table[k + 1] = h THEN Held(table, h, k) \cup {k + 1} ELSE Held(table, h, k)
<1>1. IsFiniteSet(1 .. k) /\ Held(table, h, k) \subseteq 1 .. k
  BY FS_Interval DEF Held
<1>2. IsFiniteSet(Held(table, h, k)) /\ k + 1 \notin Held(table, h, k)
  BY <1>1, FS_Subset
<1>3. \A i : i \in 1 .. k + 1 <=> i \in 1 .. k \/ i = k + 1
  OBVIOUS
<1> QED
  BY <1>2, <1>3 DEF Held

\* Before the scan no slot is done, and no call belongs to an event that no
\* handler was called with.
LEMMA NoneYet ==
  ASSUME NEW s \in Seq(Event), NEW e, \A i \in 1 .. Len(s) : s[i] # e, NEW table, NEW h
  PROVE  Cardinality(Calls(s, e)) = Cardinality(Held(table, h, 0))
<1>1. Calls(s, e) = {}
  BY DEF Calls
<1>2. Held(table, h, 0) = {}
  BY DEF Held
<1> QED
  BY <1>1, <1>2

-----------------------------------------------------------------------------
(***************************************************************************)
(* Steps                                                                   *)
(***************************************************************************)

\* A thread begins to deliver an event that it has just popped or made.
Fresh(t) ==
  /\ at'[t].pc = "lock" /\ at'[t].slot = 1 /\ got' = got
  /\ \/ t = Dispatcher /\ ring.count > 0 /\ at'[t].ev = Oldest
     \/ t \in Publishers /\ at'[t].ev.sync /\ at'[t].ev.from = t /\ at'[t].ev.seq = sent[t] + 1

\* A thread that moves to a program point outside dispatch_event_to_subscribers.
LEMMA GotoElsewhere ==
  ASSUME at \in [Threads -> AtState], NEW u \in Threads,
         NEW label \in {"exited", "pop", "wait", "loop", "drop", "signal"}, Goto(u, label),
         NEW t \in Threads, at'[t].pc \in Delivering
  PROVE  at'[t] = at[t]
<1> DEFINE A == [at[u] EXCEPT !.pc = label]
<1>1. at' = [at EXCEPT ![u] = A]
  BY DEF Goto
<1>2. A.pc = label
  BY FieldPc
<1> HIDE DEF A
<1> QED
  BY <1>1, <1>2 DEF Delivering

\* event_bus_publish_sync goes on to deliver, event_bus_publish does not.
LEMMA PublishTurns ==
  ASSUME Typing, NEW p \in Publishers, NEW ty, NEW sync \in BOOLEAN, Publish(p, ty, sync),
         NEW t \in Threads, at'[t].pc \in Delivering
  PROVE  at'[t] = at[t] \/ Fresh(t)
<1>0. at \in [Threads -> AtState] /\ p \in Threads
  BY TypeParts DEF Typing, Threads
<1> DEFINE e == [type |-> ty, from |-> p, seq |-> sent[p] + 1, sync |-> sync]
           A == [pc |-> IF sync THEN "lock" ELSE "push", slot |-> 1, ev |-> e]
<1>1. at' = [at EXCEPT ![p] = A] /\ got' = got
  BY DEF Publish
<1>2. e.from = p /\ e.seq = sent[p] + 1 /\ e.sync = sync
  OBVIOUS
<1> HIDE DEF e
<1>3. A.ev = e /\ A.slot = 1 /\ A.pc = IF sync THEN "lock" ELSE "push"
  OBVIOUS
<1> HIDE DEF A
<1>4. at'[t] = IF t = p THEN A ELSE at[t]
  BY <1>0, <1>1
<1> QED
  BY <1>1, <1>2, <1>3, <1>4 DEF Fresh, Delivering

\* event_queue_pop gives the dispatch thread an event to deliver.
LEMMA PopTurns ==
  ASSUME Typing, Pop, NEW t \in Threads
  PROVE  at'[t] = at[t] \/ Fresh(t)
<1>0. at \in [Threads -> AtState] /\ Dispatcher \in Threads
  BY TypeParts DEF Typing, Threads
<1> DEFINE A == [pc |-> "lock", ev |-> Oldest, slot |-> 1]
<1>1. at' = [at EXCEPT ![Dispatcher] = A] /\ got' = got /\ ring.count > 0
  BY DEF Pop
<1>2. A.pc = "lock" /\ A.ev = Oldest /\ A.slot = 1
  OBVIOUS
<1> HIDE DEF A
<1>3. at'[t] = IF t = Dispatcher THEN A ELSE at[t]
  BY <1>0, <1>1
<1> QED
  BY <1>1, <1>2, <1>3 DEF Fresh

\* Waking the dispatch thread up starts no delivery, nor does leaving the bus.
LEMMA WakeTurns ==
  ASSUME NEW f \in [Threads -> AtState], \A u \in Threads : HandOK(u, f[u]), at' = Wake(f),
         NEW t \in Threads, at'[t].pc \in Delivering
  PROVE  at'[t] = f[t]
BY WakeGoes DEF Threads, Delivering

\* A publisher that is not delivering does not begin to, unless it publishes.
LEMMA PublisherTurns ==
  ASSUME Typing, NEW p \in Publishers, Push(p) \/ PushFull(p) \/ CountDropped(p) \/ Signal(p),
         NEW t \in Threads, at'[t].pc \in Delivering
  PROVE  at'[t] = at[t]
<1>0. /\ at \in [Threads -> AtState] /\ InHand /\ p \in Threads /\ p # Dispatcher
  BY TypeParts, BusAssumption DEF Typing, Threads
<1>1. CASE Push(p) \/ PushFull(p)
  BY <1>0, <1>1, GotoElsewhere DEF Push, PushFull
<1> DEFINE A == Between(p)
           f == [at EXCEPT ![p] = A]
<1>2. A \in AtState /\ HandOK(p, A) /\ A.pc = "idle"
  BY <1>0, BetweenOK
<1>3. (CountDropped(p) => at' = f) /\ (Signal(p) => at' = Wake(f))
  BY DEF CountDropped, Signal
<1> HIDE DEF A
<1>4. f \in [Threads -> AtState] /\ \A u \in Threads : f[u] = IF u = p THEN A ELSE at[u]
  BY <1>0, <1>2
<1> HIDE DEF f
<1>5. \A u \in Threads : HandOK(u, f[u])
  BY <1>0, <1>2, <1>4 DEF InHand
<1>6. CASE CountDropped(p) \/ Signal(p)
  <2>1. at'[t] = f[t]
    BY <1>3, <1>4, <1>5, <1>6, WakeTurns
  <2> QED
    BY <1>2, <1>4, <2>1 DEF Delivering
<1> QED
  BY <1>1, <1>6

\* A thread that delivers an event was at it already, takes a step of
\* dispatch_event_to_subscribers, or begins to.
LEMMA Turns ==
  ASSUME Typing, [Next]_vars, NEW t \in Threads, at'[t].pc \in Delivering
  PROVE  at'[t] = at[t] \/ Deliver(t) \/ Fresh(t)
<1>0. /\ at \in [Threads -> AtState] /\ InHand /\ Dispatcher \in Threads /\ Publishers \subseteq Threads
  BY TypeParts DEF Typing, Threads
<1>1. ASSUME NEW u \in Threads, Deliver(u) PROVE at'[t] = at[t] \/ Deliver(t)
  BY <1>1, DeliverGoes
<1>2. CASE DispatcherStep
  <2>1. CASE DispatchLoop \/ PopEmpty \/ PopTimesOut
    <3>1. PICK label \in {"exited", "pop", "wait", "loop"} : Goto(Dispatcher, label)
      BY <2>1 DEF DispatchLoop, PopEmpty, PopTimesOut
    <3> QED
      BY <1>0, <3>1, GotoElsewhere
  <2> QED
    BY <1>0, <1>1, <1>2, <2>1, PopTurns DEF DispatcherStep
<1>3. CASE \E p \in Publishers : PublisherStep(p)
  BY <1>0, <1>1, <1>3, PublisherTurns DEF PublisherStep
<1>4. CASE \E p \in Publishers : \E ty \in Publishes[p], sync \in BOOLEAN : Publish(p, ty, sync)
  BY <1>4, PublishTurns
<1>5. CASE DestroySignal
  BY <1>0, <1>5, WakeTurns DEF DestroySignal, InHand
<1>6. CASE \/ Destroy \/ DestroyJoined \/ UNCHANGED vars
           \/ \E h \in Handlers, ty \in Types : Subscribe(h, ty) \/ Unsubscribe(h, ty)
  BY <1>6 DEF Destroy, DestroyJoined, vars, Subscribe, Unsubscribe
<1> QED
  BY <1>2, <1>3, <1>4, <1>5, <1>6 DEF Next

-----------------------------------------------------------------------------
(***************************************************************************)
(* Every thread delivers an event of its own                               *)
(***************************************************************************)

\* Two threads never deliver the same event: a publisher delivers its own, which
\* it published synchronously, the dispatch thread one from the ring.
LEMMA DistinctEvents ==
  ASSUME Order, NEW t \in Threads, NEW u \in Threads, t # u,
         at[t].pc \in Delivering, at[u].pc \in Delivering
  PROVE  at[t].ev # at[u].ev
BY DEF Order, Authors, HandOrder, Threads

\* No handler has been called with an event whose delivery begins.
LEMMA FreshIsNew ==
  ASSUME Typing, Order, GotSent, NEW t \in Threads, Fresh(t),
         NEW h \in Handlers, NEW i \in 1 .. Len(got[h])
  PROVE  got[h][i] # at'[t].ev
<1>0. PICK x : x = got[h][i]
  OBVIOUS
<1>1. x \in Event /\ Handed(x) /\ x.seq <= sent[x.from]
  BY <1>0 DEF Order, GotOrder, GotSent
<1>2. x.seq \in Int /\ x.from \in Publishers /\ sent \in [Publishers -> 0 .. MaxEvents] /\ MaxEvents \in Nat
  BY <1>1, EventFields, TypeParts, BusAssumption DEF Typing
<1>3. CASE t \in Publishers /\ at'[t].ev.from = t /\ at'[t].ev.seq = sent[t] + 1
  <2>1. x.from = t => x.seq # sent[t] + 1
    BY <1>1, <1>2
  <2> QED
    BY <1>0, <1>3, <2>1
<1>4. CASE t = Dispatcher /\ ring.count > 0 /\ at'[t].ev = Oldest
  <2>1. ring \in RingState /\ RingOK /\ ring.count \in 0 .. Capacity /\ Capacity \in Nat \ {0}
    BY TypeParts, BusAssumption DEF Typing, RingState
  <2>2. 1 \in 1 .. ring.count
    BY <1>4, <2>1
  <2>3. RingContents[1] = Oldest
    <3>1. ring.head \in 0 .. Capacity - 1 /\ ring.head \in Int
      BY <2>1 DEF RingState
    <3>2. (ring.head + 1 - 1) % Capacity = ring.head
      BY <2>1, <3>1
    <3> QED
      BY <2>2, <3>2 DEF RingContents, Oldest
  <2>4. ~Oldest.sync
    BY <2>2, <2>3 DEF Order, RingOrder
  <2>5. CASE x.sync
    BY <1>0, <1>4, <2>4, <2>5
  <2>6. CASE ~x.sync
    <3>1. Precedes(x, Oldest)
      BY <1>1, <2>2, <2>3, <2>6 DEF Handed, Past
    <3> QED
      BY <1>0, <1>2, <1>4, <3>1 DEF Precedes
  <2> QED
    BY <2>5, <2>6
<1> QED
  BY <1>3, <1>4 DEF Fresh

\* Handlers go on being called with events that were published.
LEMMA GotSentStays ==
  ASSUME Typing, Stepped, Order, GotSent, [Next]_vars
  PROVE  GotSent'
<1>0. /\ got \in [Handlers -> Seq(Event)]
      /\ sent \in [Publishers -> 0 .. MaxEvents] /\ MaxEvents \in Nat
      /\ Threads = Publishers \cup {Dispatcher} /\ InHand
  BY TypeParts, BusAssumption DEF Typing, Order, GotOrder, Threads
<1>1. \A p \in Publishers : sent'[p] = sent[p] \/ sent'[p] = sent[p] + 1
  BY <1>0 DEF Stepped, Kinds, Quiet, Popped, Published, Pushed
<1>2. ASSUME NEW x \in Event, x.seq <= sent[x.from] PROVE x.seq <= sent'[x.from]
  <2>1. x.seq \in Int /\ x.from \in Publishers /\ sent[x.from] \in Int
    BY <1>0, EventFields
  <2> QED
    BY <1>1, <1>2, <2>1
<1>3. ASSUME NEW h \in Handlers, NEW i \in 1 .. Len(got[h])
      PROVE  got[h][i].seq <= sent'[got[h][i].from]
  BY <1>0, <1>2 DEF GotSent
<1>4. CASE got' = got
  BY <1>3, <1>4 DEF GotSent
<1>5. ASSUME NEW t \in Threads, Call(t) PROVE GotSent'
  <2>1. PICK e : e = at[t].ev
    OBVIOUS
  <2>2. e \in Event /\ at[t].pc \in Delivering
    BY <1>0, <1>5, <2>1 DEF Call, Delivering, InHand, HandOK
  <2>3. e.seq <= sent[e.from]
    <3>1. CASE t = Dispatcher
      BY <2>1, <2>2, <3>1 DEF Order, HandOrder, Past
    <3>2. CASE t \in Publishers
      <4>1. e.from = t /\ e.seq = sent[t] /\ e.seq \in Int
        BY <2>1, <2>2, <3>2, EventFields DEF Order, Authors
      <4> QED
        BY <4>1
    <3> QED
      BY <1>0, <3>1, <3>2
  <2>4. e.seq <= sent'[e.from]
    BY <1>2, <2>2, <2>3
  <2>5. got' = [h \in Handlers |-> IF h = Callee(t) THEN Append(got[h], e) ELSE got[h]]
    BY <1>5, <2>1 DEF Call
  <2>6. ASSUME NEW h \in Handlers, NEW i \in 1 .. Len(got'[h]) PROVE got'[h][i].seq <= sent'[got'[h][i].from]
    <3>1. CASE got'[h] = got[h]
      BY <1>3, <3>1
    <3>2. CASE got'[h] = Append(got[h], e)
      <4>0. PICK s \in Seq(Event), n \in Nat : s = got[h] /\ n = Len(s)
        BY <1>0
      <4>1. PICK r : r = got'[h]
        OBVIOUS
      <4>2. Len(r) = n + 1 /\ r[n + 1] = e /\ \A j \in 1 .. n : r[j] = s[j]
        BY <2>2, <3>2, <4>0, <4>1, AppendProperties
      <4>3. i = n + 1 \/ i \in 1 .. n
        BY <4>1, <4>2
      <4> QED
        BY <1>3, <2>4, <4>0, <4>1, <4>2, <4>3
    <3> QED
      BY <2>5, <3>1, <3>2
  <2> QED
    BY <2>6 DEF GotSent
<1> QED
  BY <1>4, <1>5, GotSteps

-----------------------------------------------------------------------------
(***************************************************************************)
(* Calls and slots agree                                                   *)
(***************************************************************************)

\* A thread that another thread's step leaves where it is.
LEMMA OthersProgress ==
  ASSUME Typing, Delivery, [Next]_vars, NEW t \in Threads, at'[t] = at[t], ~Deliver(t)
  PROVE  SoFar(at'[t], subs', got')
<1> SUFFICES ASSUME at[t].pc \in Delivering
             PROVE  /\ at[t].pc = "lock" => at[t].slot = 1
                    /\ \A h \in Handlers : Cardinality(Calls(got'[h], at[t].ev))
                         = Cardinality(Held(subs'[at[t].ev.type], h, Scanned(at[t])))
  BY DEF SoFar
<1>0. PICK a, e : a = at[t] /\ e = at[t].ev
  OBVIOUS
<1>1. /\ a.pc = "lock" => a.slot = 1
      /\ \A h \in Handlers : Cardinality(Calls(got[h], e)) = Cardinality(Held(subs[e.type], h, Scanned(a)))
  BY <1>0 DEF Delivery, Progress, SoFar
<1>2. got \in [Handlers -> Seq(Event)] /\ InHand
  BY DEF Typing, Delivery, Order, GotOrder
<1>3. ASSUME NEW h \in Handlers PROVE Calls(got'[h], e) = Calls(got[h], e)
  <2>1. ASSUME NEW u \in Threads, Call(u) PROVE Calls(got'[h], e) = Calls(got[h], e)
    <3>1. PICK x : x = at[u].ev
      OBVIOUS
    <3>2. u # t /\ at[u].pc \in Delivering /\ x \in Event
      BY <1>2, <2>1, <3>1 DEF Deliver, Call, Delivering, InHand, HandOK
    <3>3. x # e
      BY <1>0, <3>1, <3>2, DistinctEvents DEF Delivery
    <3>4. got' = [k \in Handlers |-> IF k = Callee(u) THEN Append(got[k], x) ELSE got[k]]
      BY <2>1, <3>1 DEF Call
    <3>5. got'[h] = Append(got[h], x) \/ got'[h] = got[h]
      BY <3>4
    <3>6. got[h] \in Seq(Event)
      BY <1>2
    <3>7. Calls(Append(got[h], x), e) = Calls(got[h], e)
      BY <3>2, <3>3, <3>6, CallsAppend
    <3> QED
      BY <3>5, <3>7
  <2> QED
    BY <2>1, GotSteps
<1>4. ASSUME NEW h \in Handlers
      PROVE  Held(subs'[e.type], h, Scanned(a)) = Held(subs[e.type], h, Scanned(a))
  <2>1. CASE a.pc = "lock"
    <3>1. Scanned(a) = 0
      BY <1>1, <2>1 DEF Scanned
    <3> QED
      BY <3>1 DEF Held
  <2>2. CASE a.pc # "lock"
    <3>1. subs'[e.type] = subs[e.type]
      BY <1>0, <2>2, TableStays DEF Delivering
    <3> QED
      BY <3>1
  <2> QED
    BY <2>1, <2>2
<1> QED
  BY <1>0, <1>1, <1>3, <1>4

\* What a step of dispatch_event_to_subscribers does to the number of slots that
\* its thread is done with: one more after a call and after an empty slot.
LEMMA ScanGoes ==
  ASSUME Typing, NEW t \in Threads, Deliver(t), at'[t].pc \in Delivering,
         at[t].pc = "lock" => at[t].slot = 1
  PROVE  /\ subs' = subs /\ at'[t].ev = at[t].ev /\ at'[t].pc # "lock"
         /\ \/ got' = got /\ Scanned(at'[t]) = Scanned(at[t])
            \/ /\ at[t].slot \in Slots /\ Scanned(at[t]) = at[t].slot - 1 /\ Scanned(at'[t]) = at[t].slot
               /\ (got' = got /\ Callee(t) = NoHandler) \/ Call(t)
<1>0. at \in [Threads -> AtState] /\ at[t] \in AtState /\ HandOK(t, at[t])
  BY TypeParts DEF Typing, InHand
<1>1. at'[t].ev = at[t].ev /\ subs' = subs
  BY DeliverGoes DEF Deliver, ReadLock, Scan, Call, CountDispatched, ReadUnlock
<1>2. CASE ReadLock(t)
  <2>1. CASE at[t].ev.type \in Types
    <3> DEFINE A == [at[t] EXCEPT !.pc = "scan"]
    <3>1. at' = [at EXCEPT ![t] = A] /\ at[t].pc = "lock" /\ got' = got
      BY <1>2, <2>1 DEF ReadLock
    <3>2. A.pc = "scan" /\ A.slot = at[t].slot
      BY <1>0, FieldPc
    <3> HIDE DEF A
    <3>3. at'[t] = A
      BY <1>0, <3>1
    <3> QED
      BY <1>1, <3>1, <3>2, <3>3 DEF Scanned
  <2>2. CASE at[t].ev.type \notin Types
    <3>1. at' = [at EXCEPT ![t] = Between(t)]
      BY <1>2, <2>2 DEF ReadLock
    <3>2. at'[t].pc \in {"loop", "idle"}
      BY <1>0, <3>1, BetweenOK
    <3> QED
      BY <3>2 DEF Delivering
  <2> QED
    BY <2>1, <2>2
<1>3. CASE Scan(t)
  <2>0. at[t].pc = "scan" /\ at[t].slot \in Slots /\ got' = got
    BY <1>3 DEF Scan
  <2>1. CASE Callee(t) # NoHandler
    <3> DEFINE A == [at[t] EXCEPT !.pc = "call"]
    <3>1. at' = [at EXCEPT ![t] = A]
      BY <1>3, <2>1 DEF Scan, Callee
    <3>2. A.pc = "call" /\ A.slot = at[t].slot
      BY <1>0, FieldPc
    <3> HIDE DEF A
    <3>3. at'[t] = A
      BY <1>0, <3>1
    <3> QED
      BY <1>1, <2>0, <3>2, <3>3 DEF Scanned
  <2>2. CASE Callee(t) = NoHandler
    <3> DEFINE i == at[t].slot + 1
               A == [at[t] EXCEPT !.slot = i]
    <3>1. at' = [at EXCEPT ![t] = A]
      BY <1>3, <2>2 DEF Scan, Callee
    <3>2. i \in 1 .. MaxSubs + 1 /\ i - 1 = at[t].slot
      BY <2>0, BusAssumption DEF Slots
    <3> HIDE DEF i
    <3>3. A.pc = "scan" /\ A.slot = i
      BY <1>0, <2>0, <3>2, FieldSlot
    <3> HIDE DEF A
    <3>4. at'[t] = A
      BY <1>0, <3>1
    <3> QED
      BY <1>1, <2>0, <2>2, <3>2, <3>3, <3>4 DEF Scanned
  <2> QED
    BY <2>1, <2>2
<1>4. CASE Call(t)
  <2> DEFINE A == [at[t] EXCEPT !.pc = "count"]
  <2>1. at' = [at EXCEPT ![t] = A] /\ at[t].pc = "call"
    BY <1>4 DEF Call, Goto
  <2>2. A.pc = "count" /\ A.slot = at[t].slot
    BY <1>0, FieldPc
  <2> HIDE DEF A
  <2>3. at'[t] = A /\ at[t].slot \in Slots
    BY <1>0, <2>1 DEF HandOK
  <2> QED
    BY <1>1, <1>4, <2>1, <2>2, <2>3 DEF Scanned
<1>5. CASE CountDispatched(t)
  <2> DEFINE i == at[t].slot + 1
             B == [at[t] EXCEPT !.slot = i]
             A == [B EXCEPT !.pc = "scan"]
  <2>0. at[t].pc = "count" /\ at[t].slot \in Slots /\ got' = got
    BY <1>0, <1>5 DEF CountDispatched, HandOK
  <2>1. at' = [at EXCEPT ![t] = A]
    BY <1>5 DEF CountDispatched
  <2>2. i \in 1 .. MaxSubs + 1 /\ i - 1 = at[t].slot
    BY <2>0, BusAssumption DEF Slots
  <2> HIDE DEF i
  <2>3. B \in AtState /\ B.slot = i
    BY <1>0, <2>2, FieldSlot
  <2> HIDE DEF B
  <2>4. A.pc = "scan" /\ A.slot = i
    BY <2>3, FieldPc
  <2> HIDE DEF A
  <2>5. at'[t] = A
    BY <1>0, <2>1
  <2> QED
    BY <1>1, <2>0, <2>2, <2>4, <2>5 DEF Scanned
<1>6. CASE ReadUnlock(t)
  <2>1. at' = [at EXCEPT ![t] = Between(t)]
    BY <1>6 DEF ReadUnlock
  <2>2. at'[t].pc \in {"loop", "idle"}
    BY <1>0, <2>1, BetweenOK
  <2> QED
    BY <2>2 DEF Delivering
<1> QED
  BY <1>2, <1>3, <1>4, <1>5, <1>6 DEF Deliver

\* A thread that takes a step of its delivery.
LEMMA DeliverProgress ==
  ASSUME Typing, Delivery, NEW t \in Threads, Deliver(t)
  PROVE  SoFar(at'[t], subs', got')
<1> SUFFICES ASSUME at'[t].pc \in Delivering PROVE SoFar(at'[t], subs', got')
  BY DEF SoFar
<1>0. PICK a, A, e : a = at[t] /\ A = at'[t] /\ e = at[t].ev
  OBVIOUS
<1>1. a.pc \in Delivering
  BY <1>0, DeliverGoes
<1>2. /\ a.pc = "lock" => a.slot = 1
      /\ \A h \in Handlers : Cardinality(Calls(got[h], e)) = Cardinality(Held(subs[e.type], h, Scanned(a)))
  BY <1>0, <1>1 DEF Delivery, Progress, SoFar
<1>3. /\ subs' = subs /\ A.ev = e /\ A.pc # "lock"
      /\ \/ got' = got /\ Scanned(A) = Scanned(a)
         \/ /\ a.slot \in Slots /\ Scanned(a) = a.slot - 1 /\ Scanned(A) = a.slot
            /\ (got' = got /\ Callee(t) = NoHandler) \/ Call(t)
  BY <1>0, <1>2, ScanGoes
<1>4. SUFFICES ASSUME NEW h \in Handlers
               PROVE  Cardinality(Calls(got'[h], e)) = Cardinality(Held(subs[e.type], h, Scanned(A)))
  BY <1>0, <1>3 DEF SoFar
<1>5. CASE got' = got /\ Scanned(A) = Scanned(a)
  BY <1>2, <1>5
<1>6. CASE /\ a.slot \in Slots /\ Scanned(a) = a.slot - 1 /\ Scanned(A) = a.slot
           /\ (got' = got /\ Callee(t) = NoHandler) \/ Call(t)
  <2>1. PICK k \in Nat : k = a.slot - 1 /\ a.slot = k + 1
    BY <1>6, BusAssumption DEF Slots
  <2>2. PICK table : table = subs[e.type]
    OBVIOUS
  <2>3. Callee(t) = table[k + 1] /\ Cardinality(Calls(got[h], e)) = Cardinality(Held(table, h, k))
    BY <1>0, <1>2, <1>6, <2>1, <2>2 DEF Callee
  <2>4. /\ IsFiniteSet(Held(table, h, k)) /\ k + 1 \notin Held(table, h, k)
        /\ Held(table, h, k + 1) = IF Callee(t) = h THEN Held(table, h, k) \cup {k + 1} ELSE Held(table, h, k)
    <3>1. /\ IsFiniteSet(Held(table, h, k)) /\ k + 1 \notin Held(table, h, k)
          /\ Held(table, h, k + 1) = IF table[k + 1] = h THEN Held(table, h, k) \cup {k + 1} ELSE Held(table, h, k)
      BY HeldNext
    <3> QED
      BY <2>3, <3>1
  <2>5. CASE Callee(t) # h
    <3>1. got'[h] = got[h]
      BY <1>6, <2>5 DEF Call
    <3> QED
      BY <1>6, <2>1, <2>2, <2>3, <2>4, <2>5, <3>1
  <2>6. CASE Callee(t) = h
    <3>1. h # NoHandler /\ got[h] \in Seq(Event) /\ e \in Event
      BY <1>0, <1>1, BusAssumption DEF Delivery, Order, GotOrder, Typing, InHand, HandOK
    <3>2. got'[h] = Append(got[h], e)
      BY <1>0, <1>6, <2>6, <3>1 DEF Call
    <3>3. /\ IsFiniteSet(Calls(got[h], e)) /\ Len(got[h]) + 1 \notin Calls(got[h], e)
          /\ Calls(got'[h], e) = Calls(got[h], e) \cup {Len(got[h]) + 1}
      BY <3>1, <3>2, CallsAppend
    <3>4. Cardinality(Calls(got'[h], e)) = Cardinality(Calls(got[h], e)) + 1
      BY <3>3, FS_AddElement
    <3>5. Cardinality(Held(table, h, k + 1)) = Cardinality(Held(table, h, k)) + 1
      BY <2>4, <2>6, FS_AddElement
    <3> QED
      BY <1>6, <2>1, <2>2, <2>3, <3>4, <3>5
  <2> QED
    BY <2>5, <2>6
<1> QED
  BY <1>3, <1>5, <1>6

\* A thread that begins a delivery.
LEMMA FreshProgress ==
  ASSUME Typing, Delivery, NEW t \in Threads, Fresh(t)
  PROVE  SoFar(at'[t], subs', got')
<1>0. PICK A, e : A = at'[t] /\ e = A.ev
  OBVIOUS
<1>1. A.pc = "lock" /\ A.slot = 1 /\ got' = got /\ Scanned(A) = 0
  BY <1>0 DEF Fresh, Scanned
<1>2. ASSUME NEW h \in Handlers
      PROVE  Cardinality(Calls(got'[h], e)) = Cardinality(Held(subs'[e.type], h, Scanned(A)))
  <2>1. got[h] \in Seq(Event) /\ \A i \in 1 .. Len(got[h]) : got[h][i] # e
    BY <1>0, FreshIsNew DEF Delivery, Order, GotOrder
  <2> QED
    BY <1>1, <2>1, NoneYet
<1> QED
  BY <1>0, <1>1, <1>2 DEF SoFar

\* Every step keeps the number of calls equal to the number of slots.
LEMMA DeliveryStays == Typing /\ Delivery /\ [Next]_vars => Delivery'
<1> SUFFICES ASSUME Typing, Delivery, [Next]_vars PROVE Delivery'
  OBVIOUS
<1>1. Stepped
  BY NextSteps
<1>2. Order' /\ GotSent'
  BY <1>1, OrderStays, GotSentStays DEF Delivery
<1>3. ASSUME NEW t \in Threads PROVE SoFar(at'[t], subs', got')
  <2>1. CASE at'[t].pc \notin Delivering
    BY <2>1 DEF SoFar
  <2>2. CASE at'[t].pc \in Delivering
    BY <2>2, Turns, OthersProgress, DeliverProgress, FreshProgress
  <2> QED
    BY <2>1, <2>2
<1> QED
  BY <1>2, <1>3 DEF Delivery, Progress

\* When dispatch_event_to_subscribers is about to release the table, it has called
\* every handler with its event once for each slot the handler holds, whatever is
\* published, dispatched, subscribed or unsubscribed meanwhile.
THEOREM EverySlotIsCalled == Spec => []DeliveredToEverySlot
<1>1. Init => Delivery
  <2> SUFFICES ASSUME Init PROVE Delivery
    OBVIOUS
  <2>1. ASSUME NEW t \in Threads PROVE SoFar(at[t], subs, got)
    <3>1. at[t] = Between(t)
      BY DEF Init
    <3> QED
      BY <3>1, BetweenOK DEF SoFar, Delivering
  <2>2. GotSent
    <3>1. \A h \in Handlers : Len(got[h]) = 0
      BY DEF Init
    <3> QED
      BY <3>1 DEF GotSent
  <2> QED
    BY <2>1, <2>2, InitOrder DEF Delivery, Progress
<1>2. Typing /\ Delivery => DeliveredToEverySlot
  <2> SUFFICES ASSUME Typing, Delivery, NEW t \in Threads, at[t].pc = "scan", at[t].slot > MaxSubs,
                      NEW h \in Handlers
               PROVE  Cardinality({i \in Slots : subs[at[t].ev.type][i] = h})
                        = Cardinality({i \in 1 .. Len(got[h]) : got[h][i] = at[t].ev})
    BY DEF DeliveredToEverySlot
  <2>1. at[t].slot \in 1 .. MaxSubs + 1 /\ MaxSubs \in Nat
    BY TypeParts, BusAssumption DEF Typing, AtState
  <2>2. Scanned(at[t]) = MaxSubs
    BY <2>1 DEF Scanned
  <2>3. Cardinality(Calls(got[h], at[t].ev)) = Cardinality(Held(subs[at[t].ev.type], h, MaxSubs))
    BY <2>2 DEF Delivery, Progress, SoFar, Delivering
  <2> QED
    BY <2>3 DEF Calls, Held, Slots
<1> QED
  BY <1>1, <1>2, AlwaysTyping, DeliveryStays, PTL DEF Spec
=============================================================================
