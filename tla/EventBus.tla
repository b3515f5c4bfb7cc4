------------------------------ MODULE EventBus ------------------------------
(***************************************************************************)
(* The event bus (core/event_bus.c): a bounded ring of events, the         *)
(* dispatch thread that empties it, a table of subscribers per event type  *)
(* under a reader/writer lock, and the threads that publish.               *)
(*                                                                         *)
(* A step is a critical section, or what a thread does between two of      *)
(* them.  The writers of the subscriber table hold their lock for one step *)
(* only, so a lock is held between steps by readers alone: the threads     *)
(* inside dispatch_event_to_subscribers.                                   *)
(***************************************************************************)
EXTENDS Naturals, Sequences, FiniteSets

CONSTANTS
  Publishers,   \* the threads that publish
  Dispatcher,   \* the dispatch thread
  Handlers,     \* the event_handler_fn of the subscribers
  NoHandler,    \* a slot that is not active
  Types,        \* the values below EVENT_TYPE_MAX
  BadType,      \* a value that is not
  Publishes,    \* the types of the events each publisher publishes
  Capacity,     \* EVENT_QUEUE_SIZE
  MaxSubs,      \* MAX_SUBSCRIBERS_PER_TYPE
  MaxEvents     \* bound: events published

ASSUME BusAssumption ==
  /\ Capacity \in Nat \ {0} /\ MaxSubs \in Nat \ {0} /\ MaxEvents \in Nat
  /\ Publishes \in [Publishers -> SUBSET (Types \cup {BadType})]
  /\ Dispatcher \notin Publishers /\ NoHandler \notin Handlers /\ BadType \notin Types

VARIABLES
  ring,       \* events, head, tail and count of the queue
  subs,       \* subscribers[type][slot]
  at,         \* where each thread is: pc, the event in its hands, the slot it looks at
  stats,      \* events_published, events_dispatched, events_dropped
  life,       \* "up", and the steps of event_bus_destroy
  sent,       \* history: events each publisher has published
  taken,      \* history: what event_queue_pop returned, in order
  refused,    \* history: what event_queue_push turned away
  got         \* history: the events each handler was called with

vars == <<ring, subs, at, stats, life, sent, taken, refused, got>>

Slots == 1 .. MaxSubs
Threads == Publishers \cup {Dispatcher}
Event == [type : Types \cup {BadType}, from : Publishers, seq : 1 .. MaxEvents, sync : BOOLEAN]
NoEvent == [type |-> BadType]

\* bus->shutdown
Shutdown == life # "up"

\* Mutant: nobody takes the lock for reading.
Readers_none(ty) == {}

\* The threads that hold subscriber_locks[ty] for reading.
Readers(ty) == {t \in Threads : at[t].pc \in {"scan", "call", "count"} /\ at[t].ev.type = ty}

Goto(t, label) == at' = [at EXCEPT ![t].pc = label]

\* Where a thread is between two calls: the dispatcher in its loop, a
\* publisher outside the bus.
Between(t) == [pc |-> IF t = Dispatcher THEN "loop" ELSE "idle", ev |-> NoEvent, slot |-> 1]

EmptyRing ==
  [events |-> [i \in 0 .. Capacity - 1 |-> NoEvent], head |-> 0, tail |-> 0, count |-> 0]

Init ==
  /\ ring = EmptyRing
  /\ subs = [ty \in Types |-> [i \in Slots |-> NoHandler]]
  /\ at = [t \in Threads |-> Between(t)]
  /\ stats = [published |-> 0, dispatched |-> 0, dropped |-> 0]
  /\ life = "up"
  /\ sent = [p \in Publishers |-> 0]
  /\ taken = <<>> /\ refused = {}
  /\ got = [h \in Handlers |-> <<>>]

-----------------------------------------------------------------------------
(***************************************************************************)
(* Publishing                                                              *)
(***************************************************************************)

\* event_bus_publish and event_bus_publish_sync count the event first; nothing
\* checks its type.
Publish(p, ty, sync) ==
  /\ life = "up" /\ at[p].pc = "idle"
  /\ stats.published < MaxEvents
  /\ sent' = [sent EXCEPT ![p] = @ + 1]
  /\ at' = [at EXCEPT ![p] =
       [pc |-> IF sync THEN "lock" ELSE "push", slot |-> 1,
        ev |-> [type |-> ty, from |-> p, seq |-> sent[p] + 1, sync |-> sync]]]
  /\ stats' = [stats EXCEPT !.published = @ + 1]
  /\ UNCHANGED <<ring, subs, life, taken, refused, got>>

\* Mutants: the limit is off by one, either way.
Full_over == ring.count > Capacity
Full_under == ring.count >= Capacity - 1

Full == ring.count >= Capacity

\* event_queue_push stores the event at the tail ...
Push(p) ==
  /\ at[p].pc = "push"
  /\ ~Full
  /\ ring' = [ring EXCEPT !.events[ring.tail] = at[p].ev,
                          !.tail = (@ + 1) % Capacity, !.count = @ + 1]
  /\ Goto(p, "signal")
  /\ UNCHANGED <<subs, stats, life, sent, taken, refused, got>>

\* ... unless the queue is full: a publisher never waits.
PushFull(p) ==
  /\ at[p].pc = "push"
  /\ Full
  /\ refused' = refused \cup {at[p].ev}
  /\ Goto(p, "drop")
  /\ UNCHANGED <<ring, subs, stats, life, sent, taken, got>>

CountDropped(p) ==
  /\ at[p].pc = "drop"
  /\ stats' = [stats EXCEPT !.dropped = @ + 1]
  /\ at' = [at EXCEPT ![p] = Between(p)]
  /\ UNCHANGED <<ring, subs, life, sent, taken, refused, got>>

\* pthread_cond_signal(not_empty), after the unlock.
Wake(f) == IF f[Dispatcher].pc = "wait" THEN [f EXCEPT ![Dispatcher].pc = "pop"] ELSE f

Signal(p) ==
  /\ at[p].pc = "signal"
  /\ at' = Wake([at EXCEPT ![p] = Between(p)])
  /\ UNCHANGED <<ring, subs, stats, life, sent, taken, refused, got>>

-----------------------------------------------------------------------------
(***************************************************************************)
(* The dispatch thread                                                     *)
(***************************************************************************)

DispatchLoop ==
  /\ at[Dispatcher].pc = "loop"
  /\ Goto(Dispatcher, IF Shutdown THEN "exited" ELSE "pop")
  /\ UNCHANGED <<ring, subs, stats, life, sent, taken, refused, got>>

Oldest == ring.events[ring.head]

\* Mutant: the newest event is taken instead of the oldest.
Pop_newest ==
  /\ at[Dispatcher].pc = "pop"
  /\ ring.count > 0
  /\ LET last == (ring.tail + Capacity - 1) % Capacity
     IN /\ at' = [at EXCEPT ![Dispatcher] = [pc |-> "lock", ev |-> ring.events[last], slot |-> 1]]
        /\ taken' = Append(taken, ring.events[last])
        /\ ring' = [ring EXCEPT !.tail = last, !.count = @ - 1]
  /\ UNCHANGED <<subs, stats, life, sent, refused, got>>

\* event_queue_pop takes the event at the head.
Pop ==
  /\ at[Dispatcher].pc = "pop"
  /\ ring.count > 0
  /\ at' = [at EXCEPT ![Dispatcher] = [pc |-> "lock", ev |-> Oldest, slot |-> 1]]
  /\ taken' = Append(taken, Oldest)
  /\ ring' = [ring EXCEPT !.head = (@ + 1) % Capacity, !.count = @ - 1]
  /\ UNCHANGED <<subs, stats, life, sent, refused, got>>

\* An empty queue is waited for, and waited for again after every wake-up ...
PopEmpty ==
  /\ at[Dispatcher].pc = "pop"
  /\ ring.count = 0
  /\ Goto(Dispatcher, "wait")
  /\ UNCHANGED <<ring, subs, stats, life, sent, taken, refused, got>>

\* Mutant: the pop waits without a timeout.
PopTimesOut_never == FALSE /\ UNCHANGED vars

\* ... until the 100 ms of the pop are over.
PopTimesOut ==
  /\ at[Dispatcher].pc = "wait"
  /\ Goto(Dispatcher, "loop")
  /\ UNCHANGED <<ring, subs, stats, life, sent, taken, refused, got>>

-----------------------------------------------------------------------------
(***************************************************************************)
(* dispatch_event_to_subscribers, by the dispatch thread or by a thread in *)
(* event_bus_publish_sync                                                  *)
(***************************************************************************)

\* An event of no known type reaches nobody; any other one locks its table.
ReadLock(t) ==
  /\ at[t].pc = "lock"
  /\ at' = [at EXCEPT ![t] = IF @.ev.type \in Types THEN [@ EXCEPT !.pc = "scan"] ELSE Between(t)]
  /\ UNCHANGED <<ring, subs, stats, life, sent, taken, refused, got>>

Scan(t) ==
  /\ at[t].pc = "scan" /\ at[t].slot \in Slots
  /\ at' = IF subs[at[t].ev.type][at[t].slot] # NoHandler
           THEN [at EXCEPT ![t].pc = "call"]
           ELSE [at EXCEPT ![t].slot = @ + 1]
  /\ UNCHANGED <<ring, subs, stats, life, sent, taken, refused, got>>

Callee(t) == subs[at[t].ev.type][at[t].slot]

\* sub->handler(event): the pointer is read from the table again.
Call(t) ==
  /\ at[t].pc = "call"
  /\ got' = [h \in Handlers |-> IF h = Callee(t) THEN Append(got[h], at[t].ev) ELSE got[h]]
  /\ Goto(t, "count")
  /\ UNCHANGED <<ring, subs, stats, life, sent, taken, refused>>

\* Mutant: the scan ends with the first subscriber.
CountDispatched_first(t) ==
  /\ at[t].pc = "count"
  /\ stats' = [stats EXCEPT !.dispatched = @ + 1]
  /\ at' = [at EXCEPT ![t].pc = "scan", ![t].slot = MaxSubs + 1]
  /\ UNCHANGED <<ring, subs, life, sent, taken, refused, got>>

CountDispatched(t) ==
  /\ at[t].pc = "count"
  /\ stats' = [stats EXCEPT !.dispatched = @ + 1]
  /\ at' = [at EXCEPT ![t].pc = "scan", ![t].slot = @ + 1]
  /\ UNCHANGED <<ring, subs, life, sent, taken, refused, got>>

ReadUnlock(t) ==
  /\ at[t].pc = "scan" /\ at[t].slot > MaxSubs
  /\ at' = [at EXCEPT ![t] = Between(t)]
  /\ UNCHANGED <<ring, subs, stats, life, sent, taken, refused, got>>

Deliver(t) == ReadLock(t) \/ Scan(t) \/ Call(t) \/ CountDispatched(t) \/ ReadUnlock(t)

-----------------------------------------------------------------------------
(***************************************************************************)
(* Subscriptions                                                           *)
(***************************************************************************)

First(S) == CHOOSE i \in S : \A j \in S : i <= j

\* A full table refuses the subscriber; the same handler may be there twice.
Subscribe(h, ty) ==
  /\ life = "up" /\ Readers(ty) = {}
  /\ LET free == {i \in Slots : subs[ty][i] = NoHandler}
     IN free # {} /\ subs' = [subs EXCEPT ![ty][First(free)] = h]
  /\ UNCHANGED <<ring, at, stats, life, sent, taken, refused, got>>

\* One slot of the handler is cleared.
Unsubscribe(h, ty) ==
  /\ life = "up" /\ Readers(ty) = {}
  /\ LET mine == {i \in Slots : subs[ty][i] = h}
     IN mine # {} /\ subs' = [subs EXCEPT ![ty][First(mine)] = NoHandler]
  /\ UNCHANGED <<ring, at, stats, life, sent, taken, refused, got>>

-----------------------------------------------------------------------------
(***************************************************************************)
(* event_bus_destroy: callers must have returned, and call no more         *)
(***************************************************************************)

Destroy ==
  /\ life = "up" /\ \A p \in Publishers : at[p].pc = "idle"
  /\ life' = "signal"
  /\ UNCHANGED <<ring, subs, at, stats, sent, taken, refused, got>>

DestroySignal ==
  /\ life = "signal"
  /\ life' = "join"
  /\ at' = Wake(at)
  /\ UNCHANGED <<ring, subs, stats, sent, taken, refused, got>>

\* pthread_join returns; what is still queued is freed with the ring.
DestroyJoined ==
  /\ life = "join" /\ at[Dispatcher].pc = "exited"
  /\ life' = "gone"
  /\ UNCHANGED <<ring, subs, at, stats, sent, taken, refused, got>>

-----------------------------------------------------------------------------
DispatcherStep == DispatchLoop \/ Pop \/ PopEmpty \/ PopTimesOut \/ Deliver(Dispatcher)

PublisherStep(p) == Push(p) \/ PushFull(p) \/ CountDropped(p) \/ Signal(p) \/ Deliver(p)

Next ==
  \/ DispatcherStep \/ Destroy \/ DestroySignal \/ DestroyJoined
  \/ \E p \in Publishers :
       PublisherStep(p) \/ \E ty \in Publishes[p], sync \in BOOLEAN : Publish(p, ty, sync)
  \/ \E h \in Handlers, ty \in Types : Subscribe(h, ty) \/ Unsubscribe(h, ty)

\* The threads are scheduled and handlers return; nobody has to publish,
\* subscribe or destroy the bus.
Fairness ==
  /\ WF_vars(DispatcherStep)
  /\ WF_vars(DestroySignal \/ DestroyJoined)
  /\ \A p \in Publishers : WF_vars(PublisherStep(p))

Spec == Init /\ [][Next]_vars /\ Fairness

-----------------------------------------------------------------------------
(***************************************************************************)
(* Properties                                                              *)
(***************************************************************************)

\* The shape of the bus's fields.
TypeOK ==
  /\ ring \in [events : [0 .. Capacity - 1 -> Event \cup {NoEvent}],
               head : 0 .. Capacity - 1, tail : 0 .. Capacity - 1, count : 0 .. Capacity]
  /\ subs \in [Types -> [Slots -> Handlers \cup {NoHandler}]]
  /\ at \in [Threads -> [pc : {"idle", "push", "drop", "signal", "lock", "scan", "call", "count",
                               "loop", "pop", "wait", "exited"},
                         ev : Event \cup {NoEvent}, slot : 1 .. MaxSubs + 1]]
  /\ stats \in [published : Nat, dispatched : Nat, dropped : Nat]
  /\ life \in {"up", "signal", "join", "gone"}
  /\ sent \in [Publishers -> 0 .. MaxEvents]

\* "Subscription management (thread-safe)": between the test of a slot and the
\* call through it the subscriber does not go away, so that no handler runs after
\* its event_bus_unsubscribe returned and no cleared pointer is called.
CalleeStaysSubscribed ==
  \A t \in Threads : at[t].pc = "call" => Callee(t) # NoHandler

\* When a thread is about to release the table, every handler has been called
\* with its event once for each slot it holds in the table, however subscriptions
\* and the dispatches of other threads interleave with the scan.
DeliveredToEverySlot ==
  \A t \in Threads : at[t].pc = "scan" /\ at[t].slot > MaxSubs =>
    \A h \in Handlers :
      Cardinality({i \in Slots : subs[at[t].ev.type][i] = h})
        = Cardinality({i \in 1 .. Len(got[h]) : got[h][i] = at[t].ev})

\* Queued events of one publisher reach a handler in the order of publication
\* (event_bus_publish_sync bypasses the queue and is not ordered with them).
PublicationOrder ==
  \A h \in Handlers : \A i, j \in 1 .. Len(got[h]) :
    i < j /\ got[h][i].from = got[h][j].from /\ ~got[h][i].sync /\ ~got[h][j].sync
      => got[h][i].seq <= got[h][j].seq

\* The ring, read from its head.
RingContents == [i \in 1 .. ring.count |-> ring.events[(ring.head + i - 1) % Capacity]]

Channel == INSTANCE EventChannel WITH
  Events <- Event, Limit <- Capacity, queue <- RingContents, open <- ~Shutdown

\* The ring, its condition variable and the dispatch thread implement the bounded
\* FIFO channel: refusal only when full, order kept, nothing stuck while the bus
\* is up.
ImplementsChannel == Channel!Spec

\* event_bus_destroy returns.  Its signal does not end the wait of an idle
\* dispatch thread, whose pop goes back to waiting for an empty queue: the
\* timeout of the pop does.
DestroyReturns == Shutdown ~> life = "gone"
=============================================================================
