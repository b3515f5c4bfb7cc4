---------------------------- MODULE EventChannel ----------------------------
(***************************************************************************)
(* What event_bus_publish promises its callers: a bounded FIFO from the    *)
(* publishing threads to one dispatcher.  An event is refused only when    *)
(* the queue is full, every accepted event is handed on in the order of    *)
(* acceptance, and, as long as the bus is open, it is eventually handed on.*)
(***************************************************************************)
EXTENDS Naturals, Sequences

CONSTANTS Events, Limit

VARIABLES
  queue,     \* the accepted events that wait
  taken,     \* the events handed to the dispatcher, in order
  refused,   \* the events that were turned away
  open       \* FALSE once the bus is being destroyed

vars == <<queue, taken, refused, open>>

Init == queue = <<>> /\ taken = <<>> /\ refused = {} /\ open = TRUE

Accept(e) ==
  /\ Len(queue) < Limit
  /\ queue' = Append(queue, e)
  /\ UNCHANGED <<taken, refused, open>>

Refuse(e) ==
  /\ Len(queue) = Limit
  /\ refused' = refused \cup {e}
  /\ UNCHANGED <<queue, taken, open>>

Take ==
  /\ queue # <<>>
  /\ queue' = Tail(queue)
  /\ taken' = Append(taken, Head(queue))
  /\ UNCHANGED <<refused, open>>

Close == open /\ open' = FALSE /\ UNCHANGED <<queue, taken, refused>>

Next == Take \/ Close \/ \E e \in Events : Accept(e) \/ Refuse(e)

Spec == Init /\ [][Next]_vars /\ WF_vars(open /\ Take)
=============================================================================
