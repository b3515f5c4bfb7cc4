SPECIFICATION Spec
CONSTANTS
  p1 = p1
  p2 = p2
  x1 = x1
  Publishers = {p1, p2}
  Dispatcher = Dispatcher
  Handlers = {h1}
  NoHandler = NoHandler
  Types = {x1}
  BadType = BadType
  Publishes <- OneMixed
  Capacity = 2
  MaxSubs = 2
  MaxEvents = 3
INVARIANTS TypeOK CalleeStaysSubscribed DeliveredToEverySlot PublicationOrder
PROPERTIES ImplementsChannel DestroyReturns
CHECK_DEADLOCK FALSE
