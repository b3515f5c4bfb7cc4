SPECIFICATION Spec
CONSTANTS
  NoConn = NoConn
  c1 = c1
  c2 = c2
  Conns = {c1, c2}
  Port <- MCPort
  Readers = {c1}
  HasIngress = TRUE
  Plans <- PeerPlans
  RxSize = 2
  SendCap = 1
  Faults = {}
INVARIANT ResponseSentOnce
CHECK_DEADLOCK FALSE
