SPECIFICATION Spec
CONSTANTS
  NoConn = NoConn
  c1 = c1
  c2 = c2
  Conns = {c1, c2}
  Port <- DataPort
  Readers = {c1}
  HasIngress = FALSE
  Plans <- MCPlans
  RxSize = 2
  SendCap = 1
  Faults = {"memory", "accept", "refuse"}
INVARIANTS TypeOK InOrderOnce OneResponseEach NoContextLeft AsleepIsIdle
PROPERTIES ArrivedIsProcessed BacklogIsAccepted ShutdownIsSeen
CHECK_DEADLOCK FALSE
