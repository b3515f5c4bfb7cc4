SPECIFICATION Spec
CONSTANTS
  r1 = r1
  w1 = w1
  NoNode = NoNode
  NoMember = NoMember
  NoDatagram = NoDatagram
  Nodes = {r1, w1}
  Routers = {r1}
  SeedJoiners = {w1}
  ViewCapacity = 2
  MaxPiggyback = 1
  QueueCapacity = 2
  AckCapacity = 1
  JoinCopies = 1
  RejoinCopies = 2
  LeaveSeqs = {2}
  MaxInc = 3
  MaxStarts = 2
  MaxRounds <- FewRounds
  MaxNet = 1
  Lossy = TRUE
  Duplicating = TRUE
  Partitions = FALSE
  CanCrash = {w1}
INVARIANT TypeOK
PROPERTY IncarnationMonotone
CHECK_DEADLOCK FALSE
