SPECIFICATION JoinedSpec
CONSTANTS
  r1 = r1
  w1 = w1
  NoNode = NoNode
  NoMember = NoMember
  NoDatagram = NoDatagram
  Nodes = {r1, w1}
  Routers = {r1}
  SeedJoiners = {}
  ViewCapacity = 2
  MaxPiggyback = 1
  QueueCapacity = 1
  AckCapacity = 1
  JoinCopies = 1
  RejoinCopies = 2
  LeaveSeqs = {}
  MaxInc = 1
  MaxStarts = 1
  MaxRounds <- RouterUnbounded
  MaxNet = 1
  Lossy = TRUE
  Duplicating = TRUE
  Partitions = FALSE
  CanCrash = {}
PROPERTY DeadWasSuspect
CHECK_DEADLOCK FALSE
