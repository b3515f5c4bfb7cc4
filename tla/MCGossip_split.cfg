SPECIFICATION JoinedSpec
CONSTANTS
  r1 = r1
  w1 = w1
  NoNode = NoNode
  NoMember = NoMember
  NoDatagram = NoDatagram
  Nodes = {r1, w1}
  Routers = {r1}
  SeedJoiners = {}
  ViewCapacity = 2
  MaxPiggyback = 1
  QueueCapacity = 1
  AckCapacity = 1
  JoinCopies = 1
  RejoinCopies = 2
  LeaveSeqs = {}
  MaxInc = 1
  MaxStarts = 1
  MaxRounds <- TwoRounds
  MaxNet = 1
  Lossy = FALSE
  Duplicating = FALSE
  Partitions = TRUE
  CanCrash = {}
PROPERTY RejoinAfterSplit
CHECK_DEADLOCK FALSE
