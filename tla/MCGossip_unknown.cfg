SPECIFICATION RestartSpec
CONSTANTS
  r1 = r1
  w1 = w1
  NoNode = NoNode
  NoMember = NoMember
  NoDatagram = NoDatagram
  Nodes = {r1, w1}
  Routers = {r1}
  SeedJoiners = {}
  ViewCapacity = 2
  MaxPiggyback = 1
  QueueCapacity = 1
  AckCapacity = 1
  JoinCopies = 1
  RejoinCopies = 2
  LeaveSeqs = {}
  MaxInc = 2
  MaxStarts = 2
  MaxRounds <- RouterUnbounded
  MaxNet = 1
  Lossy = FALSE
  Duplicating = FALSE
  Partitions = FALSE
  CanCrash = {w1}
PROPERTY LiveMembersKnowEachOther
CHECK_DEADLOCK FALSE
