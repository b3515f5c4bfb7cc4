SPECIFICATION FairSpec
CONSTANTS
  n1 = n1
  n2 = n2
  t1 = t1
  t2 = t2
  d1 = d1
  d2 = d2
  NoNode = NoNode
  NoDag = NoDag
  NoMessage = NoMessage
  NoRecord = NoRecord
  Nodes = {n1}
  HasIngress = {n1}
  CanExecute = {n1}
  Executors = {t1}
  Pool <- LocalPool
  Channels = {}
  Dags = {d1}
  QueueCapacity = 1
  TrackerCapacity = 2
  StaleSenders = {n1}
  MaxExec = 1
PROPERTY FinishedIsReported
CHECK_DEADLOCK FALSE
