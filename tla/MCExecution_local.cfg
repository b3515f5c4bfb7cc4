SPECIFICATION FairSpec
CONSTANTS
  n1 = n1
  n2 = n2
  t1 = t1
  t2 = t2
  d1 = d1
  d2 = d2
  NoNode = NoNode
  NoDag = NoDag
  NoMessage = NoMessage
  NoRecord = NoRecord
  Nodes = {n1}
  HasIngress = {n1}
  CanExecute = {n1}
  Executors = {t1, t2}
  Pool <- LocalPool
  Channels = {}
  Dags = {d1, d2}
  QueueCapacity = 1
  TrackerCapacity = 2
  StaleSenders = {n1, NoNode}
  MaxExec = 3
INVARIANTS
  TypeOK
  ExecIdsUnique
  ExecutedAtMostOnce
  StatusTruthful
  ReapedIsFinished
PROPERTIES
  QueuedIsRun
  RpcThreadReturns
CHECK_DEADLOCK FALSE
