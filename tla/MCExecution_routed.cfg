SPECIFICATION Spec
CONSTANTS
  n1 = n1
  n2 = n2
  t1 = t1
  t2 = t2
  d1 = d1
  d2 = d2
  NoNode = NoNode
  NoDag = NoDag
  NoMessage = NoMessage
  NoRecord = NoRecord
  Nodes = {n1, n2}
  HasIngress = {n1, n2}
  CanExecute = {n2}
  Executors = {t1, t2}
  Pool <- RoutedPool
  Channels <- RoutedChannels
  Dags = {d1}
  QueueCapacity = 1
  TrackerCapacity = 1
  StaleSenders = {n1, n2}
  MaxExec = 2
SYMMETRY ExecutorSymmetry
INVARIANTS
  ExecutedAtMostOnce
  ActiveExact
  StatusTruthful
  ReapedIsFinished
CHECK_DEADLOCK FALSE
