SPECIFICATION Spec
CONSTANTS
  w1 = w1
  w2 = w2
  Peers = {w1, w2}
  Self = Self
  RPC = RPC
  Listener = Listener
  NoThread = NoThread
  NoDag = NoDag
  Executors = {e1, e2}
  Definitions <- MCDefinitions
  MaxSteps = 3
  Capacity = 2
  PoolCapacity = 1
  MaxSerial = 2
  MaxRequests = 4
INVARIANTS TypeOK LookupIsLatest RunIsStable PoolExclusive NoLockKept DependenciesFirst CompletedIffExecutable
PROPERTY ThreadsReturn
CHECK_DEADLOCK FALSE
