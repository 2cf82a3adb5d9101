CONSTANTS
  A = A
  B = B
  C = C
  NoAddr = NoAddr
  Endpoint <- TwoClients
  Requests <- OnePair
  MaxRequests = 1
  ControlCap = 2
  PoolSize = 1
  BufSize = 2
  Lens = {1, 2}
  ShardNum = 2
  SqCap = 1
  QueueCap = 4
  OutCap = 2
SPECIFICATION Spec
INVARIANT RelayedIntact
