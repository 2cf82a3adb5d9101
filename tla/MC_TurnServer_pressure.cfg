CONSTANTS
  A = A
  B = B
  C = C
  NoAddr = NoAddr
  Endpoint <- ThreeClients
  Requests <- SharedHost
  MaxRequests = 2
  ControlCap = 2
  PoolSize = 2
  BufSize = 1
  Lens = {1}
  ShardNum = 2
  SqCap = 2
  QueueCap = 1
  OutCap = 1
SPECIFICATION Spec
INVARIANTS TypeOK OneOwner NoPanic
