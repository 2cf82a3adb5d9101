CONSTANTS
  A = A
  B = B
  C = C
  NoAddr = NoAddr
  Endpoint <- ThreeClients
  Requests <- SharedHost
  MaxRequests = 3
  ControlCap = 2
  PoolSize = 1
  BufSize = 1
  Lens = {1}
  ShardNum = 2
  SqCap = 1
  QueueCap = 4
  OutCap = 1
SPECIFICATION FairSpec
INVARIANTS RouterAgreesWithShard ShardNeverDrops
PROPERTIES SessionInstalled ImplementsRelay
