CONSTANTS
  A = A
  B = B
  C = C
  NoAddr = NoAddr
  Endpoint <- TwoClients
  Requests <- OnePair
  MaxRequests = 1
  ControlCap = 2
  PoolSize = 2
  BufSize = 1
  Lens = {1}
  ShardNum = 2
  SqCap = 2
  QueueCap = 4
  OutCap = 2
SPECIFICATION Spec
PROPERTY Reregistered
