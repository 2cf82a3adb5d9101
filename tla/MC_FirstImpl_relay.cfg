CONSTANTS
  HostAddr = H
  PeerAddr = P
  X = X
  NoAddr = NoAddr
  Endpoint <- ThreeClients
  PoolSize = 2
  MaxBatch = 1
  Lens = {1}
SPECIFICATION FairSpec
INVARIANTS TypeOK OneOwner NeverBlocks NoPanic
PROPERTIES SendIsStarted ImplementsRelay
