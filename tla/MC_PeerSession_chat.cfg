CONSTANTS
  a = a
  b = b
  t1 = t1
  t2 = t2
  Peer <- MCPeer
  Data <- MCData
  Script <- TwoAndGoodbye
  Punches = 1
  PacketCap = 2
  MaxKeepAlive = 1
SPECIFICATION FairSpec
CHECK_DEADLOCK FALSE
INVARIANTS TypeOK ChatInOrder ClosedAfterLastLine
PROPERTIES Established LineIsShown
