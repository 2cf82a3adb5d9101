CONSTANTS
  a = a
  b = b
  d1 = d1
  d2 = d2
  None = None
  Peer <- MCPeer
  Data <- MCData
  Stream <- TwoNone
  MaxSeq = 4
  OutCap = 1
SPECIFICATION FairSpec
INVARIANTS TypeOK InOrder BufferIsAhead OwnAckIsHonest
PROPERTIES ImplementsChannel EventuallyDelivered
