CONSTANTS
  a = a
  b = b
  d1 = d1
  d2 = d2
  None = None
  Peer <- MCPeer
  Data <- MCData
  Stream <- TwoOne
  MaxSeq = 3
  OutCap = 1
SPECIFICATION Spec
INVARIANT CumulativeAck
