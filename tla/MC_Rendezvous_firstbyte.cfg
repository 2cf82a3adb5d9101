CONSTANTS
  h1 = h1
  h2 = h2
  c1 = c1
  c2 = c2
  None = None
  Host <- OneHost
  Client <- OneClient
  MaxLobby = 1
  ChanCap = 2
SPECIFICATION Spec
CHECK_DEADLOCK FALSE
INVARIANT HostGetsCode
