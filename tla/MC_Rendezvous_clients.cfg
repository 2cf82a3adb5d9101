CONSTANTS
  h1 = h1
  h2 = h2
  c1 = c1
  c2 = c2
  None = None
  Host <- TwoHosts
  Client <- TwoClients
  MaxLobby = 2
  ChanCap = 2
SPECIFICATION Spec
CHECK_DEADLOCK FALSE
INVARIANTS RightPartner KeptAliveUntilJoined
SYMMETRY Symmetry
