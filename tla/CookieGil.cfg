SPECIFICATION FairSpec
CONSTANTS
  p1 = p1
  p2 = p2
  h1 = h1
  h2 = h2
  NoPeer = NoPeer
  NoThread = NoThread
  Callers <- TwoCallers
  Peers <- MCPeers
  MaxRounds = 2
  MaxTimeouts = 2
PROPERTY CookieCallReturns
CHECK_DEADLOCK FALSE
