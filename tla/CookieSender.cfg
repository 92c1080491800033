SPECIFICATION FairSpec
CONSTANTS
  p1 = p1
  p2 = p2
  h1 = h1
  h2 = h2
  NoPeer = NoPeer
  NoThread = NoThread
  Callers <- OneCaller
  Peers <- MCPeers
  MaxRounds = 2
  MaxTimeouts = 2
INVARIANT TypeOK
INVARIANT FreshResults
INVARIANT UnitsLeakedByTimeouts
INVARIANT UnitsAreCookies
PROPERTY CookieCallReturns
CHECK_DEADLOCK FALSE
