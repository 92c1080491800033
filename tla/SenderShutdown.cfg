SPECIFICATION ShutFairSpec
CONSTANTS
  N = 1
  h1 = h1
  app = app
  proc = proc
  NoHost = NoHost
  App = app
  Hosts <- MCHosts
  Threads <- MCThreads
  Sends <- MCSends
  MaxPackets = 4
  MaxCookies = 0
INVARIANT AtMostOneStale
PROPERTY EveryPacketGoesOut
PROPERTY DieReturns
CHECK_DEADLOCK FALSE
