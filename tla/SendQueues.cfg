SPECIFICATION Spec
CONSTANTS
  N = 2
  h1 = h1
  h2 = h2
  app = app
  proc = proc
  NoHost = NoHost
  App = app
  Hosts <- MCHosts
  Threads <- MCThreads
  Sends <- MCSends
  MaxPackets = 3
  MaxCookies = 1
INVARIANT TypeOK
INVARIANT TokensMatchPackets
INVARIANT CreditsMatchRoom
INVARIANT TakeFindsPacket
INVARIANT AckOvertakenTwice
PROPERTY ImplementsFifo
PROPERTY ConsecutiveIsAPair
SYMMETRY HostSymmetry
CHECK_DEADLOCK FALSE
