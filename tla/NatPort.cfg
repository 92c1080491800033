SPECIFICATION Spec
CONSTANTS
  MTU = 1400
  BufN = 2
  NBiter = 1
  Traffic <- NatTraffic
  MaxCalls = 0
INVARIANT NatPeerIsReceived
CHECK_DEADLOCK FALSE
