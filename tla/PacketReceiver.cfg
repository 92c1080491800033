SPECIFICATION FairSpec
CONSTANTS
  MTU = 1400
  BufN = 2
  NBiter = 1
  Traffic <- MCTraffic
  MaxCalls = 1
INVARIANT TypeOK
INVARIANT HandledAsSent
INVARIANT IteratorInOrder
INVARIANT InCountersExact
PROPERTY ReceivedIsReturned
PROPERTY CallsReturn
CHECK_DEADLOCK FALSE
