SPECIFICATION FairSpec
CONSTANTS
  NPuller = 2
  NSend = 3
  Threshold = 2
  Fragments <- MCFragments
INVARIANT TypeOK
PROPERTY OneBlockAtATime
PROPERTY PullsRecover
PROPERTY DieReturnsOrMissed
CHECK_DEADLOCK FALSE
