SPECIFICATION FairSpec
CONSTANTS
  NPuller = 2
  NSend = 3
  Threshold = 2
  Fragments <- MCFragments
PROPERTY DieReturns
CHECK_DEADLOCK FALSE
