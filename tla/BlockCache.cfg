SPECIFICATION Spec
CONSTANTS
  MTU = 2
  FnMod = 65536
  b1 = b1
  b2 = b2
  Ids <- MCIds
  AddLengths = {0, 2}
  Versions <- MCVersions
  MaxNodes = 4
  MaxOps = 2
  MaxFrames = 3
INVARIANT TypeOK
INVARIANT NoLockCycle
INVARIANT AnnouncedIffComplete
INVARIANT AcknowledgedIsStored
INVARIANT CompleteBlockCutsAlike
CHECK_DEADLOCK FALSE
