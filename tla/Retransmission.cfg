SPECIFICATION FairSpec
CONSTANTS
  p1 = p1
  p2 = p2
  Peers <- TwoPeers
  FN <- MCFN
  SeqRange = 3
  NRetr = 1
  MaxFaults = 2
INVARIANT TypeOK
INVARIANT NotLostUnnoticed
INVARIANT OneCopy
PROPERTY BlockArrives
CHECK_DEADLOCK FALSE
