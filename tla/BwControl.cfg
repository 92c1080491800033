SPECIFICATION FairSpec
CONSTANTS
  p1 = p1
  p2 = p2
  Peers <- MCPeers
  Seqs <- MCSeqs
  MaxSent = 2
INVARIANT TypeOK
INVARIANT PeerStatsConsistent
INVARIANT OnePacketSlips
PROPERTY SenderResumes
PROPERTY DieReturnsUnlessHeld
CHECK_DEADLOCK FALSE
