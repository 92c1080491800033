---------------------------- MODULE MCBwControl ----------------------------
(* Instances of BwControl for TLC. *)
EXTENDS BwControl, TLC

CONSTANTS p1, p2

MCPeers == {p1, p2}
MCSeqs == 1..2
=============================================================================
