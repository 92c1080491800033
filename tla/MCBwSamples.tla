---------------------------- MODULE MCBwSamples ----------------------------
(* Two sources, two blocks of two fragments, of which one may be sent      *)
(* twice, and a retransmission.                                            *)
EXTENDS BwSamples, TLC

Symmetry == Permutations(Sources) \cup Permutations(Blocks)
=============================================================================
