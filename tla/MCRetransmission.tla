-------------------------- MODULE MCRetransmission --------------------------
(* Instances of Retransmission for TLC. *)
EXTENDS Retransmission

CONSTANTS p1, p2

TwoPeers == {p1, p2}

(* Three fragments to p1, one to p2. *)
MCFN == [p \in TwoPeers |-> IF p = p1 THEN 3 ELSE 1]
=============================================================================
