--------------------------- MODULE MCCookieSender ---------------------------
(* Instances of CookieSender for TLC. *)
EXTENDS CookieSender

CONSTANTS p1, p2, h1, h2

OneCaller == {p1}

TwoCallers == {p1, p2}

MCPeers == {h1, h2}
=============================================================================
