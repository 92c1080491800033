---------------------------- MODULE MCBlockCache ----------------------------
(* Instances of BlockCache for TLC: block b1 has three fragments; under b2 *)
(* one peer sends a content of one fragment, another one of two.           *)
EXTENDS BlockCache

CONSTANTS b1, b2

MCIds == {b1, b2}

MCVersions == [b \in MCIds |-> IF b = b1 THEN {5} ELSE {2, 3}]
=============================================================================
