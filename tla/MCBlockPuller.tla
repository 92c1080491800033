--------------------------- MODULE MCBlockPuller ---------------------------
(* Instances of BlockPuller for TLC. *)
EXTENDS BlockPuller

(* Blocks that leave the queue low and blocks that fill it. *)
MCFragments == {1, 3}
=============================================================================
