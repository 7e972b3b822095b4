---------------------------- MODULE MCBlockFate ----------------------------
(* Model values and a small height for BlockFate. *)
EXTENDS BlockFate

CONSTANT b1

FirstHeight == [b \in Finds |-> 1]
=============================================================================
