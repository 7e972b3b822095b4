---------------------------- MODULE MCPoolStats ----------------------------
(***************************************************************************)
(* PoolStats on small instances.  OneReport gives every block its own      *)
(* reporter; TwoReports has two reporters for one block.  Renaming the     *)
(* blocks together with their reporters changes nothing.                   *)
(***************************************************************************)
EXTENDS PoolStats, TLC

CONSTANTS b1, b2, r1, r2

OneReport == r1 :> b1 @@ r2 :> b2
FirstReport == r1 :> b1
TwoReports == r1 :> b1 @@ r2 :> b1

RenameBlocks ==
    {p \in Permutations(Reporters \cup Blocks) :
        \A r \in Reporters : p[r] \in Reporters /\ BlockOf[p[r]] = p[BlockOf[r]]}
=============================================================================
