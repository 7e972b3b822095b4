--------------------------- MODULE MCShareLedger ---------------------------
(* Two shares of two workers. *)
EXTENDS ShareLedger

CONSTANTS s1, s2, w1, w2

TwoWorkersOf == [s \in Shares |-> IF s = s1 THEN w1 ELSE w2]
=============================================================================
