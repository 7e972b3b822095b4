--------------------------- MODULE MCConnections ---------------------------
(* Three connections from one address, one SV1 and two SV2. *)
EXTENDS Connections

CONSTANTS c1, c2, c3, a1

OneAddress == [c \in Conns |-> a1]
OneIsSv1 == [c \in Conns |-> IF c = c1 THEN "sv1" ELSE "sv2"]
=============================================================================
