---------------------------- MODULE MCSettlement ----------------------------
(* Two attempts, of one row or of two.                                     *)
EXTENDS Settlement

CONSTANTS a1, a2, r1, r2

MCMaps == {[c \in {a1, a2} |-> r1], [c \in {a1, a2} |-> IF c = a1 THEN r1 ELSE r2]}
=============================================================================
