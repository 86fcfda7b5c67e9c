----------------------------- MODULE MCClaimTx -----------------------------
(* Instances of ClaimTx for TLC.                                           *)
EXTENDS ClaimTx, TLC

MCAcceptsAll == [w \in Worker |-> TaskType]
TxSymmetry == Permutations(Id) \cup Permutations(Worker)
=============================================================================
