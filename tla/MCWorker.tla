------------------------------ MODULE MCWorker ------------------------------
(* Instances of Worker for TLC.                                            *)
EXTENDS Worker

MCAcceptsAll == [w \in Worker |-> TaskType]
=============================================================================
