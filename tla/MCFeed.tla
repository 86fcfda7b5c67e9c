------------------------------- MODULE MCFeed -------------------------------
(* Instances of Feed for TLC.                                              *)
EXTENDS Feed, TLC

MCOneType == [id \in Id |-> "t"]
MCQueuedOrCancelled == {[states |-> {"queued", "cancelled"}, types |-> TaskType]}
MCQueuedOfTypeOrNone == {[states |-> {"queued"}, types |-> TaskType],
                         [states |-> {"queued"}, types |-> {}]}
MCLiveOnly == {[on |-> FALSE, window |-> {}]}
MCAllHistory == {[on |-> TRUE, window |-> {}]}
MCAnyBackfill == {[on |-> FALSE, window |-> {}], [on |-> TRUE, window |-> {}],
                  [on |-> TRUE, window |-> {0}]}
ConsumerSymmetry == Permutations(Consumer)
ConnSymmetry == Permutations(Consumer) \cup Permutations(Writer)
=============================================================================
