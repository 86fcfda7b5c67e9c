----------------------------- MODULE MCTaskStore -----------------------------
(* Instances of TaskStore for TLC.                                         *)
EXTENDS TaskStore

MCAcceptsAll == [w \in Worker |-> TaskType]
MCTerminalOrAll == {Terminal, State}
=============================================================================
