----------------------------- MODULE Settlement -----------------------------
(***************************************************************************)
(* How a worker settles its attempts: the completion batcher, which gives  *)
(* a hint for what its write applied (Worker._write_completions), beside   *)
(* the hint sender, and Worker._close, which closes first the one and then *)
(* the other.  Variables of the sender have an h.                          *)
(***************************************************************************)
EXTENDS Completions

CONSTANTS Notice, MaxAdds

VARIABLES hpending, hbatch, hready, hpc, hclosing, hcloser, hcut, howed, hagain, hadds

hvars == <<hpending, hbatch, hready, hpc, hclosing, hcloser, hcut, howed, hagain, hadds>>
allVars == <<vars, hvars>>

H == INSTANCE Hints WITH
    pending <- hpending, batch <- hbatch, ready <- hready, pc <- hpc, closing <- hclosing,
    closer <- hcloser, cut <- hcut, owed <- howed, again <- hagain, adds <- hadds

\* No await lies between the answer of the write, its hints and the futures.
AnswerAndHint ==
    /\ Answer
    /\ \/ answer = {} /\ UNCHANGED hvars
       \/ answer # {} /\ \E S \in (SUBSET Notice) \ {{}} : H!Give(S) /\ UNCHANGED hadds

\* The batcher is closed before the hints are.
Settled == pc \in {"none", "done"} /\ \A c \in Ctl : future[c] \notin {"unclaimed", "running", "waiting"}
CloseHints == \E immediate \in BOOLEAN : H!Close(immediate) /\ Settled /\ UNCHANGED vars

SettlementInit == Init /\ H!Init
SettlementNext ==
    \/ Unanswered /\ UNCHANGED hvars
    \/ AnswerAndHint
    \/ \E S \in SUBSET Notice : H!Add(S) /\ UNCHANGED vars
    \/ H!Sender /\ UNCHANGED vars
    \/ H!FlushTimesOut /\ UNCHANGED vars
    \/ CloseHints

\* The event loop runs both tasks; the database gives an answer in the end, and
\* the connection of the hints works again in the end.
SettlementSpec ==
    /\ SettlementInit /\ [][SettlementNext]_allVars
    /\ WF_allVars(Collect /\ UNCHANGED hvars) /\ WF_allVars(Write /\ UNCHANGED hvars)
    /\ SF_allVars(AnswerAndHint)
    /\ H!Fairness

-----------------------------------------------------------------------------
(* The sender's properties, beside the batcher's.                          *)

\* A hint that was given is delivered or still held to be sent, also when the send
\* failed, or when it was given during a send, of the same hint too; only close()
\* gives hints up.
HintKept == H!HintKept

\* A close that neither was immediate nor timed out delivered every hint.
CloseFlushes == H!CloseFlushes

\* While nobody closes, a hint is delivered in the end.
HintDelivered == H!HintDelivered

\* A graceful close ends by itself, without its timeout.
FlushEnds == H!FlushEnds
=============================================================================
