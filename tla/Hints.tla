-------------------------------- MODULE Hints -------------------------------
(***************************************************************************)
(* hints.py: wake, cancel and feed hints are collected in sets and sent by *)
(* one task over a lazy connection, again if the connection fails.  The    *)
(* three sets behave alike, so `pending` is their union.  Nothing durable  *)
(* depends on a hint; what is at stake is that one is not forgotten while  *)
(* the process runs, and that close() flushes.                             *)
(***************************************************************************)
EXTENDS Naturals

CONSTANTS Notice,
          MaxAdds      \* bound of the checked instance

VARIABLES pending,   \* self._wake, self._cancel, self._feed
          batch,     \* what _run took
          ready,     \* self._ready
          pc,        \* self._task: none, waiting, sending, sleeping, done
          closing,   \* self._closing
          closer,    \* close(): no, flushing, over
          cut,       \* auxiliary: close() was immediate or timed out
          owed,      \* auxiliary: hints given and not delivered since
          again,     \* auxiliary: hints given while a send is in flight
          adds       \* auxiliary: how many calls were made

vars == <<pending, batch, ready, pc, closing, closer, cut, owed, again, adds>>

\* wake(), cancel(), feed().
Give(S) ==
    /\ pending' = pending \cup S /\ owed' = owed \cup S
    /\ again' = IF pc = "sending" THEN again \cup S ELSE again
    /\ ready' = TRUE
    /\ pc' = IF pc \in {"none", "done"} THEN "waiting" ELSE pc
    /\ UNCHANGED <<batch, closing, closer, cut>>

\* Anyone in the process; close_hints forgets the object before it closes it, and
\* nobody keeps it across an await.
Add(S) ==
    /\ closer = "no" /\ adds < MaxAdds
    /\ Give(S)
    /\ adds' = adds + 1

\* A turn of _run after _ready: the sets are swapped for empty ones before the await.
TakeUnlessClosing ==
    /\ pc = "waiting" /\ ready
    /\ ready' = FALSE
    /\ \/ closing /\ pc' = "done" /\ UNCHANGED <<batch, pending>>
       \/ ~closing /\ pc' = "sending" /\ batch' = pending /\ pending' = {}
    /\ UNCHANGED <<closing, closer, cut, owed, again, adds>>
Take ==
    /\ pc = "waiting" /\ ready
    /\ ready' = FALSE
    /\ \/ closing /\ pending = {} /\ pc' = "done" /\ UNCHANGED <<batch, pending>>
       \/ ~(closing /\ pending = {}) /\ pc' = "sending" /\ batch' = pending /\ pending' = {}
    /\ UNCHANGED <<closing, closer, cut, owed, again, adds>>

\* A hint given again after the send began is owed a NOTIFY of its own.
Undelivered == (owed \ batch) \cup again

\* The NOTIFYs are out; a closing sender goes round once more to end.
SentClearing ==
    /\ pc = "sending"
    /\ owed' = Undelivered /\ again' = {}
    /\ batch' = {} /\ pending' = pending \ batch /\ pc' = "waiting" /\ ready' = (ready \/ closing)
    /\ UNCHANGED <<closing, closer, cut, adds>>
SentForGood ==
    /\ pc = "sending"
    /\ owed' = Undelivered /\ again' = {}
    /\ batch' = {} /\ pc' = "waiting"
    /\ UNCHANGED <<pending, ready, closing, closer, cut, adds>>
Sent ==
    /\ pc = "sending"
    /\ owed' = Undelivered /\ again' = {}
    /\ batch' = {} /\ pc' = "waiting" /\ ready' = (ready \/ closing)
    /\ UNCHANGED <<pending, closing, closer, cut, adds>>

\* The connection failed, before or after the commit: everything is put back.
SendFailedQuietly(delivered) ==
    /\ pc = "sending"
    /\ owed' = IF delivered THEN Undelivered ELSE owed
    /\ again' = {}
    /\ pending' = pending \cup batch /\ batch' = {}
    /\ pc' = "sleeping"
    /\ UNCHANGED <<ready, closing, closer, cut, adds>>
SendFailed(delivered) ==
    /\ pc = "sending"
    /\ owed' = IF delivered THEN Undelivered ELSE owed
    /\ again' = {}
    /\ pending' = pending \cup batch /\ batch' = {}
    /\ ready' = TRUE /\ pc' = "sleeping"
    /\ UNCHANGED <<closing, closer, cut, adds>>
Slept ==
    /\ pc = "sleeping" /\ pc' = "waiting"
    /\ UNCHANGED <<pending, batch, ready, closing, closer, cut, owed, again, adds>>

\* close(): wait for the sender unless immediate, then cancel it and forget.
Over(isCut) ==
    /\ closer' = "over" /\ cut' = isCut
    /\ pc' = IF pc = "none" THEN "none" ELSE "done"
    /\ pending' = {} /\ batch' = {}
Close(immediate) ==
    /\ closer = "no"
    /\ closing' = TRUE /\ ready' = TRUE
    /\ IF pc # "none" /\ ~immediate
       THEN closer' = "flushing" /\ UNCHANGED <<pending, batch, pc, cut>>
       ELSE Over(immediate)
    /\ UNCHANGED <<owed, again, adds>>
Flushed ==
    /\ closer = "flushing" /\ pc = "done"
    /\ Over(FALSE)
    /\ UNCHANGED <<ready, closing, owed, again, adds>>
FlushTimesOut ==
    /\ closer = "flushing" /\ pc # "done"
    /\ Over(TRUE)
    /\ UNCHANGED <<ready, closing, owed, again, adds>>

Init ==
    /\ pending = {} /\ batch = {} /\ ready = FALSE /\ pc = "none"
    /\ closing = FALSE /\ closer = "no" /\ cut = FALSE /\ owed = {}
    /\ again = {} /\ adds = 0

Sender == Take \/ Sent \/ Slept \/ Flushed \/ \E delivered \in BOOLEAN : SendFailed(delivered)
Next ==
    \/ \E S \in SUBSET Notice : Add(S)
    \/ Sender \/ FlushTimesOut
    \/ \E immediate \in BOOLEAN : Close(immediate)

\* The event loop runs the sender, and the connection works again in the end.
\* Nothing is assumed of the flush timeout.
Fairness == WF_vars(Take) /\ WF_vars(Slept) /\ SF_vars(Sent) /\ WF_vars(Flushed)

-----------------------------------------------------------------------------
\* A hint that was given is delivered or still held to be sent, also when the send
\* failed, or when it was given during a send, of the same hint too; only close()
\* gives hints up.
HintKept == closer # "over" => owed \subseteq pending \cup batch

\* A close that neither was immediate nor timed out delivered every hint.
CloseFlushes == closer = "over" /\ ~cut => owed = {}

\* While nobody closes, a hint is delivered in the end.
HintDelivered == \A n \in Notice : n \in owed ~> (n \notin owed \/ closer = "over")

\* A graceful close ends by itself, without its timeout.
FlushEnds == closer = "flushing" ~> closer = "over"
=============================================================================
