---------------------------- MODULE Completions -----------------------------
(***************************************************************************)
(* worker.py, _Completions: the outcomes of a worker's attempts are queued *)
(* and written in batches by one task at a time, and each controller waits *)
(* on a future.  The database applies a completion if its token holds; the *)
(* answer can get lost, and fenced_write then sends the batch again.       *)
(*                                                                         *)
(* A controller c stands for its completion: idOf[c] is its row, and its   *)
(* token is its own.  Two controllers may have one row when a worker       *)
(* claimed a task again.                                                   *)
(***************************************************************************)
EXTENDS Naturals, Sequences, FiniteSets

CONSTANTS Ctl, Id,
          IdMaps,       \* which controllers may share a row
          BatchCap      \* the 256 of a batch

ASSUME IdMapsAssumption == IdMaps \subseteq [Ctl -> Id]
ASSUME CapAssumption == BatchCap \in Nat \ {0}

VARIABLES pending,   \* self.pending
          batch,     \* the batch of _run
          active,    \* what write() was called with
          pc,        \* self._task: none, ready, writing, answered, done
          answer,    \* the controllers whose completion this write applied
          future,    \* what each controller waits for or got
          holds,     \* the database: tokens that are still valid
          applied,   \* the database: completions that took effect
          broken,    \* auxiliary: a write raised what nobody expected
          idOf       \* the row of each controller's completion

vars == <<pending, batch, active, pc, answer, future, holds, applied, broken, idOf>>

Members(q) == {q[i] : i \in 1..Len(q)}
Waiting(S) == {c \in S : future[c] = "waiting"}

\* A claim of the row, after its previous token is gone.
Claim(c) ==
    /\ future[c] = "unclaimed"
    /\ \A d \in holds : idOf[d] # idOf[c]
    /\ future' = [future EXCEPT ![c] = "running"]
    /\ holds' = holds \cup {c}
    /\ UNCHANGED <<pending, batch, active, pc, answer, applied, broken, idOf>>

\* The reaper takes the row away.
LoseToken(c) ==
    /\ c \in holds
    /\ holds' = holds \ {c}
    /\ UNCHANGED <<pending, batch, active, pc, answer, future, applied, broken, idOf>>

\* complete(): queue, start the task unless one runs, wait.
CompleteStarting(c) ==
    /\ future[c] = "running"
    /\ future' = [future EXCEPT ![c] = "waiting"]
    /\ pending' = Append(pending, c)
    /\ pc' = "ready"
    /\ UNCHANGED <<batch, active, answer, holds, applied, broken, idOf>>
Complete(c) ==
    /\ future[c] = "running"
    /\ future' = [future EXCEPT ![c] = "waiting"]
    /\ pending' = Append(pending, c)
    /\ pc' = IF pc \in {"none", "done"} THEN "ready" ELSE pc
    /\ UNCHANGED <<batch, active, answer, holds, applied, broken, idOf>>

\* The drain cancels a controller; its completion stays where it is.
Cancel(c) ==
    /\ future[c] = "waiting"
    /\ future' = [future EXCEPT ![c] = "cancelled"]
    /\ UNCHANGED <<pending, batch, active, pc, answer, holds, applied, broken, idOf>>

\* The batch: as many as fit, up to the first row that is already in it.
TakesUpToCap(q) == IF Len(q) < BatchCap THEN Len(q) ELSE BatchCap
Takes(q) ==
    CHOOSE n \in 0..Len(q) :
      /\ n <= BatchCap /\ \A i, j \in 1..n : i # j => idOf[q[i]] # idOf[q[j]]
      /\ \/ n = Len(q) \/ n = BatchCap \/ \E i \in 1..n : idOf[q[i]] = idOf[q[n + 1]]

\* One turn of _run up to the await: a batch of cancelled controllers is not written.
Collect ==
    LET n == Takes(pending)
        taken == {pending[i] : i \in 1..n}
        rest == SubSeq(pending, n + 1, Len(pending))
    IN  /\ pc = "ready"
        /\ pending' = rest
        /\ active' = Waiting(taken)
        /\ batch' = IF Waiting(taken) = {} THEN {} ELSE taken
        /\ pc' = IF Waiting(taken) # {} THEN "writing" ELSE IF rest = <<>> THEN "done" ELSE "ready"
        /\ UNCHANGED <<answer, future, holds, applied, broken, idOf>>

\* store.complete: refuses a batch with one row twice, else applies what holds.
Legal(S) == Cardinality(S) <= BatchCap /\ \A c, d \in S : c # d => idOf[c] # idOf[d]
WriteApplies ==
    /\ pc = "writing" /\ Legal(active)
    /\ answer' = active \cap holds
    /\ applied' = applied \cup (active \cap holds)
    /\ holds' = holds \ active
    /\ pc' = "answered"
    /\ UNCHANGED <<pending, batch, active, future, broken, idOf>>

\* fenced_write retries a connection error, before or after the effect.
AnswerLost ==
    /\ pc = "answered"
    /\ pc' = "writing" /\ answer' = {}
    /\ UNCHANGED <<pending, batch, active, future, holds, applied, broken, idOf>>
\* Any other database error: nothing was applied, and fenced_write returns None.
WriteRefused ==
    /\ pc = "writing" /\ Legal(active)
    /\ pc' = "answered" /\ answer' = {}
    /\ UNCHANGED <<pending, batch, active, future, holds, applied, broken, idOf>>

\* The answer is looked up by row for every future that is still open.
AnsweredById(c) == IF \E d \in answer : idOf[d] = idOf[c] THEN "applied" ELSE "rejected"
Answer ==
    /\ pc = "answered"
    /\ future' = [c \in Ctl |-> IF c \in Waiting(batch) THEN AnsweredById(c) ELSE future[c]]
    /\ batch' = {} /\ active' = {} /\ answer' = {}
    /\ pc' = IF pending = <<>> THEN "done" ELSE "ready"
    /\ UNCHANGED <<pending, holds, applied, broken, idOf>>

\* An unexpected exception of write() ends the task and reaches every future.
WriteRaisesToBatch ==
    /\ pc \in {"writing", "answered"}
    /\ future' = [c \in Ctl |-> IF c \in Waiting(batch) THEN "failed" ELSE future[c]]
    /\ pending' = <<>> /\ batch' = {} /\ active' = {} /\ answer' = {} /\ pc' = "done"
    /\ broken' = (broken \/ Legal(active))
    /\ UNCHANGED <<holds, applied, idOf>>
WriteRaises ==
    /\ pc \in {"writing", "answered"}
    /\ future' = [c \in Ctl |-> IF c \in Waiting(batch \cup Members(pending))
                                THEN "failed" ELSE future[c]]
    /\ pending' = <<>> /\ batch' = {} /\ active' = {} /\ answer' = {} /\ pc' = "done"
    /\ broken' = (broken \/ Legal(active))
    /\ UNCHANGED <<holds, applied, idOf>>

\* Worker._close: every controller is over; a write that still retries is cut off.
Close ==
    /\ pc \in {"ready", "writing", "answered"}
    /\ Waiting(Ctl) = {} /\ \A c \in Ctl : future[c] \notin {"unclaimed", "running"}
    /\ pending' = <<>> /\ batch' = {} /\ active' = {} /\ answer' = {} /\ pc' = "done"
    /\ UNCHANGED <<future, holds, applied, broken, idOf>>

Init ==
    /\ pending = <<>> /\ batch = {} /\ active = {} /\ pc = "none" /\ answer = {}
    /\ future = [c \in Ctl |-> "unclaimed"]
    /\ holds = {} /\ applied = {} /\ broken = FALSE
    /\ idOf \in IdMaps

Unanswered ==
    \/ \E c \in Ctl : Claim(c) \/ LoseToken(c) \/ Complete(c) \/ Cancel(c)
    \/ Collect \/ WriteApplies \/ AnswerLost \/ WriteRefused \/ WriteRaises
    \/ Close
Next == Unanswered \/ Answer
Write == WriteApplies \/ WriteRefused \/ WriteRaises

-----------------------------------------------------------------------------
\* Every variable holds what its attribute may hold.
TypeOK ==
    /\ pending \in Seq(Ctl) /\ batch \subseteq Ctl /\ active \subseteq batch
    /\ pc \in {"none", "ready", "writing", "answered", "done"}
    /\ answer \subseteq active /\ holds \subseteq Ctl /\ applied \subseteq Ctl /\ broken \in BOOLEAN
    /\ idOf \in [Ctl -> Id]
    /\ future \in [Ctl -> {"unclaimed", "running", "waiting", "applied", "rejected",
                           "cancelled", "failed"}]

\* A controller that is told its completion was applied is told so of its own:
\* the answer, looked up by row, is never that of another attempt of the row; and
\* none is told of a failure unless the write itself failed.
AnswerOwn ==
    \A c \in Ctl : /\ future[c] = "applied" => c \in applied
                   /\ future[c] = "failed" => broken

\* A completion that was handed in is answered, whatever happens to the ones
\* before it or next to it.
EveryoneAnswered == \A c \in Ctl : future[c] = "waiting" ~> future[c] # "waiting"
=============================================================================
