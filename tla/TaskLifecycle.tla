---------------------------- MODULE TaskLifecycle ----------------------------
(***************************************************************************)
(* What Fronta promises about one task, without leases, tokens, workers or *)
(* time: the states it goes through, when an attempt is counted, when a    *)
(* failure is charged, and what a cancellation request commits it to.      *)
(* TaskStore implements it row by row; one statement may move several      *)
(* tasks, each along one of these transitions.                             *)
(***************************************************************************)
EXTENDS Naturals

CONSTANTS Id, Budgets

VARIABLE life

Gone == {"absent", "purged"}
Settled == {"succeeded", "failed", "cancelled"}

\* Each transition relates a task before (o) to the same task after (n).
Move(o, n, from, to) == o.state = from /\ n.state = to /\ n.budget = o.budget
Kept(o, n) == n.attempt = o.attempt /\ n.failures = o.failures
Flag(o, n) == n.cancelling = o.cancelling

Created(o, n) ==
    /\ o.state = "absent" /\ n.state = "queued" /\ n.budget \in Budgets
    /\ n.attempt = 0 /\ n.failures = 0 /\ ~n.cancelling
Started(o, n) ==
    /\ Move(o, n, "queued", "running") /\ Flag(o, n)
    /\ n.attempt = o.attempt + 1 /\ n.failures = o.failures
Succeeded(o, n) == Move(o, n, "running", "succeeded") /\ Kept(o, n) /\ Flag(o, n)
Charged(o, n) == n.failures = o.failures + 1 /\ n.attempt = o.attempt /\ Flag(o, n)
\* A retry needs budget, and is never granted to a task asked to cancel.
Retried(o, n) ==
    /\ Move(o, n, "running", "queued") /\ Charged(o, n)
    /\ ~o.cancelling /\ n.failures < o.budget
Failed(o, n) == Move(o, n, "running", "failed") /\ Charged(o, n)
\* A worker gives the task back without a charge.
Released(o, n) ==
    Move(o, n, "running", "queued") /\ Kept(o, n) /\ Flag(o, n) /\ ~o.cancelling
CancelAsked(o, n) ==
    /\ Kept(o, n) /\ n.cancelling /\ n.budget = o.budget
    /\ \/ o.state = "queued" /\ n.state = "cancelled"
       \/ o.state = "running" /\ n.state = "running"
Cancelled(o, n) ==
    /\ Move(o, n, "running", "cancelled") /\ o.cancelling
    /\ (Kept(o, n) /\ Flag(o, n)) \/ Charged(o, n)
Requeued(o, n) ==
    /\ o.state \in {"failed", "cancelled"} /\ n.state = "queued" /\ n.budget = o.budget
    /\ n.attempt = o.attempt /\ n.failures = 0 /\ ~n.cancelling
Forgotten(o, n) == o.state \in Settled /\ n.state = "purged"

Step(o, n) ==
    \/ Created(o, n) \/ Started(o, n) \/ Succeeded(o, n) \/ Retried(o, n) \/ Failed(o, n)
    \/ Released(o, n) \/ CancelAsked(o, n) \/ Cancelled(o, n) \/ Requeued(o, n)
    \/ Forgotten(o, n)

Init == life = [id \in Id |-> [state |-> "absent", attempt |-> 0, failures |-> 0,
                               budget |-> 0, cancelling |-> FALSE]]

Next == /\ DOMAIN life' = Id
        /\ \A id \in Id : life'[id] = life[id] \/ Step(life[id], life'[id])

Spec == Init /\ [][Next]_life
=============================================================================
