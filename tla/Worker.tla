------------------------------- MODULE Worker -------------------------------
(***************************************************************************)
(* The worker processes of worker.py against the store of TaskStore.       *)
(*                                                                         *)
(* A worker runs a claim loop, a renewal loop, a reaper and one controller *)
(* (an Attempt object) per claimed row on one event loop; an action here   *)
(* is what runs between two awaits.  A database call is split into the     *)
(* request, its effect and the reply, so that others may act in between    *)
(* and the reply may be lost.  A controller is named by its row and token. *)
(*                                                                         *)
(* Worker and database clocks are only ever used for durations, so one     *)
(* clock stands for both.                                                  *)
(***************************************************************************)
EXTENDS TaskStore

CONSTANTS Concurrency,   \* settings.concurrency
          HeartbeatS,    \* settings.heartbeat_s
          RenewS,        \* settings.renew_timeout_s
          Disturbances,  \* what the environment does to the workers of this instance
          Reclaims       \* may a worker claim a task it still tracks?

ASSUME WorkerAssumption ==
    /\ Concurrency \in Nat \ {0} /\ HeartbeatS \in Nat \ {0} /\ RenewS \in Nat
    /\ 2 * HeartbeatS <= LeaseS              \* config.py
    /\ 2 * RenewS <= LeaseS - HeartbeatS     \* config.renew_timeout_s
    /\ Disturbances \subseteq {"late_claim", "write_error", "crash", "signal", "operator",
                        "fatal"}
    /\ Reclaims \in BOOLEAN

VARIABLES mode,       \* per worker: where run() is
          immediate,  \* per worker: a second signal arrived
          attempts,   \* self.attempts: the token tracked per id, 0 for none
          ctl,        \* the Attempt objects, by id and token
          claim,      \* per worker: the claim loop
          late,       \* claims whose connection was lost before the server ran them
          renewal,    \* per worker: the renewal loop
          fatal       \* per worker: the exit code is EXIT_FATAL, a handler still runs

workerVars == <<mode, immediate, attempts, ctl, claim, late, renewal, fatal>>
vars == <<storeVars, workerVars>>

Token == 1..MaxAttempt
Cause == {"timeout", "cancel", "shutdown", "lost"}
ASSUME CauseAssumption == None \notin Cause \cup Kinds
Phase == {"none", "fresh", "renewing", "running", "ended", "stopping", "settling", "settled"}
Beat == {"none", "ok", "cancel", "gone"}

\* One controller.  since is claimed_at while fresh, and when its own renewal
\* started while renewing (which gives up at deadline); kind is the completion
\* it is about to write.
Ctl == [phase: Phase, cause: Cause \cup {None}, owner: Worker \cup {None}, renewed_at: Nat,
        since: Nat, deadline: Nat, kind: Kinds \cup {None}, beat: Beat,
        fatal: BOOLEAN]
NoCtl == [phase |-> "none", cause |-> None, owner |-> None, renewed_at |-> 0,
          since |-> 0, deadline |-> 0, kind |-> None, beat |-> "none", fatal |-> FALSE]
Over == {"none", "settled"}
Executing == {"running", "stopping"}

NoRows == [id \in {} |-> 0]
ClaimIdle == [pc |-> "idle", at |-> 0, free |-> 0, rows |-> NoRows]
RenewalIdle == [pc |-> "idle", started |-> 0, deadline |-> 0, held |-> NoRows,
                reply |-> [id \in {} |-> "ok"]]

Tracked(w) == {id \in Id : attempts[w][id] # 0}
Up(w) == mode[w] \in {"serving", "stopping", "draining"}

\* Attempt.stop: the first cause wins.
Stopped(c, cause) == IF c.cause = None THEN [c EXCEPT !.cause = cause] ELSE c
Moved(c, phase, kind) ==
    [c EXCEPT !.phase = phase, !.kind = kind, !.beat = "none", !.since = 0, !.deadline = 0]
Settled(c) == [NoCtl EXCEPT !.phase = "settled", !.owner = c.owner, !.fatal = c.fatal]
Settling(c, kind) == Moved(c, "settling", kind)
Expired(c) == now - c.renewed_at >= LeaseS

-----------------------------------------------------------------------------
(* Start-up, the claim loop and its failures.                              *)

\* _start_checks publishes every definition in one transaction; then it serves.
Start(w) ==
    /\ mode[w] = "new"
    /\ mode' = [mode EXCEPT ![w] = "serving"]
    /\ \E limit, keyLimit \in [Accepts[w] -> Limits] : PublishTaskTypes(limit, keyLimit)
    /\ UNCHANGED <<immediate, attempts, ctl, claim, late, renewal, fatal>>

\* _claim_loop: a request for as many rows as there are free slots.
ClaimSend(w) ==
    /\ mode[w] = "serving" /\ claim[w].pc = "idle"
    /\ Cardinality(Tracked(w)) < Concurrency
    /\ claim' = [claim EXCEPT ![w] = [ClaimIdle EXCEPT !.pc = "sent", !.at = now,
                                        !.free = Concurrency - Cardinality(Tracked(w))]]
    /\ UNCHANGED <<storeVars, mode, immediate, attempts, ctl, late, renewal, fatal>>

\* The server runs the claim statement; no row is the common answer.
ClaimApply(w, S) ==
    /\ claim[w].pc = "sent" /\ Cardinality(S) <= claim[w].free
    /\ Reclaims \/ \A id \in S : attempts[w][id] = 0
    /\ Claim(w, S)
    /\ claim' = [claim EXCEPT ![w].pc = "applied", ![w].rows = [id \in S |-> task'[id].token]]
    /\ UNCHANGED <<mode, immediate, attempts, ctl, late, renewal, fatal>>
ClaimEmpty(w) ==
    /\ claim[w].pc = "sent"
    /\ claim' = [claim EXCEPT ![w] = ClaimIdle]
    /\ UNCHANGED <<storeVars, mode, immediate, attempts, ctl, late, renewal, fatal>>

\* The connection is lost: whether the claim ran is unknown, and it may run yet.
MayRunLate(w) ==
    late' = IF claim[w].pc = "sent" /\ "late_claim" \in Disturbances
            THEN late \cup {<<w, claim[w].free>>} ELSE late
ClaimLost(w) ==
    /\ claim[w].pc \in {"sent", "applied"}
    /\ claim' = [claim EXCEPT ![w] = [ClaimIdle EXCEPT !.pc = "orphans"]]
    /\ MayRunLate(w)
    /\ UNCHANGED <<storeVars, mode, immediate, attempts, ctl, renewal, fatal>>
LateClaim(w, free, S) ==
    /\ <<w, free>> \in late /\ Cardinality(S) <= free
    /\ Reclaims \/ \A id \in S : attempts[w][id] = 0
    /\ Claim(w, S)
    /\ late' = late \ {<<w, free>>}
    /\ UNCHANGED <<mode, immediate, attempts, ctl, claim, renewal, fatal>>

\* _release_orphans through fenced_write: the tracked ids are read first; the
\* statement repeats until a reply arrives that is shorter than a full batch.
OrphansSend(w) ==
    /\ claim[w].pc = "orphans"
    /\ claim' = [claim EXCEPT ![w].pc = "releasing",
                              ![w].rows = [id \in Tracked(w) |-> attempts[w][id]]]
    /\ UNCHANGED <<storeVars, mode, immediate, attempts, ctl, late, renewal, fatal>>
OrphansIgnoringLive(w) ==
    /\ claim[w].pc = "releasing"
    /\ \E S \in SUBSET Id : ReleaseOrphans(w, {}, S)
    /\ claim' = [claim EXCEPT ![w] = ClaimIdle]
    /\ UNCHANGED <<mode, immediate, attempts, ctl, late, renewal, fatal>>
OrphansReleased(w) ==
    /\ claim[w].pc = "releasing"
    /\ \E S \in SUBSET Id :
         /\ ReleaseOrphans(w, DOMAIN claim[w].rows, S)
         /\ \/ claim' = [claim EXCEPT ![w] = [ClaimIdle EXCEPT !.pc = "orphans"]]
            \/ Cardinality(S) < BatchLimit /\ claim' = [claim EXCEPT ![w] = ClaimIdle]
    /\ UNCHANGED <<mode, immediate, attempts, ctl, late, renewal, fatal>>
\* fenced_write gives up: an immediate shutdown, or a permanent database error.
ReleaseAbandoned(w) ==
    /\ claim[w].pc \in {"orphans", "unstarted"}
    /\ immediate[w] \/ "write_error" \in Disturbances
    /\ claim' = [claim EXCEPT ![w] = ClaimIdle]
    /\ UNCHANGED <<storeVars, mode, immediate, attempts, ctl, late, renewal, fatal>>

\* The rows arrive: one controller each, unless the shutdown signal landed first.
Dispatched(w, id, k) ==
    [NoCtl EXCEPT !.phase = "fresh", !.owner = w, !.renewed_at = claim[w].at, !.since = claim[w].at]
ClaimDispatchDropping(w) ==
    /\ claim[w].pc = "applied"
    /\ claim' = [claim EXCEPT ![w] = ClaimIdle]
    /\ UNCHANGED <<storeVars, mode, immediate, attempts, ctl, late, renewal, fatal>>
ClaimDispatch(w) ==
    /\ claim[w].pc = "applied"
    /\ IF mode[w] = "serving"
       THEN /\ ctl' = [id \in Id |-> [k \in Token |->
                         IF id \in DOMAIN claim[w].rows /\ claim[w].rows[id] = k
                         THEN Dispatched(w, id, k) ELSE ctl[id][k]]]
            /\ attempts' = [attempts EXCEPT ![w] = [id \in Id |->
                         IF id \in DOMAIN claim[w].rows THEN claim[w].rows[id]
                         ELSE attempts[w][id]]]
            /\ claim' = [claim EXCEPT ![w] = ClaimIdle]
       ELSE /\ claim' = [claim EXCEPT ![w].pc = "unstarted"]
            /\ UNCHANGED <<ctl, attempts>>
    /\ UNCHANGED <<storeVars, mode, immediate, late, renewal, fatal>>

\* _release_unstarted through fenced_write.
ReleaseUnstarted(w) ==
    /\ claim[w].pc = "unstarted"
    /\ Complete([id \in DOMAIN claim[w].rows |->
                   [token |-> claim[w].rows[id], kind |-> "release"]])
    /\ claim' \in {claim, [claim EXCEPT ![w] = ClaimIdle]}
    /\ UNCHANGED <<mode, immediate, attempts, ctl, late, renewal, fatal>>

-----------------------------------------------------------------------------
(* One controller: Attempt.run.                                            *)

Become(id, k, c) == ctl' = [ctl EXCEPT ![id][k] = c]
Local == UNCHANGED <<storeVars, mode, immediate, attempts, claim, late, renewal, fatal>>
Remote == UNCHANGED <<mode, immediate, attempts, claim, late, renewal, fatal>>

\* What a heartbeat answers for one row.
BeatTrustingHint(r, k) == IF Holds(r, k) THEN "cancel" ELSE "gone"
BeatOf(r, k) == IF ~Holds(r, k) THEN "gone" ELSE IF r.cancel_requested THEN "cancel" ELSE "ok"
\* What _renew_attempts does with the answer.
RenewedNow(c, beat, started) ==
    IF beat = "gone" THEN Stopped(c, "lost")
    ELSE LET r == [c EXCEPT !.renewed_at = now]
         IN  IF beat = "cancel" THEN Stopped(r, "cancel") ELSE r
Renewed(c, beat, started) ==
    IF beat = "gone" THEN Stopped(c, "lost")
    ELSE LET r == [c EXCEPT !.renewed_at = started]
         IN  IF beat = "cancel" THEN Stopped(r, "cancel") ELSE r
\* Nothing may run: the lease is gone, or it goes back without a charge.
StepAside(c) == IF c.cause = "lost" THEN Settled(c) ELSE Settling(c, "release")

\* _fresh_lease: a controller scheduled in time runs at once, a late one renews.
BeginRunUnchecked(id, k) ==
    /\ ctl[id][k].phase = "fresh"
    /\ Become(id, k, Moved(ctl[id][k], "running", None))
    /\ Local
BeginRun(id, k) ==
    /\ ctl[id][k].phase = "fresh" /\ now - ctl[id][k].since <= HeartbeatS
    /\ Become(id, k, Moved(ctl[id][k], "running", None))
    /\ Local
\* A renewal that starts now may take this long.
Budget(renewals) ==
    LET ends == {now + RenewS} \cup {at + LeaseS : at \in renewals}
    IN  CHOOSE e \in ends : \A f \in ends : e <= f
FreshSend(id, k) ==
    LET c == ctl[id][k]
    IN  /\ c.phase = "fresh" /\ now - c.since > HeartbeatS
        /\ Become(id, k, IF Expired(c) THEN StepAside(Stopped(c, "lost"))
                         ELSE IF c.cause = "lost" THEN Settled(c)
                         ELSE [c EXCEPT !.phase = "renewing", !.since = now,
                                        !.deadline = Budget({c.renewed_at})])
        /\ Local
FreshApply(id, k) ==
    /\ ctl[id][k].phase = "renewing" /\ ctl[id][k].beat = "none"
    /\ Heartbeat([i \in {id} |-> k])
    /\ Become(id, k, [ctl[id][k] EXCEPT !.beat = BeatOf(task[id], k)])
    /\ Remote
FreshReply(id, k) ==
    LET c == ctl[id][k]
        r == Renewed(c, c.beat, c.since)
    IN  /\ c.phase = "renewing" /\ c.beat # "none" /\ now <= c.deadline
        /\ Become(id, k, IF r.cause = "lost" THEN Settled(r) ELSE Moved(r, "running", None))
        /\ Local
FreshFail(id, k) ==
    /\ ctl[id][k].phase = "renewing"
    /\ Become(id, k, StepAside(ctl[id][k]))
    /\ Local

\* TaskContext.progress: a rejected write means the token is gone.
Progress(id, k) ==
    /\ ctl[id][k].phase \in Executing \/ ctl[id][k].fatal
    /\ IF Holds(task[id], k)
       THEN SetProgress(id, k) /\ UNCHANGED workerVars
       ELSE Become(id, k, Stopped(ctl[id][k], "lost")) /\ Local

\* _run_execution: the runner ends by itself, or a stop or the timeout comes first.
RunnerEnds(id, k, kind) ==
    /\ ctl[id][k].phase = "running"
    /\ Become(id, k, [ctl[id][k] EXCEPT !.phase = "ended", !.kind = kind])
    /\ Local
StopSeen(id, k) ==
    /\ ctl[id][k].phase = "running"
    /\ Become(id, k, [Stopped(ctl[id][k], "timeout") EXCEPT !.phase = "stopping"])
    /\ Local
\* _finish_completed.
FinishCompleted(id, k) ==
    /\ ctl[id][k].phase = "ended"
    /\ Become(id, k, IF ctl[id][k].cause = "lost" THEN Settled(ctl[id][k])
                     ELSE Settling(ctl[id][k], ctl[id][k].kind))
    /\ Local
\* Grace, kill and _finish_stopped: the recorded cause is the outcome, although an
\* asyncio handler that ignores its cancellation still runs.
KindIsCause(cause) == cause
KindOf(cause) ==
    CASE cause = "timeout" -> "fail" [] cause = "cancel" -> "cancel" [] cause = "shutdown" -> "release"
FinishStopped(id, k) ==
    /\ ctl[id][k].phase = "stopping"
    /\ \E ignored \in {FALSE} \cup {TRUE : d \in Disturbances \cap {"fatal"}} :
         LET c == [ctl[id][k] EXCEPT !.fatal = ignored]
         IN  Become(id, k, IF c.cause = "lost" THEN Settled(c)
                           ELSE Settling(c, KindOf(c.cause)))
    /\ Local

\* _complete: fenced_write repeats the write until a reply arrives.
SettleWrite(id, k) ==
    /\ ctl[id][k].phase = "settling"
    /\ Complete([i \in {id} |-> [token |-> k, kind |-> ctl[id][k].kind]])
    /\ ctl' \in {ctl, [ctl EXCEPT ![id][k] = Settled(ctl[id][k])]}
    /\ Remote
\* A permanent database error: logged, the row is left to the reaper.
SettleError(id, k) ==
    /\ ctl[id][k].phase = "settling" /\ "write_error" \in Disturbances
    /\ Become(id, k, Settled(ctl[id][k]))
    /\ Local
\* _attempt_done: pops the id, whichever controller it now stands for; a handler
\* that ignored its cancellation ends the worker.
AttemptDoneRegardless(id, k) ==
    LET w == ctl[id][k].owner
    IN  /\ ctl[id][k].phase = "settled"
        /\ attempts' = [attempts EXCEPT ![w][id] = 0]
        /\ Become(id, k, NoCtl)
        /\ fatal' = [fatal EXCEPT ![w] = @ \/ ctl[id][k].fatal]
        /\ UNCHANGED <<storeVars, mode, immediate, claim, late, renewal>>
AttemptDone(id, k) ==
    LET w == ctl[id][k].owner
    IN  /\ ctl[id][k].phase = "settled"
        /\ attempts' = [attempts EXCEPT ![w][id] = 0]
        /\ Become(id, k, NoCtl)
        /\ fatal' = [fatal EXCEPT ![w] = @ \/ ctl[id][k].fatal]
        /\ mode' = IF ctl[id][k].fatal /\ mode[w] = "serving"
                   THEN [mode EXCEPT ![w] = "stopping"] ELSE mode
        /\ UNCHANGED <<storeVars, immediate, claim, late, renewal>>

-----------------------------------------------------------------------------
(* The renewal loop.                                                       *)

Of(w, id) == ctl[id][attempts[w][id]]
\* The check that ends a pass of _renewals: every tracked attempt past its lease stops.
AfterPass(w, f) ==
    [id \in Id |-> [k \in Token |->
        IF attempts[w][id] = k /\ f[id][k].phase \notin Over /\ Expired(f[id][k])
        THEN Stopped(f[id][k], "lost") ELSE f[id][k]]]

\* A pass over the attempts that are due, or that a cancel notification named
\* (hinted); those already past their lease are stopped, the rest are renewed.
RenewSend(w, hinted) ==
    LET due  == {id \in Tracked(w) :
                   /\ Of(w, id).phase \notin Over /\ Of(w, id).cause # "lost"
                   /\ id \in hinted \/ 2 * (now - Of(w, id).renewed_at) >= HeartbeatS}
        live == {id \in due : ~Expired(Of(w, id))}
        stop == [id \in Id |-> [k \in Token |->
                   IF id \in due \ live /\ attempts[w][id] = k
                   THEN Stopped(ctl[id][k], "lost") ELSE ctl[id][k]]]
    IN  /\ Up(w) /\ renewal[w].pc = "idle" /\ due # {}
        /\ IF live = {}
           THEN ctl' = AfterPass(w, stop) /\ UNCHANGED renewal
           ELSE /\ ctl' = stop
                /\ renewal' = [renewal EXCEPT ![w] = [RenewalIdle EXCEPT
                      !.pc = "sent", !.started = now,
                      !.deadline = Budget({Of(w, id).renewed_at : id \in live}),
                      !.held = [id \in live |-> attempts[w][id]]]]
        /\ UNCHANGED <<storeVars, mode, immediate, attempts, claim, late, fatal>>

RenewApply(w) ==
    /\ renewal[w].pc = "sent"
    /\ Heartbeat(renewal[w].held)
    /\ renewal' = [renewal EXCEPT ![w].pc = "applied",
                     ![w].reply = [id \in DOMAIN renewal[w].held |->
                                     BeatOf(task[id], renewal[w].held[id])]]
    /\ UNCHANGED <<mode, immediate, attempts, ctl, claim, late, fatal>>

RenewReply(w) ==
    LET r == renewal[w]
        Held(id, k) == id \in DOMAIN r.held /\ r.held[id] = k /\ ctl[id][k].phase \notin Over
        renewed == [id \in Id |-> [k \in Token |->
                      IF Held(id, k) THEN Renewed(ctl[id][k], r.reply[id], r.started)
                      ELSE ctl[id][k]]]
    IN  /\ r.pc = "applied" /\ now <= r.deadline
        /\ ctl' = AfterPass(w, renewed)
        /\ renewal' = [renewal EXCEPT ![w] = RenewalIdle]
        /\ UNCHANGED <<storeVars, mode, immediate, attempts, claim, late, fatal>>

\* Timed out or disconnected, before or after the server ran it: unconfirmed.
RenewFail(w) ==
    /\ renewal[w].pc \in {"sent", "applied"}
    /\ ctl' = AfterPass(w, ctl)
    /\ renewal' = [renewal EXCEPT ![w] = RenewalIdle]
    /\ UNCHANGED <<storeVars, mode, immediate, attempts, claim, late, fatal>>

-----------------------------------------------------------------------------
(* Shutdown and failure.                                                   *)

RequestShutdown(w) ==
    /\ Up(w) /\ ~immediate[w] /\ "signal" \in Disturbances
    /\ IF mode[w] = "serving"
       THEN mode' = [mode EXCEPT ![w] = "stopping"] /\ UNCHANGED immediate
       ELSE immediate' = [immediate EXCEPT ![w] = TRUE] /\ UNCHANGED mode
    /\ UNCHANGED <<storeVars, attempts, ctl, claim, late, renewal, fatal>>

\* _drain, once the claim loop has returned: after the grace wait every tracked
\* attempt is asked to stop.
StopAll(w, cause) ==
    [id \in Id |-> [k \in Token |->
        IF attempts[w][id] = k /\ ctl[id][k].phase \notin Over
        THEN Stopped(ctl[id][k], cause) ELSE ctl[id][k]]]
Drain(w) ==
    /\ mode[w] = "stopping" /\ claim[w].pc = "idle"
    /\ mode' = [mode EXCEPT ![w] = "draining"]
    /\ ctl' = StopAll(w, "shutdown")
    /\ UNCHANGED <<storeVars, immediate, attempts, claim, late, renewal, fatal>>

\* The second signal: past the stop budget, whatever is unsettled is cancelled.
Abandon(w) ==
    /\ mode[w] = "draining" /\ immediate[w]
    /\ \E id \in Tracked(w) : Of(w, id).phase \notin Over
    /\ ctl' = [id \in Id |-> [k \in Token |->
                 IF attempts[w][id] = k /\ ctl[id][k].phase # "none"
                 THEN Settled(ctl[id][k]) ELSE ctl[id][k]]]
    /\ UNCHANGED <<storeVars, mode, immediate, attempts, claim, late, renewal, fatal>>

\* The process ends: nothing of it remains but what the server still holds.
Gone(w) ==
    /\ ctl' = [id \in Id |-> [k \in Token |->
                 IF ctl[id][k].owner = w THEN NoCtl ELSE ctl[id][k]]]
    /\ attempts' = [attempts EXCEPT ![w] = [id \in Id |-> 0]]
    /\ claim' = [claim EXCEPT ![w] = ClaimIdle]
    /\ renewal' = [renewal EXCEPT ![w] = RenewalIdle]
    /\ fatal' = [fatal EXCEPT ![w] = FALSE]
    /\ MayRunLate(w)
    /\ UNCHANGED <<storeVars, immediate>>
Exit(w) ==
    /\ mode[w] = "draining" /\ Tracked(w) = {}
    /\ mode' = [mode EXCEPT ![w] = "exited"]
    /\ Gone(w)
Crash(w) ==
    /\ Up(w) /\ "crash" \in Disturbances
    /\ mode' = [mode EXCEPT ![w] = "crashed"]
    /\ Gone(w)

-----------------------------------------------------------------------------
Init ==
    /\ StoreInit
    /\ mode = [w \in Worker |-> "new"]
    /\ immediate = [w \in Worker |-> FALSE]
    /\ attempts = [w \in Worker |-> [id \in Id |-> 0]]
    /\ ctl = [id \in Id |-> [k \in Token |-> NoCtl]]
    /\ claim = [w \in Worker |-> ClaimIdle]
    /\ late = {}
    /\ renewal = [w \in Worker |-> RenewalIdle]
    /\ fatal = [w \in Worker |-> FALSE]

ClaimLoop(w) ==
    \/ Start(w) \/ ClaimSend(w) \/ ClaimEmpty(w) \/ ClaimLost(w) \/ ClaimDispatch(w)
    \/ OrphansSend(w) \/ OrphansReleased(w) \/ ReleaseAbandoned(w) \/ ReleaseUnstarted(w)
    \/ \E S \in SUBSET Id : ClaimApply(w, S) \/ \E free \in 1..Concurrency : LateClaim(w, free, S)

Controller(id, k) ==
    \/ BeginRun(id, k) \/ FreshSend(id, k) \/ FreshApply(id, k) \/ FreshReply(id, k)
    \/ FreshFail(id, k) \/ Progress(id, k) \/ StopSeen(id, k)
    \/ \E kind \in {"succeed", "fail", "fail_final"} : RunnerEnds(id, k, kind)
    \/ FinishCompleted(id, k) \/ FinishStopped(id, k) \/ SettleWrite(id, k)
    \/ SettleError(id, k) \/ AttemptDone(id, k)

Renewals(w) ==
    \/ \E hinted \in SUBSET Id : RenewSend(w, hinted)
    \/ RenewApply(w) \/ RenewReply(w) \/ RenewFail(w)

Lifetime(w) == RequestShutdown(w) \/ Drain(w) \/ Abandon(w) \/ Exit(w) \/ Crash(w)

\* Clients, and the reaper every running worker has.
Clients ==
    /\ \/ \E id \in Id, type \in TaskType, max_attempts \in Budgets, delay \in RunDelays :
            Enqueue(id, type, None, None, max_attempts, delay)
       \/ \E id \in Id : "operator" \in Disturbances /\ (RequestCancel(id) \/ Requeue(id))
       \/ Tick
    /\ UNCHANGED workerVars
Reaper ==
    /\ \E w \in Worker : Up(w)
    /\ \E S \in SUBSET Id : Reap(S)
    /\ UNCHANGED workerVars

WNext ==
    \/ \E w \in Worker : ClaimLoop(w) \/ Renewals(w) \/ Lifetime(w)
    \/ \E id \in Id, k \in Token : Controller(id, k)
    \/ Clients
    \/ Reaper

WSpec == Init /\ [][WNext]_vars

\* What the scheduling guarantees: the event loop runs what is ready, a handler
\* that is told to stop ends or is killed, and the database answers in the end.
\* A handler may run for ever, time may stop, and nobody has to ask for anything.
MainStep(w) ==
    \/ ClaimEmpty(w) \/ ClaimDispatch(w) \/ OrphansSend(w)
    \/ OrphansReleased(w) \/ Drain(w) \/ Exit(w)
    \/ ReleaseUnstarted(w) /\ claim'[w] = ClaimIdle
ControllerStep(id, k) ==
    \/ BeginRun(id, k) \/ FreshSend(id, k) \/ FreshFail(id, k)
    \/ StopSeen(id, k) /\ ctl[id][k].cause # None
    \/ FinishCompleted(id, k) \/ FinishStopped(id, k)
    \/ SettleWrite(id, k) /\ ctl' # ctl
    \/ AttemptDone(id, k)
Fairness ==
    /\ \A w \in Worker : /\ WF_vars(MainStep(w))
                         /\ SF_vars(OrphansReleased(w) /\ claim'[w] = ClaimIdle)
    /\ \A id \in Id, k \in Token : WF_vars(ControllerStep(id, k))
FairSpec == WSpec /\ Fairness

-----------------------------------------------------------------------------
(* Properties.                                                             *)

Held == UNION {[S -> Token] : S \in SUBSET Id}
ClaimCall == [pc: {"idle", "sent", "applied", "orphans", "releasing", "unstarted"},
              at: Nat, free: 0..Concurrency, rows: Held]
RenewalCall == [pc: {"idle", "sent", "applied"}, started: Nat, deadline: Nat,
                held: Held, reply: UNION {[S -> Beat] : S \in SUBSET Id}]

\* Every field of the worker's memory holds a value of its kind.
WorkerTypeOK ==
    /\ mode \in [Worker -> {"new", "serving", "stopping", "draining", "exited", "crashed"}]
    /\ immediate \in [Worker -> BOOLEAN] /\ fatal \in [Worker -> BOOLEAN]
    /\ attempts \in [Worker -> [Id -> 0..MaxAttempt]]
    /\ ctl \in [Id -> [Token -> Ctl]]
    /\ claim \in [Worker -> ClaimCall]
    /\ late \subseteq Worker \X (1..Concurrency)
    /\ renewal \in [Worker -> RenewalCall]

\* The deadline an attempt keeps locally is never later than the lease the
\* database keeps: _renewed_at is taken before the request, so a slow, lost or
\* overtaken heartbeat can only make the worker give up too early.
LeaseConservative ==
    \A id \in Id, k \in Token :
      ctl[id][k].phase \notin Over /\ Holds(task[id], k) =>
        ctl[id][k].renewed_at + LeaseS <= task[id].lease_until

\* A handler that runs within its local lease owns its row: neither the reaper
\* nor a release of orphaned claims has given the task to another attempt.
LeaseTrusted ==
    \A id \in Id, k \in Token :
      ctl[id][k].phase \in Executing /\ ~Expired(ctl[id][k]) => Holds(task[id], k)

\* An attempt that ends as cancelled has seen its own cancellation request: a
\* hint that outlived a requeue cannot cancel the newer attempt.
CancelAcked ==
    \A id \in Id, k \in Token :
      /\ ctl[id][k].phase = "settling" /\ ctl[id][k].kind = "cancel"
      /\ Holds(task[id], k)
      => task[id].cancel_requested

\* No claim starts with a consumed lease: when a handler starts, its attempt
\* holds the row and the lease has not run out (_fresh_lease).
StartsLeasedStep ==
    \A id \in Id, k \in Token :
      ctl[id][k].phase \in {"fresh", "renewing"} /\ ctl'[id][k].phase = "running" =>
        Holds(task[id], k) /\ now <= task[id].lease_until
StartsLeased == [][StartsLeasedStep]_vars

\* Every attempt belongs to its worker until it is settled: the attempt that
\* holds a row is the one self.attempts names, so that it is renewed, counted
\* against the concurrency, stopped and waited for.
EveryAttemptTracked ==
    \A id \in Id, k \in Token :
      ctl[id][k].phase \notin Over /\ Holds(task[id], k) => attempts[ctl[id][k].owner][id] = k

\* A graceful shutdown leaves nothing running: every row the worker claimed was
\* completed or went back to the queue, though replies were lost on the way.
\* The exception is a lease that ran out, which none has before now = LeaseS.
GracefulExitClean ==
    \A w \in Worker : mode[w] = "exited" /\ ~immediate[w] /\ now < LeaseS =>
      \A id \in Id : ~(task[id].state = "running" /\ task[id].worker = w)

\* Every shutdown ends, whatever claim, renewal or handler was in progress, and a
\* handler that ignored its cancellation does not outlive its outcome for ever: it
\* brings such a shutdown about.
Stubborn(w) == fatal[w] \/ \E id \in Id, k \in Token : ctl[id][k].owner = w /\ ctl[id][k].fatal
ShutdownCompletes ==
    \A w \in Worker : mode[w] = "stopping" \/ Stubborn(w) ~> mode[w] \in {"exited", "crashed"}
=============================================================================
