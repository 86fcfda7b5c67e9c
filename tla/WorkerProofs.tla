---------------------------- MODULE WorkerProofs ----------------------------
(***************************************************************************)
(* What the workers of Worker keep true, for every value of the constants. *)
(*                                                                         *)
(* The invariant: what a controller, a claim or a renewal in flight        *)
(* believes about a lease never outlasts the lease in the database, and it *)
(* only acts on a cancellation that was requested.                         *)
(***************************************************************************)
EXTENDS Worker, TaskStoreProofs

\* Token k of this row has been given out.
Below(r, k) == r.state # "absent" /\ (k <= r.attempt \/ r.state = "purged")
\* The lease of token k, while it lasts, reaches as far as a renewal at t promises.
Covers(r, k, t) == Holds(r, k) => t + LeaseS <= r.lease_until
Asked(r, k) == Holds(r, k) => r.cancel_requested

CtlSound(c, r, k) ==
    /\ c.phase = "settling" => c.kind \in Kinds
    /\ c.phase = "ended" => c.kind \in {"succeed", "fail", "fail_final"}
    /\ c.phase = "stopping" => c.cause # None
    /\ c.phase # "renewing" => c.beat = "none"
    /\ c.phase # "none" => c.owner \in Worker /\ Below(r, k)
    /\ c.phase \notin Over =>
         /\ Covers(r, k, c.renewed_at)
         /\ c.phase = "fresh" \/ c.beat \in {"ok", "cancel"} => Covers(r, k, c.since)
         /\ c.phase = "renewing" /\ Holds(r, k) => c.deadline <= r.lease_until
         /\ "cancel" \in {c.cause, c.beat, c.kind} => Asked(r, k)

\* A claim in flight, and a renewal in flight.
Pending == {"applied", "unstarted"}
ClaimSound(w) ==
    /\ claim[w].at <= now
    /\ claim[w].pc = "sent" => claim[w].free \in 1..Concurrency
    /\ claim[w].pc \in Pending =>
         \A id \in DOMAIN claim[w].rows :
           /\ Below(task[id], claim[w].rows[id])
           /\ Covers(task[id], claim[w].rows[id], claim[w].at)
RenewalSound(w) ==
    LET r == renewal[w]
    IN  /\ r.started <= now
        /\ \A id \in DOMAIN r.held : Below(task[id], r.held[id])
        /\ r.pc = "applied" =>
             /\ DOMAIN r.reply = DOMAIN r.held
             /\ \A id \in DOMAIN r.held :
                  /\ r.reply[id] # "gone" => Covers(task[id], r.held[id], r.started)
                  /\ r.reply[id] = "cancel" => Asked(task[id], r.held[id])

LeaseAhead == \A id \in Id : task[id].state = "running" => task[id].lease_until <= now + LeaseS

WorkerInv ==
    /\ StoreInv /\ AttemptsBounded /\ LeaseAhead /\ WorkerTypeOK
    /\ \A id \in Id, k \in Token : CtlSound(ctl[id][k], task[id], k) /\ ctl[id][k].since <= now
    /\ \A w \in Worker : ClaimSound(w) /\ RenewalSound(w)

\* A controller that still counts on its lease.
Alive == {"fresh", "renewing", "running", "ended", "stopping"}

-----------------------------------------------------------------------------
(* Constants and controllers.                                              *)

LEMMA WorkerNumbers ==
    /\ LeaseS \in Nat /\ HeartbeatS \in Nat /\ RenewS \in Nat /\ LeaseS > 0
    /\ HeartbeatS < LeaseS /\ Concurrency \in Nat /\ MaxAttempt \in Nat
BY PolicyAssumption, WorkerAssumption, BoundAssumption
   DEF PolicyAssumption, WorkerAssumption, BoundAssumption

LEMMA TokenFacts ==
    ASSUME NEW k \in Token PROVE k \in Nat /\ k > 0 /\ k <= MaxAttempt
BY WorkerNumbers DEF Token

LEMMA NoCtlFacts ==
    /\ NoCtl \in Ctl
    /\ \A r, k : CtlSound(NoCtl, r, k)
BY DEF NoCtl, Ctl, Phase, Beat, CtlSound, Over

LEMMA StoppedFacts ==
    ASSUME NEW c \in Ctl, NEW cause \in Cause
    PROVE  LET s == Stopped(c, cause)
           IN  /\ s \in Ctl /\ s.cause # None
               /\ s.cause = IF c.cause = None THEN cause ELSE c.cause
               /\ s.phase = c.phase /\ s.owner = c.owner /\ s.renewed_at = c.renewed_at
               /\ s.since = c.since /\ s.deadline = c.deadline /\ s.kind = c.kind
               /\ s.beat = c.beat /\ s.fatal = c.fatal
<1>1. cause # None
  BY CauseAssumption DEF CauseAssumption
<1> QED
  BY <1>1 DEF Stopped, Ctl

LEMMA MovedFacts ==
    ASSUME NEW c \in Ctl, NEW phase \in Phase, NEW kind \in Kinds \cup {None}
    PROVE  LET m == Moved(c, phase, kind)
           IN  /\ m \in Ctl /\ m.phase = phase /\ m.kind = kind /\ m.beat = "none"
               /\ m.since = 0 /\ m.deadline = 0
               /\ m.cause = c.cause /\ m.owner = c.owner /\ m.renewed_at = c.renewed_at
BY DEF Moved, Ctl, Beat

LEMMA SettledFacts ==
    ASSUME NEW c \in Ctl
    PROVE  LET s == Settled(c)
           IN  /\ s \in Ctl /\ s.phase = "settled" /\ s.owner = c.owner /\ s.beat = "none"
               /\ s.since = 0
BY NoCtlFacts DEF Settled, Ctl, NoCtl, Phase

\* Asking a controller to stop keeps it sound; a cancellation needs a request.
LEMMA StoppedSound ==
    ASSUME NEW c \in Ctl, NEW r, NEW k, CtlSound(c, r, k), NEW cause \in Cause,
           cause = "cancel" => Asked(r, k)
    PROVE  Stopped(c, cause) \in Ctl /\ CtlSound(Stopped(c, cause), r, k)
<1> DEFINE s == Stopped(c, cause)
<1>1. /\ s \in Ctl /\ s.cause # None
      /\ s.cause = IF c.cause = None THEN cause ELSE c.cause
      /\ s.phase = c.phase /\ s.owner = c.owner /\ s.renewed_at = c.renewed_at
      /\ s.since = c.since /\ s.deadline = c.deadline /\ s.kind = c.kind
      /\ s.beat = c.beat
  BY StoppedFacts
<1> HIDE DEF s
<1>2. CtlSound(s, r, k)
  BY <1>1 DEF CtlSound
<1> QED
  BY <1>1, <1>2 DEF s

LEMMA SettledSound ==
    ASSUME NEW c \in Ctl, NEW r, NEW k, CtlSound(c, r, k), c.phase # "none"
    PROVE  Settled(c) \in Ctl /\ CtlSound(Settled(c), r, k)
<1> DEFINE s == Settled(c)
<1>1. s \in Ctl /\ s.phase = "settled" /\ s.owner = c.owner /\ s.beat = "none"
  BY SettledFacts
<1> HIDE DEF s
<1>2. CtlSound(s, r, k)
  BY <1>1 DEF CtlSound, Over
<1> QED
  BY <1>1, <1>2 DEF s

LEMMA RunningSound ==
    ASSUME NEW c \in Ctl, NEW r, NEW k, CtlSound(c, r, k), c.phase \notin Over
    PROVE  Moved(c, "running", None) \in Ctl /\ CtlSound(Moved(c, "running", None), r, k)
<1> DEFINE m == Moved(c, "running", None)
<1>1. /\ m \in Ctl /\ m.phase = "running" /\ m.kind = None /\ m.beat = "none"
      /\ m.cause = c.cause /\ m.owner = c.owner /\ m.renewed_at = c.renewed_at
  BY MovedFacts DEF Phase
<1>2. None # "cancel"
  BY CauseAssumption DEF CauseAssumption, Cause
<1> HIDE DEF m
<1>3. CtlSound(m, r, k)
  BY <1>1, <1>2 DEF CtlSound, Over
<1> QED
  BY <1>1, <1>3 DEF m

LEMMA SettlingSound ==
    ASSUME NEW c \in Ctl, NEW r, NEW k, CtlSound(c, r, k), c.phase \notin Over,
           NEW kind \in Kinds, kind = "cancel" => Asked(r, k)
    PROVE  Settling(c, kind) \in Ctl /\ CtlSound(Settling(c, kind), r, k)
<1> DEFINE m == Settling(c, kind)
<1>1. /\ m \in Ctl /\ m.phase = "settling" /\ m.kind = kind /\ m.beat = "none"
      /\ m.cause = c.cause /\ m.owner = c.owner /\ m.renewed_at = c.renewed_at
  BY MovedFacts DEF Phase, Settling
<1> HIDE DEF m
<1>3. CtlSound(m, r, k)
  BY <1>1 DEF CtlSound, Over
<1> QED
  BY <1>1, <1>3 DEF m

LEMMA StepAsideSound ==
    ASSUME NEW c \in Ctl, NEW r, NEW k, CtlSound(c, r, k), c.phase \notin Over
    PROVE  StepAside(c) \in Ctl /\ CtlSound(StepAside(c), r, k)
BY SettledSound, SettlingSound DEF StepAside, Kinds, Over

\* A renewal's answer, when it stands for what the database did at started or later.
LEMMA RenewedSound ==
    ASSUME NEW c \in Ctl, NEW r, NEW k, CtlSound(c, r, k), c.phase \notin Over,
           NEW beat \in Beat, NEW started \in Nat,
           beat # "gone" => Covers(r, k, started), beat = "cancel" => Asked(r, k)
    PROVE  LET n == Renewed(c, beat, started)
           IN  /\ n \in Ctl /\ CtlSound(n, r, k)
               /\ n.phase = c.phase /\ n.since = c.since /\ n.owner = c.owner
               /\ n.beat = c.beat /\ n.deadline = c.deadline
               /\ n.renewed_at = IF beat = "gone" THEN c.renewed_at ELSE started
<1> DEFINE n == [c EXCEPT !.renewed_at = started]
<1>1. /\ n \in Ctl /\ n.renewed_at = started
      /\ n.cause = c.cause /\ n.phase = c.phase /\ n.owner = c.owner
      /\ n.since = c.since /\ n.deadline = c.deadline /\ n.kind = c.kind /\ n.beat = c.beat
  BY DEF Ctl
<1>2. Renewed(c, beat, started)
        = IF beat = "gone" THEN Stopped(c, "lost")
          ELSE IF beat = "cancel" THEN Stopped(n, "cancel") ELSE n
  BY DEF Renewed
<1> HIDE DEF n
<1>3. beat # "gone" => CtlSound(n, r, k)
  BY <1>1 DEF CtlSound
<1> DEFINE Same(s) == /\ s.phase = c.phase /\ s.since = c.since /\ s.owner = c.owner
                      /\ s.beat = c.beat /\ s.deadline = c.deadline
<1>4. LET s == Stopped(c, "lost")
      IN  s \in Ctl /\ CtlSound(s, r, k) /\ Same(s) /\ s.renewed_at = c.renewed_at
  BY StoppedSound, StoppedFacts DEF Cause
<1>5. LET s == Stopped(n, "cancel")
      IN  beat = "cancel" => s \in Ctl /\ CtlSound(s, r, k) /\ Same(s) /\ s.renewed_at = started
  BY <1>1, <1>3, StoppedSound, StoppedFacts DEF Cause
<1> QED
  BY <1>1, <1>2, <1>3, <1>4, <1>5

-----------------------------------------------------------------------------
(* Rows.  No statement but a completion, a release or a reap takes a row   *)
(* from the attempt that holds it, and none gives it back to a token that  *)
(* has already been given out.                                             *)
RowKeeps(r, q, k) ==
    /\ Below(q, k)
    /\ Holds(q, k) => /\ Holds(r, k) /\ r.lease_until <= q.lease_until
                      /\ r.cancel_requested => q.cancel_requested
                      /\ q.worker = r.worker

LEMMA CompletedKeeps ==
    ASSUME NEW r \in Row, NEW kind \in Kinds, NEW delay, NEW k, Below(r, k), r.state = "running"
    PROVE  RowKeeps(r, Completed(r, r.token, kind, delay), k)
<1> DEFINE q == Completed(r, r.token, kind, delay)
<1>1. q.state = CompletedState(r, kind) /\ q.attempt = r.attempt
  BY DEF Completed, Row
<1>2. q.state # "running" /\ q.state # "absent"
  BY <1>1 DEF CompletedState, Kinds
<1> HIDE DEF q
<1>3. RowKeeps(r, q, k)
  BY <1>1, <1>2 DEF RowKeeps, Below, Holds
<1> QED
  BY <1>3 DEF q

LEMMA ReapedKeeps ==
    ASSUME NEW r \in Row, NEW delay, NEW k, Below(r, k), r.state = "running"
    PROVE  RowKeeps(r, Reaped(r, delay), k)
<1> DEFINE q == Reaped(r, delay)
<1>1. q.state \in {"cancelled", "queued", "failed"} /\ q.attempt = r.attempt
  BY DEF Reaped, Row
<1> HIDE DEF q
<1>3. RowKeeps(r, q, k)
  BY <1>1 DEF RowKeeps, Below, Holds
<1> QED
  BY <1>3 DEF q

LEMMA RequestKeeps ==
    ASSUME NEW r \in Row, NEW k, Below(r, k)
    PROVE  /\ r.state \in Active => RowKeeps(r, CancelRequested(r), k)
           /\ r.state \in {"failed", "cancelled"} => RowKeeps(r, Requeued(r), k)
<1> DEFINE c == CancelRequested(r)
           q == Requeued(r)
<1>1. /\ c.state = (IF r.state = "queued" THEN "cancelled" ELSE r.state) /\ c.attempt = r.attempt
      /\ c.token = r.token /\ c.lease_until = r.lease_until /\ c.worker = r.worker
      /\ c.cancel_requested = TRUE
  BY DEF CancelRequested, Row
<1>2. q.state = "queued" /\ q.attempt = r.attempt
  BY DEF Requeued, Row
<1>3. r.lease_until <= r.lease_until
  BY DEF Row, Time, NoTime
<1> HIDE DEF c, q
<1>4. r.state \in Active => RowKeeps(r, c, k)
  BY <1>1, <1>3 DEF RowKeeps, Below, Holds, Active
<1>5. r.state \in {"failed", "cancelled"} => RowKeeps(r, q, k)
  BY <1>2 DEF RowKeeps, Below, Holds
<1> QED
  BY <1>4, <1>5 DEF c, q

LEMMA ClaimedKeeps ==
    ASSUME NEW r \in Row, NEW w, NEW k \in Nat, Below(r, k), r.state = "queued"
    PROVE  RowKeeps(r, Claimed(r, w), k)
<1> DEFINE q == Claimed(r, w)
<1>1. /\ q.state = "running" /\ q.attempt = r.attempt + 1 /\ q.token = r.attempt + 1
      /\ r.attempt \in Nat
  BY DEF Claimed, Row
<1> HIDE DEF q
<1>2. RowKeeps(r, q, k)
  BY <1>1 DEF RowKeeps, Below, Holds
<1> QED
  BY <1>2 DEF q

LEMMA WrittenKeeps ==
    ASSUME now \in Nat, NEW r \in Row, NEW k, Below(r, k), r.state = "running",
           r.lease_until <= now + LeaseS
    PROVE  /\ RowKeeps(r, [r EXCEPT !.lease_until = now + LeaseS], k)
           /\ RowKeeps(r, [r EXCEPT !.progress = r.token], k)
<1> DEFINE h == [r EXCEPT !.lease_until = now + LeaseS]
           p == [r EXCEPT !.progress = r.token]
<1>1. /\ h.state = r.state /\ h.attempt = r.attempt /\ h.token = r.token
      /\ h.cancel_requested = r.cancel_requested /\ h.lease_until = now + LeaseS
      /\ h.worker = r.worker
  BY DEF Row
<1>2. /\ p.state = r.state /\ p.attempt = r.attempt /\ p.token = r.token
      /\ p.cancel_requested = r.cancel_requested /\ p.lease_until = r.lease_until
      /\ p.worker = r.worker
  BY DEF Row
<1>3. r.lease_until <= r.lease_until
  BY DEF Row, Time, NoTime
<1> HIDE DEF h, p
<1>4. RowKeeps(r, h, k)
  BY <1>1 DEF RowKeeps, Below, Holds
<1>5. RowKeeps(r, p, k)
  BY <1>2, <1>3 DEF RowKeeps, Below, Holds
<1> QED
  BY <1>4, <1>5 DEF h, p

LEMMA RowStepKeeps ==
    ASSUME now \in Nat, NEW r \in Row, NEW q, RowStep(r, q), NEW k \in Nat, Below(r, k),
           r.state = "running" => r.lease_until <= now + LeaseS
    PROVE  RowKeeps(r, q, k)
<1>1. CASE q = r
  <2>1. r.lease_until <= r.lease_until
    BY DEF Row, Time, NoTime
  <2> QED
    BY <1>1, <2>1 DEF RowKeeps
<1>2. CASE r.state = "absent"
  BY <1>2 DEF Below
<1>3. CASE r.state = "queued" /\ \E w \in Worker : q = Claimed(r, w)
  BY <1>3, ClaimedKeeps
<1>4. CASE r.state = "running" /\ q = [r EXCEPT !.lease_until = now + LeaseS]
  BY <1>4, WrittenKeeps
<1>5. CASE r.state = "running" /\ q = [r EXCEPT !.progress = r.token]
  BY <1>5, WrittenKeeps
<1>6. CASE /\ r.state = "running"
           /\ \E kind \in Kinds, delay \in Nat :
                /\ kind = "cancel" => r.cancel_requested
                /\ q = Completed(r, r.token, kind, delay)
  BY <1>6, CompletedKeeps
<1>7. CASE r.state \in Active /\ q = CancelRequested(r)
  BY <1>7, RequestKeeps
<1>8. CASE r.state = "running" /\ \E delay \in Nat : q = Reaped(r, delay)
  BY <1>8, ReapedKeeps
<1>9. CASE r.state \in {"failed", "cancelled"} /\ q = Requeued(r)
  BY <1>9, RequestKeeps
<1>10. CASE q = [NoRow EXCEPT !.state = "purged"]
  <2>1. q.state = "purged"
    BY <1>10 DEF NoRow
  <2> QED
    BY <2>1 DEF RowKeeps, Below, Holds
<1> QED
  BY <1>1, <1>2, <1>3, <1>4, <1>5, <1>6, <1>7, <1>8, <1>9, <1>10, Zenon DEF RowStep

LEMMA RowStepAhead ==
    ASSUME now \in Nat, NEW r \in Row, NEW q, RowStep(r, q), q.state = "running",
           r.state = "running" => r.lease_until <= now + LeaseS
    PROVE  q.lease_until <= now + LeaseS
<1>1. LeaseS \in Nat
  BY WorkerNumbers
<1>2. \A type, key, ckey, max_attempts, delay :
        NewRow(type, key, ckey, max_attempts, delay).state = "queued"
  BY DEF NewRow, NoRow
<1>3. \A w : Claimed(r, w).lease_until = now + LeaseS
  BY DEF Claimed, Row
<1>4. \A kind \in Kinds : \A delay : Completed(r, r.token, kind, delay).state # "running"
  <2> SUFFICES ASSUME NEW kind \in Kinds, NEW delay
               PROVE  Completed(r, r.token, kind, delay).state # "running"
    OBVIOUS
  <2>1. Completed(r, r.token, kind, delay).state = CompletedState(r, kind)
    BY DEF Completed, Row
  <2> QED
    BY <2>1 DEF CompletedState, Kinds
<1>5. /\ \A delay : Reaped(r, delay).state # "running"
      /\ Requeued(r).state # "running" /\ [NoRow EXCEPT !.state = "purged"].state # "running"
  BY DEF Reaped, Requeued, Row, NoRow
<1>6. /\ CancelRequested(r).lease_until = r.lease_until
      /\ CancelRequested(r).state = "running" => r.state = "running"
  BY DEF CancelRequested, Row
<1>7. /\ [r EXCEPT !.lease_until = now + LeaseS].lease_until = now + LeaseS
      /\ [r EXCEPT !.progress = r.token].lease_until = r.lease_until
  BY DEF Row
<1>8. now + LeaseS <= now + LeaseS
  BY <1>1
<1>9. CASE \E type \in TaskType, key \in Key \cup {None}, ckey \in CKey \cup {None},
             max_attempts \in Budgets, delay \in RunDelays :
               q = NewRow(type, key, ckey, max_attempts, delay)
  BY <1>2, <1>9, Zenon
<1>10. CASE \/ \E w \in Worker : q = Claimed(r, w)
            \/ q = [r EXCEPT !.lease_until = now + LeaseS]
            \/ \E kind \in Kinds, delay \in Nat : q = Completed(r, r.token, kind, delay)
            \/ q = CancelRequested(r) \/ q = Requeued(r)
            \/ \E delay \in Nat : q = Reaped(r, delay)
            \/ q = [NoRow EXCEPT !.state = "purged"]
  BY <1>3, <1>4, <1>5, <1>6, <1>7, <1>8, <1>10, Zenon
<1>11. CASE q = r \/ (r.state = "running" /\ q = [r EXCEPT !.progress = r.token])
  BY <1>7, <1>11, Zenon
<1> QED
  BY <1>9, <1>10, <1>11, Zenon DEF RowStep

LEMMA ClockMoves ==
    ASSUME TypeOK, [Next]_storeVars PROVE now \in Nat /\ now' \in Nat /\ now <= now'
<1>1. now' = now \/ now' = now + 1
  BY DEF Next, storeVars, Tick, AttemptWrite, Heartbeat, SetProgress, Complete, Control,
         Enqueue, RequestCancel, Requeue, PublishTaskTypes, SetPaused, RegisterSubscription,
         Unsubscribe, Maintenance, Reap, PurgeTasks, ReleaseOrphans, Claim
<1> QED
  BY <1>1 DEF TypeOK

\* What any step of the store leaves to the workers.
LEMMA StoreMoves ==
    ASSUME StoreInv, AttemptsBounded, LeaseAhead, [Next]_storeVars
    PROVE  /\ StoreInv' /\ AttemptsBounded' /\ LeaseAhead'
           /\ now \in Nat /\ now' \in Nat /\ now <= now'
           /\ \A id \in Id : task[id] \in Row /\ task'[id] \in Row
           /\ \A id \in Id, k \in Nat : Below(task[id], k) => RowKeeps(task[id], task'[id], k)
<1>1. StoreInv' /\ AttemptsBounded' /\ now \in Nat /\ now' \in Nat /\ now <= now'
  BY StoreInvNext, BoundNext, ClockMoves DEF StoreInv
<1>2. \A id \in Id : task[id] \in Row /\ task'[id] \in Row
  BY <1>1 DEF StoreInv, TypeOK
<1>3. \A id \in Id : RowStep(task[id], task'[id])
  BY Rowwise DEF StoreInv, TypeOK
<1>4. \A id \in Id, k \in Nat : Below(task[id], k) => RowKeeps(task[id], task'[id], k)
  BY <1>1, <1>2, <1>3, RowStepKeeps DEF LeaseAhead
<1>5. LeaseAhead'
  <2> SUFFICES ASSUME NEW id \in Id, task'[id].state = "running"
               PROVE  task'[id].lease_until <= now' + LeaseS
    BY DEF LeaseAhead
  <2>1. task'[id].lease_until <= now + LeaseS
    BY <1>1, <1>2, <1>3, RowStepAhead DEF LeaseAhead
  <2>2. task'[id].lease_until \in Int
    BY <1>2 DEF Row, Time, NoTime
  <2> QED
    BY <1>1, <2>1, <2>2, WorkerNumbers
<1> QED
  BY <1>1, <1>2, <1>4, <1>5

\* Soundness survives what others do to the row.
LEMMA SoundMoves ==
    ASSUME NEW c \in Ctl, NEW r \in Row, NEW q \in Row, NEW k, CtlSound(c, r, k),
           Below(r, k) => RowKeeps(r, q, k)
    PROVE  CtlSound(c, q, k)
<1>1. /\ r.lease_until \in Int /\ q.lease_until \in Int
      /\ c.renewed_at \in Nat /\ c.since \in Nat /\ c.deadline \in Nat /\ LeaseS \in Nat
  BY WorkerNumbers DEF Row, Time, NoTime, Ctl
<1> QED
  BY <1>1 DEF CtlSound, RowKeeps, Covers, Asked, Over

LEMMA HeldFacts ==
    ASSUME NEW f \in Held
    PROVE  /\ DOMAIN f \in SUBSET Id /\ f \in [DOMAIN f -> Token]
           /\ \A id \in DOMAIN f : f[id] \in Token /\ f[id] \in Nat
BY TokenFacts DEF Held

LEMMA HeldIntro == ASSUME NEW S \in SUBSET Id, NEW f \in [S -> Token] PROVE f \in Held
BY DEF Held

LEMMA NoRowsHeld == NoRows \in Held /\ DOMAIN NoRows = {}
<1>1. NoRows \in [{} -> Token] /\ {} \in SUBSET Id
  BY DEF NoRows
<1> QED
  BY <1>1, HeldIntro

\* The fields of what is in flight.
LEMMA CallFacts ==
    ASSUME WorkerTypeOK, NEW w \in Worker
    PROVE  /\ claim[w] \in ClaimCall /\ claim[w].at \in Nat
           /\ claim[w].rows \in Held
           /\ renewal[w] \in RenewalCall /\ renewal[w].started \in Nat
           /\ renewal[w].held \in Held
BY DEF WorkerTypeOK, ClaimCall, RenewalCall

LEMMA CtlFacts ==
    ASSUME WorkerTypeOK, NEW id \in Id, NEW k \in Token
    PROVE  ctl[id][k] \in Ctl
BY DEF WorkerTypeOK

-----------------------------------------------------------------------------
(* Whoever does nothing in a step of the store stays sound.                *)

LEMMA CtlMoves ==
    ASSUME WorkerInv, [Next]_storeVars, NEW id \in Id, NEW k \in Token,
           ctl'[id][k] = ctl[id][k]
    PROVE  CtlSound(ctl'[id][k], task'[id], k)
<1>1. /\ task[id] \in Row /\ task'[id] \in Row
      /\ Below(task[id], k) => RowKeeps(task[id], task'[id], k)
  BY StoreMoves, TokenFacts DEF WorkerInv
<1> QED
  BY <1>1, SoundMoves, CtlFacts DEF WorkerInv

LEMMA ClaimMoves ==
    ASSUME WorkerInv, [Next]_storeVars, NEW w \in Worker, claim'[w] = claim[w]
    PROVE  ClaimSound(w)'
<1>1. ClaimSound(w) /\ claim[w].at \in Nat /\ claim[w].rows \in Held
  BY CallFacts DEF WorkerInv
<1>2. now \in Nat /\ now' \in Nat /\ now <= now'
  BY StoreMoves DEF WorkerInv
<1>3. ASSUME NEW id \in DOMAIN claim[w].rows, claim[w].pc \in Pending
      PROVE  /\ Below(task'[id], claim[w].rows[id])
             /\ Covers(task'[id], claim[w].rows[id], claim[w].at)
  <2>1. id \in Id /\ claim[w].rows[id] \in Nat
    BY <1>1, HeldFacts
  <2>2. /\ task[id] \in Row /\ task'[id] \in Row
        /\ RowKeeps(task[id], task'[id], claim[w].rows[id])
    BY <1>1, <1>3, <2>1, StoreMoves DEF WorkerInv, ClaimSound
  <2>3. task[id].lease_until \in Int /\ task'[id].lease_until \in Int /\ LeaseS \in Nat
    BY <2>2, WorkerNumbers DEF Row, Time, NoTime
  <2> QED
    BY <1>1, <1>3, <2>2, <2>3 DEF RowKeeps, ClaimSound, Covers
<1> QED
  BY <1>1, <1>2, <1>3 DEF ClaimSound

LEMMA RenewalMoves ==
    ASSUME WorkerInv, [Next]_storeVars, NEW w \in Worker, renewal'[w] = renewal[w]
    PROVE  RenewalSound(w)'
<1>1. RenewalSound(w) /\ renewal[w].started \in Nat /\ renewal[w].held \in Held
  BY CallFacts DEF WorkerInv
<1>2. now \in Nat /\ now' \in Nat /\ now <= now'
  BY StoreMoves DEF WorkerInv
<1>3. ASSUME NEW id \in DOMAIN renewal[w].held
      PROVE  RowKeeps(task[id], task'[id], renewal[w].held[id])
  <2>1. id \in Id /\ renewal[w].held[id] \in Nat
    BY <1>1, HeldFacts
  <2> QED
    BY <1>1, <2>1, StoreMoves DEF WorkerInv, RenewalSound
<1>4. \A id \in DOMAIN renewal[w].held :
        task[id].lease_until \in Int /\ task'[id].lease_until \in Int
  <2>1. DOMAIN renewal[w].held \subseteq Id
    BY <1>1, HeldFacts
  <2>2. \A id \in Id : task[id] \in Row /\ task'[id] \in Row
    BY StoreMoves DEF WorkerInv
  <2> QED
    BY <2>1, <2>2 DEF Row, Time, NoTime
<1>5. ASSUME NEW id \in DOMAIN renewal[w].held, renewal[w].pc = "applied"
      PROVE  /\ renewal[w].reply[id] # "gone" =>
                  Covers(task'[id], renewal[w].held[id], renewal[w].started)
             /\ renewal[w].reply[id] = "cancel" => Asked(task'[id], renewal[w].held[id])
  <2>1. /\ renewal[w].reply[id] # "gone" =>
             Covers(task[id], renewal[w].held[id], renewal[w].started)
        /\ renewal[w].reply[id] = "cancel" => Asked(task[id], renewal[w].held[id])
    BY <1>1, <1>5 DEF RenewalSound
  <2> QED
    BY <1>1, <1>3, <1>4, <2>1, WorkerNumbers DEF RowKeeps, Covers, Asked
<1>6. \A id \in DOMAIN renewal[w].held : Below(task'[id], renewal[w].held[id])
  BY <1>3 DEF RowKeeps
<1>7. renewal[w].started <= now'
  BY <1>1, <1>2 DEF RenewalSound
<1> QED
  BY <1>1, <1>5, <1>6, <1>7 DEF RenewalSound

-----------------------------------------------------------------------------
(* Every step of the workers is a step of the store, or leaves it alone.   *)

LEMMA HeartbeatNext == ASSUME NEW f \in Held, Heartbeat(f) PROVE Next
<1>1. DOMAIN f \in SUBSET Id /\ f \in [DOMAIN f -> 1..MaxAttempt]
  BY HeldFacts DEF Token
<1>2. AttemptWrite
  BY <1>1 DEF AttemptWrite
<1> QED
  BY <1>2 DEF Next

LEMMA CompleteNext ==
    ASSUME NEW f \in Held, NEW kind \in [DOMAIN f -> Kinds],
           Complete([id \in DOMAIN f |-> [token |-> f[id], kind |-> kind[id]]])
    PROVE  Next
<1>1. DOMAIN f \in SUBSET Id /\ f \in [DOMAIN f -> 1..MaxAttempt]
  BY HeldFacts DEF Token
<1>2. AttemptWrite
  BY <1>1 DEF AttemptWrite
<1> QED
  BY <1>2 DEF Next

LEMMA OneHeld ==
    ASSUME NEW id \in Id, NEW k \in Token
    PROVE  /\ [i \in {id} |-> k] \in Held
           /\ DOMAIN [i \in {id} |-> k] = {id} /\ [i \in {id} |-> k][id] = k
<1>1. [i \in {id} |-> k] \in [{id} -> Token] /\ {id} \in SUBSET Id
  OBVIOUS
<1> QED
  BY <1>1, HeldIntro

LEMMA ClaimLoopStore ==
    ASSUME WorkerInv, NEW w \in Worker, ClaimLoop(w) PROVE [Next]_storeVars
<1>1. claim[w].rows \in Held
  BY CallFacts DEF WorkerInv
<1>2. CASE Start(w)
  <2>1. Accepts[w] \in SUBSET TaskType
    BY AcceptsAssumption DEF AcceptsAssumption
  <2>2. Control
    BY <1>2, <2>1 DEF Start, Control
  <2> QED
    BY <2>2 DEF Next
<1>3. ASSUME NEW S \in SUBSET Id, Claim(w, S) PROVE Next
  BY <1>3 DEF Next
<1>4. CASE OrphansReleased(w)
  <2>1. DOMAIN claim[w].rows \in SUBSET Id
    BY <1>1, HeldFacts
  <2>2. Maintenance
    BY <1>4, <2>1 DEF OrphansReleased, Maintenance
  <2> QED
    BY <2>2 DEF Next
<1>5. CASE ReleaseUnstarted(w)
  <2> DEFINE f == claim[w].rows
             kind == [id \in DOMAIN f |-> "release"]
  <2>1. kind \in [DOMAIN f -> Kinds]
    BY DEF Kinds
  <2>2. Complete([id \in DOMAIN f |-> [token |-> f[id], kind |-> kind[id]]])
    <3>1. [id \in DOMAIN f |-> [token |-> f[id], kind |-> kind[id]]]
            = [id \in DOMAIN f |-> [token |-> f[id], kind |-> "release"]]
      OBVIOUS
    <3> QED
      BY <1>5, <3>1, Zenon DEF ReleaseUnstarted
  <2> HIDE DEF f, kind
  <2> QED
    BY <1>1, <2>1, <2>2, CompleteNext DEF f
<1>6. CASE \E S \in SUBSET Id : ClaimApply(w, S) \/ \E free \in 1..Concurrency : LateClaim(w, free, S)
  BY <1>3, <1>6 DEF ClaimApply, LateClaim
<1>7. CASE \/ ClaimSend(w) \/ ClaimEmpty(w) \/ ClaimLost(w) \/ ClaimDispatch(w)
           \/ OrphansSend(w) \/ ReleaseAbandoned(w)
  BY <1>7 DEF ClaimSend, ClaimEmpty, ClaimLost, ClaimDispatch, OrphansSend, ReleaseAbandoned,
              storeVars
<1> QED
  BY <1>2, <1>4, <1>5, <1>6, <1>7 DEF ClaimLoop

LEMMA ControllerStore ==
    ASSUME WorkerInv, NEW id \in Id, NEW k \in Token, Controller(id, k) PROVE [Next]_storeVars
<1>1. CASE FreshApply(id, k)
  BY <1>1, OneHeld, HeartbeatNext DEF FreshApply
<1>2. CASE Progress(id, k)
  <2>1. SetProgress(id, k) => AttemptWrite
    BY DEF AttemptWrite, Token
  <2> QED
    BY <1>2, <2>1 DEF Progress, Local, Next, storeVars
<1>3. CASE SettleWrite(id, k)
  <2> DEFINE f == [i \in {id} |-> k]
             kind == [i \in {id} |-> ctl[id][k].kind]
  <2>1. ctl[id][k].kind \in Kinds
    BY <1>3 DEF SettleWrite, WorkerInv, CtlSound
  <2>2. f \in Held /\ DOMAIN f = {id} /\ kind \in [DOMAIN f -> Kinds]
    BY <2>1, OneHeld
  <2>3. Complete([i \in DOMAIN f |-> [token |-> f[i], kind |-> kind[i]]])
    <3>1. [i \in DOMAIN f |-> [token |-> f[i], kind |-> kind[i]]]
            = [i \in {id} |-> [token |-> k, kind |-> ctl[id][k].kind]]
      OBVIOUS
    <3> QED
      BY <1>3, <3>1, Zenon DEF SettleWrite
  <2> HIDE DEF f, kind
  <2> QED
    BY <2>2, <2>3, CompleteNext
<1>4. CASE \/ BeginRun(id, k) \/ FreshSend(id, k) \/ FreshReply(id, k)
           \/ FreshFail(id, k) \/ StopSeen(id, k)
           \/ \E kind \in {"succeed", "fail", "fail_final"} : RunnerEnds(id, k, kind)
           \/ FinishCompleted(id, k) \/ FinishStopped(id, k)
           \/ SettleError(id, k) \/ AttemptDone(id, k)
  BY <1>4, Zenon DEF BeginRun, FreshSend, FreshReply, FreshFail, StopSeen, RunnerEnds,
              FinishCompleted, FinishStopped, SettleError, AttemptDone, Local
<1> QED
  BY <1>1, <1>2, <1>3, <1>4, Zenon DEF Controller

LEMMA WorkerStore ==
    ASSUME WorkerInv, [WNext]_vars PROVE [Next]_storeVars
<1>1. ASSUME NEW w \in Worker, Renewals(w) PROVE [Next]_storeVars
  <2>1. CASE RenewApply(w)
    BY <2>1, CallFacts, HeartbeatNext DEF RenewApply, WorkerInv
  <2> QED
    BY <1>1, <2>1 DEF Renewals, RenewSend, RenewReply, RenewFail, storeVars
<1>2. ASSUME NEW w \in Worker, Lifetime(w) PROVE UNCHANGED storeVars
  BY <1>2 DEF Lifetime, RequestShutdown, Drain, Abandon, Exit, Crash, Gone, storeVars
<1>3. CASE Clients
  <2>1. ASSUME NEW id \in Id, NEW type \in TaskType, NEW max_attempts \in Budgets,
               NEW delay \in RunDelays, Enqueue(id, type, None, None, max_attempts, delay)
        PROVE  Control
    BY <2>1 DEF Control
  <2>2. ASSUME NEW id \in Id, RequestCancel(id) \/ Requeue(id) PROVE Control
    BY <2>2 DEF Control
  <2> QED
    BY <1>3, <2>1, <2>2 DEF Clients, Next
<1>4. CASE Reaper
  BY <1>4 DEF Reaper, Next, Maintenance
<1>5. CASE UNCHANGED vars
  BY <1>5 DEF vars
<1> QED
  BY <1>1, <1>2, <1>3, <1>4, <1>5, ClaimLoopStore, ControllerStore, Zenon DEF WNext

-----------------------------------------------------------------------------
(* The first invariant, action by action.                                  *)

\* What is left to show of a step: that what it changed is sound.
LEMMA SoundNext ==
    ASSUME WorkerInv, [Next]_storeVars, WorkerTypeOK',
           \A id \in Id, k \in Token : \/ ctl'[id][k] = ctl[id][k]
                                       \/ CtlSound(ctl'[id][k], task[id], k)
                                       \/ CtlSound(ctl'[id][k], task'[id], k),
           \A id \in Id, k \in Token : \/ ctl'[id][k].since = ctl[id][k].since
                                       \/ ctl'[id][k].since <= now,
           \A w \in Worker : claim'[w] = claim[w] \/ ClaimSound(w)',
           \A w \in Worker : renewal'[w] = renewal[w] \/ RenewalSound(w)'
    PROVE  WorkerInv'
<1>1. /\ StoreInv' /\ AttemptsBounded' /\ LeaseAhead'
      /\ \A id \in Id : task[id] \in Row /\ task'[id] \in Row
      /\ \A id \in Id, k \in Nat : Below(task[id], k) => RowKeeps(task[id], task'[id], k)
  BY StoreMoves DEF WorkerInv
<1>2. \A id \in Id, k \in Token : ctl'[id][k] \in Ctl
  BY DEF WorkerTypeOK
<1>3. \A id \in Id, k \in Token :
        CtlSound(ctl'[id][k], task[id], k) => CtlSound(ctl'[id][k], task'[id], k)
  BY <1>1, <1>2, SoundMoves, TokenFacts
<1>4. \A id \in Id, k \in Token : CtlSound(ctl'[id][k], task'[id], k)
  BY <1>3, CtlMoves
<1>5. \A w \in Worker : ClaimSound(w)' /\ RenewalSound(w)'
  BY ClaimMoves, RenewalMoves
<1>6. \A id \in Id, k \in Token : ctl'[id][k].since <= now'
  <2> SUFFICES ASSUME NEW id \in Id, NEW k \in Token PROVE ctl'[id][k].since <= now'
    OBVIOUS
  <2>1. ctl'[id][k].since <= now /\ ctl'[id][k].since \in Nat
    BY <1>2 DEF WorkerInv, Ctl
  <2>2. now \in Nat /\ now' \in Nat /\ now <= now'
    BY StoreMoves DEF WorkerInv
  <2> QED
    BY <2>1, <2>2
<1> QED
  BY <1>1, <1>4, <1>5, <1>6 DEF WorkerInv

LEMMA BecomeFacts ==
    ASSUME WorkerTypeOK, NEW id \in Id, NEW k \in Token, NEW c \in Ctl, Become(id, k, c)
    PROVE  /\ ctl' \in [Id -> [Token -> Ctl]] /\ ctl'[id][k] = c
           /\ \A i \in Id, j \in Token : i # id \/ j # k => ctl'[i][j] = ctl[i][j]
BY DEF WorkerTypeOK, Become

LEMMA ClaimSet ==
    ASSUME WorkerTypeOK, NEW w \in Worker, NEW x \in ClaimCall, claim' = [claim EXCEPT ![w] = x]
    PROVE  /\ claim' \in [Worker -> ClaimCall] /\ claim'[w] = x
           /\ \A v \in Worker \ {w} : claim'[v] = claim[v]
BY DEF WorkerTypeOK

LEMMA RenewalSet ==
    ASSUME WorkerTypeOK, NEW w \in Worker, NEW x \in RenewalCall,
           renewal' = [renewal EXCEPT ![w] = x]
    PROVE  /\ renewal' \in [Worker -> RenewalCall] /\ renewal'[w] = x
           /\ \A v \in Worker \ {w} : renewal'[v] = renewal[v]
BY DEF WorkerTypeOK

LEMMA IdleFacts ==
    /\ ClaimIdle \in ClaimCall /\ ClaimIdle.pc = "idle" /\ ClaimIdle.at = 0
    /\ ClaimIdle.rows = NoRows
    /\ [ClaimIdle EXCEPT !.pc = "orphans"] \in ClaimCall
    /\ [ClaimIdle EXCEPT !.pc = "orphans"].pc = "orphans"
    /\ [ClaimIdle EXCEPT !.pc = "orphans"].at = 0
    /\ RenewalIdle \in RenewalCall /\ RenewalIdle.pc = "idle" /\ RenewalIdle.started = 0
    /\ RenewalIdle.held = NoRows
<1>1. [id \in {} |-> "ok"] \in UNION {[S -> Beat] : S \in SUBSET Id}
  <2>1. [id \in {} |-> "ok"] \in [{} -> Beat] /\ {} \in SUBSET Id
    OBVIOUS
  <2> QED
    BY <2>1
<1>2. 0 \in 0..Concurrency
  BY WorkerNumbers
<1> QED
  BY <1>1, <1>2, NoRowsHeld DEF ClaimIdle, RenewalIdle, ClaimCall, RenewalCall

\* A step of one controller that touches nothing else.
LEMMA LocalSound ==
    ASSUME WorkerInv, NEW id \in Id, NEW k \in Token, NEW c \in Ctl, Become(id, k, c), Local,
           CtlSound(c, task[id], k), c.since = ctl[id][k].since \/ c.since <= now
    PROVE  WorkerInv'
<1>1. [Next]_storeVars
  BY DEF Local
<1>2. WorkerTypeOK
  BY DEF WorkerInv
<1>3. /\ ctl' \in [Id -> [Token -> Ctl]] /\ ctl'[id][k] = c
      /\ \A i \in Id, j \in Token : i # id \/ j # k => ctl'[i][j] = ctl[i][j]
  BY <1>2, BecomeFacts
<1>4. WorkerTypeOK'
  BY <1>2, <1>3 DEF WorkerTypeOK, Local
<1>5. \A i \in Id, j \in Token :
        /\ ctl'[i][j] = ctl[i][j] \/ CtlSound(ctl'[i][j], task[i], j)
        /\ ctl'[i][j].since = ctl[i][j].since \/ ctl'[i][j].since <= now
  BY <1>3
<1> QED
  BY <1>1, <1>4, <1>5, SoundNext DEF Local

\* A renewal may take until a moment before every lease it renews runs out.
LEMMA BudgetFacts ==
    ASSUME now \in Nat, NEW R \in SUBSET Nat
    PROVE  /\ Budget(R) \in Nat /\ Budget(R) <= now + RenewS
           /\ \A at \in R : Budget(R) <= at + LeaseS
<1> DEFINE ends == {now + RenewS} \cup {at + LeaseS : at \in R}
<1>1. ends \in SUBSET Nat /\ now + RenewS \in ends /\ \A at \in R : at + LeaseS \in ends
  BY WorkerNumbers
<1>2. \E e \in ends : \A f \in ends : e <= f
  <2>1. IsWellFoundedOn(OpToRel(<, Nat), Nat)
    BY NatLessThanWellFounded
  <2>2. PICK e \in ends : \A f \in ends : ~(<<f, e>> \in OpToRel(<, Nat))
    BY <1>1, <2>1, WFMin
  <2>3. \A f \in ends : ~(f < e)
    BY <1>1, <2>2 DEF OpToRel
  <2> QED
    BY <1>1, <2>3
<1>3. Budget(R) = CHOOSE e \in ends : \A f \in ends : e <= f
  BY DEF Budget
<1> HIDE DEF ends
<1> QED
  BY <1>1, <1>2, <1>3

-----------------------------------------------------------------------------
(* The steps a controller takes by itself.                                 *)

\* Such a step neither changes the owner nor makes the controller believe in
\* more lease than it has confirmed.
Advance(c, d) ==
    /\ (d.phase = "none" <=> c.phase = "none") /\ d.owner = c.owner
    /\ d.phase \in Alive => /\ c.phase \in Alive
                            /\ \/ d.renewed_at = c.renewed_at
                               \/ c.beat \in {"ok", "cancel"} /\ d.renewed_at = c.since
    /\ d.phase = "fresh" \/ d.beat \in {"ok", "cancel"} =>
         d.since = c.since /\ (c.phase = "fresh" \/ c.beat \in {"ok", "cancel"})
    /\ d.phase = "renewing" =>
         \/ c.phase = "renewing" /\ d.deadline = c.deadline /\ d.beat = c.beat
         \/ c.phase = "fresh" /\ d.beat = "none" /\ d.deadline <= c.renewed_at + LeaseS
\* The controller a step replaces c by: sound, and an advance.
Fit(c, d, r, k) ==
    /\ d \in Ctl /\ CtlSound(d, r, k) /\ Advance(c, d)
    /\ d.since = c.since \/ d.since <= now

LEMMA StoppedFit ==
    ASSUME NEW c \in Ctl, NEW r, NEW k, CtlSound(c, r, k), NEW cause \in Cause,
           cause = "cancel" => Asked(r, k)
    PROVE  Fit(c, Stopped(c, cause), r, k)
<1> DEFINE s == Stopped(c, cause)
<1>1. /\ s \in Ctl /\ CtlSound(s, r, k)
      /\ s.phase = c.phase /\ s.owner = c.owner /\ s.renewed_at = c.renewed_at
      /\ s.since = c.since /\ s.deadline = c.deadline /\ s.beat = c.beat
  BY StoppedFacts, StoppedSound
<1> HIDE DEF s
<1>2. Advance(c, s)
  BY <1>1 DEF Advance
<1> QED
  BY <1>1, <1>2 DEF Fit, s

LEMMA SettledFit ==
    ASSUME now \in Nat, NEW c \in Ctl, NEW r, NEW k, CtlSound(c, r, k), c.phase # "none"
    PROVE  Fit(c, Settled(c), r, k)
<1> DEFINE s == Settled(c)
<1>1. /\ s \in Ctl /\ CtlSound(s, r, k) /\ s.phase = "settled" /\ s.owner = c.owner
      /\ s.beat = "none" /\ s.since = 0
  BY SettledFacts, SettledSound
<1> HIDE DEF s
<1>2. Advance(c, s)
  BY <1>1 DEF Advance, Alive
<1> QED
  BY <1>1, <1>2 DEF Fit, s

LEMMA SettlingFit ==
    ASSUME now \in Nat, NEW c \in Ctl, NEW r, NEW k, CtlSound(c, r, k), c.phase \notin Over,
           NEW kind \in Kinds, kind = "cancel" => Asked(r, k)
    PROVE  Fit(c, Settling(c, kind), r, k)
<1> DEFINE s == Settling(c, kind)
<1>0. s \in Ctl /\ CtlSound(s, r, k)
  BY SettlingSound
<1>1. /\ s \in Ctl /\ CtlSound(s, r, k) /\ s.phase = "settling" /\ s.owner = c.owner
      /\ s.beat = "none" /\ s.since = 0
  BY <1>0, MovedFacts DEF Settling, Phase
<1> HIDE DEF s
<1>2. Advance(c, s)
  BY <1>1 DEF Advance, Alive, Over
<1> QED
  BY <1>1, <1>2 DEF Fit, s

LEMMA StepAsideFit ==
    ASSUME now \in Nat, NEW c \in Ctl, NEW r, NEW k, CtlSound(c, r, k), c.phase \notin Over
    PROVE  Fit(c, StepAside(c), r, k)
BY SettledFit, SettlingFit DEF StepAside, Kinds, Over

LEMMA RunningFit ==
    ASSUME now \in Nat, NEW c \in Ctl, NEW r, NEW k, CtlSound(c, r, k), c.phase \in Alive
    PROVE  Fit(c, Moved(c, "running", None), r, k)
<1> DEFINE s == Moved(c, "running", None)
<1>1. c.phase \notin Over
  BY DEF Alive, Over
<1>2. /\ s \in Ctl /\ CtlSound(s, r, k) /\ s.phase = "running" /\ s.owner = c.owner
      /\ s.beat = "none" /\ s.since = 0 /\ s.renewed_at = c.renewed_at
  BY <1>1, MovedFacts, RunningSound DEF Phase
<1> HIDE DEF s
<1>3. Advance(c, s)
  BY <1>1, <1>2 DEF Advance, Alive, Over
<1> QED
  BY <1>2, <1>3 DEF Fit, s

\* Two advances of which the first keeps the phase, the lease and the call.
LEMMA StoppedThenFit ==
    ASSUME NEW c \in Ctl, NEW r, NEW k, NEW cause \in Cause, NEW d,
           Fit(Stopped(c, cause), d, r, k)
    PROVE  Fit(c, d, r, k)
<1> DEFINE s == Stopped(c, cause)
<1>1. /\ s.phase = c.phase /\ s.owner = c.owner /\ s.renewed_at = c.renewed_at
      /\ s.since = c.since /\ s.deadline = c.deadline /\ s.beat = c.beat
  BY StoppedFacts
<1>2. Fit(s, d, r, k)
  OBVIOUS
<1> HIDE DEF s
<1> QED
  BY <1>1, <1>2 DEF Fit, Advance

LEMMA SendFit ==
    ASSUME now \in Nat, NEW c \in Ctl, NEW r \in Row, NEW k, CtlSound(c, r, k), c.phase = "fresh"
    PROVE  Fit(c, [c EXCEPT !.phase = "renewing", !.since = now,
                            !.deadline = Budget({c.renewed_at})], r, k)
<1> DEFINE b == Budget({c.renewed_at})
           s == [c EXCEPT !.phase = "renewing", !.since = now, !.deadline = b]
<1>1. b \in Nat /\ b <= c.renewed_at + LeaseS /\ c.renewed_at \in Nat
  <2>1. c.renewed_at \in Nat
    BY DEF Ctl
  <2> QED
    BY <2>1, BudgetFacts
<1> HIDE DEF b
<1>2. /\ s \in Ctl /\ s.phase = "renewing" /\ s.since = now /\ s.deadline = b
      /\ s.owner = c.owner /\ s.beat = c.beat /\ s.renewed_at = c.renewed_at
      /\ s.cause = c.cause /\ s.kind = c.kind
  BY <1>1 DEF Ctl, Phase
<1>3. c.beat = "none" /\ r.lease_until \in Int
  BY DEF CtlSound, Row, Time, NoTime
<1> HIDE DEF s
<1>4. CtlSound(s, r, k)
  BY <1>1, <1>2, <1>3, WorkerNumbers DEF CtlSound, Covers, Over
<1>5. Advance(c, s)
  BY <1>1, <1>2, <1>3 DEF Advance, Alive
<1> QED
  BY <1>2, <1>4, <1>5 DEF Fit, s, b

LEMMA EndsFit ==
    ASSUME NEW c \in Ctl, NEW r, NEW k, CtlSound(c, r, k), c.phase = "running",
           NEW kind \in {"succeed", "fail", "fail_final"}
    PROVE  Fit(c, [c EXCEPT !.phase = "ended", !.kind = kind], r, k)
<1> DEFINE s == [c EXCEPT !.phase = "ended", !.kind = kind]
<1>1. /\ s \in Ctl /\ s.phase = "ended" /\ s.kind = kind /\ s.since = c.since
      /\ s.owner = c.owner /\ s.beat = c.beat /\ s.renewed_at = c.renewed_at
      /\ s.cause = c.cause
  BY DEF Ctl, Phase, Kinds
<1> HIDE DEF s
<1>2. CtlSound(s, r, k)
  BY <1>1 DEF CtlSound, Over
<1>3. Advance(c, s)
  BY <1>1 DEF Advance, Alive
<1> QED
  BY <1>1, <1>2, <1>3 DEF Fit, s

LEMMA StopFit ==
    ASSUME NEW c \in Ctl, NEW r, NEW k, CtlSound(c, r, k), c.phase = "running"
    PROVE  Fit(c, [Stopped(c, "timeout") EXCEPT !.phase = "stopping"], r, k)
<1> DEFINE t == Stopped(c, "timeout")
           s == [t EXCEPT !.phase = "stopping"]
<1>1. /\ t \in Ctl /\ t.cause # None /\ t.since = c.since /\ t.owner = c.owner
      /\ t.beat = c.beat /\ t.renewed_at = c.renewed_at /\ t.phase = c.phase
      /\ CtlSound(t, r, k)
  BY StoppedFacts, StoppedSound DEF Cause
<1> HIDE DEF t
<1>2. /\ s \in Ctl /\ s.phase = "stopping" /\ s.kind = t.kind /\ s.since = t.since
      /\ s.owner = t.owner /\ s.beat = t.beat /\ s.renewed_at = t.renewed_at
      /\ s.cause = t.cause
  BY <1>1 DEF Ctl, Phase
<1> HIDE DEF s
<1>3. CtlSound(s, r, k)
  BY <1>1, <1>2 DEF CtlSound, Over
<1>4. Advance(c, s)
  BY <1>1, <1>2, <1>3 DEF Advance, Alive, CtlSound
<1> QED
  BY <1>1, <1>2, <1>3, <1>4 DEF Fit, s, t

LEMMA FinishFit ==
    ASSUME now \in Nat, NEW c \in Ctl, NEW r, NEW k, CtlSound(c, r, k), c.phase = "stopping",
           NEW ignored \in BOOLEAN
    PROVE  LET f == [c EXCEPT !.fatal = ignored]
           IN  Fit(c, IF f.cause = "lost" THEN Settled(f) ELSE Settling(f, KindOf(f.cause)), r, k)
<1> DEFINE f == [c EXCEPT !.fatal = ignored]
           d == IF f.cause = "lost" THEN Settled(f) ELSE Settling(f, KindOf(f.cause))
<1>1. /\ f \in Ctl /\ f.phase = c.phase /\ f.kind = c.kind /\ f.since = c.since
      /\ f.owner = c.owner /\ f.beat = c.beat /\ f.renewed_at = c.renewed_at
      /\ f.cause = c.cause /\ f.deadline = c.deadline
  BY DEF Ctl
<1> HIDE DEF f
<1>2. CtlSound(f, r, k)
  BY <1>1 DEF CtlSound
<1>3. f.cause # "lost" =>
        KindOf(f.cause) \in Kinds /\ (KindOf(f.cause) = "cancel" => f.cause = "cancel")
  <2>1. f.cause \in Cause
    BY <1>1 DEF Ctl, CtlSound
  <2> QED
    BY <2>1 DEF KindOf, Cause, Kinds
<1>4. f.cause = "cancel" => Asked(r, k)
  BY <1>1, <1>2 DEF CtlSound, Over
<1>5. Fit(f, d, r, k)
  BY <1>1, <1>2, <1>3, <1>4, SettledFit, SettlingFit DEF Over
<1> HIDE DEF d
<1>6. Fit(c, d, r, k)
  BY <1>1, <1>5 DEF Fit, Advance
<1> QED
  BY <1>6 DEF f, d

LocalAction(id, k) ==
    \/ BeginRun(id, k) \/ FreshSend(id, k) \/ FreshReply(id, k) \/ FreshFail(id, k)
    \/ Progress(id, k) /\ ~Holds(task[id], k)
    \/ StopSeen(id, k)
    \/ \E kind \in {"succeed", "fail", "fail_final"} : RunnerEnds(id, k, kind)
    \/ FinishCompleted(id, k) \/ FinishStopped(id, k) \/ SettleError(id, k)

LEMMA LocalFit ==
    ASSUME WorkerInv, NEW id \in Id, NEW k \in Token, LocalAction(id, k)
    PROVE  Local /\ \E d : Become(id, k, d) /\ Fit(ctl[id][k], d, task[id], k)
<1> DEFINE c == ctl[id][k]
           r == task[id]
           Goal == Local /\ \E d : Become(id, k, d) /\ Fit(c, d, r, k)
<1>1. c \in Ctl /\ CtlSound(c, r, k) /\ r \in Row /\ now \in Nat
  BY CtlFacts DEF WorkerInv, StoreInv, TypeOK
<1>2. CASE BeginRun(id, k)
  <2>1. c.phase \in Alive /\ Become(id, k, Moved(c, "running", None)) /\ Local
    BY <1>2 DEF BeginRun, Alive
  <2> QED
    BY <1>1, <2>1, RunningFit
<1>3. CASE FreshSend(id, k)
  <2> DEFINE e == [c EXCEPT !.phase = "renewing", !.since = now,
                            !.deadline = Budget({c.renewed_at})]
             d == IF Expired(c) THEN StepAside(Stopped(c, "lost"))
                  ELSE IF c.cause = "lost" THEN Settled(c) ELSE e
  <2>1. c.phase = "fresh" /\ Become(id, k, d) /\ Local
    BY <1>3 DEF FreshSend
  <2>2. /\ Stopped(c, "lost") \in Ctl /\ CtlSound(Stopped(c, "lost"), r, k)
        /\ Stopped(c, "lost").phase = "fresh"
    BY <1>1, <2>1, StoppedSound, StoppedFacts DEF Cause
  <2>3. Fit(Stopped(c, "lost"), StepAside(Stopped(c, "lost")), r, k)
    BY <1>1, <2>2, StepAsideFit DEF Over
  <2>4. Fit(c, StepAside(Stopped(c, "lost")), r, k)
    BY <1>1, <2>3, StoppedThenFit DEF Cause
  <2>5. Fit(c, Settled(c), r, k)
    BY <1>1, <2>1, SettledFit
  <2>6. Fit(c, e, r, k)
    BY <1>1, <2>1, SendFit
  <2> HIDE DEF e
  <2>7. Fit(c, d, r, k)
    BY <2>4, <2>5, <2>6
  <2> QED
    BY <2>1, <2>7
<1>4. CASE FreshReply(id, k)
  <2> DEFINE n == Renewed(c, c.beat, c.since)
             d == IF n.cause = "lost" THEN Settled(n) ELSE Moved(n, "running", None)
  <2>1. /\ c.phase = "renewing" /\ c.beat # "none" /\ Become(id, k, d) /\ Local
    BY <1>4 DEF FreshReply
  <2>2. c.beat \in Beat /\ c.since \in Nat
    BY <1>1 DEF Ctl
  <2>3. c.phase \notin Over
    BY <2>1 DEF Over
  <2>4. (c.beat # "gone" => Covers(r, k, c.since)) /\ (c.beat = "cancel" => Asked(r, k))
    BY <1>1, <2>1, <2>2, <2>3 DEF CtlSound, Beat
  <2>5. /\ n \in Ctl /\ CtlSound(n, r, k) /\ n.phase = c.phase /\ n.since = c.since
        /\ n.owner = c.owner /\ n.beat = c.beat /\ n.deadline = c.deadline
        /\ n.renewed_at = IF c.beat = "gone" THEN c.renewed_at ELSE c.since
    BY <1>1, <2>2, <2>3, <2>4, RenewedSound
  <2> HIDE DEF n
  <2>6. Fit(n, Settled(n), r, k) /\ Fit(n, Moved(n, "running", None), r, k)
    BY <1>1, <2>1, <2>5, SettledFit, RunningFit DEF Alive
  <2>7. /\ Settled(n).phase = "settled" /\ Settled(n).beat = "none"
        /\ Moved(n, "running", None).phase = "running"
        /\ Moved(n, "running", None).beat = "none"
        /\ Moved(n, "running", None).renewed_at = n.renewed_at
    BY <2>5, SettledFacts, MovedFacts DEF Phase
  <2>8. Fit(c, Settled(n), r, k)
    BY <2>1, <2>5, <2>6, <2>7 DEF Fit, Advance, Alive
  <2>9. Fit(c, Moved(n, "running", None), r, k)
    BY <2>1, <2>2, <2>5, <2>6, <2>7 DEF Fit, Advance, Alive, Beat
  <2> QED
    BY <2>1, <2>8, <2>9
<1>5. CASE FreshFail(id, k)
  <2>1. c.phase \notin Over /\ Become(id, k, StepAside(c)) /\ Local
    BY <1>5 DEF FreshFail, Over
  <2> QED
    BY <1>1, <2>1, StepAsideFit
<1>6. CASE Progress(id, k) /\ ~Holds(task[id], k)
  <2>1. Become(id, k, Stopped(c, "lost")) /\ Local
    BY <1>6 DEF Progress
  <2> QED
    BY <1>1, <2>1, StoppedFit DEF Cause
<1>7. CASE StopSeen(id, k)
  BY <1>1, <1>7, StopFit DEF StopSeen
<1>8. ASSUME NEW kind \in {"succeed", "fail", "fail_final"}, RunnerEnds(id, k, kind) PROVE Goal
  BY <1>1, <1>8, EndsFit DEF RunnerEnds
<1>9. CASE FinishCompleted(id, k)
  <2>1. /\ c.phase = "ended" /\ Local
        /\ Become(id, k, IF c.cause = "lost" THEN Settled(c) ELSE Settling(c, c.kind))
    BY <1>9 DEF FinishCompleted
  <2>2. c.kind \in Kinds /\ c.kind # "cancel"
    BY <1>1, <2>1 DEF CtlSound, Kinds
  <2> QED
    BY <1>1, <2>1, <2>2, SettledFit, SettlingFit DEF Over
<1>10. CASE FinishStopped(id, k)
  <2>1. c.phase = "stopping" /\ Local
    BY <1>10 DEF FinishStopped
  <2>2. PICK ignored \in BOOLEAN :
          LET f == [c EXCEPT !.fatal = ignored]
          IN  Become(id, k, IF f.cause = "lost" THEN Settled(f) ELSE Settling(f, KindOf(f.cause)))
    BY <1>10 DEF FinishStopped
  <2>3. LET f == [c EXCEPT !.fatal = ignored]
        IN  Fit(c, IF f.cause = "lost" THEN Settled(f) ELSE Settling(f, KindOf(f.cause)), r, k)
    BY <1>1, <2>1, FinishFit
  <2> QED
    BY <2>1, <2>2, <2>3
<1>11. CASE SettleError(id, k)
  BY <1>1, <1>11, SettledFit DEF SettleError
<1> QED
  BY <1>2, <1>3, <1>4, <1>5, <1>6, <1>7, <1>8, <1>9, <1>10, <1>11 DEF LocalAction

LEMMA ApplySound ==
    ASSUME WorkerInv, NEW id \in Id, NEW k \in Token, FreshApply(id, k) PROVE WorkerInv'
<1> DEFINE c == ctl[id][k]
           b == BeatOf(task[id], k)
           d == [c EXCEPT !.beat = b]
<1>1. /\ c \in Ctl /\ CtlSound(c, task[id], k) /\ task[id] \in Row /\ now \in Nat
      /\ c.since <= now /\ WorkerTypeOK
  BY CtlFacts DEF WorkerInv, StoreInv, TypeOK
<1>2. c.phase = "renewing" /\ Become(id, k, d) /\ Remote /\ Heartbeat([i \in {id} |-> k])
  BY DEF FreshApply
<1>3. [Next]_storeVars
  BY <1>2, OneHeld, HeartbeatNext
<1>4. /\ b \in Beat /\ b # "none"
      /\ b # "gone" => Holds(task[id], k)
      /\ b = "cancel" => task[id].cancel_requested
  BY DEF BeatOf, Beat
<1> HIDE DEF b
<1>5. /\ d \in Ctl /\ d.beat = b /\ d.phase = c.phase /\ d.kind = c.kind /\ d.cause = c.cause
      /\ d.owner = c.owner /\ d.renewed_at = c.renewed_at /\ d.since = c.since
      /\ d.deadline = c.deadline
  BY <1>1, <1>4 DEF Ctl
<1> HIDE DEF d
<1>6. /\ ctl' \in [Id -> [Token -> Ctl]] /\ ctl'[id][k] = d
      /\ \A i \in Id, j \in Token : i # id \/ j # k => ctl'[i][j] = ctl[i][j]
  BY <1>1, <1>2, <1>5, BecomeFacts
<1>7. WorkerTypeOK'
  BY <1>1, <1>2, <1>6 DEF WorkerTypeOK, Remote
<1>8. /\ task'[id] \in Row
      /\ Below(task[id], k) => RowKeeps(task[id], task'[id], k)
  BY <1>3, StoreMoves, TokenFacts DEF WorkerInv
<1>9. CtlSound(c, task'[id], k)
  BY <1>1, <1>8, SoundMoves
<1>10. Holds(task[id], k) => /\ task'[id].lease_until = now + LeaseS
                             /\ task'[id].cancel_requested = task[id].cancel_requested
  BY <1>1, <1>2, OneHeld DEF Heartbeat, Row
<1>11. CtlSound(d, task'[id], k)
  <2>1. b \in {"ok", "cancel"} => Covers(task'[id], k, c.since)
    <3>1. c.since \in Nat
      BY <1>1 DEF Ctl
    <3> QED
      BY <1>1, <1>4, <1>10, <3>1, WorkerNumbers DEF Covers
  <2>2. b = "cancel" => Asked(task'[id], k)
    BY <1>4, <1>10 DEF Asked
  <2> QED
    BY <1>2, <1>5, <1>9, <2>1, <2>2 DEF CtlSound
<1>12. \A i \in Id, j \in Token : ctl'[i][j] = ctl[i][j] \/ CtlSound(ctl'[i][j], task'[i], j)
  BY <1>6, <1>11
<1>13. \A i \in Id, j \in Token : ctl'[i][j].since = ctl[i][j].since
  BY <1>5, <1>6
<1> QED
  BY <1>2, <1>3, <1>7, <1>12, <1>13, SoundNext DEF Remote

LEMMA DoneSound ==
    ASSUME WorkerInv, NEW id \in Id, NEW k \in Token, AttemptDone(id, k) PROVE WorkerInv'
<1>1. WorkerTypeOK /\ now \in Nat
  BY DEF WorkerInv, StoreInv, TypeOK
<1>2. [Next]_storeVars /\ Become(id, k, NoCtl)
  BY DEF AttemptDone, storeVars
<1>3. /\ ctl' \in [Id -> [Token -> Ctl]] /\ ctl'[id][k] = NoCtl
      /\ \A i \in Id, j \in Token : i # id \/ j # k => ctl'[i][j] = ctl[i][j]
  BY <1>1, <1>2, BecomeFacts, NoCtlFacts
<1>4. ctl[id][k].fatal \in BOOLEAN /\ ctl[id][k].owner \in Worker
  <2>1. ctl[id][k] \in Ctl /\ CtlSound(ctl[id][k], task[id], k) /\ ctl[id][k].phase = "settled"
    BY CtlFacts DEF WorkerInv, AttemptDone
  <2> QED
    BY <2>1 DEF Ctl, CtlSound
<1>5. WorkerTypeOK'
  <2>1. attempts' \in [Worker -> [Id -> 0..MaxAttempt]]
    <3>1. attempts' = [attempts EXCEPT ![ctl[id][k].owner][id] = 0] /\ 0 \in 0..MaxAttempt
      BY WorkerNumbers DEF AttemptDone
    <3> QED
      BY <1>1, <3>1 DEF WorkerTypeOK
  <2>2. fatal' \in [Worker -> BOOLEAN]
    BY <1>1, <1>4 DEF WorkerTypeOK, AttemptDone
  <2>3. mode' \in [Worker -> {"new", "serving", "stopping", "draining", "exited", "crashed"}]
    BY <1>1 DEF WorkerTypeOK, AttemptDone
  <2> QED
    BY <1>1, <1>3, <2>1, <2>2, <2>3 DEF WorkerTypeOK, AttemptDone
<1>6. \A i \in Id, j \in Token : ctl'[i][j] = ctl[i][j] \/ CtlSound(ctl'[i][j], task[i], j)
  BY <1>3, NoCtlFacts
<1>7. \A i \in Id, j \in Token : ctl'[i][j].since = ctl[i][j].since \/ ctl'[i][j].since <= now
  <2>1. NoCtl.since = 0
    BY DEF NoCtl
  <2> QED
    BY <1>1, <1>3, <2>1
<1> QED
  BY <1>2, <1>5, <1>6, <1>7, SoundNext DEF AttemptDone

LEMMA ControllerSound ==
    ASSUME WorkerInv, NEW id \in Id, NEW k \in Token, Controller(id, k) PROVE WorkerInv'
<1>1. WorkerTypeOK /\ now \in Nat /\ [Next]_storeVars
  BY ControllerStore DEF WorkerInv, StoreInv, TypeOK
<1>2. CASE LocalAction(id, k)
  <2>1. Local
    BY <1>2, LocalFit
  <2>2. PICK d : Become(id, k, d) /\ Fit(ctl[id][k], d, task[id], k)
    BY <1>2, LocalFit
  <2> QED
    BY <2>1, <2>2, LocalSound DEF Fit
<1>3. CASE Progress(id, k) /\ Holds(task[id], k)
  <2>1. UNCHANGED workerVars
    BY <1>3 DEF Progress
  <2>2. WorkerTypeOK'
    BY <1>1, <2>1 DEF WorkerTypeOK, workerVars
  <2> QED
    BY <1>1, <2>1, <2>2, SoundNext DEF workerVars
<1>4. CASE SettleWrite(id, k)
  <2>1. /\ ctl[id][k] \in Ctl /\ CtlSound(ctl[id][k], task[id], k)
        /\ ctl[id][k].phase = "settling" /\ Remote
    BY <1>4, CtlFacts DEF WorkerInv, SettleWrite
  <2>2. /\ Settled(ctl[id][k]) \in Ctl /\ CtlSound(Settled(ctl[id][k]), task[id], k)
        /\ Settled(ctl[id][k]).since = 0
    BY <2>1, SettledSound, SettledFacts
  <2>3. ctl' = ctl \/ Become(id, k, Settled(ctl[id][k]))
    BY <1>4 DEF SettleWrite, Become
  <2>4. CASE ctl' = ctl
    <3>1. WorkerTypeOK'
      BY <1>1, <2>1, <2>4 DEF WorkerTypeOK, Remote
    <3> QED
      BY <1>1, <2>1, <2>4, <3>1, SoundNext DEF Remote
  <2>5. CASE Become(id, k, Settled(ctl[id][k]))
    <3>1. /\ ctl' \in [Id -> [Token -> Ctl]] /\ ctl'[id][k] = Settled(ctl[id][k])
          /\ \A i \in Id, j \in Token : i # id \/ j # k => ctl'[i][j] = ctl[i][j]
      BY <1>1, <2>2, <2>5, BecomeFacts
    <3>2. WorkerTypeOK'
      BY <1>1, <2>1, <3>1 DEF WorkerTypeOK, Remote
    <3>3. \A i \in Id, j \in Token :
            /\ ctl'[i][j] = ctl[i][j] \/ CtlSound(ctl'[i][j], task[i], j)
            /\ ctl'[i][j].since = ctl[i][j].since \/ ctl'[i][j].since <= now
      BY <1>1, <2>2, <3>1
    <3> QED
      BY <1>1, <2>1, <3>2, <3>3, SoundNext DEF Remote
  <2> QED
    BY <2>3, <2>4, <2>5
<1> QED
  BY <1>2, <1>3, <1>4, ApplySound, DoneSound, Zenon DEF Controller, LocalAction

-----------------------------------------------------------------------------
(* The claim loop.                                                         *)

\* A claim call that is sound against the rows as they are afterwards.
CallSound(x, q, t) ==
    /\ x \in ClaimCall /\ x.at <= t
    /\ x.pc = "sent" => x.free \in 1..Concurrency
    /\ x.pc \in Pending =>
         \A id \in DOMAIN x.rows : Below(q[id], x.rows[id]) /\ Covers(q[id], x.rows[id], x.at)

LEMMA ClaimStep ==
    ASSUME WorkerInv, [Next]_storeVars, NEW w \in Worker, NEW x,
           CallSound(x, task', now), claim' = [claim EXCEPT ![w] = x],
           late' \subseteq Worker \X (1..Concurrency),
           UNCHANGED <<mode, immediate, attempts, ctl, renewal, fatal>>
    PROVE  WorkerInv'
<1>1. WorkerTypeOK /\ now \in Nat /\ now' \in Nat /\ now <= now' /\ x \in ClaimCall
  BY StoreMoves DEF WorkerInv, CallSound
<1>2. /\ claim' \in [Worker -> ClaimCall] /\ claim'[w] = x
      /\ \A v \in Worker \ {w} : claim'[v] = claim[v]
  BY <1>1, ClaimSet
<1>3. WorkerTypeOK'
  BY <1>1, <1>2 DEF WorkerTypeOK
<1>4. ClaimSound(w)'
  <2>1. x.at <= now'
    BY <1>1 DEF CallSound, ClaimCall
  <2> QED
    BY <1>2, <2>1 DEF CallSound, ClaimSound
<1> QED
  BY <1>2, <1>3, <1>4, SoundNext

LEMMA IdleSound ==
    ASSUME now \in Nat
    PROVE  \A q : CallSound(ClaimIdle, q, now) /\ CallSound([ClaimIdle EXCEPT !.pc = "orphans"], q, now)
BY IdleFacts DEF CallSound, Pending

LEMMA TrackedHeld ==
    ASSUME WorkerTypeOK, NEW w \in Worker
    PROVE  /\ [id \in Tracked(w) |-> attempts[w][id]] \in Held
           /\ Tracked(w) \in SUBSET Id /\ Cardinality(Tracked(w)) \in Nat
<1>1. Tracked(w) \in SUBSET Id
  BY DEF Tracked
<1>2. \A id \in Tracked(w) : attempts[w][id] \in Token
  BY WorkerNumbers DEF Tracked, WorkerTypeOK, Token
<1>3. [id \in Tracked(w) |-> attempts[w][id]] \in [Tracked(w) -> Token]
  BY <1>2
<1>4. Cardinality(Tracked(w)) \in Nat
  BY <1>1, UnionBound
<1> QED
  BY <1>1, <1>3, <1>4, HeldIntro

LEMMA ApplyClaimSound ==
    ASSUME WorkerInv, NEW w \in Worker, NEW S \in SUBSET Id, ClaimApply(w, S) PROVE WorkerInv'
<1> DEFINE rows == [id \in S |-> task'[id].token]
           x == [claim[w] EXCEPT !.pc = "applied", !.rows = rows]
<1>1. /\ WorkerTypeOK /\ claim[w] \in ClaimCall /\ claim[w].at \in Nat /\ claim[w].at <= now
      /\ now \in Nat /\ \A id \in Id : task[id] \in Row
  BY CallFacts DEF WorkerInv, StoreInv, TypeOK, ClaimSound
<1>2. [Next]_storeVars
  BY DEF ClaimApply, Next
<1>3. ASSUME NEW id \in S
      PROVE  /\ task'[id].state = "running" /\ task'[id].token = task'[id].attempt
             /\ task'[id].lease_until = now + LeaseS /\ task'[id].token \in Token
             /\ task'[id].token \in Nat
  <2>1. task'[id] = Claimed(task[id], w) /\ task[id].attempt < MaxAttempt
    BY <1>3 DEF ClaimApply, Claim
  <2>2. task[id].attempt \in Nat
    BY <1>1, <1>3 DEF Row
  <2>3. /\ task'[id].state = "running" /\ task'[id].token = task[id].attempt + 1
        /\ task'[id].attempt = task[id].attempt + 1 /\ task'[id].lease_until = now + LeaseS
    BY <1>1, <1>3, <2>1 DEF Claimed, Row
  <2> QED
    BY <2>1, <2>2, <2>3, WorkerNumbers DEF Token
<1>4. rows \in Held /\ DOMAIN rows = S /\ \A id \in S : rows[id] = task'[id].token
  <2>1. rows \in [S -> Token]
    BY <1>3
  <2> QED
    BY <2>1, HeldIntro
<1> HIDE DEF rows
<1>5. claim' = [claim EXCEPT ![w] = x]
  BY <1>1 DEF ClaimApply, WorkerTypeOK, rows
<1>6. x \in ClaimCall /\ x.pc = "applied" /\ x.rows = rows /\ x.at = claim[w].at
  BY <1>1, <1>4 DEF ClaimCall
<1> HIDE DEF x
<1>7. CallSound(x, task', now)
  <2>1. \A id \in S : Below(task'[id], rows[id])
    BY <1>3, <1>4 DEF Below
  <2>2. \A id \in S : Covers(task'[id], rows[id], x.at)
    BY <1>1, <1>3, <1>4, <1>6, WorkerNumbers DEF Covers
  <2> QED
    BY <1>1, <1>4, <1>6, <2>1, <2>2 DEF CallSound
<1> QED
  BY <1>1, <1>2, <1>5, <1>7, ClaimStep DEF ClaimApply, WorkerTypeOK

LEMMA DispatchSound ==
    ASSUME WorkerInv, NEW w \in Worker, ClaimDispatch(w) PROVE WorkerInv'
<1>1. /\ WorkerTypeOK /\ claim[w] \in ClaimCall /\ claim[w].at \in Nat /\ claim[w].at <= now
      /\ claim[w].rows \in Held /\ now \in Nat /\ ClaimSound(w)
  BY CallFacts DEF WorkerInv, StoreInv, TypeOK, ClaimSound
<1>2. [Next]_storeVars /\ task' = task /\ claim[w].pc = "applied" /\ late' = late
  BY DEF ClaimDispatch, storeVars
<1>3. CASE mode[w] # "serving"
  <2> DEFINE x == [claim[w] EXCEPT !.pc = "unstarted"]
  <2>1. claim' = [claim EXCEPT ![w] = x]
    BY <1>1, <1>3 DEF ClaimDispatch, WorkerTypeOK
  <2>2. /\ x \in ClaimCall /\ x.pc = "unstarted" /\ x.rows = claim[w].rows
        /\ x.at = claim[w].at
    BY <1>1 DEF ClaimCall
  <2> HIDE DEF x
  <2>3. CallSound(x, task', now)
    BY <1>1, <1>2, <2>2 DEF CallSound, ClaimSound, Pending
  <2> QED
    BY <1>1, <1>2, <1>3, <2>1, <2>3, ClaimStep DEF ClaimDispatch, WorkerTypeOK
<1>4. CASE mode[w] = "serving"
  <2> DEFINE d == [NoCtl EXCEPT !.phase = "fresh", !.owner = w, !.renewed_at = claim[w].at,
                                !.since = claim[w].at]
             New(id, k) == id \in DOMAIN claim[w].rows /\ claim[w].rows[id] = k
  <2>1. ctl' = [id \in Id |-> [k \in Token |-> IF New(id, k) THEN d ELSE ctl[id][k]]]
    BY <1>4 DEF ClaimDispatch, Dispatched
  <2>2. /\ d \in Ctl /\ d.phase = "fresh" /\ d.owner = w /\ d.renewed_at = claim[w].at
        /\ d.since = claim[w].at /\ d.beat = "none" /\ d.cause = None /\ d.kind = None
    BY <1>1 DEF NoCtl, Ctl, Phase, Beat
  <2> HIDE DEF d
  <2>3. None # "cancel"
    BY CauseAssumption DEF CauseAssumption, Cause
  <2>4. ASSUME NEW id \in Id, NEW k \in Token, New(id, k) PROVE CtlSound(d, task[id], k)
    <3>1. Below(task[id], k) /\ Covers(task[id], k, claim[w].at)
      BY <1>1, <1>2, <2>4 DEF ClaimSound, Pending
    <3> QED
      BY <2>2, <2>3, <3>1 DEF CtlSound, Over
  <2>5. WorkerTypeOK'
    <3>1. ctl' \in [Id -> [Token -> Ctl]]
      BY <1>1, <2>1, <2>2 DEF WorkerTypeOK
    <3>2. attempts' \in [Worker -> [Id -> 0..MaxAttempt]]
      <4>1. \A id \in DOMAIN claim[w].rows : claim[w].rows[id] \in 0..MaxAttempt
        BY <1>1, HeldFacts, WorkerNumbers DEF Token
      <4>2. attempts' = [attempts EXCEPT ![w] = [id \in Id |->
                          IF id \in DOMAIN claim[w].rows THEN claim[w].rows[id]
                          ELSE attempts[w][id]]]
        BY <1>4 DEF ClaimDispatch
      <4> QED
        BY <1>1, <4>1, <4>2 DEF WorkerTypeOK
    <3>3. claim' \in [Worker -> ClaimCall]
      BY <1>1, <1>4, IdleFacts DEF ClaimDispatch, WorkerTypeOK
    <3> QED
      BY <1>1, <3>1, <3>2, <3>3 DEF ClaimDispatch, WorkerTypeOK
  <2>6. \A id \in Id, k \in Token :
          /\ ctl'[id][k] = ctl[id][k] \/ CtlSound(ctl'[id][k], task[id], k)
          /\ ctl'[id][k].since = ctl[id][k].since \/ ctl'[id][k].since <= now
    BY <1>1, <2>1, <2>2, <2>4
  <2>7. \A v \in Worker : claim'[v] = claim[v] \/ ClaimSound(v)'
    <3>1. /\ claim'[w] = ClaimIdle /\ now' = now
          /\ \A v \in Worker \ {w} : claim'[v] = claim[v]
      BY <1>1, <1>4, ClaimSet, IdleFacts DEF ClaimDispatch, storeVars
    <3>2. ClaimSound(w)'
      BY <1>1, <3>1, IdleFacts DEF ClaimSound, Pending
    <3> QED
      BY <3>1, <3>2
  <2> QED
    BY <1>2, <2>5, <2>6, <2>7, SoundNext DEF ClaimDispatch
<1> QED
  BY <1>3, <1>4

LEMMA ClaimLoopSound ==
    ASSUME WorkerInv, NEW w \in Worker, ClaimLoop(w) PROVE WorkerInv'
<1>1. /\ WorkerTypeOK /\ claim[w] \in ClaimCall /\ now \in Nat /\ ClaimSound(w)
      /\ late \subseteq Worker \X (1..Concurrency)
  BY CallFacts DEF WorkerInv, StoreInv, TypeOK, WorkerTypeOK
<1>2. [Next]_storeVars
  BY ClaimLoopStore
<1>3. \A q : CallSound(ClaimIdle, q, now) /\ CallSound([ClaimIdle EXCEPT !.pc = "orphans"], q, now)
  BY <1>1, IdleSound
<1>4. CASE Start(w)
  <2>1. WorkerTypeOK'
    BY <1>1, <1>4 DEF WorkerTypeOK, Start
  <2> QED
    BY <1>2, <1>4, <2>1, SoundNext DEF Start
<1>5. CASE ClaimSend(w)
  <2> DEFINE free == Concurrency - Cardinality(Tracked(w))
             x == [ClaimIdle EXCEPT !.pc = "sent", !.at = now, !.free = free]
  <2>1. free \in 1..Concurrency
    <3>1. Cardinality(Tracked(w)) \in Nat /\ Cardinality(Tracked(w)) < Concurrency
      BY <1>1, <1>5, TrackedHeld, Zenon DEF ClaimSend
    <3> QED
      BY <3>1, WorkerNumbers
  <2>3. claim' = [claim EXCEPT ![w] = x]
    BY <1>5, Zenon DEF ClaimSend
  <2> HIDE DEF free
  <2>2. x \in ClaimCall /\ x.pc = "sent" /\ x.at = now /\ x.free = free
    <3>1. free \in 0..Concurrency
      BY <2>1, WorkerNumbers
    <3> QED
      BY <1>1, <3>1, NoRowsHeld DEF ClaimCall, ClaimIdle
  <2> HIDE DEF x
  <2>4. CallSound(x, task', now)
    BY <1>1, <2>1, <2>2 DEF CallSound, Pending
  <2> QED
    BY <1>1, <1>2, <1>5, <2>3, <2>4, ClaimStep DEF ClaimSend
<1>6. CASE ClaimEmpty(w) \/ ReleaseAbandoned(w)
  BY <1>1, <1>2, <1>3, <1>6, ClaimStep DEF ClaimEmpty, ReleaseAbandoned
<1>7. CASE ClaimLost(w)
  <2>1. late' \subseteq Worker \X (1..Concurrency)
    BY <1>1, <1>7 DEF ClaimLost, MayRunLate, ClaimSound
  <2> QED
    BY <1>2, <1>3, <1>7, <2>1, ClaimStep DEF ClaimLost
<1>8. CASE OrphansSend(w)
  <2> DEFINE rows == [id \in Tracked(w) |-> attempts[w][id]]
             x == [claim[w] EXCEPT !.pc = "releasing", !.rows = rows]
  <2>1. rows \in Held
    BY <1>1, TrackedHeld
  <2> HIDE DEF rows
  <2>2. claim' = [claim EXCEPT ![w] = x]
    BY <1>1, <1>8 DEF OrphansSend, WorkerTypeOK, rows
  <2>3. x \in ClaimCall /\ x.pc = "releasing" /\ x.at = claim[w].at
    BY <1>1, <2>1 DEF ClaimCall
  <2> HIDE DEF x
  <2>4. CallSound(x, task', now)
    BY <1>1, <2>3 DEF CallSound, ClaimSound, Pending
  <2> QED
    BY <1>1, <1>2, <1>8, <2>2, <2>4, ClaimStep DEF OrphansSend
<1>9. CASE OrphansReleased(w)
  <2>1. \/ claim' = [claim EXCEPT ![w] = [ClaimIdle EXCEPT !.pc = "orphans"]]
        \/ claim' = [claim EXCEPT ![w] = ClaimIdle]
    BY <1>9 DEF OrphansReleased
  <2>2. late' = late /\ UNCHANGED <<mode, immediate, attempts, ctl, renewal, fatal>>
    BY <1>9 DEF OrphansReleased
  <2> QED
    BY <1>1, <1>2, <1>3, <2>1, <2>2, ClaimStep
<1>10. CASE ReleaseUnstarted(w)
  <2>1. claim' = claim \/ claim' = [claim EXCEPT ![w] = ClaimIdle]
    BY <1>10 DEF ReleaseUnstarted
  <2>2. late' = late /\ UNCHANGED <<mode, immediate, attempts, ctl, renewal, fatal>>
    BY <1>10 DEF ReleaseUnstarted
  <2>3. CASE claim' = claim
    <3>1. WorkerTypeOK'
      BY <1>1, <2>2, <2>3 DEF WorkerTypeOK
    <3> QED
      BY <1>2, <2>2, <2>3, <3>1, SoundNext
  <2> QED
    BY <1>1, <1>2, <1>3, <2>1, <2>2, <2>3, ClaimStep
<1>11. ASSUME NEW S \in SUBSET Id, NEW free \in 1..Concurrency, LateClaim(w, free, S)
       PROVE  WorkerInv'
  <2>1. WorkerTypeOK'
    BY <1>1, <1>11 DEF WorkerTypeOK, LateClaim
  <2> QED
    BY <1>2, <1>11, <2>1, SoundNext DEF LateClaim
<1> QED
  BY <1>4, <1>5, <1>6, <1>7, <1>8, <1>9, <1>10, <1>11, ApplyClaimSound, DispatchSound
     DEF ClaimLoop

-----------------------------------------------------------------------------
(* The renewal loop and the end of a worker.                               *)

LEMMA FitSelf ==
    ASSUME NEW c \in Ctl, NEW r, NEW k, CtlSound(c, r, k) PROVE Fit(c, c, r, k)
BY DEF Fit, Advance, CtlSound

\* The check that ends a pass only stops controllers.
LEMMA PassFit ==
    ASSUME NEW w, NEW f \in [Id -> [Token -> Ctl]],
           \A id \in Id, k \in Token : CtlSound(f[id][k], task[id], k)
    PROVE  /\ AfterPass(w, f) \in [Id -> [Token -> Ctl]]
           /\ \A id \in Id, k \in Token : Fit(f[id][k], AfterPass(w, f)[id][k], task[id], k)
<1>1. \A id \in Id, k \in Token :
        /\ Fit(f[id][k], f[id][k], task[id], k)
        /\ Fit(f[id][k], Stopped(f[id][k], "lost"), task[id], k)
  BY FitSelf, StoppedFit DEF Cause
<1>2. \A id \in Id, k \in Token : Fit(f[id][k], AfterPass(w, f)[id][k], task[id], k)
  BY <1>1 DEF AfterPass
<1>3. \A id \in Id, k \in Token : AfterPass(w, f)[id][k] \in Ctl
  BY <1>2 DEF Fit
<1>4. AfterPass(w, f) = [id \in Id |-> [k \in Token |-> AfterPass(w, f)[id][k]]]
  BY DEF AfterPass
<1> QED
  BY <1>2, <1>3, <1>4

\* A step that leaves the store alone and advances every controller.
LEMMA AllFit ==
    ASSUME WorkerInv, UNCHANGED <<storeVars, attempts, claim, late, immediate, fatal>>,
           mode' \in [Worker -> {"new", "serving", "stopping", "draining", "exited", "crashed"}],
           renewal' \in [Worker -> RenewalCall],
           ctl' \in [Id -> [Token -> Ctl]],
           \A id \in Id, k \in Token : /\ CtlSound(ctl'[id][k], task[id], k)
                                       /\ \/ ctl'[id][k].since = ctl[id][k].since
                                          \/ ctl'[id][k].since <= now,
           \A w \in Worker : renewal'[w] = renewal[w] \/ RenewalSound(w)'
    PROVE  WorkerInv'
<1>1. [Next]_storeVars /\ WorkerTypeOK
  BY DEF WorkerInv
<1>2. WorkerTypeOK'
  BY <1>1 DEF WorkerTypeOK
<1> QED
  BY <1>1, <1>2, SoundNext

LEMMA CtlsSound ==
    ASSUME WorkerInv
    PROVE  /\ ctl \in [Id -> [Token -> Ctl]] /\ now \in Nat
           /\ \A id \in Id, k \in Token : ctl[id][k] \in Ctl /\ CtlSound(ctl[id][k], task[id], k)
BY DEF WorkerInv, WorkerTypeOK, StoreInv, TypeOK

\* What one pass of the renewal loop sends.
DueNow(w, hinted) ==
    {id \in Tracked(w) : /\ Of(w, id).phase \notin Over /\ Of(w, id).cause # "lost"
                         /\ id \in hinted \/ 2 * (now - Of(w, id).renewed_at) >= HeartbeatS}
Live(w, hinted) == {id \in DueNow(w, hinted) : ~Expired(Of(w, id))}
StopDue(w, hinted) ==
    [id \in Id |-> [k \in Token |->
       IF id \in DueNow(w, hinted) \ Live(w, hinted) /\ attempts[w][id] = k
       THEN Stopped(ctl[id][k], "lost") ELSE ctl[id][k]]]
SentRenewal(w, live) ==
    [RenewalIdle EXCEPT !.pc = "sent", !.started = now,
                        !.deadline = Budget({Of(w, id).renewed_at : id \in live}),
                        !.held = [id \in live |-> attempts[w][id]]]

LEMMA SendShape ==
    ASSUME NEW w, NEW hinted, RenewSend(w, hinted)
    PROVE  /\ renewal[w].pc = "idle"
           /\ \/ ctl' = AfterPass(w, StopDue(w, hinted)) /\ renewal' = renewal
              \/ /\ ctl' = StopDue(w, hinted)
                 /\ renewal' = [renewal EXCEPT ![w] = SentRenewal(w, Live(w, hinted))]
           /\ UNCHANGED <<storeVars, mode, immediate, attempts, claim, late, fatal>>
BY DEF RenewSend, DueNow, Live, StopDue, SentRenewal

LEMMA StopDueFit ==
    ASSUME WorkerInv, NEW w, NEW hinted
    PROVE  /\ StopDue(w, hinted) \in [Id -> [Token -> Ctl]]
           /\ \A id \in Id, k \in Token :
                /\ Fit(ctl[id][k], StopDue(w, hinted)[id][k], task[id], k)
                /\ Fit(ctl[id][k], AfterPass(w, StopDue(w, hinted))[id][k], task[id], k)
<1> DEFINE f == StopDue(w, hinted)
<1>1. \A id \in Id, k \in Token : /\ Fit(ctl[id][k], ctl[id][k], task[id], k)
                                  /\ Fit(ctl[id][k], Stopped(ctl[id][k], "lost"), task[id], k)
  BY CtlsSound, FitSelf, StoppedFit DEF Cause
<1>2. \A id \in Id, k \in Token : f[id][k] \in {ctl[id][k], Stopped(ctl[id][k], "lost")}
  BY DEF StopDue
<1>3. f = [id \in Id |-> [k \in Token |-> f[id][k]]]
  BY DEF StopDue
<1> HIDE DEF f
<1>4. \A id \in Id, k \in Token : Fit(ctl[id][k], f[id][k], task[id], k)
  BY <1>1, <1>2
<1>5. f \in [Id -> [Token -> Ctl]] /\ \A id \in Id, k \in Token : CtlSound(f[id][k], task[id], k)
  BY <1>3, <1>4 DEF Fit
<1>6. \A id \in Id, k \in Token : Fit(f[id][k], AfterPass(w, f)[id][k], task[id], k)
  BY <1>5, PassFit
<1>7. \A id \in Id, k \in Token : Fit(ctl[id][k], AfterPass(w, f)[id][k], task[id], k)
  <2> SUFFICES ASSUME NEW id \in Id, NEW k \in Token
               PROVE  Fit(ctl[id][k], AfterPass(w, f)[id][k], task[id], k)
    OBVIOUS
  <2>1. CASE f[id][k] = ctl[id][k]
    BY <1>6, <2>1
  <2>2. CASE f[id][k] = Stopped(ctl[id][k], "lost")
    BY <1>6, <2>2, CtlsSound, StoppedThenFit DEF Cause
  <2> QED
    BY <1>2, <2>1, <2>2
<1> QED
  BY <1>4, <1>5, <1>7 DEF f

LEMMA LiveFacts ==
    ASSUME WorkerInv, NEW w \in Worker, NEW hinted
    PROVE  /\ Live(w, hinted) \in SUBSET Id
           /\ \A id \in Live(w, hinted) :
                /\ attempts[w][id] \in Token /\ Of(w, id) = ctl[id][attempts[w][id]]
                /\ Of(w, id) \in Ctl /\ Of(w, id).phase \notin Over
                /\ Below(task[id], attempts[w][id])
<1>1. Live(w, hinted) \subseteq Tracked(w) /\ Tracked(w) \subseteq Id
  BY DEF Live, DueNow, Tracked
<1> SUFFICES ASSUME NEW id \in Live(w, hinted)
             PROVE  /\ attempts[w][id] \in Token /\ Of(w, id) = ctl[id][attempts[w][id]]
                    /\ Of(w, id) \in Ctl /\ Of(w, id).phase \notin Over
                    /\ Below(task[id], attempts[w][id])
  BY <1>1
<1>2. attempts[w][id] \in Token /\ id \in Id
  BY <1>1, WorkerNumbers DEF WorkerInv, WorkerTypeOK, Tracked, Token
<1>3. Of(w, id).phase \notin Over /\ Of(w, id) = ctl[id][attempts[w][id]]
  BY DEF Live, DueNow, Of
<1>4. Of(w, id) \in Ctl /\ CtlSound(Of(w, id), task[id], attempts[w][id])
  BY <1>2, <1>3, CtlsSound
<1> QED
  BY <1>2, <1>3, <1>4 DEF CtlSound, Over

LEMMA SentFacts ==
    ASSUME WorkerInv, NEW w \in Worker, NEW hinted
    PROVE  LET live == Live(w, hinted)
               x    == SentRenewal(w, live)
           IN  /\ x \in RenewalCall /\ x.pc = "sent" /\ x.started = now
               /\ x.held = [id \in live |-> attempts[w][id]]
               /\ DOMAIN x.held = live
<1> DEFINE live == Live(w, hinted)
           b == Budget({Of(w, id).renewed_at : id \in live})
           held == [id \in live |-> attempts[w][id]]
           x == SentRenewal(w, live)
<1>1. /\ live \in SUBSET Id
      /\ \A id \in live : attempts[w][id] \in Token /\ Of(w, id) \in Ctl
  BY LiveFacts
<1>2. held \in Held /\ DOMAIN held = live
  <2>1. held \in [live -> Token]
    BY <1>1
  <2> QED
    BY <1>1, <2>1, HeldIntro
<1>3. b \in Nat /\ now \in Nat
  <2>1. {Of(w, id).renewed_at : id \in live} \in SUBSET Nat
    BY <1>1 DEF Ctl
  <2> QED
    BY <2>1, BudgetFacts, CtlsSound
<1>4. x = [RenewalIdle EXCEPT !.pc = "sent", !.started = now, !.deadline = b, !.held = held]
  BY DEF SentRenewal
<1> HIDE DEF b, held, live
<1>5. RenewalIdle \in RenewalCall
  BY IdleFacts
<1>6. x \in RenewalCall /\ x.pc = "sent" /\ x.started = now /\ x.held = held
  BY <1>2, <1>3, <1>4, <1>5 DEF RenewalCall
<1> QED
  BY <1>2, <1>6 DEF held, live

LEMMA SendSound ==
    ASSUME WorkerInv, NEW w \in Worker, NEW hinted, RenewSend(w, hinted) PROVE WorkerInv'
<1> DEFINE f == StopDue(w, hinted)
           x == SentRenewal(w, Live(w, hinted))
<1>1. /\ f \in [Id -> [Token -> Ctl]]
      /\ \A id \in Id, k \in Token : /\ Fit(ctl[id][k], f[id][k], task[id], k)
                                     /\ Fit(ctl[id][k], AfterPass(w, f)[id][k], task[id], k)
  BY StopDueFit
<1>2. AfterPass(w, f) \in [Id -> [Token -> Ctl]]
  BY <1>1, PassFit DEF Fit
<1>3. UNCHANGED <<storeVars, mode, immediate, attempts, claim, late, fatal>>
  BY SendShape
<1>4. WorkerTypeOK /\ now \in Nat /\ task' = task /\ now' = now
  BY <1>3 DEF WorkerInv, StoreInv, TypeOK, storeVars
<1>5. CASE ctl' = AfterPass(w, f) /\ renewal' = renewal
  BY <1>1, <1>2, <1>3, <1>4, <1>5, AllFit DEF Fit, WorkerTypeOK
<1>6. CASE ctl' = f /\ renewal' = [renewal EXCEPT ![w] = x]
  <2>1. /\ x \in RenewalCall /\ x.pc = "sent" /\ x.started = now
        /\ x.held = [id \in Live(w, hinted) |-> attempts[w][id]]
        /\ DOMAIN x.held = Live(w, hinted)
    BY SentFacts
  <2> HIDE DEF x
  <2>2. /\ renewal' \in [Worker -> RenewalCall] /\ renewal'[w] = x
        /\ \A v \in Worker \ {w} : renewal'[v] = renewal[v]
    BY <1>4, <1>6, <2>1, RenewalSet
  <2>3. RenewalSound(w)'
    <3>1. \A id \in DOMAIN x.held : Below(task[id], x.held[id])
      BY <2>1, LiveFacts
    <3> QED
      BY <1>4, <2>1, <2>2, <3>1 DEF RenewalSound
  <2> HIDE DEF f
  <2> QED
    BY <1>1, <1>3, <1>4, <1>6, <2>2, <2>3, AllFit DEF Fit, WorkerTypeOK
<1> HIDE DEF f, x
<1> QED
  BY <1>5, <1>6, SendShape DEF f, x

LEMMA RenewApplySound ==
    ASSUME WorkerInv, NEW w \in Worker, RenewApply(w) PROVE WorkerInv'
<1> DEFINE held == renewal[w].held
           reply == [id \in DOMAIN held |-> BeatOf(task[id], held[id])]
           x == [renewal[w] EXCEPT !.pc = "applied", !.reply = reply]
<1>1. /\ WorkerTypeOK /\ renewal[w] \in RenewalCall /\ held \in Held
      /\ renewal[w].started \in Nat /\ RenewalSound(w) /\ now \in Nat
      /\ \A id \in Id : task[id] \in Row
  BY CallFacts DEF WorkerInv, StoreInv, TypeOK
<1>2. Heartbeat(held) /\ [Next]_storeVars
  BY <1>1, HeartbeatNext DEF RenewApply
<1>3. DOMAIN held \in SUBSET Id /\ \A id \in DOMAIN held : held[id] \in Nat
  BY <1>1, HeldFacts
<1>4. reply \in UNION {[S -> Beat] : S \in SUBSET Id} /\ DOMAIN reply = DOMAIN held
  <2>1. reply \in [DOMAIN held -> Beat]
    BY DEF BeatOf, Beat
  <2> QED
    BY <1>3, <2>1
<1>5. \A id \in DOMAIN held :
        /\ reply[id] # "gone" => Holds(task[id], held[id])
        /\ reply[id] = "cancel" => task[id].cancel_requested
  BY DEF BeatOf
<1> HIDE DEF reply
<1>6. renewal' = [renewal EXCEPT ![w] = x]
  BY <1>1 DEF RenewApply, WorkerTypeOK, reply
<1>7. /\ x \in RenewalCall /\ x.pc = "applied" /\ x.held = held /\ x.reply = reply
      /\ x.started = renewal[w].started
  BY <1>1, <1>4 DEF RenewalCall
<1> HIDE DEF x
<1>8. /\ renewal' \in [Worker -> RenewalCall] /\ renewal'[w] = x
      /\ \A v \in Worker \ {w} : renewal'[v] = renewal[v]
  BY <1>1, <1>6, <1>7, RenewalSet
<1>9. ASSUME NEW id \in DOMAIN held
      PROVE  /\ Below(task'[id], held[id])
             /\ reply[id] # "gone" => Covers(task'[id], held[id], x.started)
             /\ reply[id] = "cancel" => Asked(task'[id], held[id])
  <2>1. id \in Id /\ held[id] \in Nat /\ Below(task[id], held[id])
    BY <1>1, <1>3, <1>9 DEF RenewalSound
  <2>2. RowKeeps(task[id], task'[id], held[id])
    BY <1>2, <2>1, StoreMoves DEF WorkerInv
  <2>3. Holds(task[id], held[id]) => task'[id].lease_until = now + LeaseS
    BY <1>1, <1>2, <1>9, <2>1 DEF Heartbeat, Row
  <2>4. x.started <= now /\ x.started \in Nat
    BY <1>1, <1>7 DEF RenewalSound
  <2> QED
    BY <1>1, <1>5, <2>2, <2>3, <2>4, WorkerNumbers DEF RowKeeps, Covers, Asked
<1>10. RenewalSound(w)'
  <2>1. now' = now
    BY <1>2 DEF Heartbeat
  <2>2. x.started <= now
    BY <1>1, <1>7 DEF RenewalSound
  <2> QED
    BY <1>4, <1>7, <1>8, <1>9, <2>1, <2>2 DEF RenewalSound
<1>11. WorkerTypeOK'
  BY <1>1, <1>8 DEF WorkerTypeOK, RenewApply
<1> QED
  BY <1>2, <1>8, <1>10, <1>11, SoundNext DEF RenewApply

LEMMA RenewalIdleSound == ASSUME now \in Nat, NEW w \in Worker, renewal'[w] = RenewalIdle, now' = now
                          PROVE  RenewalSound(w)'
BY IdleFacts, NoRowsHeld DEF RenewalSound

\* What the answer of a renewal makes of the controllers.
HeldBy(w, id, k) ==
    id \in DOMAIN renewal[w].held /\ renewal[w].held[id] = k /\ ctl[id][k].phase \notin Over
AnsweredCtl(w, id, k) ==
    IF HeldBy(w, id, k) THEN Renewed(ctl[id][k], renewal[w].reply[id], renewal[w].started)
    ELSE ctl[id][k]
Answered(w) == [id \in Id |-> [k \in Token |-> AnsweredCtl(w, id, k)]]

LEMMA ReplyShape ==
    ASSUME NEW w, RenewReply(w)
    PROVE  /\ renewal[w].pc = "applied" /\ ctl' = AfterPass(w, Answered(w))
           /\ renewal' = [renewal EXCEPT ![w] = RenewalIdle]
           /\ UNCHANGED <<storeVars, mode, immediate, attempts, claim, late, fatal>>
BY DEF RenewReply, Answered, AnsweredCtl, HeldBy

LEMMA AnsweredFit ==
    ASSUME WorkerInv, NEW w \in Worker, renewal[w].pc = "applied"
    PROVE  /\ AfterPass(w, Answered(w)) \in [Id -> [Token -> Ctl]]
           /\ \A id \in Id, k \in Token :
                LET n == AnsweredCtl(w, id, k)
                    c == ctl[id][k]
                IN  /\ n \in Ctl /\ CtlSound(n, task[id], k)
                    /\ n.phase = c.phase /\ n.since = c.since /\ n.owner = c.owner
                    /\ n.beat = c.beat /\ n.deadline = c.deadline
                    /\ n.renewed_at = IF HeldBy(w, id, k) /\ renewal[w].reply[id] # "gone"
                                      THEN renewal[w].started ELSE c.renewed_at
                    /\ Fit(n, AfterPass(w, Answered(w))[id][k], task[id], k)
<1> DEFINE Same(n, c) == /\ n.phase = c.phase /\ n.since = c.since /\ n.owner = c.owner
                         /\ n.beat = c.beat /\ n.deadline = c.deadline
<1>1. /\ renewal[w] \in RenewalCall /\ renewal[w].held \in Held /\ renewal[w].started \in Nat
      /\ RenewalSound(w)
  BY CallFacts DEF WorkerInv
<1>2. \A id \in DOMAIN renewal[w].held : renewal[w].reply[id] \in Beat
  BY <1>1 DEF RenewalCall, RenewalSound
<1>3. ASSUME NEW id \in Id, NEW k \in Token
      PROVE  /\ AnsweredCtl(w, id, k) \in Ctl /\ CtlSound(AnsweredCtl(w, id, k), task[id], k)
             /\ Same(AnsweredCtl(w, id, k), ctl[id][k])
             /\ AnsweredCtl(w, id, k).renewed_at
                  = IF HeldBy(w, id, k) /\ renewal[w].reply[id] # "gone"
                    THEN renewal[w].started ELSE ctl[id][k].renewed_at
  <2>1. ctl[id][k] \in Ctl /\ CtlSound(ctl[id][k], task[id], k)
    BY CtlsSound
  <2>2. CASE ~HeldBy(w, id, k)
    BY <2>1, <2>2 DEF AnsweredCtl
  <2>3. CASE HeldBy(w, id, k)
    <3>1. /\ renewal[w].reply[id] \in Beat /\ ctl[id][k].phase \notin Over
          /\ renewal[w].reply[id] # "gone" => Covers(task[id], k, renewal[w].started)
          /\ renewal[w].reply[id] = "cancel" => Asked(task[id], k)
      BY <1>1, <1>2, <2>3 DEF HeldBy, RenewalSound
    <3>2. AnsweredCtl(w, id, k) = Renewed(ctl[id][k], renewal[w].reply[id], renewal[w].started)
      BY <2>3 DEF AnsweredCtl
    <3> QED
      BY <1>1, <2>1, <2>3, <3>1, <3>2, RenewedSound
  <2> QED
    BY <2>2, <2>3
<1>4. /\ Answered(w) \in [Id -> [Token -> Ctl]]
      /\ \A id \in Id, k \in Token : /\ Answered(w)[id][k] = AnsweredCtl(w, id, k)
                                     /\ CtlSound(Answered(w)[id][k], task[id], k)
  BY <1>3 DEF Answered
<1>5. /\ AfterPass(w, Answered(w)) \in [Id -> [Token -> Ctl]]
      /\ \A id \in Id, k \in Token :
           Fit(Answered(w)[id][k], AfterPass(w, Answered(w))[id][k], task[id], k)
  BY <1>4, PassFit
<1> QED
  BY <1>3, <1>4, <1>5

LEMMA FinishRenewalSound ==
    ASSUME WorkerInv, NEW w \in Worker, RenewReply(w) \/ RenewFail(w) PROVE WorkerInv'
<1>1. /\ WorkerTypeOK /\ now \in Nat
      /\ UNCHANGED <<storeVars, mode, immediate, attempts, claim, late, fatal>>
      /\ renewal' = [renewal EXCEPT ![w] = RenewalIdle] /\ now' = now
  BY ReplyShape DEF WorkerInv, StoreInv, TypeOK, RenewFail, storeVars
<1>2. /\ renewal' \in [Worker -> RenewalCall]
      /\ \A v \in Worker : renewal'[v] = renewal[v] \/ RenewalSound(v)'
  BY <1>1, RenewalSet, IdleFacts, RenewalIdleSound
<1>3. /\ ctl' \in [Id -> [Token -> Ctl]]
      /\ \A id \in Id, k \in Token : /\ CtlSound(ctl'[id][k], task[id], k)
                                     /\ \/ ctl'[id][k].since = ctl[id][k].since
                                        \/ ctl'[id][k].since <= now
  <2>1. CASE RenewReply(w)
    <3>1. renewal[w].pc = "applied" /\ ctl' = AfterPass(w, Answered(w))
      BY <2>1, ReplyShape
    <3> QED
      BY <3>1, AnsweredFit DEF Fit
  <2>2. CASE RenewFail(w)
    <3>1. ctl' = AfterPass(w, ctl)
      BY <2>2 DEF RenewFail
    <3> QED
      BY <3>1, PassFit, CtlsSound DEF Fit
  <2> QED
    BY <2>1, <2>2
<1> QED
  BY <1>1, <1>2, <1>3, AllFit DEF WorkerTypeOK

LEMMA StopAllFit ==
    ASSUME WorkerInv, NEW w, NEW cause \in Cause \ {"cancel"}
    PROVE  /\ StopAll(w, cause) \in [Id -> [Token -> Ctl]]
           /\ \A id \in Id, k \in Token : Fit(ctl[id][k], StopAll(w, cause)[id][k], task[id], k)
<1>1. \A id \in Id, k \in Token : /\ Fit(ctl[id][k], ctl[id][k], task[id], k)
                                  /\ Fit(ctl[id][k], Stopped(ctl[id][k], cause), task[id], k)
  BY CtlsSound, FitSelf, StoppedFit
<1>2. \A id \in Id, k \in Token : StopAll(w, cause)[id][k] \in {ctl[id][k], Stopped(ctl[id][k], cause)}
  BY DEF StopAll
<1>3. StopAll(w, cause) = [id \in Id |-> [k \in Token |-> StopAll(w, cause)[id][k]]]
  BY DEF StopAll
<1>4. \A id \in Id, k \in Token : Fit(ctl[id][k], StopAll(w, cause)[id][k], task[id], k)
  BY <1>1, <1>2
<1>5. \A id \in Id, k \in Token : StopAll(w, cause)[id][k] \in Ctl
  BY <1>4 DEF Fit
<1> QED
  BY <1>3, <1>4, <1>5

Abandoned(w) ==
    [id \in Id |-> [k \in Token |->
       IF attempts[w][id] = k /\ ctl[id][k].phase # "none" THEN Settled(ctl[id][k])
       ELSE ctl[id][k]]]

LEMMA AbandonedFit ==
    ASSUME WorkerInv, NEW w
    PROVE  /\ Abandoned(w) \in [Id -> [Token -> Ctl]]
           /\ \A id \in Id, k \in Token : Fit(ctl[id][k], Abandoned(w)[id][k], task[id], k)
<1>1. \A id \in Id, k \in Token :
        /\ Fit(ctl[id][k], ctl[id][k], task[id], k)
        /\ ctl[id][k].phase # "none" => Fit(ctl[id][k], Settled(ctl[id][k]), task[id], k)
  BY CtlsSound, FitSelf, SettledFit
<1>2. \A id \in Id, k \in Token : Fit(ctl[id][k], Abandoned(w)[id][k], task[id], k)
  BY <1>1 DEF Abandoned
<1>3. Abandoned(w) = [id \in Id |-> [k \in Token |-> Abandoned(w)[id][k]]]
  BY DEF Abandoned
<1>4. \A id \in Id, k \in Token : Abandoned(w)[id][k] \in Ctl
  BY <1>2 DEF Fit
<1> QED
  BY <1>2, <1>3, <1>4

LEMMA GoneSound ==
    ASSUME WorkerInv, NEW w \in Worker, Gone(w),
           mode' \in [Worker -> {"new", "serving", "stopping", "draining", "exited", "crashed"}]
    PROVE  WorkerInv'
<1>1. /\ WorkerTypeOK /\ now \in Nat /\ ClaimSound(w) /\ [Next]_storeVars /\ now' = now
      /\ immediate' = immediate
  BY DEF WorkerInv, StoreInv, TypeOK, Gone, storeVars
<1>2. /\ claim' \in [Worker -> ClaimCall] /\ claim'[w] = ClaimIdle
      /\ \A v \in Worker \ {w} : claim'[v] = claim[v]
  BY <1>1, ClaimSet, IdleFacts DEF Gone
<1>3. /\ renewal' \in [Worker -> RenewalCall] /\ renewal'[w] = RenewalIdle
      /\ \A v \in Worker \ {w} : renewal'[v] = renewal[v]
  BY <1>1, RenewalSet, IdleFacts DEF Gone
<1>4. \A id \in Id, k \in Token : ctl'[id][k] = ctl[id][k] \/ ctl'[id][k] = NoCtl
  BY DEF Gone
<1>5. WorkerTypeOK'
  <2>1. ctl' \in [Id -> [Token -> Ctl]]
    BY <1>1, NoCtlFacts DEF Gone, WorkerTypeOK
  <2>2. attempts' \in [Worker -> [Id -> 0..MaxAttempt]]
    <3>1. [id \in Id |-> 0] \in [Id -> 0..MaxAttempt]
      BY WorkerNumbers
    <3> QED
      BY <1>1, <3>1 DEF Gone, WorkerTypeOK
  <2>3. late' \subseteq Worker \X (1..Concurrency)
    BY <1>1 DEF Gone, MayRunLate, ClaimSound, WorkerTypeOK
  <2>4. fatal' \in [Worker -> BOOLEAN]
    BY <1>1 DEF Gone, WorkerTypeOK
  <2> QED
    BY <1>1, <1>2, <1>3, <2>1, <2>2, <2>3, <2>4 DEF WorkerTypeOK
<1>6. ClaimSound(w)'
  BY <1>1, <1>2, IdleFacts DEF ClaimSound, Pending
<1>7. RenewalSound(w)'
  BY <1>1, <1>3, RenewalIdleSound
<1>8. \A id \in Id, k \in Token :
        /\ ctl'[id][k] = ctl[id][k] \/ CtlSound(ctl'[id][k], task[id], k)
        /\ ctl'[id][k].since = ctl[id][k].since \/ ctl'[id][k].since <= now
  <2>1. NoCtl.since = 0
    BY DEF NoCtl
  <2> QED
    BY <1>1, <1>4, <2>1, NoCtlFacts
<1> QED
  BY <1>1, <1>2, <1>3, <1>5, <1>6, <1>7, <1>8, SoundNext

LEMMA LifetimeSound ==
    ASSUME WorkerInv, NEW w \in Worker, Lifetime(w) PROVE WorkerInv'
<1>1. WorkerTypeOK /\ [Next]_storeVars
  BY WorkerStore DEF WorkerInv, WNext, vars, Lifetime, RequestShutdown, Drain, Abandon, Exit,
                     Crash, Gone
<1>2. CASE RequestShutdown(w)
  <2>1. WorkerTypeOK'
    BY <1>1, <1>2 DEF RequestShutdown, WorkerTypeOK
  <2> QED
    BY <1>1, <1>2, <2>1, SoundNext DEF RequestShutdown
<1>3. CASE Drain(w)
  <2>1. ctl' = StopAll(w, "shutdown") /\ "shutdown" \in Cause \ {"cancel"}
    BY <1>3 DEF Drain, Cause
  <2>2. mode' \in [Worker -> {"new", "serving", "stopping", "draining", "exited", "crashed"}]
    BY <1>1, <1>3 DEF Drain, WorkerTypeOK
  <2>3. /\ ctl' \in [Id -> [Token -> Ctl]]
        /\ \A id \in Id, k \in Token : Fit(ctl[id][k], ctl'[id][k], task[id], k)
    BY <2>1, StopAllFit
  <2> QED
    BY <1>1, <1>3, <2>2, <2>3, AllFit DEF Fit, Drain, WorkerTypeOK
<1>4. CASE Abandon(w)
  <2>1. ctl' = Abandoned(w)
    BY <1>4 DEF Abandon, Abandoned
  <2>2. /\ ctl' \in [Id -> [Token -> Ctl]]
        /\ \A id \in Id, k \in Token : Fit(ctl[id][k], ctl'[id][k], task[id], k)
    BY <2>1, AbandonedFit
  <2> QED
    BY <1>1, <1>4, <2>2, AllFit DEF Fit, Abandon, WorkerTypeOK
<1>5. CASE Exit(w) \/ Crash(w)
  <2>1. mode' \in [Worker -> {"new", "serving", "stopping", "draining", "exited", "crashed"}]
    BY <1>1, <1>5 DEF Exit, Crash, WorkerTypeOK
  <2> QED
    BY <1>5, <2>1, GoneSound DEF Exit, Crash
<1> QED
  BY <1>2, <1>3, <1>4, <1>5 DEF Lifetime

LEMMA WorkerInvNext == ASSUME WorkerInv, [WNext]_vars PROVE WorkerInv'
<1>1. CASE UNCHANGED workerVars
  <2>1. WorkerTypeOK' /\ [Next]_storeVars
    BY <1>1, WorkerStore DEF WorkerInv, WorkerTypeOK, workerVars
  <2> QED
    BY <1>1, <2>1, SoundNext DEF workerVars
<1>2. ASSUME NEW w \in Worker, Renewals(w) PROVE WorkerInv'
  BY <1>2, SendSound, RenewApplySound, FinishRenewalSound DEF Renewals
<1> QED
  BY <1>1, <1>2, ClaimLoopSound, ControllerSound, LifetimeSound, Zenon
     DEF WNext, Clients, Reaper, vars

LEMMA WorkerInvInit == Init => WorkerInv
<1> SUFFICES ASSUME Init PROVE WorkerInv
  OBVIOUS
<1>1. StoreInv /\ now = 0
  BY StoreInvInit DEF Init, StoreInit
<1>2. AttemptsBounded /\ LeaseAhead
  <2>1. NoRow.attempt = 0 /\ NoRow.state = "absent"
    BY DEF NoRow
  <2> QED
    BY <2>1, WorkerNumbers DEF Init, StoreInit, AttemptsBounded, LeaseAhead
<1>3. WorkerTypeOK
  BY NoCtlFacts, IdleFacts, WorkerNumbers DEF Init, WorkerTypeOK
<1>4. \A id \in Id, k \in Token : CtlSound(ctl[id][k], task[id], k) /\ ctl[id][k].since <= now
  <2>1. NoCtl.since = 0
    BY DEF NoCtl
  <2> QED
    BY <1>1, <2>1, NoCtlFacts DEF Init
<1>5. \A w \in Worker : ClaimSound(w) /\ RenewalSound(w)
  BY <1>1, IdleFacts, NoRowsHeld DEF Init, ClaimSound, RenewalSound, Pending
<1> QED
  BY <1>1, <1>2, <1>3, <1>4, <1>5 DEF WorkerInv

\* Whatever the workers do, the database only ever sees the statements of the
\* store: every theorem about the store holds of it under any number of workers.
THEOREM WorkersUseStore == WSpec => Spec
<1>1. Init => StoreInit
  BY DEF Init
<1> QED
  BY <1>1, WorkerInvInit, WorkerInvNext, WorkerStore, PTL DEF WSpec, Spec

\* The worker's memory keeps its types, whatever replies are lost or late.
THEOREM WorkerTypes == WSpec => []WorkerTypeOK
<1>1. WorkerInv => WorkerTypeOK
  BY DEF WorkerInv
<1> QED
  BY <1>1, WorkerInvInit, WorkerInvNext, PTL DEF WSpec

\* The local deadline of an attempt never outlasts the lease in the database,
\* however slow, lost or overtaken its heartbeats are.
THEOREM LeasesConservative == WSpec => []LeaseConservative
<1>1. WorkerInv => LeaseConservative
  BY DEF WorkerInv, CtlSound, Covers, LeaseConservative
<1> QED
  BY <1>1, WorkerInvInit, WorkerInvNext, PTL DEF WSpec

\* An attempt ends as cancelled only when its own row asks for it.
THEOREM CancelsAcknowledged == WSpec => []CancelAcked
<1>1. WorkerInv => CancelAcked
  BY DEF WorkerInv, CtlSound, Asked, CancelAcked, Over
<1> QED
  BY <1>1, WorkerInvInit, WorkerInvNext, PTL DEF WSpec
=============================================================================
