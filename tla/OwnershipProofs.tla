--------------------------- MODULE OwnershipProofs ---------------------------
(***************************************************************************)
(* Who owns a row, for every value of the constants, while no worker       *)
(* claims a task it still tracks (Reclaims = FALSE).                       *)
(*                                                                         *)
(* WorkerProofs shows that a lease in the database outlasts what a worker  *)
(* believes of it.  Here it is shown that nobody but the reaper takes a    *)
(* row from an attempt that lives: a release of unstarted rows names only  *)
(* rows that got no controller, and a release of orphans spares what the   *)
(* worker tracks.  So an attempt within its local lease holds its row.     *)
(* Conversely, a worker that ends gracefully has accounted for every row   *)
(* it claimed.                                                             *)
(***************************************************************************)
EXTENDS WorkerProofs

\* Until t + LeaseS the attempt with token k holds its row.
Kept(r, k, t) == now <= t + LeaseS => Holds(r, k)

CtlKept(id, k) ==
    LET c == ctl[id][k]
        r == task[id]
    IN  /\ c.phase # "none" => attempts[c.owner][id] = k /\ (Holds(r, k) => r.worker = c.owner)
        /\ c.phase \in Alive => Kept(r, k, c.renewed_at)
        /\ c.phase = "fresh" \/ c.beat \in {"ok", "cancel"} => Kept(r, k, c.since)
        /\ c.phase = "renewing" /\ now <= c.deadline => Holds(r, k) /\ c.beat # "gone"

\* The rows of a claim that have no controller yet.
IsPending(w, id, k) == claim[w].pc \in Pending /\ id \in DOMAIN claim[w].rows /\ claim[w].rows[id] = k
PendingKept(w) ==
    \A id \in Id, k \in Token : IsPending(w, id, k) =>
      /\ attempts[w][id] = 0 /\ ctl[id][k].phase = "none"
      /\ Holds(task[id], k) => task[id].worker = w
      /\ claim[w].pc = "applied" => Kept(task[id], k, claim[w].at)
ClaimsApart ==
    \A w, v \in Worker : \A id \in Id, k \in Token :
      IsPending(w, id, k) /\ IsPending(v, id, k) => w = v
Renews(w, id, k) == id \in DOMAIN renewal[w].held /\ renewal[w].held[id] = k
RenewalsApart ==
    \A w, v \in Worker : \A id \in Id, k \in Token : ~(IsPending(w, id, k) /\ Renews(v, id, k))

\* A release of orphans spares every tracked row.
Shielded(w) == claim[w].pc = "releasing" => Tracked(w) \subseteq DOMAIN claim[w].rows

RenewalKept(w) ==
    renewal[w].pc = "applied" =>
      \A id \in Id, k \in Token :
        Renews(w, id, k) /\ renewal[w].reply[id] # "gone" /\ ctl[id][k].phase \in Alive =>
          Kept(task[id], k, renewal[w].started)

OwnerInv ==
    /\ \A id \in Id, k \in Token : CtlKept(id, k)
    /\ ClaimsApart /\ RenewalsApart
    /\ \A w \in Worker : PendingKept(w) /\ Shielded(w) /\ RenewalKept(w)

-----------------------------------------------------------------------------
(* Who can take a row from the attempt that holds it.                      *)

LEMMA CompleteTakes ==
    ASSUME NEW c, Complete(c), NEW id \in Id, NEW k,
           Holds(task[id], k), ~Holds(task'[id], k)
    PROVE  id \in DOMAIN c /\ c[id].token = k
<1>1. Applies(c, id)
  BY DEF Complete
<1> QED
  BY <1>1 DEF Applies, Holds

LEMMA ReapTakes ==
    ASSUME NEW S, Reap(S), NEW id \in Id, NEW k, Holds(task[id], k), ~Holds(task'[id], k)
    PROVE  task[id].lease_until < now
BY DEF Reap

LEMMA OrphansTake ==
    ASSUME NEW w, NEW live, NEW S, ReleaseOrphans(w, live, S), NEW id \in Id, NEW k,
           Holds(task[id], k), ~Holds(task'[id], k)
    PROVE  task[id].worker = w /\ id \notin live
BY DEF ReleaseOrphans, Orphans

LEMMA OthersSpare ==
    ASSUME StoreInv, NEW id \in Id, NEW k, Holds(task[id], k),
           \/ UNCHANGED storeVars \/ Tick
           \/ \E S : Heartbeat(S) \/ \E w : Claim(w, S)
           \/ \E i \in Id : \/ RequestCancel(i) \/ Requeue(i) \/ \E j : SetProgress(i, j)
                          \/ \E type, max_attempts, delay :
                               Enqueue(i, type, None, None, max_attempts, delay)
           \/ \E limit, keyLimit : PublishTaskTypes(limit, keyLimit)
    PROVE  Holds(task'[id], k)
<1>1. task \in [Id -> Row] /\ task[id] \in Row
  BY DEF StoreInv, TypeOK
<1>2. ASSUME NEW S, Heartbeat(S) PROVE Holds(task'[id], k)
  BY <1>1, <1>2 DEF Heartbeat, Holds, Row
<1>3. ASSUME NEW S, NEW w, Claim(w, S) PROVE Holds(task'[id], k)
  BY <1>1, <1>3 DEF Claim, Due, Holds
<1>4. ASSUME NEW i \in Id, NEW j, SetProgress(i, j) PROVE Holds(task'[id], k)
  BY <1>1, <1>4 DEF SetProgress, Holds, Row
<1>5. ASSUME NEW i \in Id, RequestCancel(i) PROVE Holds(task'[id], k)
  BY <1>1, <1>5 DEF RequestCancel, CancelRequested, Holds, Row
<1>6. ASSUME NEW i \in Id, Requeue(i) PROVE Holds(task'[id], k)
  BY <1>1, <1>6 DEF Requeue, Holds
<1>7. ASSUME NEW i \in Id, NEW type, NEW max_attempts, NEW delay,
             Enqueue(i, type, None, None, max_attempts, delay)
      PROVE  Holds(task'[id], k)
  BY <1>1, <1>7 DEF Enqueue, Holds
<1>8. ASSUME \/ UNCHANGED storeVars \/ Tick
             \/ \E limit, keyLimit : PublishTaskTypes(limit, keyLimit)
      PROVE  Holds(task'[id], k)
  BY <1>8 DEF storeVars, Tick, PublishTaskTypes
<1> QED
  BY <1>2, <1>3, <1>4, <1>5, <1>6, <1>7, <1>8, Zenon

\* The ways a row is lost.
Taker(id, k) ==
    \/ task[id].lease_until < now
    \/ ctl[id][k].phase = "settling"
    \/ \E w \in Worker : claim[w].pc = "unstarted" /\ IsPending(w, id, k)
    \/ \E w \in Worker : /\ claim[w].pc = "releasing" /\ task[id].worker = w
                         /\ id \notin DOMAIN claim[w].rows

LEMMA Taken ==
    ASSUME WorkerInv, [WNext]_vars, NEW id \in Id, NEW k \in Token,
           Holds(task[id], k), ~Holds(task'[id], k)
    PROVE  Taker(id, k)
<1>1. StoreInv
  BY DEF WorkerInv
<1>2. ASSUME \/ UNCHANGED storeVars \/ Tick
             \/ \E S : Heartbeat(S) \/ \E w : Claim(w, S)
             \/ \E i \in Id : \/ RequestCancel(i) \/ Requeue(i) \/ \E j : SetProgress(i, j)
                            \/ \E type, max_attempts, delay :
                                 Enqueue(i, type, None, None, max_attempts, delay)
             \/ \E limit, keyLimit : PublishTaskTypes(limit, keyLimit)
      PROVE  FALSE
  BY <1>1, <1>2, OthersSpare, Zenon
<1>3. ASSUME NEW w \in Worker, ClaimLoop(w) PROVE Taker(id, k)
  <2>1. CASE OrphansReleased(w)
    <3>1. claim[w].pc = "releasing" /\ \E S \in SUBSET Id : ReleaseOrphans(w, DOMAIN claim[w].rows, S)
      BY <2>1 DEF OrphansReleased
    <3>2. task[id].worker = w /\ id \notin DOMAIN claim[w].rows
      BY <3>1, OrphansTake, Zenon
    <3> QED
      BY <3>1, <3>2 DEF Taker
  <2>2. CASE ReleaseUnstarted(w)
    <3> DEFINE c == [i \in DOMAIN claim[w].rows |-> [token |-> claim[w].rows[i], kind |-> "release"]]
    <3>1. claim[w].pc = "unstarted" /\ Complete(c)
      BY <2>2, Zenon DEF ReleaseUnstarted
    <3>2. id \in DOMAIN c /\ c[id].token = k
      <4> HIDE DEF c
      <4> QED
        BY <3>1, CompleteTakes
    <3>3. IsPending(w, id, k)
      BY <3>1, <3>2 DEF IsPending, Pending
    <3> QED
      BY <3>1, <3>3 DEF Taker
  <2>3. CASE Start(w)
    BY <1>2, <2>3 DEF Start
  <2>4. CASE \E S \in SUBSET Id : ClaimApply(w, S) \/ \E free \in 1..Concurrency : LateClaim(w, free, S)
    BY <1>2, <2>4 DEF ClaimApply, LateClaim
  <2>5. CASE \/ ClaimSend(w) \/ ClaimEmpty(w) \/ ClaimLost(w) \/ ClaimDispatch(w)
             \/ OrphansSend(w) \/ ReleaseAbandoned(w)
    <3>1. UNCHANGED storeVars
      BY <2>5 DEF ClaimSend, ClaimEmpty, ClaimLost, ClaimDispatch, OrphansSend, ReleaseAbandoned,
                  storeVars
    <3> QED
      BY <1>2, <3>1
  <2> QED
    BY <1>3, <2>1, <2>2, <2>3, <2>4, <2>5 DEF ClaimLoop
<1>4. ASSUME NEW i \in Id, NEW j \in Token, Controller(i, j) PROVE Taker(id, k)
  <2>1. CASE SettleWrite(i, j)
    <3> DEFINE c == [n \in {i} |-> [token |-> j, kind |-> ctl[i][j].kind]]
    <3>1. ctl[i][j].phase = "settling" /\ Complete(c)
      BY <2>1, Zenon DEF SettleWrite
    <3>2. id \in DOMAIN c /\ c[id].token = k
      <4> HIDE DEF c
      <4> QED
        BY <3>1, CompleteTakes
    <3>3. id = i /\ k = j
      BY <3>2
    <3> QED
      BY <3>1, <3>3 DEF Taker
  <2>2. CASE FreshApply(i, j)
    BY <1>2, <2>2 DEF FreshApply
  <2>3. CASE Progress(i, j) /\ Holds(task[i], j)
    BY <1>2, <2>3 DEF Progress
  <2>4. CASE AttemptDone(i, j)
    BY <1>2, <2>4 DEF AttemptDone, storeVars
  <2>5. CASE LocalAction(i, j)
    BY <1>2, <2>5, LocalFit DEF Local
  <2> QED
    BY <1>4, <2>1, <2>2, <2>3, <2>4, <2>5, Zenon DEF Controller, LocalAction
<1>5. ASSUME NEW w \in Worker, Renewals(w) PROVE FALSE
  <2>1. CASE RenewApply(w)
    BY <1>2, <2>1 DEF RenewApply
  <2>2. UNCHANGED storeVars \/ RenewApply(w)
    BY <1>5 DEF Renewals, RenewSend, RenewReply, RenewFail, storeVars
  <2> QED
    BY <1>2, <2>1, <2>2
<1>6. ASSUME NEW w \in Worker, Lifetime(w) PROVE FALSE
  <2>1. UNCHANGED storeVars
    BY <1>6 DEF Lifetime, RequestShutdown, Drain, Abandon, Exit, Crash, Gone, storeVars
  <2> QED
    BY <1>2, <2>1
<1>7. CASE Clients
  BY <1>2, <1>7, Zenon DEF Clients
<1>8. CASE Reaper
  BY <1>8, ReapTakes DEF Reaper, Taker
<1>9. CASE UNCHANGED vars
  BY <1>2, <1>9 DEF vars
<1> QED
  BY <1>3, <1>4, <1>5, <1>6, <1>7, <1>8, <1>9, Zenon DEF WNext

\* A row that a live attempt holds, or a claim whose rows are about to arrive,
\* is only ever taken by the reaper.
Safe(id, k) ==
    \/ ctl[id][k].phase \in Alive
    \/ \E w \in Worker : claim[w].pc = "applied" /\ IsPending(w, id, k)

LEMMA Spared ==
    ASSUME WorkerInv, OwnerInv, NEW id \in Id, NEW k \in Token, Holds(task[id], k), Safe(id, k),
           Taker(id, k)
    PROVE  task[id].lease_until < now
<1>1. ASSUME NEW w \in Worker, IsPending(w, id, k)
      PROVE  ctl[id][k].phase = "none" /\ task[id].worker = w
  BY <1>1 DEF OwnerInv, PendingKept
<1>2. CASE ctl[id][k].phase \in Alive
  <2>1. ctl[id][k].phase # "none" /\ ctl[id][k].phase # "settling"
    BY <1>2 DEF Alive
  <2>2. attempts[ctl[id][k].owner][id] = k /\ task[id].worker = ctl[id][k].owner
    BY <2>1 DEF OwnerInv, CtlKept
  <2>3. ASSUME NEW w \in Worker, claim[w].pc = "releasing", task[id].worker = w
        PROVE  id \in DOMAIN claim[w].rows
    <3>1. id \in Tracked(w)
      BY <2>2, <2>3, TokenFacts DEF Tracked
    <3> QED
      BY <2>3, <3>1 DEF OwnerInv, Shielded
  <2> QED
    BY <1>1, <2>1, <2>3 DEF Taker
<1>3. ASSUME NEW v \in Worker, claim[v].pc = "applied", IsPending(v, id, k)
      PROVE  task[id].lease_until < now
  <2>1. ctl[id][k].phase # "settling" /\ task[id].worker = v
    BY <1>1, <1>3
  <2>2. ASSUME NEW w \in Worker, claim[w].pc = "unstarted", IsPending(w, id, k) PROVE FALSE
    BY <1>3, <2>2 DEF OwnerInv, ClaimsApart
  <2> QED
    BY <1>3, <2>1, <2>2 DEF Taker
<1> QED
  BY <1>2, <1>3 DEF Safe

LEMMA KeptMoves ==
    ASSUME WorkerInv, OwnerInv, [WNext]_vars, NEW id \in Id, NEW k \in Token, Safe(id, k),
           NEW t \in Nat, Kept(task[id], k, t), Covers(task[id], k, t), now' <= t + LeaseS
    PROVE  Holds(task'[id], k)
<1>1. [Next]_storeVars
  BY WorkerStore
<1>2. now \in Nat /\ now' \in Nat /\ now <= now' /\ task[id] \in Row
  BY <1>1, StoreMoves DEF WorkerInv
<1>3. task[id].lease_until \in Int /\ LeaseS \in Nat
  BY <1>2, WorkerNumbers DEF Row, Time, NoTime
<1>4. Holds(task[id], k) /\ t + LeaseS <= task[id].lease_until
  BY <1>2, <1>3 DEF Kept, Covers
<1>5. SUFFICES ASSUME ~Holds(task'[id], k) PROVE FALSE
  OBVIOUS
<1>6. task[id].lease_until < now
  BY <1>4, <1>5, Taken, Spared
<1> QED
  BY <1>2, <1>3, <1>4, <1>6

-----------------------------------------------------------------------------
(* What an advancing controller keeps.                                     *)

LEMMA FitKept ==
    ASSUME WorkerInv, OwnerInv, [WNext]_vars, NEW id \in Id, NEW k \in Token,
           NEW n \in Ctl, CtlSound(n, task[id], k),
           n.phase = ctl[id][k].phase, n.since = ctl[id][k].since, n.owner = ctl[id][k].owner,
           n.beat = ctl[id][k].beat, n.deadline = ctl[id][k].deadline,
           n.phase \in Alive => Kept(task[id], k, n.renewed_at),
           Fit(n, ctl'[id][k], task[id], k),
           n.phase # "none" => attempts'[n.owner][id] = attempts[n.owner][id]
    PROVE  CtlKept(id, k)'
<1> DEFINE d == ctl'[id][k]
           r == task[id]
           q == task'[id]
<1>1. /\ [Next]_storeVars /\ now \in Nat /\ now' \in Nat /\ now <= now' /\ r \in Row
      /\ Below(r, k) => RowKeeps(r, q, k)
  BY WorkerStore, StoreMoves, TokenFacts DEF WorkerInv
<1>2. /\ CtlKept(id, k) /\ r.lease_until \in Int /\ LeaseS \in Nat
      /\ n.renewed_at \in Nat /\ n.since \in Nat /\ n.deadline \in Nat
      /\ d \in Ctl /\ d.deadline \in Nat /\ d.renewed_at \in Nat /\ d.since \in Nat
  BY <1>1, WorkerNumbers DEF OwnerInv, Row, Time, NoTime, Ctl, Fit
<1>3. Advance(n, d)
  BY DEF Fit
<1>4. n.phase \in Alive => Safe(id, k) /\ n.phase \notin Over /\ n.phase # "none"
  BY DEF Safe, Alive, Over
<1>5. ASSUME NEW t \in Nat, n.phase \in Alive, Kept(r, k, t), Covers(r, k, t)
      PROVE  now' <= t + LeaseS => Holds(q, k)
  BY <1>4, <1>5, KeptMoves
<1>6. n.phase \in Alive => (now' <= n.renewed_at + LeaseS => Holds(q, k))
  BY <1>2, <1>4, <1>5 DEF CtlSound
<1>7. ASSUME n.phase = "fresh" \/ n.beat \in {"ok", "cancel"}
      PROVE  now' <= n.since + LeaseS => Holds(q, k)
  <2>1. n.phase \in Alive
    BY <1>7 DEF CtlSound, Alive
  <2>2. Kept(r, k, n.since) /\ Covers(r, k, n.since)
    BY <1>2, <1>4, <1>7, <2>1 DEF CtlKept, CtlSound
  <2> QED
    BY <1>2, <1>5, <2>1, <2>2
<1>8. d.phase # "none" => attempts'[d.owner][id] = k /\ (Holds(q, k) => q.worker = d.owner)
  BY <1>1, <1>2, <1>3 DEF Advance, CtlKept, CtlSound, RowKeeps
<1>9. d.phase \in Alive => (now' <= d.renewed_at + LeaseS => Holds(q, k))
  BY <1>3, <1>6, <1>7 DEF Advance
<1>10. d.phase = "fresh" \/ d.beat \in {"ok", "cancel"} => (now' <= d.since + LeaseS => Holds(q, k))
  BY <1>3, <1>7 DEF Advance
<1>11. ASSUME d.phase = "renewing", now' <= d.deadline PROVE Holds(q, k) /\ d.beat # "gone"
  <2>1. CASE n.phase = "renewing" /\ d.deadline = n.deadline /\ d.beat = n.beat
    <3>1. n.phase \in Alive /\ now <= n.deadline
      BY <1>1, <1>2, <1>11, <2>1 DEF Alive
    <3>2. Holds(r, k) /\ n.beat # "gone"
      BY <1>2, <2>1, <3>1 DEF CtlKept
    <3>3. n.deadline <= r.lease_until
      BY <1>4, <2>1, <3>1, <3>2 DEF CtlSound
    <3>4. SUFFICES ASSUME ~Holds(q, k) PROVE FALSE
      BY <2>1, <3>2
    <3>5. r.lease_until < now
      BY <1>4, <3>1, <3>2, <3>4, Taken, Spared
    <3> QED
      BY <1>1, <1>2, <3>1, <3>3, <3>5
  <2>2. CASE n.phase = "fresh" /\ d.beat = "none" /\ d.deadline <= n.renewed_at + LeaseS
    BY <1>1, <1>2, <1>6, <1>11, <2>2 DEF Alive
  <2> QED
    BY <1>3, <1>11, <2>1, <2>2 DEF Advance
<1> QED
  BY <1>8, <1>9, <1>10, <1>11 DEF CtlKept, Kept

\* Steps of the usual kind: every controller advances or disappears.
LEMMA AllKept ==
    ASSUME WorkerInv, OwnerInv, [WNext]_vars,
           \A id \in Id, k \in Token :
             \/ ctl'[id][k].phase = "none" /\ ctl'[id][k].beat = "none"
             \/ /\ Fit(ctl[id][k], ctl'[id][k], task[id], k)
                /\ ctl[id][k].phase # "none" =>
                     attempts'[ctl[id][k].owner][id] = attempts[ctl[id][k].owner][id]
    PROVE  \A id \in Id, k \in Token : CtlKept(id, k)'
<1> SUFFICES ASSUME NEW id \in Id, NEW k \in Token PROVE CtlKept(id, k)'
  OBVIOUS
<1>1. CASE ctl'[id][k].phase = "none" /\ ctl'[id][k].beat = "none"
  BY <1>1 DEF CtlKept, Alive
<1>2. CASE /\ Fit(ctl[id][k], ctl'[id][k], task[id], k)
           /\ ctl[id][k].phase # "none" =>
                attempts'[ctl[id][k].owner][id] = attempts[ctl[id][k].owner][id]
  <2>1. /\ ctl[id][k] \in Ctl /\ CtlSound(ctl[id][k], task[id], k)
        /\ ctl[id][k].phase \in Alive => Kept(task[id], k, ctl[id][k].renewed_at)
    BY CtlsSound DEF OwnerInv, CtlKept
  <2> QED
    BY <1>2, <2>1, FitKept
<1> QED
  BY <1>1, <1>2

-----------------------------------------------------------------------------
(* The frame: what is left to show of a step that gives no row to a new    *)
(* controller.                                                             *)

\* Rows of a claim that stay as they were, and rows that a claim just took.
StillPending(w, id, k) ==
    /\ IsPending(w, id, k) /\ claim'[w].at = claim[w].at
    /\ claim'[w].pc = "applied" => claim[w].pc = "applied"
JustClaimed(w, id, k) ==
    /\ ~Below(task[id], k) /\ attempts[w][id] = 0
    /\ Holds(task'[id], k) /\ task'[id].worker = w
PendingFrame ==
    \A w \in Worker, id \in Id, k \in Token :
      IsPending(w, id, k)' => StillPending(w, id, k) \/ JustClaimed(w, id, k)
ShieldFrame ==
    \A w \in Worker : claim'[w].pc = "releasing" =>
      claim'[w] = claim[w] \/ Tracked(w)' \subseteq DOMAIN claim'[w].rows
CtlFrame ==
    /\ \A w \in Worker, id \in Id : attempts'[w][id] \in {0, attempts[w][id]}
    /\ \A id \in Id, k \in Token : /\ ctl'[id][k].phase # "none" => ctl[id][k].phase # "none"
                                   /\ ctl'[id][k].phase \in Alive => ctl[id][k].phase \in Alive
RenewalFrame ==
    /\ \A w \in Worker, id \in Id, k \in Token :
         Renews(w, id, k)' => Renews(w, id, k) \/ ctl[id][k].phase # "none"
    /\ \A w \in Worker : \/ renewal'[w] = renewal[w] \/ renewal'[w].pc # "applied"
                         \/ RenewalKept(w)'

\* What is pending or being renewed has been given out.
LEMMA GivenOut ==
    ASSUME WorkerInv, NEW w \in Worker, NEW id \in Id, NEW k \in Token,
           IsPending(w, id, k) \/ Renews(w, id, k) \/ ctl[id][k].phase # "none"
    PROVE  Below(task[id], k)
<1>1. ClaimSound(w) /\ RenewalSound(w) /\ CtlSound(ctl[id][k], task[id], k)
  BY DEF WorkerInv
<1>2. CASE IsPending(w, id, k)
  BY <1>1, <1>2 DEF ClaimSound, IsPending
<1>3. CASE Renews(w, id, k)
  BY <1>1, <1>3 DEF RenewalSound, Renews
<1>4. CASE ctl[id][k].phase # "none"
  BY <1>1, <1>4 DEF CtlSound
<1> QED
  BY <1>2, <1>3, <1>4

LEMMA PendingNext ==
    ASSUME WorkerInv, OwnerInv, [WNext]_vars, PendingFrame, CtlFrame, NEW w \in Worker
    PROVE  PendingKept(w)'
<1> SUFFICES ASSUME NEW id \in Id, NEW k \in Token, IsPending(w, id, k)'
             PROVE  /\ attempts'[w][id] = 0 /\ ctl'[id][k].phase = "none"
                    /\ Holds(task'[id], k) => task'[id].worker = w
                    /\ claim'[w].pc = "applied" => Kept(task[id], k, claim[w].at)'
  BY DEF PendingKept
<1>1. CASE StillPending(w, id, k)
  <2>1. /\ attempts[w][id] = 0 /\ ctl[id][k].phase = "none"
        /\ Holds(task[id], k) => task[id].worker = w
        /\ claim[w].pc = "applied" => Kept(task[id], k, claim[w].at)
    BY <1>1 DEF StillPending, OwnerInv, PendingKept
  <2>2. /\ Below(task[id], k) /\ claim[w].at \in Nat
        /\ claim[w].pc = "applied" => Covers(task[id], k, claim[w].at)
    BY <1>1, CallFacts DEF StillPending, IsPending, WorkerInv, ClaimSound, Pending
  <2>3. RowKeeps(task[id], task'[id], k)
    BY <2>2, WorkerStore, StoreMoves, TokenFacts DEF WorkerInv
  <2>4. ASSUME claim'[w].pc = "applied" PROVE Kept(task[id], k, claim[w].at)'
    <3>1. Safe(id, k) /\ Kept(task[id], k, claim[w].at) /\ Covers(task[id], k, claim[w].at)
      BY <1>1, <2>1, <2>2, <2>4 DEF StillPending, Safe
    <3>2. now' <= claim[w].at + LeaseS => Holds(task'[id], k)
      BY <2>2, <3>1, KeptMoves
    <3> QED
      BY <1>1, <3>2 DEF Kept, StillPending
  <2> QED
    BY <2>1, <2>3, <2>4 DEF CtlFrame, RowKeeps
<1>2. CASE JustClaimed(w, id, k)
  <2>1. ctl[id][k].phase = "none"
    BY <1>2, GivenOut DEF JustClaimed
  <2> QED
    BY <1>2, <2>1 DEF JustClaimed, CtlFrame, Kept
<1> QED
  BY <1>1, <1>2 DEF PendingFrame

LEMMA ApartNext ==
    ASSUME WorkerInv, OwnerInv, PendingFrame, RenewalFrame
    PROVE  ClaimsApart' /\ RenewalsApart'
<1>1. ASSUME NEW w \in Worker, NEW v \in Worker, NEW id \in Id, NEW k \in Token,
             IsPending(w, id, k)', IsPending(v, id, k)'
      PROVE  w = v
  <2>1. CASE IsPending(w, id, k) /\ IsPending(v, id, k)
    BY <2>1 DEF OwnerInv, ClaimsApart
  <2>2. CASE Below(task[id], k)
    BY <1>1, <2>1, <2>2 DEF PendingFrame, StillPending, JustClaimed
  <2>3. CASE ~Below(task[id], k)
    <3>1. JustClaimed(w, id, k) /\ JustClaimed(v, id, k)
      BY <1>1, <2>3, GivenOut DEF PendingFrame, StillPending
    <3> QED
      BY <3>1 DEF JustClaimed
  <2> QED
    BY <2>2, <2>3
<1>2. ASSUME NEW w \in Worker, NEW v \in Worker, NEW id \in Id, NEW k \in Token,
             IsPending(w, id, k)', Renews(v, id, k)'
      PROVE  FALSE
  <2>1. Below(task[id], k)
    BY <1>2, GivenOut DEF RenewalFrame
  <2>2. IsPending(w, id, k)
    BY <1>2, <2>1 DEF PendingFrame, StillPending, JustClaimed
  <2>3. ctl[id][k].phase = "none" /\ ~Renews(v, id, k)
    BY <2>2 DEF OwnerInv, PendingKept, RenewalsApart
  <2> QED
    BY <1>2, <2>3 DEF RenewalFrame
<1> QED
  BY <1>1, <1>2 DEF ClaimsApart, RenewalsApart

LEMMA RenewalNext ==
    ASSUME WorkerInv, OwnerInv, [WNext]_vars, CtlFrame, RenewalFrame, NEW w \in Worker
    PROVE  RenewalKept(w)'
<1>1. CASE renewal'[w] = renewal[w]
  <2> SUFFICES ASSUME renewal[w].pc = "applied", NEW id \in Id, NEW k \in Token,
                      Renews(w, id, k), renewal[w].reply[id] # "gone",
                      ctl'[id][k].phase \in Alive, now' <= renewal[w].started + LeaseS
               PROVE  Holds(task'[id], k)
    BY <1>1 DEF RenewalKept, Renews, Kept
  <2>1. ctl[id][k].phase \in Alive /\ Safe(id, k)
    BY DEF CtlFrame, Safe
  <2>2. Kept(task[id], k, renewal[w].started)
    BY <2>1 DEF OwnerInv, RenewalKept
  <2>3. renewal[w].started \in Nat /\ Covers(task[id], k, renewal[w].started)
    BY CallFacts DEF WorkerInv, RenewalSound, Renews
  <2> QED
    BY <2>1, <2>2, <2>3, KeptMoves
<1>2. CASE renewal'[w].pc # "applied"
  BY <1>2 DEF RenewalKept
<1> QED
  BY <1>1, <1>2 DEF RenewalFrame

LEMMA OwnerFrame ==
    ASSUME WorkerInv, OwnerInv, [WNext]_vars, PendingFrame, ShieldFrame, CtlFrame, RenewalFrame,
           \A id \in Id, k \in Token : CtlKept(id, k)'
    PROVE  OwnerInv'
<1>1. ASSUME NEW w \in Worker PROVE Shielded(w)'
  <2>1. Tracked(w)' \subseteq Tracked(w)
    BY DEF Tracked, CtlFrame
  <2> QED
    BY <2>1 DEF ShieldFrame, Shielded, OwnerInv
<1> QED
  BY <1>1, PendingNext, ApartNext, RenewalNext DEF OwnerInv

-----------------------------------------------------------------------------
(* The second invariant, action by action.                                 *)

LEMMA SameClaims ==
    ASSUME UNCHANGED <<claim, attempts>> PROVE PendingFrame /\ ShieldFrame
BY DEF PendingFrame, StillPending, IsPending, ShieldFrame

LEMMA SameRenewals == ASSUME UNCHANGED renewal PROVE RenewalFrame
BY DEF RenewalFrame, Renews

\* A step in which every controller advances and no id is forgotten.
LEMMA AdvanceOwner ==
    ASSUME WorkerInv, OwnerInv, [WNext]_vars, attempts' = attempts,
           PendingFrame, ShieldFrame, RenewalFrame,
           \A id \in Id, k \in Token : Fit(ctl[id][k], ctl'[id][k], task[id], k)
    PROVE  OwnerInv'
<1>1. CtlFrame
  BY DEF CtlFrame, Fit, Advance
<1>2. \A id \in Id, k \in Token : CtlKept(id, k)'
  BY AllKept
<1> QED
  BY <1>1, <1>2, OwnerFrame

LEMMA SameFit ==
    ASSUME WorkerInv, ctl' = ctl
    PROVE  \A id \in Id, k \in Token : Fit(ctl[id][k], ctl'[id][k], task[id], k)
BY CtlsSound, FitSelf

\* One controller moves.
LEMMA OneFit ==
    ASSUME WorkerInv, NEW id \in Id, NEW k \in Token, NEW d, Become(id, k, d),
           Fit(ctl[id][k], d, task[id], k)
    PROVE  \A i \in Id, j \in Token : Fit(ctl[i][j], ctl'[i][j], task[i], j)
<1>1. d \in Ctl /\ WorkerTypeOK
  BY DEF Fit, WorkerInv
<1>2. /\ ctl'[id][k] = d
      /\ \A i \in Id, j \in Token : i # id \/ j # k => ctl'[i][j] = ctl[i][j]
  BY <1>1, BecomeFacts
<1> QED
  BY <1>2, CtlsSound, FitSelf

LEMMA ApplyOwner ==
    ASSUME WorkerInv, OwnerInv, [WNext]_vars, NEW id \in Id, NEW k \in Token, FreshApply(id, k)
    PROVE  OwnerInv'
<1> DEFINE c == ctl[id][k]
           b == BeatOf(task[id], k)
           d == [c EXCEPT !.beat = b]
<1>1. /\ c \in Ctl /\ c.phase = "renewing" /\ CtlKept(id, k) /\ WorkerTypeOK /\ task[id] \in Row
  BY CtlsSound DEF FreshApply, OwnerInv, WorkerInv, StoreInv, TypeOK
<1>2. /\ Become(id, k, d) /\ Remote /\ Heartbeat([i \in {id} |-> k]) /\ now' = now
  BY DEF FreshApply, Heartbeat
<1>3. b \in Beat /\ (b = "gone" <=> ~Holds(task[id], k))
  BY DEF BeatOf, Beat
<1> HIDE DEF b
<1>4. /\ d \in Ctl /\ d.beat = b /\ d.phase = c.phase /\ d.owner = c.owner
      /\ d.renewed_at = c.renewed_at /\ d.since = c.since /\ d.deadline = c.deadline
  BY <1>1, <1>3 DEF Ctl
<1> HIDE DEF d
<1>5. /\ ctl'[id][k] = d
      /\ \A i \in Id, j \in Token : i # id \/ j # k => ctl'[i][j] = ctl[i][j]
  BY <1>1, <1>2, <1>4, BecomeFacts
<1>6. /\ Holds(task'[id], k) <=> Holds(task[id], k)
      /\ task'[id].worker = task[id].worker
  BY <1>1, <1>2 DEF Heartbeat, Holds, Row
<1>7. CtlKept(id, k)'
  <2>1. attempts' = attempts
    BY <1>2 DEF Remote
  <2> QED
    BY <1>1, <1>2, <1>3, <1>4, <1>5, <1>6, <2>1 DEF CtlKept, Kept, Alive, Beat
<1>8. ASSUME NEW i \in Id, NEW j \in Token PROVE CtlKept(i, j)'
  <2>1. CASE i = id /\ j = k
    BY <1>7, <2>1
  <2>2. CASE i # id \/ j # k
    <3>1. ctl'[i][j] = ctl[i][j] /\ attempts' = attempts
      BY <1>2, <1>5, <2>2 DEF Remote
    <3>2. /\ ctl[i][j] \in Ctl /\ CtlSound(ctl[i][j], task[i], j)
          /\ Fit(ctl[i][j], ctl[i][j], task[i], j)
          /\ ctl[i][j].phase \in Alive => Kept(task[i], j, ctl[i][j].renewed_at)
      BY CtlsSound, FitSelf DEF OwnerInv, CtlKept
    <3> QED
      BY <3>1, <3>2, FitKept
  <2> QED
    BY <2>1, <2>2
<1>9. CtlFrame
  <2>1. attempts' = attempts
    BY <1>2 DEF Remote
  <2>2. \A i \in Id, j \in Token : ctl'[i][j].phase = ctl[i][j].phase
    BY <1>4, <1>5
  <2> QED
    BY <2>1, <2>2 DEF CtlFrame
<1> QED
  BY <1>2, <1>8, <1>9, SameClaims, SameRenewals, OwnerFrame DEF Remote

LEMMA DoneOwner ==
    ASSUME WorkerInv, OwnerInv, [WNext]_vars, NEW id \in Id, NEW k \in Token, AttemptDone(id, k)
    PROVE  OwnerInv'
<1> DEFINE w == ctl[id][k].owner
<1>1. /\ WorkerTypeOK /\ ctl[id][k].phase = "settled" /\ w \in Worker /\ attempts[w][id] = k
      /\ claim' = claim /\ renewal' = renewal
  BY DEF AttemptDone, WorkerInv, CtlSound, OwnerInv, CtlKept
<1>2. /\ ctl'[id][k] = NoCtl
      /\ \A i \in Id, j \in Token : i # id \/ j # k => ctl'[i][j] = ctl[i][j]
  BY <1>1, BecomeFacts, NoCtlFacts DEF AttemptDone
<1>3. /\ attempts'[w][id] = 0
      /\ \A v \in Worker, i \in Id : v # w \/ i # id => attempts'[v][i] = attempts[v][i]
  BY <1>1 DEF AttemptDone, WorkerTypeOK
<1> HIDE DEF w
<1>4. NoCtl.phase = "none" /\ NoCtl.beat = "none"
  BY DEF NoCtl
<1>5. ASSUME NEW i \in Id, NEW j \in Token
      PROVE  \/ ctl'[i][j].phase = "none" /\ ctl'[i][j].beat = "none"
             \/ /\ Fit(ctl[i][j], ctl'[i][j], task[i], j)
                /\ ctl[i][j].phase # "none" =>
                     attempts'[ctl[i][j].owner][i] = attempts[ctl[i][j].owner][i]
  <2>1. CASE i = id /\ j = k
    BY <1>2, <1>4, <2>1
  <2>2. CASE i # id \/ j # k
    <3>1. ctl'[i][j] = ctl[i][j] /\ Fit(ctl[i][j], ctl[i][j], task[i], j)
      BY <1>2, <2>2, CtlsSound, FitSelf
    <3>2. ctl[i][j].phase # "none" => ctl[i][j].owner \in Worker /\ attempts[ctl[i][j].owner][i] = j
      BY DEF WorkerInv, CtlSound, OwnerInv, CtlKept
    <3>3. ctl[i][j].phase # "none" => ctl[i][j].owner # w \/ i # id
      BY <1>1, <2>2, <3>2
    <3> QED
      BY <1>3, <3>1, <3>2, <3>3
  <2> QED
    BY <2>1, <2>2
<1>6. \A i \in Id, j \in Token : CtlKept(i, j)'
  BY <1>5, AllKept
<1>7. CtlFrame
  <2>1. \A i \in Id, j \in Token : ctl'[i][j] = ctl[i][j] \/ ctl'[i][j] = NoCtl
    BY <1>2
  <2>2. \A v \in Worker, i \in Id : attempts'[v][i] \in {0, attempts[v][i]}
    BY <1>3
  <2> QED
    BY <1>4, <2>1, <2>2 DEF CtlFrame, Alive
<1>8. PendingFrame /\ ShieldFrame
  BY <1>1 DEF PendingFrame, StillPending, IsPending, ShieldFrame
<1> QED
  BY <1>1, <1>6, <1>7, <1>8, SameRenewals, OwnerFrame

LEMMA ControllerOwner ==
    ASSUME WorkerInv, OwnerInv, [WNext]_vars, NEW id \in Id, NEW k \in Token, Controller(id, k)
    PROVE  OwnerInv'
<1>1. CASE LocalAction(id, k)
  <2>1. Local
    BY <1>1, LocalFit
  <2>2. PICK d : Become(id, k, d) /\ Fit(ctl[id][k], d, task[id], k)
    BY <1>1, LocalFit
  <2>3. \A i \in Id, j \in Token : Fit(ctl[i][j], ctl'[i][j], task[i], j)
    BY <2>2, OneFit
  <2> QED
    BY <2>1, <2>3, AdvanceOwner, SameClaims, SameRenewals DEF Local
<1>2. CASE Progress(id, k) /\ Holds(task[id], k)
  <2>1. UNCHANGED workerVars
    BY <1>2 DEF Progress
  <2> QED
    BY <2>1, SameFit, AdvanceOwner, SameClaims, SameRenewals DEF workerVars
<1>3. CASE SettleWrite(id, k)
  <2>1. Remote /\ (ctl' = ctl \/ Become(id, k, Settled(ctl[id][k])))
    BY <1>3 DEF SettleWrite, Become
  <2>2. Fit(ctl[id][k], Settled(ctl[id][k]), task[id], k)
    BY <1>3, CtlsSound, SettledFit DEF SettleWrite
  <2>3. \A i \in Id, j \in Token : Fit(ctl[i][j], ctl'[i][j], task[i], j)
    BY <2>1, <2>2, SameFit, OneFit
  <2> QED
    BY <2>1, <2>3, AdvanceOwner, SameClaims, SameRenewals DEF Remote
<1> QED
  BY <1>1, <1>2, <1>3, ApplyOwner, DoneOwner, Zenon DEF Controller, LocalAction

\* The claim loop.  A claim that is over, or whose rows are unknown, holds none.
LEMMA ClaimOwner ==
    ASSUME WorkerInv, OwnerInv, [WNext]_vars, UNCHANGED <<attempts, ctl, renewal>>,
           NEW w \in Worker, \A v \in Worker \ {w} : claim'[v] = claim[v],
           \A id \in Id, k \in Token :
             IsPending(w, id, k)' => StillPending(w, id, k) \/ JustClaimed(w, id, k),
           claim'[w].pc = "releasing" => Tracked(w) \subseteq DOMAIN claim'[w].rows
    PROVE  OwnerInv'
<1>1. PendingFrame
  <2> SUFFICES ASSUME NEW v \in Worker, NEW id \in Id, NEW k \in Token, IsPending(v, id, k)'
               PROVE  StillPending(v, id, k) \/ JustClaimed(v, id, k)
    BY DEF PendingFrame
  <2>1. CASE v # w
    BY <2>1 DEF IsPending, StillPending
  <2> QED
    BY <2>1
<1>2. ShieldFrame
  BY DEF ShieldFrame, Tracked
<1> QED
  BY <1>1, <1>2, SameRenewals, SameFit, AdvanceOwner

LEMMA ClaimReset ==
    ASSUME WorkerInv, OwnerInv, [WNext]_vars, UNCHANGED <<attempts, ctl, renewal>>,
           NEW w \in Worker, NEW x \in ClaimCall, claim' = [claim EXCEPT ![w] = x],
           x.pc \in {"idle", "sent", "orphans"}
    PROVE  OwnerInv'
<1>1. claim'[w] = x /\ \A v \in Worker \ {w} : claim'[v] = claim[v]
  BY ClaimSet DEF WorkerInv
<1>2. \A id, k : ~IsPending(w, id, k)'
  BY <1>1 DEF IsPending, Pending
<1> QED
  BY <1>1, <1>2, ClaimOwner

LEMMA ApplyClaimOwner ==
    ASSUME ~Reclaims, WorkerInv, OwnerInv, [WNext]_vars, NEW w \in Worker, NEW S \in SUBSET Id,
           ClaimApply(w, S)
    PROVE  OwnerInv'
<1> DEFINE rows == [id \in S |-> task'[id].token]
<1>1. claim[w] \in ClaimCall /\ WorkerTypeOK /\ \A id \in Id : task[id] \in Row
  BY CallFacts DEF WorkerInv, StoreInv, TypeOK
<1>2. /\ claim'[w].pc = "applied" /\ claim'[w].rows = rows
      /\ \A v \in Worker \ {w} : claim'[v] = claim[v]
  BY <1>1 DEF ClaimApply, WorkerTypeOK, ClaimCall
<1>3. ASSUME NEW id \in Id, NEW k \in Token, IsPending(w, id, k)' PROVE JustClaimed(w, id, k)
  <2>1. id \in S /\ task'[id].token = k
    BY <1>2, <1>3 DEF IsPending
  <2>2. task'[id] = Claimed(task[id], w) /\ attempts[w][id] = 0 /\ task[id].state = "queued"
    BY <2>1 DEF ClaimApply, Claim, Due
  <2>3. /\ task'[id].state = "running" /\ task'[id].token = task[id].attempt + 1
        /\ task'[id].worker = w /\ task[id].attempt \in Nat
    BY <1>1, <2>2 DEF Claimed, Row
  <2> QED
    BY <2>1, <2>2, <2>3 DEF JustClaimed, Below, Holds
<1>4. UNCHANGED <<attempts, ctl, renewal>>
  BY DEF ClaimApply
<1> QED
  BY <1>2, <1>3, <1>4, ClaimOwner

LEMMA DispatchOwner ==
    ASSUME WorkerInv, OwnerInv, [WNext]_vars, NEW w \in Worker, ClaimDispatch(w)
    PROVE  OwnerInv'
<1>1. /\ WorkerTypeOK /\ claim[w] \in ClaimCall /\ claim[w].at \in Nat /\ claim[w].rows \in Held
      /\ claim[w].pc = "applied" /\ task' = task /\ now' = now /\ renewal' = renewal
  BY CallFacts DEF WorkerInv, ClaimDispatch, storeVars
<1>2. CASE mode[w] # "serving"
  <2>1. /\ claim'[w].pc = "unstarted" /\ claim'[w].rows = claim[w].rows /\ claim'[w].at = claim[w].at
        /\ \A v \in Worker \ {w} : claim'[v] = claim[v]
    BY <1>1, <1>2 DEF ClaimDispatch, WorkerTypeOK, ClaimCall
  <2>2. \A id \in Id, k \in Token : IsPending(w, id, k)' => StillPending(w, id, k)
    BY <1>1, <2>1 DEF IsPending, StillPending, Pending
  <2>3. UNCHANGED <<attempts, ctl, renewal>>
    BY <1>2 DEF ClaimDispatch
  <2> QED
    BY <2>1, <2>2, <2>3, ClaimOwner
<1>3. CASE mode[w] = "serving"
  <2> DEFINE d == [NoCtl EXCEPT !.phase = "fresh", !.owner = w, !.renewed_at = claim[w].at,
                                !.since = claim[w].at]
  <2>1. \A id \in Id, k \in Token : ctl'[id][k] = IF IsPending(w, id, k) THEN d ELSE ctl[id][k]
    BY <1>1, <1>3 DEF ClaimDispatch, Dispatched, IsPending, Pending
  <2>2. /\ \A id \in Id : attempts'[w][id] = IF id \in DOMAIN claim[w].rows THEN claim[w].rows[id]
                                             ELSE attempts[w][id]
        /\ \A v \in Worker \ {w} : attempts'[v] = attempts[v]
    BY <1>1, <1>3 DEF ClaimDispatch, WorkerTypeOK
  <2>3. claim'[w].pc = "idle" /\ \A v \in Worker \ {w} : claim'[v] = claim[v]
    BY <1>1, <1>3, ClaimSet, IdleFacts DEF ClaimDispatch
  <2>4. /\ d.phase = "fresh" /\ d.owner = w /\ d.renewed_at = claim[w].at
        /\ d.since = claim[w].at /\ d.beat = "none"
    BY <1>1 DEF NoCtl
  <2> HIDE DEF d
  <2>5. ASSUME NEW id \in Id, NEW k \in Token, IsPending(w, id, k)
        PROVE  /\ attempts'[w][id] = k /\ attempts[w][id] = 0 /\ ctl[id][k].phase = "none"
               /\ Holds(task[id], k) => task[id].worker = w
               /\ Kept(task[id], k, claim[w].at)
    BY <1>1, <2>2, <2>5 DEF IsPending, OwnerInv, PendingKept
  <2>6. ASSUME NEW id \in Id, NEW k \in Token PROVE CtlKept(id, k)'
    <3>1. CASE IsPending(w, id, k)
      BY <1>1, <2>1, <2>4, <2>5, <3>1 DEF CtlKept, Kept
    <3>2. CASE ~IsPending(w, id, k)
      <4>1. CtlKept(id, k) /\ ctl'[id][k] = ctl[id][k]
        BY <2>1, <3>2 DEF OwnerInv
      <4>2. ASSUME ctl[id][k].phase # "none"
            PROVE  attempts'[ctl[id][k].owner][id] = attempts[ctl[id][k].owner][id]
        <5>1. ctl[id][k].owner \in Worker /\ attempts[ctl[id][k].owner][id] = k
          BY <4>1, <4>2 DEF CtlKept, WorkerInv, CtlSound
        <5>2. CASE ctl[id][k].owner = w /\ id \in DOMAIN claim[w].rows
          <6>1. claim[w].rows[id] \in Token
            BY <1>1, <5>2, HeldFacts
          <6>2. IsPending(w, id, claim[w].rows[id])
            BY <1>1, <5>2 DEF IsPending, Pending
          <6> QED
            BY <2>5, <5>1, <5>2, <6>1, <6>2, TokenFacts
        <5> QED
          BY <2>2, <5>1, <5>2
      <4> QED
        BY <1>1, <4>1, <4>2 DEF CtlKept, Kept, Alive
    <3> QED
      BY <3>1, <3>2
  <2>7. \A v \in Worker, id \in Id, k \in Token :
          IsPending(v, id, k)' => v # w /\ IsPending(v, id, k) /\ ~IsPending(w, id, k)
    <3>1. \A v \in Worker, id \in Id, k \in Token : IsPending(v, id, k)' => v # w /\ IsPending(v, id, k)
      BY <2>3 DEF IsPending, Pending
    <3> QED
      BY <3>1 DEF OwnerInv, ClaimsApart
  <2>8. ClaimsApart' /\ RenewalsApart'
    <3>1. \A v \in Worker, id \in Id, k \in Token : Renews(v, id, k)' => Renews(v, id, k)
      BY <1>1 DEF Renews
    <3> QED
      BY <2>7, <3>1 DEF OwnerInv, ClaimsApart, RenewalsApart
  <2>9. ASSUME NEW v \in Worker PROVE PendingKept(v)'
    <3> SUFFICES ASSUME NEW id \in Id, NEW k \in Token, IsPending(v, id, k)'
                 PROVE  /\ attempts'[v][id] = 0 /\ ctl'[id][k].phase = "none"
                        /\ Holds(task'[id], k) => task'[id].worker = v
                        /\ claim'[v].pc = "applied" => Kept(task[id], k, claim[v].at)'
      BY DEF PendingKept
    <3>1. v # w /\ IsPending(v, id, k) /\ ~IsPending(w, id, k)
      BY <2>7
    <3>2. attempts'[v] = attempts[v] /\ ctl'[id][k] = ctl[id][k] /\ claim'[v] = claim[v]
      BY <2>1, <2>2, <2>3, <3>1
    <3> QED
      BY <1>1, <3>1, <3>2 DEF OwnerInv, PendingKept, Kept
  <2>10. ASSUME NEW v \in Worker PROVE Shielded(v)'
    <3>1. CASE v = w
      BY <2>3, <3>1 DEF Shielded
    <3>2. CASE v # w
      <4>1. attempts'[v] = attempts[v] /\ claim'[v] = claim[v] /\ Shielded(v)
        BY <2>2, <2>3, <3>2 DEF OwnerInv
      <4> QED
        BY <4>1 DEF Shielded, Tracked
    <3> QED
      BY <3>1, <3>2
  <2>11. ASSUME NEW v \in Worker PROVE RenewalKept(v)'
    <3> SUFFICES ASSUME renewal[v].pc = "applied", NEW id \in Id, NEW k \in Token,
                        Renews(v, id, k), renewal[v].reply[id] # "gone",
                        ctl'[id][k].phase \in Alive
                 PROVE  Kept(task[id], k, renewal[v].started)
      BY <1>1 DEF RenewalKept, Renews, Kept
    <3>1. ~IsPending(w, id, k)
      BY DEF OwnerInv, RenewalsApart
    <3>2. ctl'[id][k] = ctl[id][k]
      BY <2>1, <3>1
    <3> QED
      BY <3>2 DEF OwnerInv, RenewalKept
  <2> QED
    BY <2>6, <2>8, <2>9, <2>10, <2>11 DEF OwnerInv
<1> QED
  BY <1>2, <1>3

LEMMA ClaimLoopOwner ==
    ASSUME ~Reclaims, WorkerInv, OwnerInv, [WNext]_vars, NEW w \in Worker, ClaimLoop(w)
    PROVE  OwnerInv'
<1>1. WorkerTypeOK /\ claim[w] \in ClaimCall /\ now \in Nat
  BY CallFacts, CtlsSound DEF WorkerInv
<1>2. CASE Start(w)
  BY <1>2, SameFit, AdvanceOwner, SameClaims, SameRenewals DEF Start
<1>3. ASSUME NEW S \in SUBSET Id, NEW free \in 1..Concurrency, LateClaim(w, free, S) PROVE OwnerInv'
  BY <1>3, SameFit, AdvanceOwner, SameClaims, SameRenewals DEF LateClaim
<1>4. CASE ClaimSend(w)
  <2> DEFINE free == Concurrency - Cardinality(Tracked(w))
             x == [ClaimIdle EXCEPT !.pc = "sent", !.at = now, !.free = free]
  <2>1. free \in 0..Concurrency
    <3>1. Cardinality(Tracked(w)) \in Nat /\ Cardinality(Tracked(w)) < Concurrency
      BY <1>1, <1>4, TrackedHeld, Zenon DEF ClaimSend
    <3> QED
      BY <3>1, WorkerNumbers
  <2>2. claim' = [claim EXCEPT ![w] = x]
    BY <1>4, Zenon DEF ClaimSend
  <2> HIDE DEF free
  <2>3. x \in ClaimCall /\ x.pc = "sent"
    BY <1>1, <2>1, NoRowsHeld DEF ClaimCall, ClaimIdle
  <2> HIDE DEF x
  <2> QED
    BY <1>4, <2>2, <2>3, ClaimReset DEF ClaimSend
<1>5. CASE \/ claim' = [claim EXCEPT ![w] = ClaimIdle] /\ UNCHANGED <<attempts, ctl, renewal>>
           \/ /\ claim' = [claim EXCEPT ![w] = [ClaimIdle EXCEPT !.pc = "orphans"]]
              /\ UNCHANGED <<attempts, ctl, renewal>>
  BY <1>5, IdleFacts, ClaimReset
<1>6. CASE ClaimEmpty(w) \/ ClaimLost(w) \/ ReleaseAbandoned(w) \/ OrphansReleased(w)
  BY <1>5, <1>6 DEF ClaimEmpty, ClaimLost, ReleaseAbandoned, OrphansReleased
<1>7. CASE OrphansSend(w)
  <2>1. /\ claim'[w].pc = "releasing" /\ DOMAIN claim'[w].rows = Tracked(w)
        /\ \A v \in Worker \ {w} : claim'[v] = claim[v]
    BY <1>1, <1>7 DEF OrphansSend, WorkerTypeOK, ClaimCall
  <2>2. \A id, k : ~IsPending(w, id, k)'
    BY <2>1 DEF IsPending, Pending
  <2> QED
    BY <1>7, <2>1, <2>2, ClaimOwner DEF OrphansSend
<1>8. CASE ReleaseUnstarted(w)
  <2>1. claim' = claim \/ claim' = [claim EXCEPT ![w] = ClaimIdle]
    BY <1>8 DEF ReleaseUnstarted
  <2>2. UNCHANGED <<attempts, ctl, renewal>>
    BY <1>8 DEF ReleaseUnstarted
  <2>3. CASE claim' = claim
    BY <2>2, <2>3, SameFit, AdvanceOwner, SameClaims, SameRenewals
  <2> QED
    BY <1>5, <2>1, <2>2, <2>3
<1> QED
  BY <1>2, <1>3, <1>4, <1>6, <1>7, <1>8, ApplyClaimOwner, DispatchOwner DEF ClaimLoop

-----------------------------------------------------------------------------
(* The renewal loop and the end of a worker.                               *)

LEMMA SendOwner ==
    ASSUME WorkerInv, OwnerInv, [WNext]_vars, NEW w \in Worker, NEW hinted, RenewSend(w, hinted)
    PROVE  OwnerInv'
<1> DEFINE x == SentRenewal(w, Live(w, hinted))
<1>1. /\ UNCHANGED <<attempts, claim>>
      /\ \A id \in Id, k \in Token : Fit(ctl[id][k], ctl'[id][k], task[id], k)
  BY SendShape, StopDueFit
<1>2. renewal' = renewal \/ renewal' = [renewal EXCEPT ![w] = x]
  BY SendShape
<1>3. /\ x \in RenewalCall /\ x.pc = "sent" /\ DOMAIN x.held = Live(w, hinted)
      /\ x.held = [id \in Live(w, hinted) |-> attempts[w][id]]
  BY SentFacts
<1> HIDE DEF x
<1>4. CASE renewal' = [renewal EXCEPT ![w] = x]
  <2>1. renewal'[w] = x /\ \A v \in Worker \ {w} : renewal'[v] = renewal[v]
    BY <1>3, <1>4, RenewalSet DEF WorkerInv
  <2>2. ASSUME NEW id \in Id, NEW k \in Token, Renews(w, id, k)' PROVE ctl[id][k].phase # "none"
    <3>1. id \in Live(w, hinted) /\ attempts[w][id] = k
      BY <1>3, <2>1, <2>2 DEF Renews
    <3> QED
      BY <3>1, LiveFacts DEF Over
  <2>3. RenewalFrame
    BY <1>3, <2>1, <2>2 DEF RenewalFrame, Renews
  <2> QED
    BY <1>1, <2>3, SameClaims, AdvanceOwner
<1> QED
  BY <1>1, <1>2, <1>4, SameClaims, SameRenewals, AdvanceOwner

LEMMA RenewApplyOwner ==
    ASSUME WorkerInv, OwnerInv, [WNext]_vars, NEW w \in Worker, RenewApply(w) PROVE OwnerInv'
<1> DEFINE held == renewal[w].held
           reply == [id \in DOMAIN held |-> BeatOf(task[id], held[id])]
<1>1. /\ WorkerTypeOK /\ renewal[w] \in RenewalCall /\ StoreInv
      /\ Heartbeat(held) /\ UNCHANGED <<attempts, ctl, claim>>
  BY CallFacts DEF WorkerInv, RenewApply
<1>2. /\ renewal'[w].held = held /\ renewal'[w].reply = reply
      /\ renewal'[w].started = renewal[w].started
      /\ \A v \in Worker \ {w} : renewal'[v] = renewal[v]
  BY <1>1 DEF RenewApply, WorkerTypeOK, RenewalCall
<1>3. ASSUME NEW id \in Id, NEW k \in Token, Renews(w, id, k), reply[id] # "gone"
      PROVE  Holds(task'[id], k)
  <2>1. Holds(task[id], k)
    BY <1>3 DEF Renews, BeatOf
  <2> QED
    BY <1>1, <2>1, OthersSpare
<1>4. \A v \in Worker, id \in Id, k \in Token : Renews(v, id, k)' => Renews(v, id, k)
  BY <1>2 DEF Renews
<1> HIDE DEF reply
<1>5. RenewalKept(w)'
  BY <1>2, <1>3, <1>4 DEF RenewalKept, Kept
<1>6. RenewalFrame
  BY <1>2, <1>4, <1>5 DEF RenewalFrame
<1> QED
  BY <1>1, <1>6, SameFit, SameClaims, AdvanceOwner

LEMMA ResetRenewals ==
    ASSUME WorkerTypeOK, NEW w \in Worker, renewal' = [renewal EXCEPT ![w] = RenewalIdle]
    PROVE  RenewalFrame
<1>1. renewal'[w] = RenewalIdle /\ \A v \in Worker \ {w} : renewal'[v] = renewal[v]
  BY RenewalSet, IdleFacts
<1>2. \A id, k : ~Renews(w, id, k)'
  BY <1>1, IdleFacts, NoRowsHeld DEF Renews
<1> QED
  BY <1>1, <1>2, IdleFacts DEF RenewalFrame, Renews

LEMMA ReplyOwner ==
    ASSUME WorkerInv, OwnerInv, [WNext]_vars, NEW w \in Worker, RenewReply(w) PROVE OwnerInv'
<1>1. /\ renewal[w].pc = "applied" /\ ctl' = AfterPass(w, Answered(w))
      /\ renewal' = [renewal EXCEPT ![w] = RenewalIdle]
      /\ UNCHANGED <<attempts, claim>> /\ WorkerTypeOK
  BY ReplyShape DEF WorkerInv
<1>2. ASSUME NEW id \in Id, NEW k \in Token
      PROVE  /\ CtlKept(id, k)'
             /\ ctl'[id][k].phase # "none" => ctl[id][k].phase # "none"
             /\ ctl'[id][k].phase \in Alive => ctl[id][k].phase \in Alive
  <2> DEFINE n == AnsweredCtl(w, id, k)
  <2>1. /\ n.phase = ctl[id][k].phase /\ n.since = ctl[id][k].since
        /\ n.owner = ctl[id][k].owner /\ n.beat = ctl[id][k].beat
        /\ n.deadline = ctl[id][k].deadline
        /\ n.renewed_at = IF HeldBy(w, id, k) /\ renewal[w].reply[id] # "gone"
                          THEN renewal[w].started ELSE ctl[id][k].renewed_at
        /\ Fit(n, ctl'[id][k], task[id], k)
    BY <1>1, AnsweredFit
  <2>2. n \in Ctl /\ CtlSound(n, task[id], k)
    BY <1>1, AnsweredFit
  <2>3. n.phase \in Alive => Kept(task[id], k, n.renewed_at)
    <3>1. ctl[id][k].phase \in Alive => Kept(task[id], k, ctl[id][k].renewed_at)
      BY DEF OwnerInv, CtlKept
    <3>2. HeldBy(w, id, k) /\ renewal[w].reply[id] # "gone" /\ ctl[id][k].phase \in Alive =>
            Kept(task[id], k, renewal[w].started)
      BY <1>1 DEF OwnerInv, RenewalKept, Renews, HeldBy
    <3> HIDE DEF n
    <3> QED
      BY <2>1, <3>1, <3>2
  <2> HIDE DEF n
  <2>4. CtlKept(id, k)'
    BY <1>1, <2>1, <2>2, <2>3, FitKept
  <2> QED
    BY <2>1, <2>4 DEF Fit, Advance
<1>3. CtlFrame
  BY <1>1, <1>2 DEF CtlFrame
<1> QED
  BY <1>1, <1>2, <1>3, SameClaims, ResetRenewals, OwnerFrame

LEMMA RenewalsOwner ==
    ASSUME WorkerInv, OwnerInv, [WNext]_vars, NEW w \in Worker, Renewals(w) PROVE OwnerInv'
<1>1. CASE RenewFail(w)
  <2>1. /\ ctl' = AfterPass(w, ctl) /\ UNCHANGED <<attempts, claim>> /\ WorkerTypeOK
        /\ renewal' = [renewal EXCEPT ![w] = RenewalIdle]
    BY <1>1 DEF RenewFail, WorkerInv
  <2>2. \A id \in Id, k \in Token : Fit(ctl[id][k], ctl'[id][k], task[id], k)
    BY <2>1, PassFit, CtlsSound
  <2> QED
    BY <2>1, <2>2, SameClaims, ResetRenewals, AdvanceOwner
<1> QED
  BY <1>1, SendOwner, RenewApplyOwner, ReplyOwner DEF Renewals

LEMMA GoneOwner ==
    ASSUME WorkerInv, OwnerInv, [WNext]_vars, NEW w \in Worker, Gone(w) PROVE OwnerInv'
<1>1. /\ WorkerTypeOK /\ renewal' = [renewal EXCEPT ![w] = RenewalIdle]
      /\ claim' = [claim EXCEPT ![w] = ClaimIdle]
  BY DEF Gone, WorkerInv
<1>2. claim'[w] = ClaimIdle /\ \A v \in Worker \ {w} : claim'[v] = claim[v]
  BY <1>1, ClaimSet, IdleFacts
<1>3. /\ \A id \in Id : attempts'[w][id] = 0
      /\ \A v \in Worker \ {w} : attempts'[v] = attempts[v]
  BY <1>1 DEF Gone, WorkerTypeOK
<1>4. \A id \in Id, k \in Token :
        ctl'[id][k] = IF ctl[id][k].owner = w THEN NoCtl ELSE ctl[id][k]
  BY DEF Gone
<1>5. NoCtl.phase = "none" /\ NoCtl.beat = "none"
  BY DEF NoCtl
<1>6. CtlFrame
  <2>1. \A v \in Worker, id \in Id : attempts'[v][id] \in {0, attempts[v][id]}
    BY <1>3
  <2> QED
    BY <1>4, <1>5, <2>1 DEF CtlFrame, Alive
<1>7. ASSUME NEW id \in Id, NEW k \in Token
      PROVE  \/ ctl'[id][k].phase = "none" /\ ctl'[id][k].beat = "none"
             \/ /\ Fit(ctl[id][k], ctl'[id][k], task[id], k)
                /\ ctl[id][k].phase # "none" =>
                     attempts'[ctl[id][k].owner][id] = attempts[ctl[id][k].owner][id]
  <2>1. CASE ctl[id][k].owner = w
    BY <1>4, <1>5, <2>1
  <2>2. CASE ctl[id][k].owner # w
    <3>1. ctl'[id][k] = ctl[id][k] /\ Fit(ctl[id][k], ctl[id][k], task[id], k)
      BY <1>4, <2>2, CtlsSound, FitSelf
    <3>2. ctl[id][k].phase # "none" => ctl[id][k].owner \in Worker \ {w}
      BY <2>2 DEF WorkerInv, CtlSound
    <3> QED
      BY <1>3, <3>1, <3>2
  <2> QED
    BY <2>1, <2>2
<1>8. \A id \in Id, k \in Token : CtlKept(id, k)'
  BY <1>7, AllKept
<1>9. PendingFrame /\ ShieldFrame
  BY <1>2, IdleFacts DEF PendingFrame, StillPending, IsPending, Pending, ShieldFrame
<1> QED
  BY <1>1, <1>6, <1>8, <1>9, ResetRenewals, OwnerFrame

LEMMA LifetimeOwner ==
    ASSUME WorkerInv, OwnerInv, [WNext]_vars, NEW w \in Worker, Lifetime(w) PROVE OwnerInv'
<1>1. CASE RequestShutdown(w)
  BY <1>1, SameFit, AdvanceOwner, SameClaims, SameRenewals DEF RequestShutdown
<1>2. CASE Drain(w)
  <2>1. \A id \in Id, k \in Token : Fit(ctl[id][k], ctl'[id][k], task[id], k)
    <3>1. ctl' = StopAll(w, "shutdown") /\ "shutdown" \in Cause \ {"cancel"}
      BY <1>2 DEF Drain, Cause
    <3> QED
      BY <3>1, StopAllFit
  <2> QED
    BY <1>2, <2>1, AdvanceOwner, SameClaims, SameRenewals DEF Drain
<1>3. CASE Abandon(w)
  <2>1. \A id \in Id, k \in Token : Fit(ctl[id][k], ctl'[id][k], task[id], k)
    <3>1. ctl' = Abandoned(w)
      BY <1>3 DEF Abandon, Abandoned
    <3> QED
      BY <3>1, AbandonedFit
  <2> QED
    BY <1>3, <2>1, AdvanceOwner, SameClaims, SameRenewals DEF Abandon
<1> QED
  BY <1>1, <1>2, <1>3, GoneOwner DEF Lifetime, Exit, Crash

LEMMA OwnerInvNext ==
    ASSUME ~Reclaims, WorkerInv, OwnerInv, [WNext]_vars PROVE OwnerInv'
<1>1. CASE UNCHANGED workerVars
  BY <1>1, SameFit, AdvanceOwner, SameClaims, SameRenewals DEF workerVars
<1> QED
  BY <1>1, ClaimLoopOwner, RenewalsOwner, LifetimeOwner, ControllerOwner, Zenon
     DEF WNext, Clients, Reaper, vars

LEMMA OwnerInvInit == Init => OwnerInv
<1> SUFFICES ASSUME Init PROVE OwnerInv
  OBVIOUS
<1>1. NoCtl.phase = "none" /\ NoCtl.beat = "none"
  BY DEF NoCtl
<1>2. \A id \in Id, k \in Token : CtlKept(id, k)
  BY <1>1 DEF Init, CtlKept, Alive
<1>3. \A w \in Worker : claim[w] = ClaimIdle /\ renewal[w] = RenewalIdle
  BY DEF Init
<1>4. \A w \in Worker, id \in Id, k \in Token : ~IsPending(w, id, k) /\ ~Renews(w, id, k)
  BY <1>3, IdleFacts, NoRowsHeld DEF IsPending, Renews, Pending
<1> QED
  BY <1>2, <1>3, <1>4, IdleFacts
     DEF OwnerInv, ClaimsApart, RenewalsApart, PendingKept, Shielded, RenewalKept

-----------------------------------------------------------------------------

\* A handler that runs within its local lease owns its row, as long as no worker
\* claims a task that it still tracks.
THEOREM LeasesTrusted == ASSUME ~Reclaims PROVE WSpec => []LeaseTrusted
<1>1. WorkerInv /\ OwnerInv => LeaseTrusted
  <2> SUFFICES ASSUME WorkerInv, OwnerInv, NEW id \in Id, NEW k \in Token,
                      ctl[id][k].phase \in Executing, ~Expired(ctl[id][k])
               PROVE  Holds(task[id], k)
    BY DEF LeaseTrusted
  <2>1. ctl[id][k].phase \in Alive /\ ctl[id][k].renewed_at \in Nat /\ now \in Nat /\ LeaseS \in Nat
    BY CtlsSound, WorkerNumbers DEF Executing, Alive, Ctl
  <2>2. Kept(task[id], k, ctl[id][k].renewed_at)
    BY <2>1 DEF OwnerInv, CtlKept
  <2> QED
    BY <2>1, <2>2 DEF Kept, Expired
<1> QED
  BY <1>1, WorkerInvInit, WorkerInvNext, OwnerInvInit, OwnerInvNext, PTL DEF WSpec

-----------------------------------------------------------------------------
(* Who starts a handler.                                                   *)

LEMMA StoppedPhase ==
    ASSUME WorkerInv, NEW id \in Id, NEW k \in Token, NEW cause \in Cause
    PROVE  Stopped(ctl[id][k], cause).phase = ctl[id][k].phase
BY CtlsSound, StoppedFacts

LEMMA PassPhase ==
    ASSUME NEW w, NEW f \in [Id -> [Token -> Ctl]], NEW id \in Id, NEW k \in Token
    PROVE  AfterPass(w, f)[id][k].phase = f[id][k].phase
<1>1. AfterPass(w, f)[id][k] \in {f[id][k], Stopped(f[id][k], "lost")}
  BY DEF AfterPass
<1>2. f[id][k] \in Ctl
  OBVIOUS
<1> QED
  BY <1>1, <1>2, StoppedFacts DEF Cause

LEMMA RenewalsPhase ==
    ASSUME WorkerInv, NEW w \in Worker, Renewals(w), NEW id \in Id, NEW k \in Token
    PROVE  ctl'[id][k].phase = ctl[id][k].phase
<1>1. ASSUME NEW hinted, RenewSend(w, hinted) PROVE ctl'[id][k].phase = ctl[id][k].phase
  <2> DEFINE f == StopDue(w, hinted)
  <2>1. f \in [Id -> [Token -> Ctl]] /\ (ctl' = f \/ ctl' = AfterPass(w, f))
    BY <1>1, StopDueFit, SendShape
  <2>2. f[id][k] \in {ctl[id][k], Stopped(ctl[id][k], "lost")}
    BY DEF StopDue
  <2> HIDE DEF f
  <2> QED
    BY <2>1, <2>2, StoppedPhase, PassPhase DEF Cause
<1>2. CASE RenewApply(w)
  BY <1>2 DEF RenewApply
<1>3. CASE RenewReply(w)
  <2>1. renewal[w].pc = "applied" /\ ctl' = AfterPass(w, Answered(w))
    BY <1>3, ReplyShape
  <2>2. AnsweredCtl(w, id, k) \in Ctl /\ AnsweredCtl(w, id, k).phase = ctl[id][k].phase
    BY <2>1, AnsweredFit
  <2>3. ctl'[id][k] \in {AnsweredCtl(w, id, k), Stopped(AnsweredCtl(w, id, k), "lost")}
    BY <2>1 DEF AfterPass, Answered
  <2> QED
    BY <2>2, <2>3, StoppedFacts DEF Cause
<1>4. CASE RenewFail(w)
  BY <1>4, PassPhase, CtlsSound DEF RenewFail
<1> QED
  BY <1>1, <1>2, <1>3, <1>4 DEF Renewals

LEMMA LifetimePhase ==
    ASSUME WorkerInv, NEW w \in Worker, Lifetime(w), NEW id \in Id, NEW k \in Token,
           ctl'[id][k].phase = "running"
    PROVE  ctl[id][k].phase = "running"
<1>1. CASE RequestShutdown(w)
  BY <1>1 DEF RequestShutdown
<1>2. CASE Drain(w)
  <2>1. ctl'[id][k] \in {ctl[id][k], Stopped(ctl[id][k], "shutdown")}
    BY <1>2 DEF Drain, StopAll
  <2> QED
    BY <2>1, StoppedPhase DEF Cause
<1>3. CASE Abandon(w)
  <2>1. ctl'[id][k] \in {ctl[id][k], Settled(ctl[id][k])}
    BY <1>3 DEF Abandon
  <2> QED
    BY <2>1, CtlsSound, SettledFacts
<1>4. CASE Gone(w)
  <2>1. ctl'[id][k] \in {ctl[id][k], NoCtl} /\ NoCtl.phase = "none"
    BY <1>4 DEF Gone, NoCtl
  <2> QED
    BY <2>1
<1> QED
  BY <1>1, <1>2, <1>3, <1>4 DEF Lifetime, Exit, Crash

\* The phase a controller is in after a step that is not the start of a handler.
LEMMA ControllerPhase ==
    ASSUME WorkerInv, NEW i \in Id, NEW j \in Token, Controller(i, j),
           NEW id \in Id, NEW k \in Token, ctl'[id][k].phase = "running",
           ctl[id][k].phase # "running"
    PROVE  BeginRun(id, k) \/ FreshReply(id, k)
<1> DEFINE c == ctl[i][j]
<1>1. c \in Ctl /\ CtlSound(c, task[i], j) /\ WorkerTypeOK
  BY CtlsSound DEF WorkerInv
<1>2. \A cause \in Cause : Stopped(c, cause) \in Ctl /\ Stopped(c, cause).phase = c.phase
  BY <1>1, StoppedFacts
<1>3. ASSUME NEW d, Become(i, j, d), d.phase # "running" \/ d.phase = c.phase PROVE FALSE
  <2>1. ctl'[i][j] = d /\ \A m \in Id, n \in Token : m # i \/ n # j => ctl'[m][n] = ctl[m][n]
    BY <1>1, <1>3 DEF Become, WorkerTypeOK
  <2> QED
    BY <1>3, <2>1
<1>4. \A d \in Ctl : Settled(d).phase # "running" /\ StepAside(d).phase # "running"
  <2> SUFFICES ASSUME NEW d \in Ctl
               PROVE  Settled(d).phase # "running" /\ StepAside(d).phase # "running"
    OBVIOUS
  <2>1. Settled(d).phase = "settled" /\ Settling(d, "release").phase = "settling"
    BY SettledFacts, MovedFacts DEF Settling, Phase, Kinds
  <2> QED
    BY <2>1 DEF StepAside
<1>5. \A d \in Ctl, kind \in Kinds : Settling(d, kind).phase # "running"
  BY MovedFacts DEF Settling, Phase
<1>6. CASE BeginRun(i, j) \/ FreshReply(i, j)
  <2>1. PICK d : Become(i, j, d)
    BY <1>6 DEF BeginRun, FreshReply
  <2>2. i = id /\ j = k
    BY <1>1, <2>1 DEF Become, WorkerTypeOK
  <2> QED
    BY <1>6, <2>2
<1>7. CASE FreshSend(i, j)
  <2> DEFINE e == [c EXCEPT !.phase = "renewing", !.since = now,
                            !.deadline = Budget({c.renewed_at})]
             d == IF Expired(c) THEN StepAside(Stopped(c, "lost"))
                  ELSE IF c.cause = "lost" THEN Settled(c) ELSE e
  <2>1. Become(i, j, d)
    BY <1>7 DEF FreshSend
  <2>2. e.phase = "renewing"
    BY <1>1 DEF Ctl
  <2> HIDE DEF e
  <2>3. d.phase # "running"
    BY <1>1, <1>2, <1>4, <2>2 DEF Cause
  <2> QED
    BY <1>3, <2>1, <2>3
<1>8. CASE FreshFail(i, j)
  BY <1>1, <1>3, <1>4, <1>8 DEF FreshFail
<1>9. CASE FreshApply(i, j)
  <2> DEFINE d == [c EXCEPT !.beat = BeatOf(task[i], j)]
  <2>1. Become(i, j, d) /\ d.phase = c.phase
    BY <1>1, <1>9 DEF FreshApply, Ctl
  <2> QED
    BY <1>3, <2>1
<1>10. CASE Progress(i, j)
  <2>1. ctl' = ctl \/ Become(i, j, Stopped(c, "lost"))
    BY <1>10 DEF Progress, workerVars
  <2> QED
    BY <1>2, <1>3, <2>1 DEF Cause
<1>11. CASE StopSeen(i, j)
  <2> DEFINE s == Stopped(c, "timeout")
             d == [s EXCEPT !.phase = "stopping"]
  <2>1. Become(i, j, d)
    BY <1>11 DEF StopSeen
  <2>2. s \in Ctl
    BY <1>2 DEF Cause
  <2> HIDE DEF s
  <2>3. d.phase = "stopping"
    BY <2>2 DEF Ctl
  <2> QED
    BY <1>3, <2>1, <2>3
<1>12. ASSUME NEW kind \in {"succeed", "fail", "fail_final"}, RunnerEnds(i, j, kind) PROVE FALSE
  <2> DEFINE d == [c EXCEPT !.phase = "ended", !.kind = kind]
  <2>1. Become(i, j, d) /\ d.phase = "ended"
    BY <1>1, <1>12 DEF RunnerEnds, Ctl
  <2> QED
    BY <1>3, <2>1
<1>13. CASE FinishCompleted(i, j)
  <2>1. c.phase = "ended" /\ Become(i, j, IF c.cause = "lost" THEN Settled(c) ELSE Settling(c, c.kind))
    BY <1>13 DEF FinishCompleted
  <2>2. c.kind \in Kinds
    BY <1>1, <2>1 DEF CtlSound, Kinds
  <2> QED
    BY <1>1, <1>3, <1>4, <1>5, <2>1, <2>2
<1>14. CASE FinishStopped(i, j)
  <2>1. c.phase = "stopping"
    BY <1>14 DEF FinishStopped
  <2>2. PICK ignored \in BOOLEAN :
          LET f == [c EXCEPT !.fatal = ignored]
          IN  Become(i, j, IF f.cause = "lost" THEN Settled(f) ELSE Settling(f, KindOf(f.cause)))
    BY <1>14 DEF FinishStopped
  <2> DEFINE f == [c EXCEPT !.fatal = ignored]
  <2>3. f \in Ctl /\ f.cause = c.cause
    BY <1>1 DEF Ctl
  <2>4. Become(i, j, IF f.cause = "lost" THEN Settled(f) ELSE Settling(f, KindOf(f.cause)))
    BY <2>2
  <2> HIDE DEF f
  <2>5. f.cause # "lost" => KindOf(f.cause) \in Kinds
    <3>1. f.cause \in Cause
      BY <1>1, <2>1, <2>3 DEF Ctl, CtlSound
    <3> QED
      BY <3>1 DEF KindOf, Cause, Kinds
  <2> QED
    BY <1>3, <1>4, <1>5, <2>3, <2>4, <2>5
<1>15. CASE SettleWrite(i, j) \/ SettleError(i, j)
  <2>1. ctl' = ctl \/ Become(i, j, Settled(c))
    BY <1>15 DEF SettleWrite, SettleError, Become
  <2> QED
    BY <1>1, <1>3, <1>4, <2>1
<1>16. CASE AttemptDone(i, j)
  <2>1. Become(i, j, NoCtl) /\ NoCtl.phase = "none"
    BY <1>16 DEF AttemptDone, NoCtl
  <2> QED
    BY <1>3, <2>1
<1> QED
  BY <1>6, <1>7, <1>8, <1>9, <1>10, <1>11, <1>12, <1>13, <1>14, <1>15, <1>16 DEF Controller

LEMMA HandlerStarts ==
    ASSUME WorkerInv, [WNext]_vars, NEW id \in Id, NEW k \in Token,
           ctl'[id][k].phase = "running", ctl[id][k].phase # "running"
    PROVE  BeginRun(id, k) \/ FreshReply(id, k)
<1>1. ASSUME NEW w \in Worker, ClaimLoop(w) PROVE FALSE
  <2>1. CASE ClaimDispatch(w)
    <3>1. ctl'[id][k] \in {ctl[id][k], Dispatched(w, id, k)}
      BY <2>1 DEF ClaimDispatch
    <3>2. Dispatched(w, id, k).phase = "fresh"
      BY DEF Dispatched, NoCtl
    <3> QED
      BY <3>1, <3>2
  <2>2. ctl' = ctl \/ ClaimDispatch(w)
    BY <1>1 DEF ClaimLoop, Start, ClaimSend, ClaimEmpty, ClaimLost, OrphansSend, OrphansReleased,
                ReleaseAbandoned, ReleaseUnstarted, ClaimApply, LateClaim
  <2> QED
    BY <2>1, <2>2
<1>2. ASSUME UNCHANGED workerVars PROVE FALSE
  BY <1>2 DEF workerVars
<1> QED
  BY <1>1, <1>2, ControllerPhase, RenewalsPhase, LifetimePhase
     DEF WNext, Clients, Reaper, vars

\* No handler starts with a consumed lease: neither a controller that was
\* scheduled in time nor one that had to renew first.
THEOREM StartsAreLeased == ASSUME ~Reclaims PROVE WSpec => StartsLeased
<1>1. ASSUME WorkerInv, OwnerInv, [WNext]_vars PROVE [StartsLeasedStep]_vars
  <2> SUFFICES ASSUME NEW id \in Id, NEW k \in Token,
                      ctl[id][k].phase \in {"fresh", "renewing"}, ctl'[id][k].phase = "running"
               PROVE  Holds(task[id], k) /\ now <= task[id].lease_until
    BY DEF StartsLeasedStep
  <2> DEFINE c == ctl[id][k]
  <2>1. /\ c \in Ctl /\ CtlSound(c, task[id], k) /\ CtlKept(id, k) /\ now \in Nat
        /\ c.since <= now /\ c.since \in Nat /\ c.deadline \in Nat /\ task[id] \in Row
    BY <1>1, CtlsSound DEF WorkerInv, OwnerInv, StoreInv, TypeOK, Ctl
  <2>2. task[id].lease_until \in Int
    BY <2>1 DEF Row, Time, NoTime
  <2>3. CASE BeginRun(id, k)
    <3>1. c.phase = "fresh" /\ now - c.since <= HeartbeatS
      BY <2>3 DEF BeginRun
    <3>2. now <= c.since + LeaseS
      BY <2>1, <3>1, WorkerNumbers
    <3>3. Holds(task[id], k)
      BY <2>1, <3>1, <3>2 DEF CtlKept, Kept
    <3>4. c.since + LeaseS <= task[id].lease_until
      BY <2>1, <3>1, <3>3 DEF CtlSound, Covers, Over
    <3> QED
      BY <2>1, <2>2, <3>2, <3>3, <3>4, WorkerNumbers
  <2>4. CASE FreshReply(id, k)
    <3>1. c.phase = "renewing" /\ now <= c.deadline
      BY <2>4 DEF FreshReply
    <3>2. Holds(task[id], k)
      BY <2>1, <3>1 DEF CtlKept
    <3>3. c.deadline <= task[id].lease_until
      BY <2>1, <3>1, <3>2 DEF CtlSound, Over
    <3> QED
      BY <2>1, <2>2, <3>1, <3>2, <3>3
  <2> QED
    BY <1>1, <2>3, <2>4, HandlerStarts
<1> QED
  BY <1>1, WorkerInvInit, WorkerInvNext, OwnerInvInit, OwnerInvNext, PTL DEF WSpec, StartsLeased

-----------------------------------------------------------------------------
(* A graceful exit.  Before now = LeaseS no lease has run out, so a row    *)
(* that leaves its attempt unsettled was taken by nobody: the worker finds *)
(* every row it ever claimed among its attempts, in the claim in flight or *)
(* among the orphans it is about to release.                               *)

\* Token k does not hold the row, or leases may have run out.
Excused(id, k) == ~Holds(task[id], k) \/ now >= LeaseS

\* A controller that gives its row up without a write.
Lost(c) == c.phase \notin Over /\ (c.cause = "lost" \/ c.beat = "gone")
LostExcused == \A id \in Id, k \in Token : Lost(ctl[id][k]) => Excused(id, k)
RepliesExcused(w) ==
    renewal[w].pc = "applied" =>
      \A id \in Id, k \in Token : Renews(w, id, k) /\ renewal[w].reply[id] = "gone" => Excused(id, k)

\* self.attempts only names controllers of its own worker.
TrackedOwned ==
    \A w \in Worker, id \in Id, k \in Token :
      attempts[w][id] = k => ctl[id][k].phase # "none" /\ ctl[id][k].owner = w

\* The claim loop has returned before a drain starts; an exit leaves nothing tracked.
LoopEnded(w) ==
    /\ mode[w] \in {"draining", "exited"} => claim[w].pc = "idle"
    /\ mode[w] = "exited" => \A id \in Id : attempts[w][id] = 0

\* Where the row with token k is known to worker w, on whom it runs.
Attempted(w, id, k) == attempts[w][id] = k /\ k \in Token /\ ctl[id][k].phase \notin Over
Unstarted(w, id, k) ==
    /\ attempts[w][id] = 0
    /\ \/ IsPending(w, id, k)
       \/ claim[w].pc = "orphans"
       \/ claim[w].pc = "releasing" /\ id \notin DOMAIN claim[w].rows
Graceful(w) == mode[w] # "crashed" /\ ~immediate[w] /\ now < LeaseS
RunsOn(id, w) == task[id].state = "running" /\ task[id].worker = w
Located(w, id) ==
    Graceful(w) /\ RunsOn(id, w) =>
      Attempted(w, id, task[id].token) \/ Unstarted(w, id, task[id].token)

ExitInv ==
    /\ late = {} /\ LostExcused /\ TrackedOwned
    /\ \A w \in Worker : RepliesExcused(w) /\ LoopEnded(w) /\ \A id \in Id : Located(w, id)

\* What a step that is not an end of the process does to a controller.
SameOwner(id, k) ==
    /\ ctl'[id][k].phase = "none" <=> ctl[id][k].phase = "none"
    /\ ctl'[id][k].owner = ctl[id][k].owner
Honest(id, k) ==
    /\ Lost(ctl'[id][k]) => Excused(id, k)'
    /\ ctl[id][k].phase \notin Over => Excused(id, k)' \/ ctl'[id][k].phase \notin Over

LEMMA ExcusedStays ==
    ASSUME WorkerInv, [WNext]_vars, NEW id \in Id, NEW k \in Token, Below(task[id], k),
           Excused(id, k)
    PROVE  Excused(id, k)'
<1>1. /\ now \in Nat /\ now' \in Nat /\ now <= now' /\ LeaseS \in Nat
      /\ RowKeeps(task[id], task'[id], k)
  BY WorkerStore, StoreMoves, TokenFacts, WorkerNumbers DEF WorkerInv
<1> QED
  BY <1>1 DEF Excused, RowKeeps

LEMMA SameHonest ==
    ASSUME WorkerInv, ExitInv, [WNext]_vars, NEW id \in Id, NEW k \in Token,
           ctl'[id][k] = ctl[id][k]
    PROVE  Honest(id, k)
<1>1. Lost(ctl[id][k]) => Excused(id, k) /\ ctl[id][k].phase # "none"
  BY DEF ExitInv, LostExcused, Lost, Over
<1>2. ctl[id][k].phase # "none" => Below(task[id], k)
  BY CtlsSound DEF CtlSound
<1> QED
  BY <1>1, <1>2, ExcusedStays DEF Honest

\* A controller whose row is still held at the end of the step has no reason to
\* give it up.
LEMMA StillHeld ==
    ASSUME WorkerInv, ExitInv, [WNext]_vars, NEW id \in Id, NEW k \in Token,
           ctl[id][k].phase \notin Over, ~Excused(id, k)'
    PROVE  /\ Holds(task[id], k) /\ now < LeaseS
           /\ ctl[id][k].cause # "lost" /\ ctl[id][k].beat # "gone"
<1>1. Below(task[id], k) /\ now \in Nat /\ LeaseS \in Nat
  BY CtlsSound, WorkerNumbers DEF CtlSound, Over
<1>2. ~Excused(id, k)
  BY <1>1, ExcusedStays
<1> QED
  BY <1>1, <1>2 DEF Excused, ExitInv, LostExcused, Lost

LEMMA NoneExpired ==
    ASSUME WorkerInv, NEW c \in Ctl, Expired(c) PROVE now >= LeaseS
<1>1. now \in Nat /\ LeaseS \in Nat /\ c.renewed_at \in Nat
  BY CtlsSound, WorkerNumbers DEF Ctl
<1> QED
  BY <1>1 DEF Expired

\* A controller that may go on.
Goes(d) == d.phase \notin Over /\ d.cause # "lost" /\ d.beat # "gone"

LEMMA OneHonest ==
    ASSUME WorkerInv, ExitInv, [WNext]_vars, NEW i \in Id, NEW j \in Token, NEW d \in Ctl,
           Become(i, j, d), ctl[i][j].phase \in Over => d.phase \in Over,
           ctl[i][j].phase \notin Over /\ ~Excused(i, j)' => Goes(d)
    PROVE  \A id \in Id, k \in Token : Honest(id, k)
<1> SUFFICES ASSUME NEW id \in Id, NEW k \in Token PROVE Honest(id, k)
  OBVIOUS
<1>1. ctl'[i][j] = d /\ (id # i \/ k # j => ctl'[id][k] = ctl[id][k])
  BY BecomeFacts DEF WorkerInv
<1>2. CASE id = i /\ k = j
  BY <1>1, <1>2 DEF Honest, Lost, Goes
<1> QED
  BY <1>1, <1>2, SameHonest

LEMMA SettlingGoes ==
    ASSUME NEW c \in Ctl, NEW kind \in Kinds, c.cause # "lost"
    PROVE  Settling(c, kind) \in Ctl /\ Goes(Settling(c, kind))
<1> DEFINE m == Settling(c, kind)
<1>1. m \in Ctl /\ m.phase = "settling" /\ m.beat = "none" /\ m.cause = c.cause
  BY MovedFacts DEF Settling, Phase
<1> HIDE DEF m
<1>2. Goes(m)
  BY <1>1 DEF Goes, Over
<1> QED
  BY <1>1, <1>2 DEF m

LEMMA RunningGoes ==
    ASSUME NEW c \in Ctl, c.cause # "lost"
    PROVE  Moved(c, "running", None) \in Ctl /\ Goes(Moved(c, "running", None))
BY MovedFacts DEF Goes, Phase, Over

LEMMA RenewedGoes ==
    ASSUME NEW c \in Ctl, NEW beat \in Beat \ {"gone"}, NEW started \in Nat, c.cause # "lost"
    PROVE  /\ Renewed(c, beat, started) \in Ctl /\ Renewed(c, beat, started).cause # "lost"
           /\ Renewed(c, beat, started).phase = c.phase /\ Renewed(c, beat, started).beat = c.beat
<1> DEFINE n == [c EXCEPT !.renewed_at = started]
<1>1. n \in Ctl /\ n.cause = c.cause /\ n.phase = c.phase /\ n.beat = c.beat
  BY DEF Ctl
<1>2. Renewed(c, beat, started) = IF beat = "cancel" THEN Stopped(n, "cancel") ELSE n
  BY DEF Renewed
<1> HIDE DEF n
<1> QED
  BY <1>1, <1>2, StoppedFacts DEF Cause

LEMMA StoppedGoes ==
    ASSUME NEW c \in Ctl, Goes(c), NEW cause \in Cause \ {"lost"}
    PROVE  Stopped(c, cause) \in Ctl /\ Goes(Stopped(c, cause))
BY StoppedFacts DEF Goes

\* One controller decides.
LEMMA LocalGoes ==
    ASSUME WorkerInv, NEW i \in Id, NEW j \in Token, LocalAction(i, j), ~SettleError(i, j),
           Holds(task[i], j), now < LeaseS, Goes(ctl[i][j])
    PROVE  \E d \in Ctl : Become(i, j, d) /\ Goes(d)
<1> DEFINE c == ctl[i][j]
           Goal == \E d \in Ctl : Become(i, j, d) /\ Goes(d)
<1>1. c \in Ctl /\ CtlSound(c, task[i], j) /\ c.cause # "lost" /\ c.beat # "gone"
  BY CtlsSound DEF Goes
<1>2. ~Expired(c)
  BY <1>1, CtlsSound, NoneExpired, WorkerNumbers
<1>3. CASE BeginRun(i, j)
  BY <1>1, <1>3, RunningGoes DEF BeginRun
<1>4. CASE FreshSend(i, j)
  <2> DEFINE d == [c EXCEPT !.phase = "renewing", !.since = now, !.deadline = Budget({c.renewed_at})]
  <2>1. Become(i, j, d)
    BY <1>1, <1>2, <1>4 DEF FreshSend
  <2>2. now \in Nat /\ Budget({c.renewed_at}) \in Nat
    BY <1>1, CtlsSound, BudgetFacts DEF Ctl
  <2>3. d \in Ctl /\ Goes(d)
    BY <1>1, <2>2 DEF Ctl, Goes, Over, Phase
  <2> QED
    BY <2>1, <2>3
<1>5. CASE FreshReply(i, j)
  <2> DEFINE n == Renewed(c, c.beat, c.since)
  <2>1. Become(i, j, IF n.cause = "lost" THEN Settled(n) ELSE Moved(n, "running", None))
    BY <1>5 DEF FreshReply
  <2>2. n \in Ctl /\ n.cause # "lost"
    <3>1. c.beat \in Beat \ {"gone"} /\ c.since \in Nat
      BY <1>1 DEF Ctl
    <3> QED
      BY <1>1, <3>1, RenewedGoes
  <2> HIDE DEF n
  <2> QED
    BY <2>1, <2>2, RunningGoes
<1>6. CASE FreshFail(i, j)
  BY <1>1, <1>6, SettlingGoes DEF FreshFail, StepAside, Kinds
<1>7. CASE StopSeen(i, j)
  <2> DEFINE s == Stopped(c, "timeout")
             d == [s EXCEPT !.phase = "stopping"]
  <2>1. Become(i, j, d)
    BY <1>7 DEF StopSeen
  <2>2. s \in Ctl /\ s.cause # "lost" /\ s.beat # "gone"
    BY <1>1, StoppedFacts DEF Cause
  <2> HIDE DEF s
  <2>3. d \in Ctl /\ Goes(d)
    BY <2>2 DEF Ctl, Goes, Over, Phase
  <2> QED
    BY <2>1, <2>3
<1>8. ASSUME NEW kind \in {"succeed", "fail", "fail_final"}, RunnerEnds(i, j, kind) PROVE Goal
  <2> DEFINE d == [c EXCEPT !.phase = "ended", !.kind = kind]
  <2>1. Become(i, j, d)
    BY <1>8 DEF RunnerEnds
  <2>2. d \in Ctl /\ Goes(d)
    BY <1>1 DEF Ctl, Goes, Over, Phase, Kinds
  <2> QED
    BY <2>1, <2>2
<1>9. CASE FinishCompleted(i, j)
  <2>1. c.phase = "ended" /\ Become(i, j, Settling(c, c.kind))
    BY <1>1, <1>9 DEF FinishCompleted
  <2>2. c.kind \in Kinds
    BY <1>1, <2>1 DEF CtlSound, Kinds
  <2> QED
    BY <1>1, <2>1, <2>2, SettlingGoes
<1>10. CASE FinishStopped(i, j)
  <2>1. c.phase = "stopping"
    BY <1>10 DEF FinishStopped
  <2>2. PICK ignored \in BOOLEAN :
          LET f == [c EXCEPT !.fatal = ignored]
          IN  Become(i, j, IF f.cause = "lost" THEN Settled(f) ELSE Settling(f, KindOf(f.cause)))
    BY <1>10 DEF FinishStopped
  <2> DEFINE f == [c EXCEPT !.fatal = ignored]
  <2>3. f \in Ctl /\ f.cause = c.cause
    BY <1>1 DEF Ctl
  <2>4. Become(i, j, Settling(f, KindOf(f.cause)))
    BY <1>1, <2>2, <2>3
  <2> HIDE DEF f
  <2>5. KindOf(f.cause) \in Kinds
    <3>1. f.cause \in Cause \ {"lost"}
      BY <1>1, <2>1, <2>3 DEF Ctl, CtlSound
    <3> QED
      BY <3>1 DEF KindOf, Cause, Kinds
  <2> QED
    BY <1>1, <2>3, <2>4, <2>5, SettlingGoes
<1> QED
  BY <1>3, <1>4, <1>5, <1>6, <1>7, <1>8, <1>9, <1>10 DEF LocalAction

\* The write of an outcome takes the row, unless the row was lost before.
LEMMA WriteExcused ==
    ASSUME WorkerInv, NEW i \in Id, NEW j \in Token, SettleWrite(i, j)
    PROVE  ~Holds(task'[i], j)
<1> DEFINE kind == ctl[i][j].kind
           c == [n \in {i} |-> [token |-> j, kind |-> kind]]
<1>1. ctl[i][j].phase = "settling" /\ Complete(c)
  BY Zenon DEF SettleWrite
<1>2. kind \in Kinds /\ (kind = "cancel" => Asked(task[i], j)) /\ task[i] \in Row
  BY <1>1, CtlsSound DEF CtlSound, Over, WorkerInv, StoreInv, TypeOK
<1>3. i \in DOMAIN c /\ c[i].token = j /\ c[i].kind = kind
  OBVIOUS
<1> HIDE DEF c, kind
<1>4. CASE Holds(task[i], j)
  <2>1. Applies(c, i)
    BY <1>2, <1>3, <1>4 DEF Applies, Asked
  <2>2. \E delay : task'[i] = Completed(task[i], j, kind, delay)
    BY <1>1, <1>3, <2>1 DEF Complete
  <2>3. task'[i].state = CompletedState(task[i], kind)
    BY <1>2, <2>2 DEF Completed, Row
  <2> QED
    BY <1>2, <2>3 DEF CompletedState, Kinds, Holds
<1>5. CASE ~Holds(task[i], j)
  <2>1. ~Applies(c, i)
    BY <1>3, <1>5 DEF Applies
  <2>2. task'[i] = task[i]
    BY <1>1, <2>1 DEF Complete
  <2> QED
    BY <1>5, <2>2
<1> QED
  BY <1>4, <1>5

LEMMA FitOwner ==
    ASSUME \A id \in Id, k \in Token : Fit(ctl[id][k], ctl'[id][k], task[id], k)
    PROVE  \A id \in Id, k \in Token : SameOwner(id, k)
BY DEF Fit, Advance, SameOwner

LEMMA ControllerHonest ==
    ASSUME "write_error" \notin Disturbances, WorkerInv, ExitInv, [WNext]_vars,
           NEW i \in Id, NEW j \in Token, Controller(i, j), ~AttemptDone(i, j)
    PROVE  \A id \in Id, k \in Token : SameOwner(id, k) /\ Honest(id, k)
<1> DEFINE c == ctl[i][j]
<1>1. c \in Ctl /\ CtlSound(c, task[i], j)
  BY CtlsSound
<1>2. CASE LocalAction(i, j)
  <2>1. PICK d : Become(i, j, d) /\ Fit(c, d, task[i], j)
    BY <1>2, LocalFit
  <2>2. d \in Ctl /\ \A id \in Id, k \in Token : SameOwner(id, k)
    BY <2>1, OneFit, FitOwner DEF Fit
  <2>3. ctl'[i][j] = d
    BY <2>1, <2>2, BecomeFacts DEF WorkerInv
  <2>4. ~SettleError(i, j)
    BY DEF SettleError
  <2>5. ASSUME c.phase \notin Over, ~Excused(i, j)' PROVE Goes(d)
    <3>1. Holds(task[i], j) /\ now < LeaseS /\ Goes(c)
      BY <2>5, StillHeld DEF Goes
    <3>2. PICK e \in Ctl : Become(i, j, e) /\ Goes(e)
      BY <1>2, <2>4, <3>1, LocalGoes
    <3> QED
      BY <2>3, <3>2, BecomeFacts DEF WorkerInv
  <2>6. ASSUME c.phase \in Over PROVE d.phase \in Over
    <3>1. Become(i, j, Stopped(c, "lost"))
      BY <1>2, <2>4, <2>6
         DEF LocalAction, BeginRun, FreshSend, FreshReply, FreshFail, Progress, StopSeen,
             RunnerEnds, FinishCompleted, FinishStopped, Over
    <3>2. Stopped(c, "lost") \in Ctl /\ Stopped(c, "lost").phase = c.phase
      BY <1>1, StoppedFacts DEF Cause
    <3> QED
      BY <2>3, <2>6, <3>1, <3>2, BecomeFacts DEF WorkerInv
  <2> QED
    BY <2>1, <2>2, <2>5, <2>6, OneHonest
<1>3. CASE Progress(i, j) /\ Holds(task[i], j)
  <2>1. ctl' = ctl
    BY <1>3 DEF Progress, workerVars
  <2> QED
    BY <2>1, SameHonest DEF SameOwner
<1>4. CASE SettleWrite(i, j)
  <2>1. c.phase = "settling" /\ (ctl' = ctl \/ Become(i, j, Settled(c)))
    BY <1>4 DEF SettleWrite, Become
  <2>2. CASE ctl' = ctl
    BY <2>2, SameHonest DEF SameOwner
  <2>3. CASE Become(i, j, Settled(c))
    <3>1. Fit(c, Settled(c), task[i], j) /\ Settled(c) \in Ctl
      BY <1>1, <2>1, CtlsSound, SettledFit, SettledFacts
    <3>2. Excused(i, j)' /\ c.phase \notin Over
      BY <1>4, <2>1, WriteExcused DEF Excused, Over
    <3>3. \A id \in Id, k \in Token : SameOwner(id, k)
      BY <2>3, <3>1, OneFit, FitOwner
    <3> QED
      BY <2>3, <3>1, <3>2, <3>3, OneHonest
  <2> QED
    BY <2>1, <2>2, <2>3
<1>5. CASE FreshApply(i, j)
  <2> DEFINE d == [c EXCEPT !.beat = BeatOf(task[i], j)]
  <2>1. c.phase = "renewing" /\ Become(i, j, d)
    BY <1>5 DEF FreshApply
  <2>2. BeatOf(task[i], j) \in Beat /\ (Holds(task[i], j) => BeatOf(task[i], j) # "gone")
    BY DEF BeatOf, Beat
  <2>3. d \in Ctl /\ d.phase = c.phase /\ d.owner = c.owner /\ d.cause = c.cause
        /\ d.beat = BeatOf(task[i], j)
    BY <1>1, <2>2 DEF Ctl
  <2> HIDE DEF d
  <2>4. \A id \in Id, k \in Token : SameOwner(id, k)
    <3> SUFFICES ASSUME NEW id \in Id, NEW k \in Token PROVE SameOwner(id, k)
      OBVIOUS
    <3>1. ctl'[i][j] = d /\ (id # i \/ k # j => ctl'[id][k] = ctl[id][k])
      BY <2>1, <2>3, BecomeFacts DEF WorkerInv
    <3> QED
      BY <2>3, <3>1 DEF SameOwner
  <2>5. ASSUME ~Excused(i, j)' PROVE Goes(d)
    BY <2>1, <2>2, <2>3, <2>5, StillHeld DEF Goes, Over
  <2>6. c.phase \notin Over
    BY <2>1 DEF Over
  <2> QED
    BY <2>1, <2>3, <2>4, <2>5, <2>6, OneHonest
<1> QED
  BY <1>2, <1>3, <1>4, <1>5, Zenon DEF Controller, LocalAction

\* The pass over the attempts stops only what was told so, or ran out.
LEMMA PassGoes ==
    ASSUME WorkerInv, NEW w, NEW f \in [Id -> [Token -> Ctl]], NEW id \in Id, NEW k \in Token,
           now < LeaseS, Goes(f[id][k])
    PROVE  Goes(AfterPass(w, f)[id][k])
<1>1. f[id][k] \in Ctl /\ now \in Nat /\ LeaseS \in Nat
  BY CtlsSound, WorkerNumbers
<1>2. ~Expired(f[id][k])
  BY <1>1, NoneExpired
<1> QED
  BY <1>2 DEF AfterPass

LEMMA RenewalsHonest ==
    ASSUME WorkerInv, ExitInv, [WNext]_vars, NEW w \in Worker, Renewals(w)
    PROVE  \A id \in Id, k \in Token : SameOwner(id, k) /\ Honest(id, k)
<1> SUFFICES ASSUME NEW id \in Id, NEW k \in Token PROVE SameOwner(id, k) /\ Honest(id, k)
  OBVIOUS
<1> DEFINE c == ctl[id][k]
<1>1. /\ c \in Ctl /\ ctl \in [Id -> [Token -> Ctl]] /\ now \in Nat /\ LeaseS \in Nat
      /\ ctl'[id][k].phase = c.phase
  BY CtlsSound, RenewalsPhase, WorkerNumbers
<1>2. ASSUME ctl'[id][k].owner = c.owner,
             ~Excused(id, k)' /\ Holds(task[id], k) /\ now < LeaseS /\ Goes(c) => Goes(ctl'[id][k])
      PROVE  SameOwner(id, k) /\ Honest(id, k)
  <2>1. ~Excused(id, k)' /\ c.phase \notin Over => Goes(ctl'[id][k])
    BY <1>2, StillHeld DEF Goes
  <2> QED
    BY <1>1, <1>2, <2>1 DEF SameOwner, Honest, Lost, Goes
<1>3. ASSUME NEW hinted, RenewSend(w, hinted) PROVE SameOwner(id, k) /\ Honest(id, k)
  <2> DEFINE f == StopDue(w, hinted)
  <2>1. f \in [Id -> [Token -> Ctl]] /\ (ctl' = f \/ ctl' = AfterPass(w, f))
    BY <1>3, StopDueFit, SendShape
  <2>2. Fit(c, f[id][k], task[id], k) /\ Fit(c, AfterPass(w, f)[id][k], task[id], k)
    BY StopDueFit
  <2>3. ASSUME now < LeaseS PROVE f[id][k] = c
    <3>1. id \in DueNow(w, hinted) \ Live(w, hinted) /\ attempts[w][id] = k => Expired(c)
      BY DEF DueNow, Live, Of
    <3>2. ~Expired(c)
      BY <1>1, <2>3, NoneExpired
    <3> QED
      BY <3>1, <3>2 DEF StopDue
  <2> HIDE DEF f
  <2>4. ctl'[id][k].owner = c.owner
    BY <2>1, <2>2 DEF Fit, Advance
  <2>5. now < LeaseS /\ Goes(c) => Goes(ctl'[id][k])
    BY <2>1, <2>3, PassGoes
  <2> QED
    BY <1>2, <2>4, <2>5
<1>4. CASE RenewApply(w)
  BY <1>4, SameHonest DEF RenewApply, SameOwner
<1>5. CASE RenewReply(w)
  <2> DEFINE n == AnsweredCtl(w, id, k)
  <2>1. renewal[w].pc = "applied" /\ ctl' = AfterPass(w, Answered(w))
    BY <1>5, ReplyShape
  <2>2. /\ \A i \in Id, j \in Token : AnsweredCtl(w, i, j) \in Ctl
        /\ n.owner = c.owner /\ Fit(n, ctl'[id][k], task[id], k)
    BY <2>1, AnsweredFit
  <2>3. Answered(w) \in [Id -> [Token -> Ctl]] /\ Answered(w)[id][k] = n
    BY <2>2 DEF Answered
  <2>4. ASSUME Holds(task[id], k), now < LeaseS, Goes(c) PROVE Goes(n)
    <3>1. CASE HeldBy(w, id, k)
      <4>1. ~Excused(id, k) /\ Renews(w, id, k)
        BY <1>1, <2>4, <3>1 DEF Excused, HeldBy, Renews
      <4>2. renewal[w].reply[id] \in Beat \ {"gone"} /\ renewal[w].started \in Nat
        <5>1. /\ renewal[w] \in RenewalCall /\ renewal[w].started \in Nat
              /\ DOMAIN renewal[w].reply = DOMAIN renewal[w].held
          BY <2>1, CallFacts DEF WorkerInv, RenewalSound
        <5>2. renewal[w].reply[id] \in Beat
          BY <3>1, <5>1 DEF RenewalCall, HeldBy
        <5> QED
          BY <2>1, <4>1, <5>1, <5>2 DEF ExitInv, RepliesExcused
      <4>3. n = Renewed(c, renewal[w].reply[id], renewal[w].started)
        BY <3>1 DEF AnsweredCtl
      <4>4. n.cause # "lost" /\ n.phase = c.phase /\ n.beat = c.beat
        BY <1>1, <2>4, <4>2, <4>3, RenewedGoes DEF Goes
      <4> QED
        BY <2>4, <4>4 DEF Goes
    <3>2. CASE ~HeldBy(w, id, k)
      BY <2>4, <3>2 DEF AnsweredCtl
    <3> QED
      BY <3>1, <3>2
  <2>5. ctl'[id][k].owner = c.owner
    BY <2>2 DEF Fit, Advance
  <2> HIDE DEF n
  <2>6. Holds(task[id], k) /\ now < LeaseS /\ Goes(c) => Goes(ctl'[id][k])
    BY <2>1, <2>3, <2>4, PassGoes
  <2> QED
    BY <1>2, <2>5, <2>6
<1>6. CASE RenewFail(w)
  <2>1. ctl' = AfterPass(w, ctl)
    BY <1>6 DEF RenewFail
  <2>2. Fit(c, ctl'[id][k], task[id], k)
    BY <2>1, CtlsSound, PassFit
  <2>3. now < LeaseS /\ Goes(c) => Goes(ctl'[id][k])
    BY <1>1, <2>1, PassGoes
  <2> QED
    BY <1>2, <2>2, <2>3 DEF Fit, Advance
<1> QED
  BY <1>3, <1>4, <1>5, <1>6 DEF Renewals

-----------------------------------------------------------------------------
(* Rows: only a claim makes a row run.                                     *)

RowStays(id) ==
    task'[id].state = "running" =>
      /\ task[id].state = "running" /\ task'[id].token = task[id].token
      /\ task'[id].worker = task[id].worker

LEMMA RunningStays ==
    ASSUME NEW r \in Row, NEW q, RowStep(r, q), q.state = "running", r.state # "queued"
    PROVE  r.state = "running" /\ q.token = r.token /\ q.worker = r.worker
<1>1. \A type, key, ckey, max_attempts, delay :
        NewRow(type, key, ckey, max_attempts, delay).state # "running"
  BY DEF NewRow, NoRow
<1>2. \A kind \in Kinds : \A delay : Completed(r, r.token, kind, delay).state # "running"
  <2> SUFFICES ASSUME NEW kind \in Kinds, NEW delay
               PROVE  Completed(r, r.token, kind, delay).state # "running"
    OBVIOUS
  <2>1. Completed(r, r.token, kind, delay).state = CompletedState(r, kind)
    BY DEF Completed, Row
  <2> QED
    BY <2>1 DEF CompletedState, Kinds
<1>3. /\ \A delay : Reaped(r, delay).state # "running"
      /\ Requeued(r).state # "running" /\ [NoRow EXCEPT !.state = "purged"].state # "running"
  BY DEF Reaped, Requeued, Row, NoRow
<1>4. CASE \/ q = CancelRequested(r)
           \/ q = [r EXCEPT !.lease_until = now + LeaseS]
           \/ q = [r EXCEPT !.progress = r.token] \/ q = r
  BY <1>4 DEF CancelRequested, Row
<1>5. CASE \/ \E type \in TaskType, key \in Key \cup {None}, ckey \in CKey \cup {None},
             max_attempts \in Budgets, delay \in RunDelays :
               q = NewRow(type, key, ckey, max_attempts, delay)
           \/ \E kind \in Kinds, delay \in Nat : q = Completed(r, r.token, kind, delay)
           \/ \E delay \in Nat : q = Reaped(r, delay)
           \/ q = Requeued(r) \/ q = [NoRow EXCEPT !.state = "purged"]
  BY <1>1, <1>2, <1>3, <1>5, Zenon
<1> QED
  BY <1>4, <1>5, Zenon DEF RowStep

\* What a statement other than a claim does.
Unclaiming ==
    \/ UNCHANGED storeVars \/ Tick
    \/ \E c : Heartbeat(c) \/ Complete(c) \/ Reap(c) \/ \E w, live : ReleaseOrphans(w, live, c)
    \/ \E i \in Id : \/ RequestCancel(i) \/ Requeue(i) \/ \E j : SetProgress(i, j)
                   \/ \E type, max_attempts, delay :
                        Enqueue(i, type, None, None, max_attempts, delay)
    \/ \E limit, keyLimit : PublishTaskTypes(limit, keyLimit)

LEMMA QueuedStays ==
    ASSUME StoreInv, Unclaiming, NEW id \in Id, task[id].state = "queued"
    PROVE  task'[id].state # "running"
<1>1. task \in [Id -> Row] /\ task[id] \in Row
  BY DEF StoreInv, TypeOK
<1>2. ASSUME NEW c, Heartbeat(c) \/ Complete(c) \/ Reap(c) PROVE task'[id].state # "running"
  BY <1>2 DEF Heartbeat, Complete, Applies, Reap, Holds
<1>3. ASSUME NEW c, NEW w, NEW live, ReleaseOrphans(w, live, c) PROVE task'[id].state # "running"
  BY <1>3 DEF ReleaseOrphans, Orphans
<1>4. ASSUME NEW i \in Id, RequestCancel(i) PROVE task'[id].state # "running"
  BY <1>1, <1>4 DEF RequestCancel, CancelRequested, Row
<1>5. ASSUME NEW i \in Id, Requeue(i) PROVE task'[id].state # "running"
  BY <1>1, <1>5 DEF Requeue
<1>6. ASSUME NEW i \in Id, NEW j, SetProgress(i, j) PROVE task'[id].state # "running"
  BY <1>1, <1>6 DEF SetProgress, Holds
<1>7. ASSUME NEW i \in Id, NEW type, NEW max_attempts, NEW delay,
             Enqueue(i, type, None, None, max_attempts, delay)
      PROVE  task'[id].state # "running"
  BY <1>1, <1>7 DEF Enqueue
<1>8. ASSUME \/ UNCHANGED storeVars \/ Tick
             \/ \E limit, keyLimit : PublishTaskTypes(limit, keyLimit)
      PROVE  task'[id].state # "running"
  BY <1>8 DEF storeVars, Tick, PublishTaskTypes
<1> QED
  BY <1>2, <1>3, <1>4, <1>5, <1>6, <1>7, <1>8, Zenon DEF Unclaiming

LEMMA RowsStay ==
    ASSUME WorkerInv, [WNext]_vars, Unclaiming PROVE \A id \in Id : RowStays(id)
<1> SUFFICES ASSUME NEW id \in Id, task'[id].state = "running"
             PROVE  /\ task[id].state = "running" /\ task'[id].token = task[id].token
                    /\ task'[id].worker = task[id].worker
  BY DEF RowStays
<1>1. task[id] \in Row /\ RowStep(task[id], task'[id])
  BY WorkerStore, Rowwise DEF WorkerInv, StoreInv, TypeOK
<1>2. task[id].state # "queued"
  BY QueuedStays DEF WorkerInv
<1> QED
  BY <1>1, <1>2, RunningStays

-----------------------------------------------------------------------------
(* The parts of the invariant, step by step.                               *)

LEMMA RepliesNext ==
    ASSUME WorkerInv, ExitInv, [WNext]_vars, NEW w \in Worker,
           renewal'[w] = renewal[w] \/ renewal'[w].pc # "applied"
    PROVE  RepliesExcused(w)'
<1> SUFFICES ASSUME renewal'[w] = renewal[w], renewal[w].pc = "applied", NEW id \in Id,
                    NEW k \in Token, Renews(w, id, k), renewal[w].reply[id] = "gone"
             PROVE  Excused(id, k)'
  BY DEF RepliesExcused, Renews
<1>1. Excused(id, k) /\ Below(task[id], k)
  BY GivenOut DEF ExitInv, RepliesExcused
<1> QED
  BY <1>1, ExcusedStays

LEMMA OwnedNext ==
    ASSUME ExitInv, attempts' = attempts, \A id \in Id, k \in Token : SameOwner(id, k)
    PROVE  TrackedOwned'
BY DEF ExitInv, TrackedOwned, SameOwner

\* run() moves on, and the claim loop with it.
ModeStep(w) ==
    \/ mode'[w] = mode[w] \/ mode'[w] \in {"serving", "stopping", "crashed"}
    \/ mode'[w] = "draining" /\ claim[w].pc = "idle"
Lives(w) ==
    /\ mode[w] = "crashed" => mode'[w] = "crashed"
    /\ immediate[w] => immediate'[w]

LEMMA LoopNext ==
    ASSUME ExitInv, NEW w \in Worker, ModeStep(w), claim'[w] = claim[w],
           \A id \in Id : attempts'[w][id] \in {0, attempts[w][id]}
    PROVE  LoopEnded(w)'
BY DEF ExitInv, LoopEnded, ModeStep

LEMMA GracefulBefore ==
    ASSUME WorkerInv, [WNext]_vars, NEW w, Lives(w), Graceful(w)' PROVE Graceful(w)
<1>1. now \in Nat /\ now' \in Nat /\ now <= now' /\ LeaseS \in Nat
  BY WorkerStore, StoreMoves, WorkerNumbers DEF WorkerInv
<1> QED
  BY <1>1 DEF Graceful, Lives

LEMMA LocatedStays ==
    ASSUME WorkerInv, ExitInv, [WNext]_vars, NEW w \in Worker, NEW id \in Id, RowStays(id),
           Lives(w), claim'[w] = claim[w], attempts'[w][id] = attempts[w][id],
           \A k \in Token : attempts[w][id] = k => Honest(id, k)
    PROVE  Located(w, id)'
<1> SUFFICES ASSUME Graceful(w)', RunsOn(id, w)'
             PROVE  Attempted(w, id, task[id].token)' \/ Unstarted(w, id, task[id].token)'
  BY DEF Located
<1> DEFINE k == task[id].token
<1>1. task'[id].token = k /\ task'[id].state = "running" /\ RunsOn(id, w)
  BY DEF RowStays, RunsOn
<1>2. Attempted(w, id, k) \/ Unstarted(w, id, k)
  BY <1>1, GracefulBefore DEF ExitInv, Located
<1>3. CASE Attempted(w, id, k)
  <2>1. k \in Token /\ attempts[w][id] = k /\ ctl[id][k].phase \notin Over /\ Honest(id, k)
    BY <1>3 DEF Attempted
  <2>2. ~Excused(id, k)'
    <3>1. now' \in Nat /\ LeaseS \in Nat /\ now' < LeaseS
      BY WorkerStore, StoreMoves, WorkerNumbers DEF WorkerInv, Graceful
    <3> QED
      BY <1>1, <3>1 DEF Excused, Holds
  <2>3. ctl'[id][k].phase \notin Over
    BY <2>1, <2>2 DEF Honest
  <2> QED
    BY <1>1, <2>1, <2>3 DEF Attempted
<1>4. CASE Unstarted(w, id, k)
  BY <1>1, <1>4 DEF Unstarted, IsPending
<1> QED
  BY <1>2, <1>3, <1>4

\* A step of the usual kind.
LEMMA AdvanceExit ==
    ASSUME WorkerInv, ExitInv, [WNext]_vars, UNCHANGED <<attempts, claim, late>>, Unclaiming,
           \A w \in Worker : ModeStep(w) /\ Lives(w) /\ RepliesExcused(w)',
           \A id \in Id, k \in Token : SameOwner(id, k) /\ Honest(id, k)
    PROVE  ExitInv'
<1>1. LostExcused' /\ TrackedOwned' /\ late' = {}
  BY OwnedNext DEF ExitInv, LostExcused, Honest
<1>2. ASSUME NEW w \in Worker PROVE LoopEnded(w)' /\ \A id \in Id : Located(w, id)'
  BY LoopNext, LocatedStays, RowsStay
<1> QED
  BY <1>1, <1>2 DEF ExitInv

LEMMA SameModes ==
    ASSUME UNCHANGED <<mode, immediate>> PROVE \A w \in Worker : ModeStep(w) /\ Lives(w)
BY DEF ModeStep, Lives

LEMMA SameReplies ==
    ASSUME WorkerInv, ExitInv, [WNext]_vars, renewal' = renewal
    PROVE  \A w \in Worker : RepliesExcused(w)'
BY RepliesNext

LEMMA DoneExit ==
    ASSUME WorkerInv, OwnerInv, ExitInv, [WNext]_vars, NEW i \in Id, NEW j \in Token,
           AttemptDone(i, j)
    PROVE  ExitInv'
<1>0. PICK w \in Worker : w = ctl[i][j].owner /\ attempts[w][i] = j
  BY DEF AttemptDone, WorkerInv, CtlSound, OwnerInv, CtlKept
<1>1. /\ WorkerTypeOK /\ ctl[i][j].phase = "settled" /\ UNCHANGED storeVars
      /\ claim' = claim /\ renewal' = renewal /\ immediate' = immediate /\ late' = late
      /\ \/ mode' = mode
         \/ mode' = [mode EXCEPT ![w] = "stopping"] /\ mode[w] = "serving"
  BY <1>0 DEF AttemptDone, WorkerInv, storeVars
<1>2. /\ ctl'[i][j] = NoCtl
      /\ \A id \in Id, k \in Token : id # i \/ k # j => ctl'[id][k] = ctl[id][k]
  BY <1>1, BecomeFacts, NoCtlFacts DEF AttemptDone
<1>3. /\ attempts'[w][i] = 0
      /\ \A v \in Worker, id \in Id : v # w \/ id # i => attempts'[v][id] = attempts[v][id]
  BY <1>0, <1>1 DEF AttemptDone, WorkerTypeOK
<1>4. \A v \in Worker : ModeStep(v) /\ Lives(v)
  BY <1>1 DEF ModeStep, Lives, WorkerTypeOK
<1>5. \A id \in Id : RowStays(id)
  BY <1>1, RowsStay DEF Unclaiming
<1>6. ~Lost(NoCtl) /\ ctl[i][j].phase \in Over
  BY <1>1 DEF Lost, NoCtl, Over
<1>7. \A id \in Id, k \in Token : Honest(id, k)
  BY <1>2, <1>6, SameHonest DEF Honest
<1>8. LostExcused'
  BY <1>7 DEF LostExcused, Honest
<1>9. TrackedOwned'
  <2> SUFFICES ASSUME NEW v \in Worker, NEW id \in Id, NEW k \in Token, attempts'[v][id] = k
               PROVE  ctl'[id][k].phase # "none" /\ ctl'[id][k].owner = v
    BY DEF TrackedOwned
  <2>1. (v # w \/ id # i) /\ attempts[v][id] = k
    BY <1>3, TokenFacts
  <2>2. ctl[id][k].phase # "none" /\ ctl[id][k].owner = v
    BY <2>1 DEF ExitInv, TrackedOwned
  <2>3. id # i \/ k # j
    BY <1>0, <2>1, <2>2
  <2> QED
    BY <1>2, <2>2, <2>3
<1>10. ASSUME NEW v \in Worker, NEW id \in Id PROVE Located(v, id)'
  <2>1. CASE v # w \/ id # i
    BY <1>1, <1>3, <1>4, <1>5, <1>7, <2>1, LocatedStays
  <2>2. CASE v = w /\ id = i
    <3>1. ASSUME Graceful(w)', RunsOn(i, w)' PROVE FALSE
      <4>1. RunsOn(i, w) /\ Graceful(w)
        BY <1>1, <1>4, <1>5, <3>1, GracefulBefore DEF RunsOn, RowStays
      <4>2. Attempted(w, i, task[i].token) \/ Unstarted(w, i, task[i].token)
        BY <4>1 DEF ExitInv, Located
      <4> QED
        BY <1>0, <1>6, <4>2, TokenFacts DEF Attempted, Unstarted
    <3> QED
      BY <2>2, <3>1 DEF Located
  <2> QED
    BY <2>1, <2>2
<1>11. ASSUME NEW v \in Worker PROVE LoopEnded(v)'
  BY <1>1, <1>3, <1>4, LoopNext
<1> QED
  BY <1>1, <1>8, <1>9, <1>10, <1>11, SameReplies DEF ExitInv

LEMMA ControllerExit ==
    ASSUME "write_error" \notin Disturbances, WorkerInv, OwnerInv, ExitInv, [WNext]_vars,
           NEW i \in Id, NEW j \in Token, Controller(i, j)
    PROVE  ExitInv'
<1>1. CASE ~AttemptDone(i, j)
  <2>1. UNCHANGED <<mode, immediate, attempts, claim, late, renewal>>
    <3>1. CASE LocalAction(i, j)
      BY <3>1, LocalFit DEF Local
    <3> QED
      BY <1>1, <3>1 DEF Controller, LocalAction, Progress, SettleWrite, FreshApply, Remote, workerVars
  <2>2. Unclaiming
    <3>1. CASE LocalAction(i, j)
      BY <3>1, LocalFit DEF Local, Unclaiming
    <3>2. CASE FreshApply(i, j) \/ SettleWrite(i, j)
      BY <3>2, Zenon DEF FreshApply, SettleWrite, Unclaiming
    <3>3. CASE Progress(i, j) /\ Holds(task[i], j)
      BY <3>3, Zenon DEF Progress, Unclaiming
    <3> QED
      BY <1>1, <3>1, <3>2, <3>3, Zenon DEF Controller, LocalAction
  <2> QED
    BY <1>1, <2>1, <2>2, ControllerHonest, AdvanceExit, SameModes, SameReplies
<1> QED
  BY <1>1, DoneExit

LEMMA RenewalsExit ==
    ASSUME WorkerInv, ExitInv, [WNext]_vars, NEW w \in Worker, Renewals(w) PROVE ExitInv'
<1>1. UNCHANGED <<mode, immediate, attempts, claim, late>> /\ Unclaiming
  BY DEF Renewals, RenewSend, RenewApply, RenewReply, RenewFail, Unclaiming
<1>2. ASSUME NEW v \in Worker PROVE RepliesExcused(v)'
  <2>1. WorkerTypeOK
    BY DEF WorkerInv
  <2>2. CASE RenewApply(w) /\ v = w
    <3> DEFINE r == renewal[w]
    <3>1. /\ Heartbeat(r.held) /\ renewal'[w].held = r.held
          /\ renewal'[w].reply = [id \in DOMAIN r.held |-> BeatOf(task[id], r.held[id])]
      BY <2>1, <2>2 DEF RenewApply, WorkerTypeOK, RenewalCall
    <3> HIDE DEF r
    <3>2. ASSUME NEW id \in Id, NEW k \in Token, Renews(w, id, k)', renewal'[w].reply[id] = "gone"
          PROVE  Excused(id, k)'
      <4>1. id \in DOMAIN r.held /\ r.held[id] = k /\ Renews(w, id, k)
        BY <3>1, <3>2 DEF Renews, r
      <4>2. BeatOf(task[id], k) = "gone"
        BY <3>1, <3>2, <4>1
      <4>3. Excused(id, k)
        BY <4>2 DEF BeatOf, Excused
      <4> QED
        BY <4>1, <4>3, GivenOut, ExcusedStays
    <3> QED
      BY <2>2, <3>2 DEF RepliesExcused
  <2>3. CASE ~(RenewApply(w) /\ v = w)
    <3>1. renewal'[v] = renewal[v] \/ renewal'[v].pc # "applied"
      <4>1. ASSUME NEW hinted, RenewSend(w, hinted)
            PROVE  renewal'[v] = renewal[v] \/ renewal'[v].pc # "applied"
        <5> DEFINE x == SentRenewal(w, Live(w, hinted))
        <5>1. renewal' = renewal \/ renewal' = [renewal EXCEPT ![w] = x]
          BY <4>1, SendShape
        <5>2. x \in RenewalCall /\ x.pc = "sent"
          BY SentFacts
        <5> HIDE DEF x
        <5> QED
          BY <2>1, <5>1, <5>2, RenewalSet
      <4>2. CASE RenewReply(w) \/ RenewFail(w)
        BY <2>1, <4>2, RenewalSet, IdleFacts DEF RenewReply, RenewFail
      <4>3. CASE RenewApply(w)
        BY <2>1, <2>3, <4>3 DEF RenewApply, WorkerTypeOK
      <4> QED
        BY <4>1, <4>2, <4>3 DEF Renewals
    <3> QED
      BY <3>1, RepliesNext
  <2> QED
    BY <2>2, <2>3
<1> QED
  BY <1>1, <1>2, RenewalsHonest, AdvanceExit, SameModes

-----------------------------------------------------------------------------
(* The claim loop.                                                         *)

\* A step of the claim loop of w that starts no controller: a row without one
\* stays where the worker finds it, or does not run any more.
LEMMA ClaimExit ==
    ASSUME WorkerInv, ExitInv, [WNext]_vars, NEW w \in Worker,
           UNCHANGED <<mode, immediate, attempts, ctl, renewal>>, late' = {},
           \A v \in Worker \ {w} : claim'[v] = claim[v],
           claim[w].pc # "idle" \/ mode[w] = "serving",
           \A id \in Id :
             \/ /\ RowStays(id)
                /\ Graceful(w) /\ RunsOn(id, w)' /\ Unstarted(w, id, task[id].token) =>
                     Unstarted(w, id, task[id].token)'
             \/ task'[id].worker = w /\ Unstarted(w, id, task[id].token)'
    PROVE  ExitInv'
<1>1. \A id \in Id, k \in Token : SameOwner(id, k) /\ Honest(id, k)
  BY SameHonest DEF SameOwner
<1>2. LostExcused' /\ TrackedOwned'
  BY <1>1, OwnedNext DEF LostExcused, Honest
<1>3. ASSUME NEW v \in Worker PROVE LoopEnded(v)'
  <2>1. CASE v = w
    BY <2>1 DEF ExitInv, LoopEnded
  <2> QED
    BY <2>1, LoopNext, SameModes
<1>4. ASSUME NEW v \in Worker, NEW id \in Id PROVE Located(v, id)'
  <2>1. CASE v # w
    <3>1. CASE RowStays(id)
      BY <1>1, <2>1, <3>1, LocatedStays, SameModes
    <3>2. CASE ~RowStays(id)
      BY <2>1, <3>2 DEF Located, RunsOn
    <3> QED
      BY <3>1, <3>2
  <2>2. CASE v = w
    <3> SUFFICES ASSUME Graceful(w)', RunsOn(id, w)', RowStays(id),
                        Unstarted(w, id, task[id].token) => Unstarted(w, id, task[id].token)'
                 PROVE  Attempted(w, id, task[id].token)' \/ Unstarted(w, id, task[id].token)'
      BY <2>2, GracefulBefore, SameModes DEF Located
    <3>1. task'[id].token = task[id].token /\ RunsOn(id, w) /\ Graceful(w)
      BY GracefulBefore, SameModes DEF RowStays, RunsOn
    <3>2. Attempted(w, id, task[id].token) \/ Unstarted(w, id, task[id].token)
      BY <3>1 DEF ExitInv, Located
    <3> QED
      BY <3>1, <3>2 DEF Attempted
  <2> QED
    BY <2>1, <2>2
<1> QED
  BY <1>2, <1>3, <1>4, SameReplies DEF ExitInv

\* The loop forgets what it was doing where no row can be waiting for it.
LEMMA ClaimForgets ==
    ASSUME WorkerInv, ExitInv, [WNext]_vars, NEW w \in Worker,
           UNCHANGED <<mode, immediate, attempts, ctl, renewal>>, late' = {}, Unclaiming,
           NEW x \in ClaimCall, claim' = [claim EXCEPT ![w] = x],
           claim[w].pc # "idle" \/ mode[w] = "serving",
           \/ claim[w].pc \in {"idle", "sent"}
           \/ x.pc = "orphans"
           \/ immediate[w]
    PROVE  ExitInv'
<1>1. claim'[w] = x /\ \A v \in Worker \ {w} : claim'[v] = claim[v]
  BY ClaimSet DEF WorkerInv
<1>2. ASSUME NEW id \in Id, Graceful(w), RunsOn(id, w)', Unstarted(w, id, task[id].token)
      PROVE  Unstarted(w, id, task[id].token)'
  <2>1. x.pc = "orphans" /\ attempts'[w][id] = 0
    BY <1>2 DEF Graceful, Unstarted, IsPending, Pending
  <2> QED
    BY <1>1, <2>1 DEF Unstarted
<1> QED
  BY <1>1, <1>2, RowsStay, ClaimExit

LEMMA ApplyExit ==
    ASSUME ~Reclaims, WorkerInv, ExitInv, [WNext]_vars, NEW w \in Worker, NEW S \in SUBSET Id,
           ClaimApply(w, S)
    PROVE  ExitInv'
<1>1. /\ claim[w].pc = "sent" /\ claim[w] \in ClaimCall /\ WorkerTypeOK
      /\ \A id \in S : attempts[w][id] = 0
      /\ task' = [id \in Id |-> IF id \in S THEN Claimed(task[id], w) ELSE task[id]]
      /\ UNCHANGED <<mode, immediate, attempts, ctl, late, renewal>>
  BY CallFacts DEF ClaimApply, Claim, WorkerInv
<1>2. /\ claim'[w].pc = "applied" /\ claim'[w].rows = [id \in S |-> task'[id].token]
      /\ \A v \in Worker \ {w} : claim'[v] = claim[v]
  BY <1>1 DEF ClaimApply, WorkerTypeOK, ClaimCall
<1>3. ASSUME NEW id \in S PROVE task'[id].worker = w /\ Unstarted(w, id, task[id].token)'
  <2>1. task'[id].worker = w
    BY <1>1 DEF Claimed, WorkerInv, StoreInv, TypeOK, Row
  <2>2. IsPending(w, id, task[id].token)'
    BY <1>2 DEF IsPending, Pending
  <2> QED
    BY <1>1, <2>1, <2>2 DEF Unstarted
<1>4. ASSUME NEW id \in Id \ S PROVE RowStays(id) /\ ~Unstarted(w, id, task[id].token)
  BY <1>1 DEF RowStays, Unstarted, IsPending, Pending
<1> QED
  BY <1>1, <1>2, <1>3, <1>4, ClaimExit DEF ExitInv

\* A release that answers with less than a full batch left no orphan behind.
LEMMA ReleasedAll ==
    ASSUME WorkerInv, NEW w, NEW live, NEW S \in SUBSET Id, ReleaseOrphans(w, live, S),
           Cardinality(S) < BatchLimit, NEW id \in Id \ live
    PROVE  ~RunsOn(id, w)'
<1>1. /\ Orphans(w, live) \in SUBSET Id /\ S \subseteq Orphans(w, live)
      /\ IsFiniteSet(Orphans(w, live))
  <2>1. Orphans(w, live) \in SUBSET Id
    BY DEF Orphans
  <2>2. S \subseteq Orphans(w, live)
    BY DEF ReleaseOrphans
  <2> QED
    BY <2>1, <2>2, FS_Subset, IdAssumption DEF IdAssumption
<1>2. /\ Cardinality(S) = IF Cardinality(Orphans(w, live)) < BatchLimit
                          THEN Cardinality(Orphans(w, live)) ELSE BatchLimit
      /\ BatchLimit \in Nat
  BY BoundAssumption, Zenon DEF ReleaseOrphans, BoundAssumption
<1>3. S = Orphans(w, live)
  <2> DEFINE O == Orphans(w, live)
             n == Cardinality(S)
             m == Cardinality(O)
  <2>1. S \subseteq O /\ IsFiniteSet(O)
    BY <1>1
  <2>2. n \in Nat /\ n < BatchLimit /\ n = IF m < BatchLimit THEN m ELSE BatchLimit
    BY <1>1, <1>2, <2>1, FS_Subset, FS_CardinalityType
  <2> HIDE DEF O, n, m
  <2>3. n = m
    BY <1>2, <2>2
  <2> QED
    BY <2>1, <2>3, FS_Subset DEF n, m, O
<1>4. CASE id \in S
  <2>1. task'[id] = Completed(task[id], task[id].token, "release", 0) /\ task[id] \in Row
    BY <1>4 DEF ReleaseOrphans, WorkerInv, StoreInv, TypeOK
  <2>2. task'[id].state = CompletedState(task[id], "release")
    BY <2>1 DEF Completed, Row
  <2> QED
    BY <2>2 DEF CompletedState, RunsOn
<1>5. CASE id \notin S
  <2>1. task'[id] = task[id]
    BY <1>5 DEF ReleaseOrphans
  <2> QED
    BY <1>3, <1>5, <2>1 DEF Orphans, RunsOn
<1> QED
  BY <1>4, <1>5

LEMMA OrphansExit ==
    ASSUME WorkerInv, ExitInv, [WNext]_vars, NEW w \in Worker, OrphansReleased(w) PROVE ExitInv'
<1>1. /\ claim[w].pc = "releasing" /\ WorkerTypeOK /\ late' = {}
      /\ UNCHANGED <<mode, immediate, attempts, ctl, renewal>>
  BY DEF OrphansReleased, WorkerInv, ExitInv
<1>2. PICK S \in SUBSET Id :
        /\ ReleaseOrphans(w, DOMAIN claim[w].rows, S)
        /\ \/ claim' = [claim EXCEPT ![w] = [ClaimIdle EXCEPT !.pc = "orphans"]]
           \/ Cardinality(S) < BatchLimit /\ claim' = [claim EXCEPT ![w] = ClaimIdle]
  BY DEF OrphansReleased
<1>3. Unclaiming
  BY <1>2, Zenon DEF Unclaiming
<1>4. CASE claim' = [claim EXCEPT ![w] = [ClaimIdle EXCEPT !.pc = "orphans"]]
  BY <1>1, <1>3, <1>4, IdleFacts, ClaimForgets
<1>5. CASE Cardinality(S) < BatchLimit /\ claim' = [claim EXCEPT ![w] = ClaimIdle]
  <2>1. \A v \in Worker \ {w} : claim'[v] = claim[v]
    BY <1>1, <1>5, IdleFacts, ClaimSet
  <2>2. ASSUME NEW id \in Id, RunsOn(id, w)', Unstarted(w, id, task[id].token) PROVE FALSE
    <3>1. id \notin DOMAIN claim[w].rows
      BY <1>1, <2>2 DEF Unstarted, IsPending, Pending
    <3> QED
      BY <1>2, <1>5, <2>2, <3>1, ReleasedAll
  <2> QED
    BY <1>1, <1>3, <2>1, <2>2, RowsStay, ClaimExit
<1> QED
  BY <1>2, <1>4, <1>5

LEMMA UnstartedExit ==
    ASSUME WorkerInv, ExitInv, [WNext]_vars, NEW w \in Worker, ReleaseUnstarted(w) PROVE ExitInv'
<1> DEFINE c == [id \in DOMAIN claim[w].rows |-> [token |-> claim[w].rows[id], kind |-> "release"]]
<1>1. /\ claim[w].pc = "unstarted" /\ Complete(c) /\ WorkerTypeOK /\ late' = {}
      /\ claim' = claim \/ claim' = [claim EXCEPT ![w] = ClaimIdle]
      /\ UNCHANGED <<mode, immediate, attempts, ctl, renewal>>
  BY DEF ReleaseUnstarted, WorkerInv, ExitInv
<1>2. \A v \in Worker \ {w} : claim'[v] = claim[v]
  BY <1>1, IdleFacts, ClaimSet
<1>3. ASSUME NEW id \in Id, RunsOn(id, w)', RowStays(id), Unstarted(w, id, task[id].token)
      PROVE  FALSE
  <2>1. id \in DOMAIN claim[w].rows /\ claim[w].rows[id] = task[id].token
    BY <1>1, <1>3 DEF Unstarted, IsPending
  <2>2. id \in DOMAIN c /\ c[id].token = task[id].token /\ c[id].kind = "release"
    BY <2>1
  <2> HIDE DEF c
  <2>3. Applies(c, id)
    BY <1>3, <2>2 DEF Applies, Holds, RowStays, RunsOn
  <2>4. \E delay : task'[id] = Completed(task[id], c[id].token, "release", delay)
    BY <1>1, <2>2, <2>3 DEF Complete
  <2>5. task'[id].state = CompletedState(task[id], "release")
    BY <2>4 DEF Completed, WorkerInv, StoreInv, TypeOK, Row
  <2> QED
    BY <1>3, <2>5 DEF CompletedState, RunsOn
<1>4. Unclaiming
  BY <1>1, Zenon DEF Unclaiming
<1> HIDE DEF c
<1> QED
  BY <1>1, <1>2, <1>3, <1>4, RowsStay, ClaimExit

LEMMA DispatchExit ==
    ASSUME WorkerInv, OwnerInv, ExitInv, [WNext]_vars, NEW w \in Worker, ClaimDispatch(w)
    PROVE  ExitInv'
<1>1. /\ WorkerTypeOK /\ claim[w] \in ClaimCall /\ claim[w].pc = "applied" /\ late' = {}
      /\ UNCHANGED storeVars /\ UNCHANGED <<mode, immediate, renewal>>
  BY CallFacts DEF WorkerInv, ClaimDispatch, ExitInv, storeVars
<1>2. \A id \in Id : RowStays(id)
  BY <1>1, RowsStay DEF Unclaiming
<1>3. CASE mode[w] # "serving"
  <2>1. /\ claim'[w].pc = "unstarted" /\ claim'[w].rows = claim[w].rows
        /\ \A v \in Worker \ {w} : claim'[v] = claim[v]
        /\ UNCHANGED <<attempts, ctl>>
    BY <1>1, <1>3 DEF ClaimDispatch, WorkerTypeOK, ClaimCall
  <2>2. ASSUME NEW id \in Id, RunsOn(id, w)', Unstarted(w, id, task[id].token)
        PROVE  Unstarted(w, id, task[id].token)'
    <3>1. task'[id] = task[id] /\ IsPending(w, id, task[id].token) /\ attempts'[w][id] = 0
      BY <1>1, <2>1, <2>2 DEF Unstarted, storeVars
    <3> QED
      BY <2>1, <3>1 DEF Unstarted, IsPending, Pending
  <2> QED
    BY <1>1, <1>2, <2>1, <2>2, ClaimExit
<1>4. CASE mode[w] = "serving"
  <2> DEFINE d == [NoCtl EXCEPT !.phase = "fresh", !.owner = w, !.renewed_at = claim[w].at,
                                !.since = claim[w].at]
  <2>1. \A id \in Id, k \in Token : ctl'[id][k] = IF IsPending(w, id, k) THEN d ELSE ctl[id][k]
    BY <1>1, <1>4 DEF ClaimDispatch, Dispatched, IsPending, Pending
  <2>2. /\ \A id \in Id : attempts'[w][id] = IF id \in DOMAIN claim[w].rows THEN claim[w].rows[id]
                                             ELSE attempts[w][id]
        /\ \A v \in Worker \ {w} : attempts'[v] = attempts[v]
    BY <1>1, <1>4 DEF ClaimDispatch, WorkerTypeOK
  <2>3. \A v \in Worker \ {w} : claim'[v] = claim[v]
    BY <1>1, <1>4, ClaimSet, IdleFacts DEF ClaimDispatch
  <2>4. d.phase = "fresh" /\ d.owner = w /\ ~Lost(d)
    <3>1. d.phase = "fresh" /\ d.owner = w /\ d.cause = None /\ d.beat = "none"
      BY DEF NoCtl
    <3> QED
      BY <3>1, CauseAssumption DEF CauseAssumption, Cause, Lost
  <2> HIDE DEF d
  <2>5. \A id \in Id, k \in Token : IsPending(w, id, k) =>
          ctl[id][k].phase = "none" /\ attempts[w][id] = 0
    BY DEF OwnerInv, PendingKept
  <2>6. ASSUME NEW v \in Worker, NEW id \in Id, NEW k \in Token, attempts[v][id] = k
        PROVE  /\ ctl'[id][k] = ctl[id][k]
               /\ ctl[id][k].phase # "none" /\ ctl[id][k].owner = v
    BY <2>1, <2>5, <2>6 DEF ExitInv, TrackedOwned
  <2>7. LostExcused'
    <3> SUFFICES ASSUME NEW id \in Id, NEW k \in Token, Lost(ctl'[id][k]) PROVE Excused(id, k)'
      BY DEF LostExcused
    <3>1. ctl'[id][k] = ctl[id][k]
      BY <2>1, <2>4
    <3> QED
      BY <3>1, SameHonest DEF Honest
  <2>8. TrackedOwned'
    <3> SUFFICES ASSUME NEW v \in Worker, NEW id \in Id, NEW k \in Token, attempts'[v][id] = k
                 PROVE  ctl'[id][k].phase # "none" /\ ctl'[id][k].owner = v
      BY DEF TrackedOwned
    <3>1. CASE v = w /\ id \in DOMAIN claim[w].rows
      <4>1. IsPending(w, id, k)
        BY <1>1, <2>2, <3>1 DEF IsPending, Pending
      <4> QED
        BY <2>1, <2>4, <3>1, <4>1
    <3>2. CASE ~(v = w /\ id \in DOMAIN claim[w].rows)
      BY <2>2, <2>6, <3>2
    <3> QED
      BY <3>1, <3>2
  <2>9. ASSUME NEW v \in Worker PROVE LoopEnded(v)'
    <3>1. CASE v = w
      BY <1>1, <1>4, <3>1 DEF LoopEnded
    <3> QED
      BY <1>1, <2>2, <2>3, <3>1, LoopNext, SameModes
  <2>10. ASSUME NEW v \in Worker, NEW id \in Id PROVE Located(v, id)'
    <3>1. CASE v # w
      <4>1. \A k \in Token : attempts[v][id] = k => Honest(id, k)
        BY <2>6, SameHonest
      <4> QED
        BY <1>1, <1>2, <2>2, <2>3, <3>1, <4>1, LocatedStays, SameModes
    <3>2. CASE v = w
      <4> SUFFICES ASSUME Graceful(w)', RunsOn(id, w)' PROVE Attempted(w, id, task[id].token)'
        BY <3>2 DEF Located
      <4> DEFINE k == task[id].token
      <4>1. task'[id] = task[id] /\ Graceful(w) /\ RunsOn(id, w)
        BY <1>1, GracefulBefore, SameModes DEF storeVars, RunsOn
      <4>2. Attempted(w, id, k) \/ Unstarted(w, id, k)
        BY <4>1 DEF ExitInv, Located
      <4>3. CASE Attempted(w, id, k)
        <5>1. k \in Token /\ attempts[w][id] = k /\ ctl'[id][k] = ctl[id][k]
          BY <2>6, <4>3 DEF Attempted
        <5>2. id \notin DOMAIN claim[w].rows
          <6>1. ASSUME id \in DOMAIN claim[w].rows PROVE FALSE
            <7>1. claim[w].rows[id] \in Token
              BY <1>1, <6>1, CallFacts, HeldFacts
            <7>2. IsPending(w, id, claim[w].rows[id])
              BY <1>1, <6>1 DEF IsPending, Pending
            <7> QED
              BY <2>5, <5>1, <7>1, <7>2, TokenFacts
          <6> QED
            BY <6>1
        <5> QED
          BY <2>2, <4>1, <4>3, <5>1, <5>2 DEF Attempted
      <4>4. CASE Unstarted(w, id, k)
        <5>1. IsPending(w, id, k)
          BY <1>1, <4>4 DEF Unstarted
        <5>2. k \in Token /\ id \in DOMAIN claim[w].rows /\ claim[w].rows[id] = k
          BY <1>1, <5>1, CallFacts, HeldFacts DEF IsPending
        <5>3. ctl'[id][k] = d /\ attempts'[w][id] = k
          BY <2>1, <2>2, <5>1, <5>2
        <5> QED
          BY <2>4, <4>1, <5>2, <5>3 DEF Attempted, Over
      <4> QED
        BY <4>2, <4>3, <4>4
    <3> QED
      BY <3>1, <3>2
  <2> QED
    BY <1>1, <2>7, <2>8, <2>9, <2>10, SameReplies DEF ExitInv
<1> QED
  BY <1>3, <1>4

LEMMA ClaimLoopExit ==
    ASSUME ~Reclaims, "late_claim" \notin Disturbances, "write_error" \notin Disturbances,
           WorkerInv, OwnerInv, ExitInv, [WNext]_vars, NEW w \in Worker, ClaimLoop(w)
    PROVE  ExitInv'
<1>1. WorkerTypeOK /\ claim[w] \in ClaimCall /\ now \in Nat /\ late = {}
  BY CallFacts, CtlsSound DEF WorkerInv, ExitInv
<1>2. CASE Start(w)
  <2>1. UNCHANGED <<immediate, attempts, ctl, claim, late, renewal>> /\ Unclaiming
    BY <1>2, Zenon DEF Start, Unclaiming
  <2>2. \A v \in Worker : ModeStep(v) /\ Lives(v)
    BY <1>1, <1>2, <2>1 DEF Start, ModeStep, Lives, WorkerTypeOK
  <2>3. \A id \in Id, k \in Token : SameOwner(id, k) /\ Honest(id, k)
    BY <2>1, SameHonest DEF SameOwner
  <2> QED
    BY <2>1, <2>2, <2>3, AdvanceExit, SameReplies
<1>3. CASE ClaimSend(w)
  <2> DEFINE free == Concurrency - Cardinality(Tracked(w))
             x == [ClaimIdle EXCEPT !.pc = "sent", !.at = now, !.free = free]
  <2>1. free \in 0..Concurrency
    <3>1. Cardinality(Tracked(w)) \in Nat /\ Cardinality(Tracked(w)) < Concurrency
      BY <1>1, <1>3, TrackedHeld, Zenon DEF ClaimSend
    <3> QED
      BY <3>1, WorkerNumbers
  <2>2. claim' = [claim EXCEPT ![w] = x]
    BY <1>3, Zenon DEF ClaimSend
  <2> HIDE DEF free
  <2>3. x \in ClaimCall
    BY <1>1, <2>1, NoRowsHeld DEF ClaimCall, ClaimIdle
  <2> HIDE DEF x
  <2>4. claim[w].pc = "idle" /\ mode[w] = "serving" /\ late' = {} /\ Unclaiming
        /\ UNCHANGED <<mode, immediate, attempts, ctl, renewal>>
    BY <1>1, <1>3 DEF ClaimSend, Unclaiming
  <2> QED
    BY <2>2, <2>3, <2>4, ClaimForgets
<1>4. CASE ClaimEmpty(w)
  <2>1. claim[w].pc = "sent" /\ late' = {} /\ Unclaiming /\ claim' = [claim EXCEPT ![w] = ClaimIdle]
        /\ UNCHANGED <<mode, immediate, attempts, ctl, renewal>>
    BY <1>1, <1>4 DEF ClaimEmpty, Unclaiming
  <2> QED
    BY <2>1, IdleFacts, ClaimForgets
<1>5. CASE ClaimLost(w)
  <2>1. claim[w].pc # "idle" /\ late' = {} /\ Unclaiming
        /\ claim' = [claim EXCEPT ![w] = [ClaimIdle EXCEPT !.pc = "orphans"]]
        /\ UNCHANGED <<mode, immediate, attempts, ctl, renewal>>
    BY <1>1, <1>5 DEF ClaimLost, MayRunLate, Unclaiming
  <2> QED
    BY <2>1, IdleFacts, ClaimForgets
<1>6. CASE ReleaseAbandoned(w)
  <2>1. claim[w].pc # "idle" /\ immediate[w] /\ late' = {} /\ Unclaiming
        /\ claim' = [claim EXCEPT ![w] = ClaimIdle]
        /\ UNCHANGED <<mode, immediate, attempts, ctl, renewal>>
    BY <1>1, <1>6 DEF ReleaseAbandoned, Unclaiming
  <2> QED
    BY <2>1, IdleFacts, ClaimForgets
<1>7. CASE OrphansSend(w)
  <2>1. /\ claim[w].pc = "orphans" /\ claim'[w].pc = "releasing"
        /\ DOMAIN claim'[w].rows = Tracked(w)
        /\ \A v \in Worker \ {w} : claim'[v] = claim[v]
        /\ late' = {} /\ Unclaiming /\ UNCHANGED storeVars
        /\ UNCHANGED <<mode, immediate, attempts, ctl, renewal>>
    BY <1>1, <1>7 DEF OrphansSend, WorkerTypeOK, ClaimCall, Unclaiming
  <2>2. ASSUME NEW id \in Id, Unstarted(w, id, task[id].token)
        PROVE  Unstarted(w, id, task[id].token)'
    BY <2>1, <2>2 DEF Unstarted, Tracked
  <2> QED
    BY <2>1, <2>2, RowsStay, ClaimExit
<1>8. ASSUME NEW S \in SUBSET Id, NEW free \in 1..Concurrency, LateClaim(w, free, S) PROVE FALSE
  BY <1>1, <1>8 DEF LateClaim
<1> QED
  BY <1>2, <1>3, <1>4, <1>5, <1>6, <1>7, <1>8, ApplyExit, OrphansExit, UnstartedExit, DispatchExit
     DEF ClaimLoop

-----------------------------------------------------------------------------
(* The end of a worker.                                                    *)

LEMMA GoneExit ==
    ASSUME "late_claim" \notin Disturbances, WorkerInv, ExitInv, [WNext]_vars, NEW w \in Worker,
           Gone(w),
           \/ mode' = [mode EXCEPT ![w] = "crashed"]
           \/ mode' = [mode EXCEPT ![w] = "exited"] /\ mode[w] = "draining" /\ Tracked(w) = {}
    PROVE  ExitInv'
<1>1. /\ WorkerTypeOK /\ late' = {} /\ UNCHANGED storeVars /\ immediate' = immediate
  BY DEF WorkerInv, ExitInv, Gone, MayRunLate, storeVars
<1>2. /\ claim'[w] = ClaimIdle /\ renewal'[w] = RenewalIdle
      /\ \A v \in Worker \ {w} : claim'[v] = claim[v] /\ renewal'[v] = renewal[v]
  BY <1>1, IdleFacts, ClaimSet, RenewalSet DEF Gone
<1>3. /\ \A id \in Id : attempts'[w][id] = 0
      /\ \A v \in Worker \ {w} : attempts'[v] = attempts[v] /\ mode'[v] = mode[v]
      /\ mode'[w] \in {"crashed", "exited"}
  BY <1>1 DEF Gone, WorkerTypeOK
<1>4. \A id \in Id, k \in Token : ctl'[id][k] = IF ctl[id][k].owner = w THEN NoCtl ELSE ctl[id][k]
  BY DEF Gone
<1>5. \A id \in Id : RowStays(id)
  BY <1>1, RowsStay DEF Unclaiming
<1>6. ASSUME NEW v \in Worker \ {w}, NEW id \in Id, NEW k \in Token, attempts[v][id] = k
      PROVE  /\ ctl'[id][k] = ctl[id][k]
             /\ ctl[id][k].phase # "none" /\ ctl[id][k].owner = v
  BY <1>4, <1>6 DEF ExitInv, TrackedOwned
<1>7. LostExcused'
  <2> SUFFICES ASSUME NEW id \in Id, NEW k \in Token, Lost(ctl'[id][k]) PROVE Excused(id, k)'
    BY DEF LostExcused
  <2>1. ~Lost(NoCtl)
    BY DEF Lost, NoCtl, Over
  <2>2. ctl'[id][k] = ctl[id][k]
    BY <1>4, <2>1
  <2> QED
    BY <2>2, SameHonest DEF Honest
<1>8. TrackedOwned'
  BY <1>3, <1>6, TokenFacts DEF TrackedOwned
<1>9. ASSUME NEW v \in Worker PROVE LoopEnded(v)' /\ RepliesExcused(v)'
  <2>1. CASE v = w
    BY <1>2, <1>3, <2>1, IdleFacts, RepliesNext DEF LoopEnded
  <2>2. CASE v # w
    <3>1. ModeStep(v)
      BY <1>3, <2>2 DEF ModeStep
    <3> QED
      BY <1>2, <1>3, <2>2, <3>1, LoopNext, RepliesNext
  <2> QED
    BY <2>1, <2>2
<1>10. ASSUME NEW v \in Worker, NEW id \in Id PROVE Located(v, id)'
  <2>1. CASE v # w
    <3>1. Lives(v) /\ \A k \in Token : attempts[v][id] = k => Honest(id, k)
      BY <1>1, <1>3, <1>6, <2>1, SameHonest DEF Lives
    <3> QED
      BY <1>2, <1>3, <1>5, <2>1, <3>1, LocatedStays
  <2>2. CASE v = w
    <3> SUFFICES ASSUME Graceful(w)', RunsOn(id, w)' PROVE FALSE
      BY <2>2 DEF Located
    <3>1. mode[w] = "draining" /\ Tracked(w) = {} /\ claim[w].pc = "idle"
      BY <1>1 DEF Graceful, WorkerTypeOK, ExitInv, LoopEnded
    <3>2. RunsOn(id, w) /\ Graceful(w)
      BY <1>1, <3>1 DEF RunsOn, Graceful, storeVars
    <3>3. Attempted(w, id, task[id].token) \/ Unstarted(w, id, task[id].token)
      BY <3>2 DEF ExitInv, Located
    <3>4. ~Attempted(w, id, task[id].token)
      BY <3>1, TokenFacts DEF Attempted, Tracked
    <3> QED
      BY <3>1, <3>3, <3>4 DEF Unstarted, IsPending, Pending
  <2> QED
    BY <2>1, <2>2
<1> QED
  BY <1>1, <1>7, <1>8, <1>9, <1>10 DEF ExitInv

LEMMA LifetimeExit ==
    ASSUME "late_claim" \notin Disturbances, WorkerInv, ExitInv, [WNext]_vars, NEW w \in Worker,
           Lifetime(w)
    PROVE  ExitInv'
<1>1. WorkerTypeOK
  BY DEF WorkerInv
<1>2. CASE RequestShutdown(w)
  <2>1. UNCHANGED <<attempts, ctl, claim, late, renewal>> /\ Unclaiming
    BY <1>2 DEF RequestShutdown, Unclaiming
  <2>2. \A v \in Worker : ModeStep(v) /\ Lives(v)
    BY <1>1, <1>2 DEF RequestShutdown, Up, ModeStep, Lives, WorkerTypeOK
  <2>3. \A id \in Id, k \in Token : SameOwner(id, k) /\ Honest(id, k)
    BY <2>1, SameHonest DEF SameOwner
  <2> QED
    BY <2>1, <2>2, <2>3, AdvanceExit, SameReplies
<1>3. CASE Drain(w)
  <2>1. UNCHANGED <<immediate, attempts, claim, late, renewal>> /\ Unclaiming
    BY <1>3 DEF Drain, Unclaiming
  <2>2. \A v \in Worker : ModeStep(v) /\ Lives(v)
    BY <1>1, <1>3, <2>1 DEF Drain, ModeStep, Lives, WorkerTypeOK
  <2>3. ctl' = StopAll(w, "shutdown") /\ "shutdown" \in Cause \ {"cancel", "lost"}
    BY <1>3 DEF Drain, Cause
  <2>4. \A id \in Id, k \in Token : SameOwner(id, k)
    BY <2>3, StopAllFit, FitOwner
  <2>5. ASSUME NEW id \in Id, NEW k \in Token PROVE Honest(id, k)
    <3>1. ctl[id][k] \in Ctl /\ ctl'[id][k] \in {ctl[id][k], Stopped(ctl[id][k], "shutdown")}
      BY <2>3, CtlsSound DEF StopAll
    <3>2. ctl'[id][k].phase = ctl[id][k].phase
      BY <2>3, <3>1, StoppedFacts
    <3>3. ~Excused(id, k)' /\ ctl[id][k].phase \notin Over => Goes(ctl'[id][k])
      BY <2>3, <3>1, StillHeld, StoppedGoes DEF Goes
    <3> QED
      BY <3>2, <3>3 DEF Honest, Lost, Goes
  <2> QED
    BY <2>1, <2>2, <2>4, <2>5, AdvanceExit, SameReplies
<1>4. CASE Abandon(w)
  <2>1. /\ UNCHANGED <<mode, immediate, attempts, claim, late, renewal>> /\ Unclaiming
        /\ immediate[w] /\ ctl' = Abandoned(w)
    BY <1>4 DEF Abandon, Abandoned, Unclaiming
  <2>2. \A id \in Id, k \in Token : SameOwner(id, k)
    BY <2>1, AbandonedFit, FitOwner
  <2>3. ASSUME NEW id \in Id, NEW k \in Token
        PROVE  /\ ctl'[id][k] = ctl[id][k] \/ ~Lost(ctl'[id][k])
               /\ attempts[w][id] # k => ctl'[id][k] = ctl[id][k]
    <3>1. \/ ctl'[id][k] = ctl[id][k]
          \/ ctl'[id][k] = Settled(ctl[id][k]) /\ attempts[w][id] = k
      BY <2>1 DEF Abandoned
    <3>2. ~Lost(Settled(ctl[id][k]))
      BY CtlsSound, SettledFacts DEF Lost, Over
    <3> QED
      BY <3>1, <3>2
  <2>4. LostExcused'
    BY <2>3, SameHonest DEF LostExcused, Honest
  <2>5. ASSUME NEW v \in Worker, NEW id \in Id PROVE Located(v, id)'
    <3>1. CASE v = w
      BY <2>1, <3>1 DEF Located, Graceful
    <3>2. CASE v # w
      <4>1. ASSUME NEW k \in Token, attempts[v][id] = k PROVE Honest(id, k)
        <5>1. attempts[w][id] # k
          BY <3>2, <4>1 DEF ExitInv, TrackedOwned
        <5> QED
          BY <2>3, <5>1, SameHonest
      <4> QED
        BY <2>1, <4>1, LocatedStays, RowsStay, SameModes
    <3> QED
      BY <3>1, <3>2
  <2> QED
    BY <2>1, <2>2, <2>4, <2>5, OwnedNext, LoopNext, SameModes, SameReplies DEF ExitInv
<1> QED
  BY <1>2, <1>3, <1>4, GoneExit DEF Lifetime, Exit, Crash

LEMMA ExitInvNext ==
    ASSUME ~Reclaims, "late_claim" \notin Disturbances, "write_error" \notin Disturbances,
           WorkerInv, OwnerInv, ExitInv, [WNext]_vars
    PROVE  ExitInv'
<1>1. ASSUME UNCHANGED workerVars, Unclaiming PROVE ExitInv'
  BY <1>1, SameHonest, AdvanceExit, SameModes, SameReplies DEF workerVars, SameOwner
<1>2. CASE Clients
  <2>1. Unclaiming
    BY <1>2, Zenon DEF Clients, Unclaiming
  <2> QED
    BY <1>1, <1>2, <2>1 DEF Clients
<1>3. CASE Reaper
  <2>1. Unclaiming
    BY <1>3, Zenon DEF Reaper, Unclaiming
  <2> QED
    BY <1>1, <1>3, <2>1 DEF Reaper
<1>4. CASE UNCHANGED vars
  BY <1>1, <1>4 DEF vars, Unclaiming
<1> QED
  BY <1>2, <1>3, <1>4, ClaimLoopExit, RenewalsExit, LifetimeExit, ControllerExit, Zenon DEF WNext

LEMMA ExitInvInit == Init => ExitInv
<1> SUFFICES ASSUME Init PROVE ExitInv
  OBVIOUS
<1>1. ~Lost(NoCtl)
  BY DEF Lost, NoCtl, Over
<1>2. late = {} /\ LostExcused
  BY <1>1 DEF Init, LostExcused
<1>3. TrackedOwned
  BY TokenFacts DEF Init, TrackedOwned
<1>4. ASSUME NEW w \in Worker PROVE RepliesExcused(w) /\ LoopEnded(w)
  BY IdleFacts DEF Init, RepliesExcused, LoopEnded
<1>5. ASSUME NEW id \in Id, NEW w \in Worker PROVE ~RunsOn(id, w)
  BY DEF Init, StoreInit, NoRow, RunsOn
<1> QED
  BY <1>2, <1>3, <1>4, <1>5 DEF ExitInv, Located

\* A graceful shutdown leaves nothing running, though replies were lost on the
\* way: as long as no statement runs after its connection was lost and no write
\* fails for good.
THEOREM ExitsClean ==
    ASSUME ~Reclaims, "late_claim" \notin Disturbances, "write_error" \notin Disturbances
    PROVE  WSpec => []GracefulExitClean
<1>1. ExitInv => GracefulExitClean
  <2> SUFFICES ASSUME ExitInv, NEW w \in Worker, mode[w] = "exited", ~immediate[w], now < LeaseS,
                      NEW id \in Id, RunsOn(id, w)
               PROVE  FALSE
    BY DEF GracefulExitClean, RunsOn
  <2>1. claim[w].pc = "idle" /\ attempts[w][id] = 0
    BY DEF ExitInv, LoopEnded
  <2>2. Attempted(w, id, task[id].token) \/ Unstarted(w, id, task[id].token)
    BY DEF ExitInv, Located, Graceful
  <2> QED
    BY <2>1, <2>2, TokenFacts DEF Attempted, Unstarted, IsPending, Pending
<1> QED
  BY <1>1, WorkerInvInit, WorkerInvNext, OwnerInvInit, OwnerInvNext, ExitInvInit, ExitInvNext, PTL
     DEF WSpec
=============================================================================
