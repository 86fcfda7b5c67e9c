-------------------------------- MODULE Feed --------------------------------
(***************************************************************************)
(* feed.py and the feed half of store.py: one subscription name, the       *)
(* transactions that publish to it, and the consumers that register,       *)
(* backfill, pull and acknowledge.  TaskStore takes a transition and its   *)
(* events as one step; here a publishing transaction is several (begin,    *)
(* snapshot, write, commit), because registration races exactly those.     *)
(*                                                                         *)
(* A task row is its state, the number of transitions it went through      *)
(* (which stands for the attempt an event carries, and tells requeued rows *)
(* apart) and finished_at.  now() is the start of a transaction, as in     *)
(* PostgreSQL; sequence numbers are allocated before the commit.  A        *)
(* snapshot may be as old as its transaction (REPEATABLE READ) or taken    *)
(* just before the write (READ COMMITTED); PostgreSQL turns down some of   *)
(* the former's writes, which only removes behaviours.                     *)
(***************************************************************************)
EXTENDS Integers, FiniteSets

CONSTANTS Id,              \* task ids, which the backfill scans in order
          TaskType, TypeOf,
          Writer,          \* connections of workers and clients
          Consumer,        \* connections of subscribe()
          Filters,         \* [states, types]: what subscribe may ask for
          Backfills,       \* [on, window]: window is {} or {seconds}
          Chunk, BatchSize, RetentionS,
          MaxVersion, MaxSeq, MaxGen, MaxNow   \* bounds of the checked instance
                           \* (MaxSeq: of the numbers live events may take)

Active == {"queued", "running"}
Terminal == {"succeeded", "failed", "cancelled"}
State == Active \cup Terminal

ASSUME IdAssumption ==
    /\ Id \subseteq Nat \ {0} /\ IsFiniteSet(Id)
    /\ TypeOf \in [Id -> TaskType]
ASSUME ConnAssumption == Writer \cap Consumer = {}
ASSUME FilterAssumption ==
    Filters \subseteq [states: SUBSET State, types: SUBSET TaskType]
ASSUME WindowAssumption == Backfills \subseteq [on: BOOLEAN, window: SUBSET Nat]
ASSUME SizeAssumption ==
    /\ Chunk \in Nat \ {0} /\ BatchSize \in Nat \ {0} /\ RetentionS \in Nat
    /\ MaxVersion \in Nat /\ MaxSeq \in Nat /\ MaxGen \in Nat /\ MaxNow \in Nat

VARIABLES task,      \* committed rows of fronta.tasks
          sub,       \* the row of fronta.subscriptions; gen 0 when there is none
          events,    \* committed rows of fronta.events for the name
          tx,        \* the open transaction of each connection
          feed,      \* what each consumer is doing
          nextSeq, nextGen, now,
          history    \* auxiliary: what this registration has been told so far

vars == <<task, sub, events, tx, feed, nextSeq, nextGen, now, history>>

Conn == Writer \cup Consumer
NoTime == -1
NoPending == [s \in {} |-> 0]
NoSub == [gen |-> 0, states |-> {}, types |-> {}, marker |-> FALSE, since |-> {},
          pending |-> NoPending]
NoTx == [phase |-> "idle", at |-> 0, snap |-> NoSub, writes |-> {}, published |-> {},
         batch |-> {}]
Idle == [pc |-> "idle", gen |-> 0, waits |-> {}]
NoHistory == [asked |-> FALSE, since |-> {}, told |-> {}, projected |-> {}]

-----------------------------------------------------------------------------
(* Transactions that change tasks.                                         *)

\* The state changes that publish: enqueue, claim, outcomes, cancel, reap, requeue.
Moves == [absent |-> {"queued"}, queued |-> {"running", "cancelled"},
          running |-> {"succeeded", "failed", "cancelled", "queued"},
          succeeded |-> {}, failed |-> {"queued"}, cancelled |-> {"queued"}, purged |-> {}]

Begin(x) ==
    /\ tx[x].phase = "idle"
    /\ tx' = [tx EXCEPT ![x] = [NoTx EXCEPT !.phase = "begun", !.at = now]]
    /\ UNCHANGED <<task, sub, events, feed, nextSeq, nextGen, now, history>>

\* A statement sees the subscriptions of its snapshot.
Snapshot(p) ==
    /\ tx[p].phase = "begun"
    /\ tx' = [tx EXCEPT ![p].phase = "snapped", ![p].snap = sub]
    /\ UNCHANGED <<task, sub, events, feed, nextSeq, nextGen, now, history>>

Wants(row, id, state) == row.gen # 0 /\ state \in row.states /\ TypeOf[id] \in row.types

\* _PUBLISHED: FOR KEY SHARE OF s follows the row to its latest version, checks
\* the filter again and drops a row that was deleted; the lock lasts to the end.
PublishesFromSnapshot(p, id, state) == Wants(tx[p].snap, id, state)
Publishes(p, id, state) ==
    /\ Wants(tx[p].snap, id, state)
    /\ sub.gen = tx[p].snap.gen
    /\ Wants(sub, id, state)
HoldsKeyShare(p) == tx[p].published # {} \/ tx[p].batch # {}

Locked(id) == \E p \in Conn : \E w \in tx[p].writes : w.id = id
Write(p, id, state) ==
    LET row == [state |-> state, version |-> task[id].version + 1,
                finished_at |-> IF state \in Terminal THEN tx[p].at ELSE NoTime]
        event == [seq |-> nextSeq, id |-> id, state |-> state, version |-> row.version,
                  created_at |-> tx[p].at, gen |-> tx[p].snap.gen, from |-> "live"]
    IN  /\ tx[p].phase = "snapped"
        /\ state \in Moves[task[id].state] /\ ~Locked(id)
        /\ row.version <= MaxVersion /\ nextSeq <= MaxSeq
        /\ tx' = [tx EXCEPT ![p].phase = "wrote",
                            ![p].writes = {[id |-> id, row |-> row]},
                            ![p].published = IF Publishes(p, id, state) THEN {event} ELSE {}]
        /\ nextSeq' = IF Publishes(p, id, state) THEN nextSeq + 1 ELSE nextSeq
        /\ UNCHANGED <<task, sub, events, feed, nextGen, now, history>>

\* The end of p's transaction: its virtual xid lock goes, so nobody waits for it.
Released(p) == [c \in Consumer |-> [feed[c] EXCEPT !.waits = @ \ {p}]]
Told(h, E) == [h EXCEPT !.told = @ \cup {[id |-> e.id, version |-> e.version] : e \in E}]
CommitWrites(p) ==
    /\ task' = [id \in Id |-> IF \E w \in tx[p].writes : w.id = id
                              THEN (CHOOSE w \in tx[p].writes : w.id = id).row
                              ELSE task[id]]
    /\ history' = Told(history, tx[p].published)

Commit(x) ==
    /\ tx[x].phase = "wrote"
    /\ CommitWrites(x)
    /\ events' = events \cup tx[x].published
    /\ tx' = [tx EXCEPT ![x] = NoTx]
    /\ feed' = Released(x)
    /\ UNCHANGED <<sub, nextSeq, nextGen, now>>

\* A failure, a crash, or a transaction that only read.
Abort(x) ==
    /\ tx[x].phase # "idle"
    /\ tx' = [tx EXCEPT ![x] = NoTx]
    /\ feed' = Released(x)
    /\ UNCHANGED <<task, sub, events, nextSeq, nextGen, now, history>>

-----------------------------------------------------------------------------
(* subscribe(): registration, barrier, backfill.                           *)

\* store.register_subscription: only the INSERT installs generation and marker.
Registered(f, b) ==
    IF sub.gen = 0
    THEN [gen |-> nextGen, states |-> f.states, types |-> f.types, marker |-> b.on,
          since |-> IF b.on THEN {now - w : w \in b.window} ELSE {},
          pending |-> IF b.on THEN [s \in f.states |-> 0] ELSE NoPending]
    ELSE [sub EXCEPT !.states = f.states, !.types = f.types]
Subscribe(c, f, b) ==
    /\ feed[c].pc = "idle"
    /\ sub.gen = 0 => nextGen <= MaxGen
    /\ sub' = Registered(f, b)
    /\ nextGen' = IF sub.gen = 0 THEN nextGen + 1 ELSE nextGen
    /\ feed' = [feed EXCEPT ![c] = [pc |-> IF sub'.marker THEN "capturing" ELSE "open",
                                    gen |-> sub'.gen, waits |-> {}]]
    /\ history' = IF sub.gen = 0 THEN [NoHistory EXCEPT !.asked = b.on, !.since = sub'.since]
                  ELSE history
    /\ UNCHANGED <<task, events, tx, nextSeq, now>>

\* _wait_for_transactions: the virtual xids open now, captured once.
OpenTx(c) == {p \in Conn \ {c} : tx[p].phase # "idle"}
WritingTx(c) == {p \in Conn \ {c} : tx[p].phase = "wrote"}
CaptureRealXids(c) ==
    /\ feed[c].pc = "capturing"
    /\ feed' = [feed EXCEPT ![c].pc = "waiting", ![c].waits = WritingTx(c)]
    /\ UNCHANGED <<task, sub, events, tx, nextSeq, nextGen, now, history>>
Capture(c) ==
    /\ feed[c].pc = "capturing"
    /\ feed' = [feed EXCEPT ![c].pc = "waiting", ![c].waits = OpenTx(c)]
    /\ UNCHANGED <<task, sub, events, tx, nextSeq, nextGen, now, history>>

\* A poll that still finds blockers looks for a removed or replaced registration.
WaitForEveryone(c) ==
    /\ feed[c].pc = "waiting"
    /\ \/ OpenTx(c) = {} /\ feed' = [feed EXCEPT ![c].pc = "filling", ![c].waits = {}]
       \/ /\ OpenTx(c) # {} /\ sub.gen # feed[c].gen
          /\ feed' = [feed EXCEPT ![c].pc = "closed", ![c].waits = {}]
    /\ UNCHANGED <<task, sub, events, tx, nextSeq, nextGen, now, history>>
WaitOver(c) ==
    /\ feed[c].pc = "waiting"
    /\ \/ feed[c].waits = {} /\ feed' = [feed EXCEPT ![c].pc = "filling"]
       \/ /\ feed[c].waits # {} /\ sub.gen # feed[c].gen
          /\ feed' = [feed EXCEPT ![c].pc = "closed", ![c].waits = {}]
    /\ UNCHANGED <<task, sub, events, tx, nextSeq, nextGen, now, history>>

\* min(pending): states are taken in alphabetical order.
Rank == [cancelled |-> 1, failed |-> 2, queued |-> 3, running |-> 4, succeeded |-> 5]
NextState(pending) == CHOOSE s \in DOMAIN pending : \A t \in DOMAIN pending : Rank[s] <= Rank[t]
First(S, n) == {i \in S : Cardinality({j \in S : j <= i}) <= n}

\* _BACKFILL: one state, ids above the cursor; the window is for terminal rows.
InWindow(row, since) == row.state \in Active \/ \A t \in since : row.finished_at >= t
Scanned(state, after) ==
    First({id \in Id : /\ task[id].state = state /\ id > after /\ TypeOf[id] \in sub.types
                       /\ InWindow(task[id], sub.since)}, Chunk)
Greatest(S) == CHOOSE i \in S : \A j \in S : j <= i
AdvancedLate(pending, state, S) ==
    IF Cardinality(S) < Chunk THEN [s \in DOMAIN pending \ {state} |-> pending[s]]
    ELSE [pending EXCEPT ![state] = Greatest(S) - 1]
AdvancedForever(pending, state, S) ==
    [pending EXCEPT ![state] = IF S = {} THEN NoTime ELSE Greatest(S)]
Advanced(pending, state, S) ==
    IF Cardinality(S) < Chunk THEN [s \in DOMAIN pending \ {state} |-> pending[s]]
    ELSE [pending EXCEPT ![state] = Greatest(S)]

\* store.backfill_chunk: one transaction under FOR NO KEY UPDATE, which keeps
\* other chunks, registrations and unsubscribe out but not publishers or pulls.
ChunkStopped(c) ==
    /\ feed[c].pc = "filling" /\ sub.gen # feed[c].gen
    /\ feed' = [feed EXCEPT ![c].pc = "closed"]
    /\ UNCHANGED <<task, sub, events, tx, nextSeq, nextGen, now, history>>
ChunkFinished(c) ==
    /\ feed[c].pc = "filling" /\ sub.gen = feed[c].gen /\ DOMAIN sub.pending = {}
    /\ sub' = [sub EXCEPT !.marker = FALSE, !.since = {}]
    /\ feed' = [feed EXCEPT ![c].pc = "open"]
    /\ UNCHANGED <<task, events, tx, nextSeq, nextGen, now, history>>
ProjectedRows(S) ==
    {[seq |-> nextSeq + Cardinality({j \in S : j < id}), id |-> id, state |-> task[id].state,
      version |-> task[id].version, created_at |-> now, gen |-> sub.gen, from |-> "backfill"] :
     id \in S}
BackfillChunk(c) ==
    LET state   == NextState(sub.pending)
        S       == Scanned(state, sub.pending[state])
        pending == Advanced(sub.pending, state, S)
        done    == DOMAIN pending = {}
    IN  /\ feed[c].pc = "filling" /\ sub.gen = feed[c].gen /\ DOMAIN sub.pending # {}
        /\ events' = events \cup ProjectedRows(S)
        /\ nextSeq' = nextSeq + Cardinality(S)
        /\ sub' = [sub EXCEPT !.pending = pending, !.marker = ~done,
                              !.since = IF done THEN {} ELSE @]
        /\ feed' = [feed EXCEPT ![c].pc = IF done THEN "open" ELSE "filling"]
        /\ history' = [Told(history, ProjectedRows(S)) EXCEPT
                         !.projected = @ \cup {<<id, state>> : id \in S}]
        /\ UNCHANGED <<task, tx, nextGen, now>>

-----------------------------------------------------------------------------
(* Feed.__anext__, Batch.ack and the end of a consumer.                    *)

Unlocked == events \ UNION {tx[c].batch : c \in Consumer}
FirstEvents(E, n) == {e \in E : Cardinality({d \in E : d.seq <= e.seq}) <= n}

\* __anext__ rolls back first, which releases the rows of the previous batch;
\* an empty pull rolls back too and waits.
PullByName(c) ==
    LET free == Unlocked \cup tx[c].batch
    IN  /\ feed[c].pc = "open" /\ sub.gen # 0
        /\ tx' = [tx EXCEPT ![c] = IF free = {} THEN NoTx
                                   ELSE [NoTx EXCEPT !.phase = "begun", !.at = now,
                                           !.batch = FirstEvents(free, BatchSize)]]
        /\ feed' = Released(c)
        /\ UNCHANGED <<task, sub, events, nextSeq, nextGen, now, history>>
Pull(c) ==
    LET free == Unlocked \cup tx[c].batch
    IN  /\ feed[c].pc = "open" /\ sub.gen = feed[c].gen
        /\ tx' = [tx EXCEPT ![c] = IF free = {} THEN NoTx
                                   ELSE [NoTx EXCEPT !.phase = "begun", !.at = now,
                                           !.batch = FirstEvents(free, BatchSize)]]
        /\ feed' = Released(c)
        /\ UNCHANGED <<task, sub, events, nextSeq, nextGen, now, history>>
PullStopped(c) ==
    /\ feed[c].pc = "open" /\ sub.gen # feed[c].gen
    /\ tx' = [tx EXCEPT ![c] = NoTx]
    /\ feed' = [Released(c) EXCEPT ![c].pc = "closed"]
    /\ UNCHANGED <<task, sub, events, nextSeq, nextGen, now, history>>

\* Batch.ack: deletes its rows and commits what was written on its connection.
AckUpTo(c) ==
    /\ tx[c].batch # {}
    /\ CommitWrites(c)
    /\ events' = {e \in events : \A b \in tx[c].batch : e.seq > b.seq} \cup tx[c].published
    /\ tx' = [tx EXCEPT ![c] = NoTx]
    /\ feed' = Released(c)
    /\ UNCHANGED <<sub, nextSeq, nextGen, now>>
Ack(c) ==
    /\ tx[c].batch # {}
    /\ CommitWrites(c)
    /\ events' = (events \ tx[c].batch) \cup tx[c].published
    /\ tx' = [tx EXCEPT ![c] = NoTx]
    /\ feed' = Released(c)
    /\ UNCHANGED <<sub, nextSeq, nextGen, now>>

\* Leaving the context, cancellation, a lost connection or a crash, at any point.
Leave(c) ==
    /\ feed[c].pc # "idle"
    /\ tx' = [tx EXCEPT ![c] = NoTx]
    /\ feed' = [Released(c) EXCEPT ![c] = Idle]
    /\ UNCHANGED <<task, sub, events, nextSeq, nextGen, now, history>>

\* unsubscribe waits for the holders of the registration's key share.
Unsubscribe ==
    /\ sub.gen # 0 /\ \A p \in Conn : ~HoldsKeyShare(p)
    /\ sub' = NoSub /\ events' = {} /\ history' = NoHistory
    /\ UNCHANGED <<task, tx, feed, nextSeq, nextGen, now>>

-----------------------------------------------------------------------------
\* store.purge_events and purge_tasks; locked rows are skipped.
Expired(e) == e.created_at < now - RetentionS
PurgeEvents(S) ==
    /\ S # {} /\ \A e \in S : Expired(e)
    /\ events' = events \ S
    /\ UNCHANGED <<task, sub, tx, feed, nextSeq, nextGen, now, history>>
PurgeTask(id) ==
    /\ task[id].state \in Terminal /\ task[id].finished_at < now - RetentionS /\ ~Locked(id)
    /\ task' = [task EXCEPT ![id] = [@ EXCEPT !.state = "purged", !.finished_at = NoTime]]
    /\ UNCHANGED <<sub, events, tx, feed, nextSeq, nextGen, now, history>>

Tick ==
    /\ now < MaxNow /\ now' = now + 1
    /\ UNCHANGED <<task, sub, events, tx, feed, nextSeq, nextGen, history>>

Init ==
    /\ task = [id \in Id |-> [state |-> "absent", version |-> 0, finished_at |-> NoTime]]
    /\ sub = NoSub /\ events = {} /\ history = NoHistory
    /\ tx = [p \in Conn |-> NoTx]
    /\ feed = [c \in Consumer |-> Idle]
    /\ nextSeq = 1 /\ nextGen = 1 /\ now = 0

TxEnds(x) == Commit(x) \/ Abort(x)
Starting(c) == Capture(c) \/ WaitOver(c) \/ ChunkStopped(c) \/ ChunkFinished(c) \/ BackfillChunk(c)
Next ==
    \/ \E x \in Writer : Begin(x) \/ TxEnds(x)
    \/ \E p \in Conn : Snapshot(p) \/ \E id \in Id, state \in State : Write(p, id, state)
    \/ \E c \in Consumer : \/ \E f \in Filters, b \in Backfills : Subscribe(c, f, b)
                           \/ Starting(c)
                           \/ Pull(c) \/ PullStopped(c) \/ Ack(c) \/ Leave(c)
    \/ Unsubscribe
    \/ \E S \in SUBSET Unlocked : PurgeEvents(S)
    \/ \E id \in Id : PurgeTask(id)
    \/ Tick

Spec == Init /\ [][Next]_vars

\* Every transaction ends in the end (the wait has no timeout of its own), and a
\* consumer goes on unless it leaves.
FairSpec ==
    /\ Spec
    /\ \A x \in Writer : WF_vars(TxEnds(x))
    /\ \A c \in Consumer : WF_vars(Starting(c)) /\ WF_vars(tx[c].phase # "idle" /\ (Ack(c) \/ Leave(c)))

-----------------------------------------------------------------------------
(* Properties.                                                             *)

EventRow == [seq: Nat, id: Id, state: State, version: Nat, created_at: Nat, gen: Nat,
             from: {"live", "backfill"}]
TaskRow == [state: State \cup {"absent", "purged"}, version: Nat, finished_at: Nat \cup {NoTime}]

\* Every variable holds what its table column or attribute may hold.
TypeOK ==
    /\ task \in [Id -> TaskRow]
    /\ sub.gen \in Nat /\ sub.states \subseteq State /\ sub.types \subseteq TaskType
    /\ sub.marker \in BOOLEAN /\ sub.since \subseteq Int
    /\ DOMAIN sub.pending \subseteq State /\ \A s \in DOMAIN sub.pending : sub.pending[s] \in Nat
    /\ events \subseteq EventRow
    /\ \A p \in Conn : /\ tx[p].phase \in {"idle", "begun", "snapped", "wrote"}
                       /\ tx[p].published \subseteq EventRow /\ tx[p].batch \subseteq EventRow
    /\ \A c \in Consumer :
         /\ feed[c].pc \in {"idle", "capturing", "waiting", "filling", "open", "closed"}
         /\ feed[c].gen \in Nat /\ feed[c].waits \subseteq Conn

\* Once a requested backfill is over, the registration has been told of the
\* present state of every matching task, by a snapshot or by a live event: no
\* transaction that read the old subscriptions slipped between the two.
NoGap ==
    sub.gen # 0 /\ history.asked /\ ~sub.marker =>
      \A id \in Id :
        Wants(sub, id, task[id].state) /\ InWindow(task[id], history.since) =>
          [id |-> id, version |-> task[id].version] \in history.told

\* The backlog belongs to the registration in force: nothing is published or
\* projected for one that was deleted, even when its name is in use again.
BacklogOwned == \A e \in events : e.gen = sub.gen

\* A consumer is only ever handed events of the registration it joined.
OwnGeneration == \A c \in Consumer : \A e \in tx[c].batch : e.gen = feed[c].gen

\* However often a backfill is interrupted, resumed or run by two consumers,
\* no task is projected twice in the same state for one registration.
NoReprojectionStep ==
    \A e \in events' \ events :
      e.from = "backfill" => <<e.id, e.state>> \notin history.projected
NoReprojection == [][NoReprojectionStep]_vars

\* An event leaves the backlog only when a consumer acknowledges the batch that
\* holds it, when it expired unlocked, or with its registration; an event with a
\* lower number that commits late is not skipped.
NoEventLostStep ==
    \A e \in events \ events' :
      \/ sub'.gen = 0
      \/ \E c \in Consumer : e \in tx[c].batch /\ tx'[c].phase = "idle"
      \/ Expired(e) /\ e \in Unlocked
NoEventLost == [][NoEventLostStep]_vars

\* subscribe() comes to an end if the transactions that were open when it
\* captured its blockers do, however many others come and go meanwhile.
StartupEnds ==
    \A c \in Consumer : feed[c].pc \in {"capturing", "waiting", "filling"}
                          ~> feed[c].pc \notin {"capturing", "waiting", "filling"}
=============================================================================
