----------------------------- MODULE FeedProofs -----------------------------
(***************************************************************************)
(* The feed for any tasks, writers, consumers, chunk and batch size.       *)
(*                                                                         *)
(* Two invariants.  FeedInv says whose events are where: the key share a   *)
(* publisher or a batch holds keeps the registration in place, generations *)
(* are never reused, and what was projected lies below the cursors.        *)
(* GapInv is why no transition slips between the snapshot and the live     *)
(* events: a transaction that read the old subscriptions is either waited  *)
(* for, or the scan has not begun, and what the scan has still to visit    *)
(* and what was told cover every row.                                      *)
(***************************************************************************)
EXTENDS Feed, FiniteSetTheorems, WellFoundedInduction, TLAPS

Pendings == UNION {[D -> Nat] : D \in SUBSET State}
SubRow == [gen: Nat, states: SUBSET State, types: SUBSET TaskType, marker: BOOLEAN,
           since: SUBSET Int, pending: Pendings]
WriteRow == [id: Id, row: TaskRow]
TxRow == [phase: {"idle", "begun", "snapped", "wrote"}, at: Nat, snap: SubRow,
          writes: SUBSET WriteRow, published: SUBSET EventRow, batch: SUBSET EventRow]
FeedRow == [pc: {"idle", "capturing", "waiting", "filling", "open", "closed"}, gen: Nat,
            waits: SUBSET Conn]
HistoryRow == [asked: BOOLEAN, since: SUBSET Int, told: SUBSET [id: Id, version: Nat],
               projected: SUBSET (Id \X State)]

FeedTypes ==
    /\ task \in [Id -> TaskRow] /\ sub \in SubRow /\ events \in SUBSET EventRow
    /\ tx \in [Conn -> TxRow] /\ feed \in [Consumer -> FeedRow] /\ history \in HistoryRow
    /\ nextSeq \in Nat /\ nextGen \in Nat \ {0} /\ now \in Nat

\* A transaction has nothing to commit before it wrote, and a consumer has one
\* only while its feed is open.
TxSound(t) ==
    /\ t.phase # "wrote" => t.writes = {} /\ t.published = {}
    /\ t.phase = "idle" => t.batch = {}
    /\ \A v, w \in t.writes : v = w
TxKept ==
    /\ \A p \in Conn : TxSound(tx[p])
    /\ \A c \in Consumer : feed[c].pc # "open" => tx[c].phase = "idle"

\* Generations are not reused.
Fresh ==
    /\ sub.gen < nextGen
    /\ \A p \in Conn : tx[p].snap.gen < nextGen
    /\ \A c \in Consumer : feed[c].gen < nextGen

\* Events, committed or not, are of the registration in force.
Owned ==
    /\ sub.gen = 0 => history = NoHistory
    /\ \A e \in events : e.gen = sub.gen /\ e.gen # 0
    /\ \A p \in Conn : \A e \in tx[p].published : e.gen = sub.gen /\ e.gen # 0 /\ e.from = "live"
    /\ \A c \in Consumer : \A e \in tx[c].batch : e.gen = feed[c].gen

\* What was projected lies behind the cursor of its state.
Behind ==
    \A id \in Id, s \in State :
      <<id, s>> \in history.projected /\ s \in DOMAIN sub.pending => id <= sub.pending[s]


\* Cursors are left only while the marker is on, which is for a backfill somebody asked for.
Marked ==
    /\ DOMAIN sub.pending # {} => sub.marker
    /\ sub.marker => sub.gen # 0 /\ history.asked /\ sub.since = history.since

FeedInv == FeedTypes /\ TxKept /\ Fresh /\ Owned /\ Behind /\ Marked

\* Whoever registers under the name asks for the same states and types.
OneFilter == \A f, g \in Filters : f = g

FilterKept ==
    sub.gen # 0 =>
      /\ \A f \in Filters : sub.states = f.states /\ sub.types = f.types
      /\ \A p \in Conn : tx[p].snap.gen = sub.gen =>
           tx[p].snap.states = sub.states /\ tx[p].snap.types = sub.types

\* A transaction whose snapshot is older than the registration.
Stale(p) == tx[p].phase \in {"snapped", "wrote"} /\ tx[p].snap.gen # sub.gen
Barrier ==
    sub.gen # 0 =>
      \A c \in Consumer : feed[c].gen = sub.gen =>
        /\ feed[c].pc = "waiting" => \A p \in Conn : Stale(p) => p \in feed[c].waits
        /\ feed[c].pc = "filling" => \A p \in Conn : ~Stale(p)

\* The scan has not begun.
Entire == \A s \in sub.states : s \in DOMAIN sub.pending /\ sub.pending[s] = 0
Cutover == sub.gen # 0 /\ history.asked => Entire \/ \A p \in Conn : ~Stale(p)

\* What an up-to-date transaction is about to commit, it will tell.
InFlight ==
    \A p \in Conn : \A w \in tx[p].writes :
      sub.gen # 0 /\ tx[p].snap.gen = sub.gen /\ Wants(sub, w.id, w.row.state) =>
        \E e \in tx[p].published : e.id = w.id /\ e.version = w.row.version

\* Every wanted row was told of or lies before the cursor.
Told1(id, r) == [id |-> id, version |-> r.version] \in history.told
ToScan(id, s) == s \in DOMAIN sub.pending /\ id > sub.pending[s]
Covered ==
    sub.gen # 0 /\ history.asked =>
      \A id \in Id : Wants(sub, id, task[id].state) /\ InWindow(task[id], history.since) =>
        Told1(id, task[id]) \/ ToScan(id, task[id].state)

GapInv == FilterKept /\ Barrier /\ Cutover /\ InFlight /\ Covered

-----------------------------------------------------------------------------
(* What each step writes, field by field.                                  *)

TxElse(p) == \A q \in Conn : q # p => tx'[q] = tx[q]
\* p's transaction ended, and nobody waits for it.
Forgotten(p) ==
    \A c \in Consumer : /\ feed'[c].pc = feed[c].pc /\ feed'[c].gen = feed[c].gen
                        /\ feed'[c].waits = feed[c].waits \ {p}
Emptied(t) == t.writes = {} /\ t.published = {} /\ t.snap = NoSub
Ended(t) == t.phase = "idle" /\ t.batch = {} /\ Emptied(t)

LEMMA NoRows == NoSub \in SubRow /\ NoPending \in Pendings /\ NoTx \in TxRow /\ Ended(NoTx)
               /\ NoHistory \in HistoryRow /\ Idle \in FeedRow
<1>1. NoPending \in Pendings
  <2>1. NoPending \in [{} -> Nat]
    BY DEF NoPending
  <2>2. {} \in SUBSET State
    OBVIOUS
  <2> QED
    BY <2>1, <2>2, Zenon DEF Pendings
<1>2. NoSub \in SubRow
  BY <1>1 DEF NoSub, SubRow
<1>3. NoTx \in TxRow /\ Ended(NoTx)
  BY <1>2 DEF NoTx, TxRow, Ended, Emptied
<1> QED
  BY <1>1, <1>2, <1>3 DEF NoHistory, HistoryRow, Idle, FeedRow

LEMMA ReleasedFacts ==
    ASSUME FeedTypes, NEW p, feed' = Released(p)
    PROVE  feed' \in [Consumer -> FeedRow] /\ Forgotten(p)
BY DEF FeedTypes, FeedRow, Released, Forgotten

LEMMA BeginFacts ==
    ASSUME FeedTypes, NEW x \in Conn, Begin(x)
    PROVE  /\ FeedTypes' /\ TxElse(x) /\ Emptied(tx'[x])
           /\ tx[x].phase = "idle" /\ tx'[x].phase = "begun" /\ tx'[x].batch = {}
           /\ UNCHANGED <<task, sub, events, feed, nextGen, history>>
<1> DEFINE r == [NoTx EXCEPT !.phase = "begun", !.at = now]
<1>1. r \in TxRow /\ Emptied(r) /\ r.phase = "begun" /\ r.batch = {}
  BY NoRows DEF FeedTypes, TxRow, NoTx, Emptied, Ended
<1>2. tx' = [tx EXCEPT ![x] = r] /\ tx[x].phase = "idle"
  BY DEF Begin
<1> HIDE DEF r
<1>3. tx' \in [Conn -> TxRow] /\ TxElse(x) /\ tx'[x] = r
  BY <1>1, <1>2 DEF FeedTypes, TxElse
<1> QED
  BY <1>1, <1>2, <1>3 DEF FeedTypes, Begin

LEMMA SnapshotFacts ==
    ASSUME FeedTypes, NEW p \in Conn, Snapshot(p)
    PROVE  /\ FeedTypes' /\ TxElse(p)
           /\ tx[p].phase = "begun" /\ tx'[p].phase = "snapped" /\ tx'[p].snap = sub
           /\ tx'[p].writes = tx[p].writes /\ tx'[p].published = tx[p].published
           /\ tx'[p].batch = tx[p].batch
           /\ UNCHANGED <<task, sub, events, feed, nextGen, history>>
<1> DEFINE r == [tx[p] EXCEPT !.phase = "snapped", !.snap = sub]
<1>1. /\ r \in TxRow /\ r.phase = "snapped" /\ r.snap = sub /\ r.writes = tx[p].writes
      /\ r.published = tx[p].published /\ r.batch = tx[p].batch
  BY DEF FeedTypes, TxRow
<1>2. tx' = [tx EXCEPT ![p] = r] /\ tx[p].phase = "begun"
  BY DEF Snapshot
<1> HIDE DEF r
<1>3. tx' \in [Conn -> TxRow] /\ TxElse(p) /\ tx'[p] = r
  BY <1>1, <1>2 DEF FeedTypes, TxElse
<1> QED
  BY <1>1, <1>2, <1>3 DEF FeedTypes, Snapshot

\* The end of a transaction, and the start of the next one by a pull.
LEMMA EndFacts ==
    ASSUME FeedTypes, NEW x \in Conn, tx' = [tx EXCEPT ![x] = NoTx], feed' = Released(x)
    PROVE  /\ tx' \in [Conn -> TxRow] /\ TxElse(x) /\ Ended(tx'[x])
           /\ feed' \in [Consumer -> FeedRow] /\ Forgotten(x)
<1>1. tx' \in [Conn -> TxRow] /\ TxElse(x) /\ Ended(tx'[x])
  BY NoRows DEF FeedTypes, TxElse
<1> QED
  BY <1>1, ReleasedFacts

\* Publishing: the event of the row that is written, and no other.
NewRow(p, id, state) ==
    [state |-> state, version |-> task[id].version + 1,
     finished_at |-> IF state \in Terminal THEN tx[p].at ELSE NoTime]
NewEvent(p, id, state) ==
    [seq |-> nextSeq, id |-> id, state |-> state, version |-> task[id].version + 1,
     created_at |-> tx[p].at, gen |-> tx[p].snap.gen, from |-> "live"]
Wrote(p, id, state) ==
    /\ tx'[p].phase = "wrote" /\ tx'[p].snap = tx[p].snap /\ tx'[p].batch = tx[p].batch
    /\ tx'[p].writes = {[id |-> id, row |-> NewRow(p, id, state)]}
    /\ Publishes(p, id, state) => tx'[p].published = {NewEvent(p, id, state)}
    /\ ~Publishes(p, id, state) => tx'[p].published = {}

LEMMA WriteFacts ==
    ASSUME FeedTypes, NEW p \in Conn, NEW id \in Id, NEW state \in State, Write(p, id, state)
    PROVE  /\ FeedTypes' /\ TxElse(p) /\ Wrote(p, id, state) /\ tx[p].phase = "snapped"
           /\ UNCHANGED <<task, sub, events, feed, nextGen, history>>
<1> DEFINE row == NewRow(p, id, state)
           event == NewEvent(p, id, state)
           pub == IF Publishes(p, id, state) THEN {event} ELSE {}
           r == [tx[p] EXCEPT !.phase = "wrote", !.writes = {[id |-> id, row |-> row]},
                              !.published = pub]
<1>1. task[id].version + 1 \in Nat /\ tx[p].at \in Nat /\ tx[p].snap.gen \in Nat
  BY DEF FeedTypes, TaskRow, TxRow, SubRow
<1>2. row \in TaskRow
  BY <1>1 DEF TaskRow, NewRow
<1>3. event \in EventRow
  BY <1>1 DEF EventRow, NewEvent, FeedTypes
<1>4. /\ tx[p].phase = "snapped" /\ tx' = [tx EXCEPT ![p] = r]
      /\ nextSeq' = IF Publishes(p, id, state) THEN nextSeq + 1 ELSE nextSeq
      /\ UNCHANGED <<task, sub, events, feed, nextGen, now, history>>
  BY DEF Write, NewRow, NewEvent
<1>5. pub \in SUBSET EventRow
  BY <1>3
<1> HIDE DEF row, event, pub
<1>6. {[id |-> id, row |-> row]} \in SUBSET WriteRow
  BY <1>2 DEF WriteRow
<1>7. /\ r \in TxRow /\ r.phase = "wrote" /\ r.snap = tx[p].snap /\ r.batch = tx[p].batch
      /\ r.writes = {[id |-> id, row |-> row]} /\ r.published = pub
  BY <1>5, <1>6 DEF TxRow, FeedTypes
<1> HIDE DEF r
<1>8. tx' \in [Conn -> TxRow] /\ TxElse(p) /\ tx'[p] = r
  BY <1>4, <1>7 DEF FeedTypes, TxElse
<1>9. FeedTypes'
  BY <1>4, <1>8 DEF FeedTypes
<1>10. Wrote(p, id, state)
  BY <1>7, <1>8 DEF Wrote, row, event, pub
<1> QED
  BY <1>4, <1>8, <1>9, <1>10

\* A commit installs the row of the transaction and tells of what it published.
Installed(p) ==
    \A id \in Id : \/ task'[id] = task[id] /\ \A w \in tx[p].writes : w.id # id
                   \/ \E w \in tx[p].writes : w.id = id /\ task'[id] = w.row
Learned(E) ==
    /\ history'.asked = history.asked /\ history'.since = history.since
    /\ history'.told = history.told \cup {[id |-> e.id, version |-> e.version] : e \in E}

LEMMA ToldFacts ==
    ASSUME NEW h \in HistoryRow, NEW E \in SUBSET EventRow
    PROVE  /\ Told(h, E) \in HistoryRow
           /\ Told(h, E).asked = h.asked /\ Told(h, E).since = h.since
           /\ Told(h, E).told = h.told \cup {[id |-> e.id, version |-> e.version] : e \in E}
           /\ Told(h, E).projected = h.projected
<1>1. {[id |-> e.id, version |-> e.version] : e \in E} \in SUBSET [id: Id, version: Nat]
  BY DEF EventRow
<1> QED
  BY <1>1 DEF Told, HistoryRow

LEMMA CommitFacts ==
    ASSUME FeedTypes, NEW p \in Conn, CommitWrites(p)
    PROVE  /\ task' \in [Id -> TaskRow] /\ Installed(p)
           /\ history' \in HistoryRow /\ Learned(tx[p].published)
           /\ history'.projected = history.projected
<1>1. tx[p].writes \in SUBSET WriteRow /\ tx[p].published \in SUBSET EventRow
  BY DEF FeedTypes, TxRow
<1>2. ASSUME NEW id \in Id
      PROVE  \/ task'[id] = task[id] /\ \A w \in tx[p].writes : w.id # id
             \/ \E w \in tx[p].writes : w.id = id /\ task'[id] = w.row
  <2>1. CASE \A w \in tx[p].writes : w.id # id
    BY <2>1 DEF CommitWrites
  <2>2. CASE \E w \in tx[p].writes : w.id = id
    <3> DEFINE v == CHOOSE w \in tx[p].writes : w.id = id
    <3>1. v \in tx[p].writes /\ v.id = id
      BY <2>2
    <3>2. task'[id] = v.row
      BY <2>2 DEF CommitWrites
    <3> QED
      BY <3>1, <3>2
  <2> QED
    BY <2>1, <2>2
<1>3. Installed(p)
  BY <1>2 DEF Installed
<1>4. \A id \in Id : task'[id] \in TaskRow
  BY <1>1, <1>2 DEF WriteRow, FeedTypes
<1>5. task' = [id \in Id |-> task'[id]]
  BY DEF CommitWrites
<1>6. history' = Told(history, tx[p].published)
  BY DEF CommitWrites
<1>7. /\ history' \in HistoryRow /\ Learned(tx[p].published)
      /\ history'.projected = history.projected
  BY <1>1, <1>6, ToldFacts DEF FeedTypes, Learned
<1> QED
  BY <1>3, <1>4, <1>5, <1>7

LEMMA SettleFacts ==
    ASSUME FeedTypes, NEW x \in Conn, Commit(x) \/ Ack(x)
    PROVE  /\ FeedTypes' /\ TxElse(x) /\ Ended(tx'[x]) /\ Forgotten(x)
           /\ Installed(x) /\ Learned(tx[x].published) /\ history'.projected = history.projected
           /\ events' \subseteq events \cup tx[x].published
           /\ UNCHANGED <<sub, nextGen>>
<1>1. /\ CommitWrites(x) /\ tx' = [tx EXCEPT ![x] = NoTx] /\ feed' = Released(x)
      /\ events' \subseteq events \cup tx[x].published
      /\ UNCHANGED <<sub, nextSeq, nextGen, now>>
  BY DEF Commit, Ack
<1>2. tx[x].published \in SUBSET EventRow
  BY DEF FeedTypes, TxRow
<1> QED
  BY <1>1, <1>2, EndFacts, CommitFacts DEF FeedTypes

\* Abort, Pull, PullStopped and Leave drop what the connection had open.
LEMMA AbortFacts ==
    ASSUME FeedTypes, NEW x \in Conn, Abort(x)
    PROVE  /\ FeedTypes' /\ TxElse(x) /\ Ended(tx'[x]) /\ Forgotten(x)
           /\ UNCHANGED <<task, sub, events, nextGen, history>>
<1>1. /\ tx' = [tx EXCEPT ![x] = NoTx] /\ feed' = Released(x)
      /\ UNCHANGED <<task, sub, events, nextSeq, nextGen, now, history>>
  BY DEF Abort
<1> QED
  BY <1>1, EndFacts DEF FeedTypes

LEMMA PullFacts ==
    ASSUME FeedTypes, NEW c \in Consumer, Pull(c)
    PROVE  /\ FeedTypes' /\ TxElse(c) /\ Emptied(tx'[c]) /\ Forgotten(c)
           /\ tx'[c].phase \in {"idle", "begun"}
           /\ tx'[c].phase = "idle" => tx'[c].batch = {}
           /\ tx'[c].batch \subseteq events \cup tx[c].batch
           /\ feed[c].pc = "open" /\ sub.gen = feed[c].gen
           /\ UNCHANGED <<task, sub, events, nextGen, history>>
<1> DEFINE free == Unlocked \cup tx[c].batch
           batch == FirstEvents(free, BatchSize)
           r == IF free = {} THEN NoTx ELSE [NoTx EXCEPT !.phase = "begun", !.at = now, !.batch = batch]
<1>0. c \in Conn
  BY DEF Conn
<1>1. batch \subseteq events \cup tx[c].batch /\ batch \in SUBSET EventRow
  BY <1>0 DEF FirstEvents, Unlocked, FeedTypes, TxRow
<1>2. /\ tx' = [tx EXCEPT ![c] = r] /\ feed' = Released(c)
      /\ feed[c].pc = "open" /\ sub.gen = feed[c].gen
      /\ UNCHANGED <<task, sub, events, nextSeq, nextGen, now, history>>
  BY DEF Pull
<1> HIDE DEF batch, free
<1>3. /\ r \in TxRow /\ Emptied(r) /\ r.phase \in {"idle", "begun"}
      /\ r.phase = "idle" => r.batch = {}
      /\ r.batch \subseteq events \cup tx[c].batch
  <2>1. CASE free = {}
    BY <2>1, NoRows DEF Ended
  <2>2. CASE free # {}
    BY <1>1, <2>2, NoRows DEF FeedTypes, TxRow, NoTx, Emptied, Ended
  <2> QED
    BY <2>1, <2>2
<1> HIDE DEF r
<1>4. tx' \in [Conn -> TxRow] /\ TxElse(c) /\ tx'[c] = r
  BY <1>0, <1>2, <1>3 DEF FeedTypes, TxElse
<1>5. feed' \in [Consumer -> FeedRow] /\ Forgotten(c)
  BY <1>2, ReleasedFacts
<1> QED
  BY <1>2, <1>3, <1>4, <1>5 DEF FeedTypes

\* As Forgotten, for every consumer but c, which is then at pc.
LeftAt(c, pc, gen) ==
    /\ feed'[c].pc = pc /\ feed'[c].gen = gen
    /\ \A d \in Consumer : d # c => /\ feed'[d].pc = feed[d].pc /\ feed'[d].gen = feed[d].gen
                                    /\ feed'[d].waits = feed[d].waits \ {c}

LEMMA LeaveFacts ==
    ASSUME FeedTypes, NEW c \in Consumer, PullStopped(c) \/ Leave(c)
    PROVE  /\ FeedTypes' /\ TxElse(c) /\ Ended(tx'[c])
           /\ LeftAt(c, "closed", feed[c].gen) \/ LeftAt(c, "idle", 0)
           /\ UNCHANGED <<task, sub, events, nextGen, history>>
<1> DEFINE rel == Released(c)
<1>0. c \in Conn
  BY DEF Conn
<1>1. /\ tx' = [tx EXCEPT ![c] = NoTx]
      /\ feed' = [rel EXCEPT ![c].pc = "closed"] \/ feed' = [rel EXCEPT ![c] = Idle]
      /\ UNCHANGED <<task, sub, events, nextSeq, nextGen, now, history>>
  BY DEF PullStopped, Leave
<1>2. tx' \in [Conn -> TxRow] /\ TxElse(c) /\ Ended(tx'[c])
  BY <1>0, <1>1, NoRows DEF FeedTypes, TxElse
<1>3. /\ rel \in [Consumer -> FeedRow]
      /\ \A d \in Consumer : /\ rel[d].pc = feed[d].pc /\ rel[d].gen = feed[d].gen
                             /\ rel[d].waits = feed[d].waits \ {c}
  BY DEF FeedTypes, FeedRow, Released
<1> HIDE DEF rel
<1>4. CASE feed' = [rel EXCEPT ![c].pc = "closed"]
  <2>1. feed' \in [Consumer -> FeedRow] /\ LeftAt(c, "closed", feed[c].gen)
    BY <1>3, <1>4 DEF FeedRow, LeftAt
  <2> QED
    BY <1>1, <1>2, <2>1 DEF FeedTypes
<1>5. CASE feed' = [rel EXCEPT ![c] = Idle]
  <2>1. feed' \in [Consumer -> FeedRow] /\ LeftAt(c, "idle", 0)
    BY <1>3, <1>5, NoRows DEF LeftAt, Idle
  <2> QED
    BY <1>1, <1>2, <2>1 DEF FeedTypes
<1> QED
  BY <1>1, <1>4, <1>5

FeedElse(c) == \A d \in Consumer : d # c => feed'[d] = feed[d]

LEMMA CaptureFacts ==
    ASSUME FeedTypes, NEW c \in Consumer, Capture(c)
    PROVE  /\ FeedTypes' /\ FeedElse(c) /\ feed[c].pc = "capturing"
           /\ feed'[c].pc = "waiting" /\ feed'[c].gen = feed[c].gen /\ feed'[c].waits = OpenTx(c)
           /\ UNCHANGED <<task, sub, events, tx, nextGen, history>>
<1> DEFINE r == [feed[c] EXCEPT !.pc = "waiting", !.waits = OpenTx(c)]
<1>1. /\ r \in FeedRow /\ r.pc = "waiting" /\ r.gen = feed[c].gen /\ r.waits = OpenTx(c)
  BY DEF FeedTypes, FeedRow, OpenTx
<1>2. feed' = [feed EXCEPT ![c] = r] /\ feed[c].pc = "capturing"
  BY DEF Capture
<1> HIDE DEF r
<1>3. feed' \in [Consumer -> FeedRow] /\ FeedElse(c) /\ feed'[c] = r
  BY <1>1, <1>2 DEF FeedTypes, FeedElse
<1> QED
  BY <1>1, <1>2, <1>3 DEF FeedTypes, Capture

LEMMA WaitFacts ==
    ASSUME FeedTypes, NEW c \in Consumer, WaitOver(c) \/ ChunkStopped(c)
    PROVE  /\ FeedTypes' /\ FeedElse(c) /\ feed[c].pc \in {"waiting", "filling"}
           /\ feed'[c].gen = feed[c].gen
           /\ \/ feed'[c].pc = "closed"
              \/ feed'[c].pc = "filling" /\ feed[c].pc = "waiting" /\ feed[c].waits = {}
           /\ UNCHANGED <<task, sub, events, tx, nextGen, history>>
<1> DEFINE a == [feed[c] EXCEPT !.pc = "filling"]
           b == [feed[c] EXCEPT !.pc = "closed", !.waits = {}]
           d == [feed[c] EXCEPT !.pc = "closed"]
<1>1. /\ a \in FeedRow /\ a.pc = "filling" /\ a.gen = feed[c].gen
      /\ b \in FeedRow /\ b.pc = "closed" /\ b.gen = feed[c].gen
      /\ d \in FeedRow /\ d.pc = "closed" /\ d.gen = feed[c].gen
  BY DEF FeedTypes, FeedRow
<1>2. /\ \/ feed' = [feed EXCEPT ![c] = a] /\ feed[c].waits = {} /\ feed[c].pc = "waiting"
         \/ feed' = [feed EXCEPT ![c] = b]
         \/ feed' = [feed EXCEPT ![c] = d]
      /\ feed[c].pc \in {"waiting", "filling"}
  BY DEF WaitOver, ChunkStopped
<1> HIDE DEF a, b, d
<1>3. /\ feed' \in [Consumer -> FeedRow] /\ FeedElse(c) /\ feed'[c].gen = feed[c].gen
      /\ \/ feed'[c].pc = "closed"
         \/ feed'[c].pc = "filling" /\ feed[c].pc = "waiting" /\ feed[c].waits = {}
  BY <1>1, <1>2 DEF FeedTypes, FeedElse
<1> QED
  BY <1>2, <1>3 DEF FeedTypes, WaitOver, ChunkStopped

\* A registration: a new one with its own generation and cursors at the start,
\* or another consumer of the one in force.
NewRegistration(f, b) ==
    /\ sub.gen = 0 /\ sub'.gen = nextGen /\ nextGen' = nextGen + 1
    /\ sub'.marker = b.on /\ history'.asked = b.on /\ history'.since = sub'.since
    /\ history'.told = {} /\ history'.projected = {}
    /\ b.on => DOMAIN sub'.pending = f.states /\ \A s \in f.states : sub'.pending[s] = 0
    /\ ~b.on => DOMAIN sub'.pending = {}
Joined ==
    /\ sub.gen # 0 /\ sub'.gen = sub.gen /\ sub'.marker = sub.marker /\ sub'.since = sub.since
    /\ sub'.pending = sub.pending /\ history' = history /\ nextGen' = nextGen

LEMMA PendingsOf == ASSUME NEW D \in SUBSET State, NEW g \in [D -> Nat] PROVE g \in Pendings
BY Zenon DEF Pendings

LEMMA PendingFacts ==
    ASSUME NEW g \in Pendings
    PROVE  DOMAIN g \in SUBSET State /\ g \in [DOMAIN g -> Nat] /\ \A s \in DOMAIN g : g[s] \in Nat
<1>1. PICK D \in SUBSET State : g \in [D -> Nat]
  BY Zenon DEF Pendings
<1> QED
  BY <1>1

LEMMA SubscribeFacts ==
    ASSUME FeedTypes, NEW c \in Consumer, NEW f \in Filters, NEW b \in Backfills, Subscribe(c, f, b)
    PROVE  /\ FeedTypes' /\ FeedElse(c) /\ feed[c].pc = "idle"
           /\ feed'[c].pc \in {"capturing", "open"} /\ feed'[c].gen = sub'.gen
           /\ sub'.states = f.states /\ sub'.types = f.types
           /\ NewRegistration(f, b) \/ Joined
           /\ UNCHANGED <<task, events, tx>>
<1>1. /\ f.states \in SUBSET State /\ f.types \in SUBSET TaskType
      /\ b.on \in BOOLEAN /\ b.window \in SUBSET Nat
  BY FilterAssumption, WindowAssumption DEF FilterAssumption, WindowAssumption
<1> DEFINE cur == [s \in f.states |-> 0]
           since == {now - w : w \in b.window}
           new == [gen |-> nextGen, states |-> f.states, types |-> f.types, marker |-> b.on,
                   since |-> IF b.on THEN since ELSE {}, pending |-> IF b.on THEN cur ELSE NoPending]
           old == [sub EXCEPT !.states = f.states, !.types = f.types]
           h == [NoHistory EXCEPT !.asked = b.on, !.since = sub'.since]
<1>2. cur \in Pendings /\ DOMAIN cur = f.states /\ \A s \in f.states : cur[s] = 0
  <2>1. cur \in [f.states -> Nat]
    OBVIOUS
  <2>2. cur \in Pendings
    <3> HIDE DEF cur
    <3> QED
      BY <1>1, <2>1, PendingsOf
  <2> QED
    BY <2>2
<1>3. since \in SUBSET Int
  BY <1>1 DEF FeedTypes
<1>4. /\ sub' = IF sub.gen = 0 THEN new ELSE old
      /\ nextGen' = IF sub.gen = 0 THEN nextGen + 1 ELSE nextGen
      /\ history' = IF sub.gen = 0 THEN h ELSE history
      /\ feed' = [feed EXCEPT ![c] = [pc |-> IF sub'.marker THEN "capturing" ELSE "open",
                                      gen |-> sub'.gen, waits |-> {}]]
      /\ feed[c].pc = "idle" /\ UNCHANGED <<task, events, tx, nextSeq, now>>
  BY DEF Subscribe, Registered
<1> HIDE DEF cur, since
<1>5. /\ new \in SubRow /\ new.gen = nextGen /\ new.marker = b.on /\ new.states = f.states
      /\ new.types = f.types
      /\ b.on => new.pending = cur
      /\ ~b.on => new.pending = NoPending
  BY <1>1, <1>2, <1>3, NoRows DEF SubRow, FeedTypes
<1>6. /\ old \in SubRow /\ old.gen = sub.gen /\ old.marker = sub.marker /\ old.since = sub.since
      /\ old.pending = sub.pending /\ old.states = f.states /\ old.types = f.types
  BY <1>1 DEF SubRow, FeedTypes
<1> HIDE DEF new, old
<1>7. sub' \in SubRow /\ sub'.states = f.states /\ sub'.types = f.types
  BY <1>4, <1>5, <1>6
<1>8. /\ h \in HistoryRow /\ h.asked = b.on /\ h.since = sub'.since /\ h.told = {}
      /\ h.projected = {}
  BY <1>1, <1>7 DEF SubRow, HistoryRow, NoHistory
<1> HIDE DEF h
<1>9. NewRegistration(f, b) \/ Joined
  <2>1. CASE sub.gen = 0
    <3>1. DOMAIN NoPending = {}
      BY DEF NoPending
    <3>2. NewRegistration(f, b)
      BY <1>2, <1>4, <1>5, <1>8, <2>1, <3>1 DEF NewRegistration
    <3> QED
      BY <3>2
  <2>2. CASE sub.gen # 0
    BY <1>4, <1>6, <2>2 DEF Joined
  <2> QED
    BY <2>1, <2>2
<1>10. /\ feed' \in [Consumer -> FeedRow] /\ FeedElse(c)
       /\ feed'[c].pc \in {"capturing", "open"} /\ feed'[c].gen = sub'.gen
  BY <1>4, <1>7 DEF FeedTypes, FeedRow, SubRow, FeedElse
<1>11. FeedTypes'
  BY <1>4, <1>7, <1>8, <1>10 DEF FeedTypes
<1> QED
  BY <1>4, <1>7, <1>9, <1>10, <1>11

-----------------------------------------------------------------------------
(* The order of the scan.                                                  *)

LEMMA Least == ASSUME NEW S \in SUBSET Nat, S # {} PROVE \E n \in S : \A m \in S : n <= m
<1>1. PICK n \in S : \A m \in S : ~(<<m, n>> \in OpToRel(<, Nat))
  BY NatLessThanWellFounded, WFMin
<1>2. \A m \in S : ~(m < n)
  BY <1>1 DEF OpToRel
<1> QED
  BY <1>2

\* A finite set without a greatest element would have a least such subset.
LEMMA FiniteGreatest ==
    ASSUME NEW S \in SUBSET Nat, IsFiniteSet(S), S # {}
    PROVE  \E n \in S : \A m \in S : m <= n
<1> DEFINE Topped(A) == \E n \in A : \A m \in A : m <= n
           Bad == {A \in SUBSET S : A # {} /\ ~Topped(A)}
           Sizes == {Cardinality(A) : A \in Bad}
<1> SUFFICES ASSUME S \in Bad PROVE FALSE
  OBVIOUS
<1>1. \A A \in SUBSET S : IsFiniteSet(A) /\ Cardinality(A) \in Nat
  BY FS_Subset, FS_CardinalityType
<1>2. Sizes \in SUBSET Nat /\ Sizes # {}
  BY <1>1
<1>3. PICK n \in Sizes : \A m \in Sizes : n <= m
  <2> HIDE DEF Sizes
  <2> QED
    BY <1>2, Least
<1>4. PICK A \in Bad : n = Cardinality(A)
  BY <1>3
<1>5. PICK a \in A : TRUE
  BY <1>4
<1> DEFINE B == A \ {a}
<1>6. B \in SUBSET S /\ IsFiniteSet(A) /\ A \in SUBSET Nat /\ a \in Nat
  BY <1>1, <1>4, <1>5
<1>7. Cardinality(B) = Cardinality(A) - 1 /\ Cardinality(A) \in Nat
  BY <1>1, <1>4, <1>5, <1>6, FS_RemoveElement
<1>8. B \notin Bad
  <2> SUFFICES ASSUME B \in Bad PROVE FALSE
    OBVIOUS
  <2>1. Cardinality(B) \in Sizes
    OBVIOUS
  <2> HIDE DEF B, Sizes
  <2>2. Cardinality(A) <= Cardinality(B)
    BY <1>3, <1>4, <2>1
  <2> QED
    BY <1>7, <2>2
<1>9. B # {}
  <2> SUFFICES ASSUME B = {} PROVE FALSE
    OBVIOUS
  <2>1. A = {a}
    BY <1>5
  <2> QED
    BY <1>4, <1>6, <2>1
<1>10. PICK b \in B : \A m \in B : m <= b
  BY <1>6, <1>8, <1>9
<1>11. Topped(A)
  <2>1. b \in A /\ b \in Nat
    BY <1>6, <1>10
  <2>2. CASE a <= b
    BY <1>10, <2>1, <2>2
  <2>3. CASE ~(a <= b)
    BY <1>5, <1>6, <1>10, <2>1, <2>3
  <2> QED
    BY <2>2, <2>3
<1> QED
  BY <1>4, <1>11

LEMMA IdFinite == ASSUME NEW S \in SUBSET Id
                  PROVE  IsFiniteSet(S) /\ Cardinality(S) \in Nat /\ S \in SUBSET Nat
BY IdAssumption, FS_Subset, FS_CardinalityType DEF IdAssumption

LEMMA GreatestFacts ==
    ASSUME NEW S \in SUBSET Id, S # {}
    PROVE  Greatest(S) \in S /\ \A i \in S : i <= Greatest(S)
<1>1. \E n \in S : \A m \in S : m <= n
  BY IdFinite, FiniteGreatest
<1> QED
  BY <1>1 DEF Greatest

\* A LIMIT takes the first rows, and all of them if it does not fill up.
LEMMA FirstFacts ==
    ASSUME NEW C \in SUBSET Id, NEW n \in Nat
    PROVE  /\ First(C, n) \in SUBSET C
           /\ \A i \in C \ First(C, n), k \in First(C, n) : k < i
           /\ Cardinality(First(C, n)) < n => First(C, n) = C
<1> DEFINE F == First(C, n)
           Upto(i) == {j \in C : j <= i}
<1>1. F = {i \in C : Cardinality(Upto(i)) <= n}
  BY DEF First
<1>2. F \in SUBSET C
  BY <1>1
<1>3. ASSUME NEW i \in C \ F, NEW k \in F PROVE k < i
  <2> SUFFICES ASSUME ~(k < i) PROVE FALSE
    OBVIOUS
  <2>1. i \in Nat /\ k \in Nat /\ C \in SUBSET Nat
    BY <1>2, IdFinite
  <2>2. Upto(i) \in SUBSET Upto(k) /\ Upto(k) \in SUBSET Id /\ Upto(i) \in SUBSET Id
    <3>1. i <= k
      BY <2>1
    <3>2. ASSUME NEW j \in C, j <= i PROVE j <= k
      BY <2>1, <3>1, <3>2
    <3> QED
      BY <3>2
  <2>3. /\ Cardinality(Upto(i)) <= Cardinality(Upto(k))
        /\ Cardinality(Upto(i)) \in Nat /\ Cardinality(Upto(k)) \in Nat
    <3> HIDE DEF Upto
    <3> QED
      BY <2>2, IdFinite, FS_Subset
  <2>4. Cardinality(Upto(k)) <= n /\ ~(Cardinality(Upto(i)) <= n)
    BY <1>1
  <2> HIDE DEF Upto
  <2> QED
    BY <2>3, <2>4
<1>4. ASSUME Cardinality(F) < n PROVE F = C
  <2> SUFFICES ASSUME C \ F # {} PROVE FALSE
    BY <1>2
  <2>1. C \ F \in SUBSET Nat /\ F \in SUBSET Id /\ C \in SUBSET Nat
    BY <1>2, IdFinite
  <2>2. PICK i \in C \ F : \A m \in C \ F : i <= m
    <3> HIDE DEF F
    <3> QED
      BY <2>1, Least
  <2>3. Upto(i) \in SUBSET (F \cup {i})
    BY <2>1, <2>2
  <2> HIDE DEF F, Upto
  <2>4. Cardinality(F \cup {i}) = Cardinality(F) + 1 /\ IsFiniteSet(F \cup {i})
    BY <2>1, <2>2, IdFinite, FS_AddElement
  <2>5. Cardinality(Upto(i)) <= Cardinality(F) + 1 /\ Cardinality(Upto(i)) \in Nat
    BY <2>3, <2>4, FS_Subset, FS_CardinalityType
  <2>6. Cardinality(F) \in Nat
    BY <2>1, IdFinite
  <2>7. Cardinality(Upto(i)) <= n
    BY <1>4, <2>5, <2>6 DEF F
  <2> QED
    BY <1>1, <2>2, <2>7
<1> QED
  BY <1>2, <1>3, <1>4

LEMMA NextStateFacts ==
    ASSUME NEW g \in Pendings, DOMAIN g # {}
    PROVE  NextState(g) \in DOMAIN g
<1> DEFINE S == {Rank[s] : s \in DOMAIN g}
<1>1. \A s \in DOMAIN g : Rank[s] \in Nat
  BY PendingFacts DEF Rank, State, Active, Terminal
<1>2. S \in SUBSET Nat /\ S # {}
  BY <1>1
<1>3. PICK n \in S : \A m \in S : n <= m
  <2> HIDE DEF S
  <2> QED
    BY <1>2, Least
<1>4. PICK s \in DOMAIN g : n = Rank[s]
  BY <1>3
<1>5. \A t \in DOMAIN g : Rank[s] <= Rank[t]
  BY <1>3, <1>4
<1> QED
  BY <1>4, <1>5 DEF NextState

-----------------------------------------------------------------------------
(* One chunk.                                                              *)

\* S is what the chunk projects of one state, and where its cursor goes.
ChunkScan(state, S) ==
    /\ state \in DOMAIN sub.pending /\ S \in SUBSET Id
    /\ \A id \in S : task[id].state = state /\ id > sub.pending[state]
    /\ DOMAIN sub'.pending \subseteq DOMAIN sub.pending
    /\ \A s \in DOMAIN sub.pending : s # state =>
         s \in DOMAIN sub'.pending /\ sub'.pending[s] = sub.pending[s]
    /\ state \in DOMAIN sub'.pending =>
         sub.pending[state] < sub'.pending[state] /\ \A id \in S : id <= sub'.pending[state]
    /\ \A id \in Id \ S :
         /\ task[id].state = state /\ id > sub.pending[state]
         /\ TypeOf[id] \in sub.types /\ InWindow(task[id], sub.since)
         => state \in DOMAIN sub'.pending /\ id > sub'.pending[state]
ChunkTold(state, S) ==
    /\ \A e \in events' : e \in events \/ (e.id \in S /\ e.state = state /\ e.gen = sub.gen)
    /\ events \subseteq events'
    /\ history'.asked = history.asked /\ history'.since = history.since
    /\ history.told \subseteq history'.told
    /\ \A id \in S : [id |-> id, version |-> task[id].version] \in history'.told
    /\ history'.projected = history.projected \cup {<<id, state>> : id \in S}
ChunkSub ==
    /\ sub'.gen = sub.gen /\ sub'.states = sub.states /\ sub'.types = sub.types
    /\ DOMAIN sub'.pending # {} => sub'.marker /\ sub'.since = sub.since
    /\ DOMAIN sub'.pending = {} => ~sub'.marker

LEMMA AdvancedFacts ==
    ASSUME NEW g \in Pendings, NEW state \in DOMAIN g, NEW S \in SUBSET Id,
           \A id \in S : id > g[state]
    PROVE  LET a == Advanced(g, state, S)
           IN  /\ a \in Pendings /\ DOMAIN a \subseteq DOMAIN g
               /\ \A s \in DOMAIN g : s # state => s \in DOMAIN a /\ a[s] = g[s]
               /\ state \in DOMAIN a <=> ~(Cardinality(S) < Chunk)
               /\ state \in DOMAIN a => g[state] < a[state] /\ a[state] \in S
                                        /\ \A id \in S : id <= a[state]
<1> DEFINE D == DOMAIN g \ {state}
           a == Advanced(g, state, S)
<1>1. DOMAIN g \in SUBSET State /\ g \in [DOMAIN g -> Nat]
  BY PendingFacts
<1>2. CASE Cardinality(S) < Chunk
  <2>1. a = [s \in D |-> g[s]]
    BY <1>2 DEF Advanced
  <2>2. a \in [D -> Nat]
    BY <1>1, <2>1
  <2>3. a \in Pendings
    <3>1. D \in SUBSET State
      BY <1>1
    <3> HIDE DEF a, D
    <3> QED
      BY <2>2, <3>1, PendingsOf
  <2> QED
    BY <1>2, <2>1, <2>3
<1>3. CASE ~(Cardinality(S) < Chunk)
  <2>1. a = [g EXCEPT ![state] = Greatest(S)]
    BY <1>3 DEF Advanced
  <2>2. S # {}
    BY <1>3, FS_EmptySet, SizeAssumption DEF SizeAssumption
  <2>3. Greatest(S) \in S /\ \A i \in S : i <= Greatest(S)
    BY <2>2, GreatestFacts
  <2>4. Greatest(S) \in Nat
    BY <2>3, IdFinite
  <2>5. a \in [DOMAIN g -> Nat]
    BY <1>1, <2>1, <2>4
  <2>6. a \in Pendings
    <3> HIDE DEF a
    <3> QED
      BY <1>1, <2>5, PendingsOf
  <2>7. a[state] = Greatest(S) /\ \A s \in DOMAIN g : s # state => a[s] = g[s]
    BY <1>1, <2>1
  <2> HIDE DEF a
  <2>8. DOMAIN a = DOMAIN g
    BY <2>5
  <2>9. g[state] < a[state] /\ a[state] \in S
    BY <2>3, <2>7
  <2> QED
    BY <1>3, <2>3, <2>6, <2>7, <2>8, <2>9 DEF a
<1> QED
  BY <1>2, <1>3

LEMMA ScannedFacts ==
    ASSUME FeedTypes, NEW state \in DOMAIN sub.pending
    PROVE  LET after == sub.pending[state]
               S == Scanned(state, after)
               Rest == {id \in Id \ S : /\ task[id].state = state /\ id > after
                                        /\ TypeOf[id] \in sub.types /\ InWindow(task[id], sub.since)}
           IN  /\ S \in SUBSET Id /\ \A id \in S : task[id].state = state /\ id > after
               /\ \A id \in Rest, k \in S : k < id
               /\ Cardinality(S) < Chunk => Rest = {}
<1> DEFINE after == sub.pending[state]
           C == {id \in Id : /\ task[id].state = state /\ id > after /\ TypeOf[id] \in sub.types
                             /\ InWindow(task[id], sub.since)}
           S == Scanned(state, after)
           Rest == {id \in Id \ S : /\ task[id].state = state /\ id > after
                                    /\ TypeOf[id] \in sub.types /\ InWindow(task[id], sub.since)}
<1>1. S = First(C, Chunk)
  BY DEF Scanned
<1>2. C \in SUBSET Id /\ Chunk \in Nat
  BY SizeAssumption DEF SizeAssumption
<1>3. Rest = C \ S /\ \A id \in C : task[id].state = state /\ id > after
  OBVIOUS
<1> HIDE DEF C, S, Rest
<1>4. /\ S \in SUBSET C /\ \A i \in C \ S, k \in S : k < i
      /\ Cardinality(S) < Chunk => S = C
  BY <1>1, <1>2, FirstFacts
<1>5. /\ S \in SUBSET Id /\ \A id \in S : task[id].state = state /\ id > after
      /\ \A id \in Rest, k \in S : k < id
      /\ Cardinality(S) < Chunk => Rest = {}
  BY <1>2, <1>3, <1>4
<1> QED
  BY <1>5 DEF S, Rest

LEMMA ChunkFacts ==
    ASSUME FeedTypes, NEW c \in Consumer, BackfillChunk(c)
    PROVE  /\ FeedTypes' /\ FeedElse(c) /\ ChunkSub
           /\ feed[c].pc = "filling" /\ feed[c].gen = sub.gen /\ DOMAIN sub.pending # {}
           /\ feed'[c].pc \in {"open", "filling"} /\ feed'[c].gen = feed[c].gen
           /\ \E state \in State : \E S : ChunkScan(state, S) /\ ChunkTold(state, S)
           /\ UNCHANGED <<task, tx, nextGen>>
<1> DEFINE state == NextState(sub.pending)
           after == sub.pending[state]
           S == Scanned(state, after)
           g == Advanced(sub.pending, state, S)
           done == DOMAIN g = {}
           rows == ProjectedRows(S)
<1>1. /\ feed[c].pc = "filling" /\ sub.gen = feed[c].gen /\ DOMAIN sub.pending # {}
      /\ events' = events \cup rows /\ nextSeq' = nextSeq + Cardinality(S)
      /\ sub' = [sub EXCEPT !.pending = g, !.marker = ~done, !.since = IF done THEN {} ELSE @]
      /\ feed' = [feed EXCEPT ![c].pc = IF done THEN "open" ELSE "filling"]
      /\ history' = [Told(history, rows) EXCEPT !.projected = @ \cup {<<id, state>> : id \in S}]
      /\ UNCHANGED <<task, tx, nextGen, now>>
  BY DEF BackfillChunk
<1>2. sub.pending \in Pendings /\ sub.gen \in Nat /\ sub.since \in SUBSET Int
  BY DEF FeedTypes, SubRow
<1>3. state \in DOMAIN sub.pending
  BY <1>1, <1>2, NextStateFacts
<1>4. state \in State /\ after \in Nat
  BY <1>2, <1>3, PendingFacts
<1> HIDE DEF state
<1> DEFINE Rest == {id \in Id \ S : /\ task[id].state = state /\ id > after
                                    /\ TypeOf[id] \in sub.types /\ InWindow(task[id], sub.since)}
<1>5. /\ S \in SUBSET Id /\ \A id \in S : task[id].state = state /\ id > after
      /\ \A id \in Rest, k \in S : k < id
      /\ Cardinality(S) < Chunk => Rest = {}
  BY <1>3, ScannedFacts
<1>6. \A id \in Rest : id \in Id \ S
  OBVIOUS
<1>7. \A id \in Id \ S : /\ task[id].state = state /\ id > after
                         /\ TypeOf[id] \in sub.types /\ InWindow(task[id], sub.since)
                         => id \in Rest
  OBVIOUS
<1> HIDE DEF S, Rest
<1>8. /\ g \in Pendings /\ DOMAIN g \subseteq DOMAIN sub.pending
      /\ \A s \in DOMAIN sub.pending : s # state => s \in DOMAIN g /\ g[s] = sub.pending[s]
      /\ state \in DOMAIN g <=> ~(Cardinality(S) < Chunk)
      /\ state \in DOMAIN g => after < g[state] /\ g[state] \in S /\ \A id \in S : id <= g[state]
  BY <1>2, <1>3, <1>5, AdvancedFacts
<1> HIDE DEF g
<1>9. /\ sub' \in SubRow /\ sub'.gen = sub.gen /\ sub'.states = sub.states
      /\ sub'.types = sub.types /\ sub'.pending = g
      /\ ~done => sub'.marker /\ sub'.since = sub.since
      /\ done => ~sub'.marker
  BY <1>1, <1>2, <1>8 DEF FeedTypes, SubRow
<1>10. ChunkSub
  BY <1>9 DEF ChunkSub
<1>11. ChunkScan(state, S)
  <2>1. ASSUME NEW id \in Rest PROVE state \in DOMAIN g /\ id > g[state]
    <3>1. state \in DOMAIN g
      BY <1>5, <1>8
    <3>2. g[state] < id
      BY <1>5, <1>8, <3>1
    <3>3. id \in Nat /\ g[state] \in Nat
      BY <1>5, <1>6, <1>8, <3>1, IdFinite
    <3> QED
      BY <3>1, <3>2, <3>3
  <2> HIDE DEF after
  <2> QED
    BY <1>3, <1>5, <1>7, <1>8, <1>9, <2>1 DEF ChunkScan, after
<1>12. ASSUME NEW e \in rows
       PROVE  e \in EventRow /\ e.id \in S /\ e.state = state /\ e.gen = sub.gen
  <2>1. PICK id \in S : e = [seq |-> nextSeq + Cardinality({j \in S : j < id}), id |-> id,
                             state |-> task[id].state, version |-> task[id].version,
                             created_at |-> now, gen |-> sub.gen, from |-> "backfill"]
    BY DEF ProjectedRows
  <2>2. {j \in S : j < id} \in SUBSET Id
    BY <1>5
  <2>3. Cardinality({j \in S : j < id}) \in Nat
    BY <2>2, IdFinite
  <2>4. nextSeq + Cardinality({j \in S : j < id}) \in Nat
    BY <2>3 DEF FeedTypes
  <2>5. id \in Id /\ task[id].state = state /\ task[id].version \in Nat
    BY <1>5 DEF FeedTypes, TaskRow
  <2> QED
    BY <1>2, <1>4, <2>1, <2>4, <2>5 DEF EventRow, FeedTypes
<1>13. ASSUME NEW id \in S
       PROVE  \E e \in rows : e.id = id /\ e.version = task[id].version
  <2> DEFINE e == [seq |-> nextSeq + Cardinality({j \in S : j < id}), id |-> id,
                   state |-> task[id].state, version |-> task[id].version,
                   created_at |-> now, gen |-> sub.gen, from |-> "backfill"]
  <2>1. e \in rows
    BY Zenon DEF ProjectedRows
  <2>2. e.id = id /\ e.version = task[id].version
    OBVIOUS
  <2> QED
    BY <2>1, <2>2
<1> HIDE DEF rows
<1>14. rows \in SUBSET EventRow
  BY <1>12
<1> DEFINE told == Told(history, rows)
           shown == {<<id, state>> : id \in S}
<1>15. /\ told \in HistoryRow /\ told.asked = history.asked /\ told.since = history.since
       /\ told.told = history.told \cup {[id |-> e.id, version |-> e.version] : e \in rows}
       /\ told.projected = history.projected
  BY <1>14, ToldFacts DEF FeedTypes
<1>16. shown \in SUBSET (Id \X State)
  BY <1>4, <1>5
<1> HIDE DEF told, shown
<1>17. history' = [told EXCEPT !.projected = @ \cup shown]
  BY <1>1 DEF told, shown
<1>18. /\ history' \in HistoryRow /\ history'.asked = history.asked
       /\ history'.since = history.since /\ history'.told = told.told
       /\ history'.projected = history.projected \cup shown
  BY <1>15, <1>16, <1>17 DEF HistoryRow
<1>19. ChunkTold(state, S)
  <2>1. \A id \in S : [id |-> id, version |-> task[id].version] \in history'.told
    BY <1>13, <1>15, <1>18
  <2>2. \A e \in events' : e \in events \/ (e.id \in S /\ e.state = state /\ e.gen = sub.gen)
    BY <1>1, <1>12
  <2> QED
    BY <1>1, <1>15, <1>18, <2>1, <2>2 DEF ChunkTold, shown
<1>20. Cardinality(S) \in Nat
  BY <1>5, IdFinite
<1>21. /\ feed' \in [Consumer -> FeedRow] /\ FeedElse(c)
       /\ feed'[c].pc \in {"open", "filling"} /\ feed'[c].gen = feed[c].gen
  BY <1>1 DEF FeedTypes, FeedRow, FeedElse
<1>22. FeedTypes'
  BY <1>1, <1>9, <1>14, <1>18, <1>20, <1>21 DEF FeedTypes
<1> QED
  BY <1>1, <1>4, <1>10, <1>11, <1>19, <1>21, <1>22

LEMMA FinishFacts ==
    ASSUME FeedTypes, NEW c \in Consumer, ChunkFinished(c)
    PROVE  /\ FeedTypes' /\ FeedElse(c) /\ feed[c].pc = "filling" /\ feed[c].gen = sub.gen
           /\ feed'[c].pc = "open" /\ feed'[c].gen = feed[c].gen
           /\ sub'.gen = sub.gen /\ sub'.states = sub.states /\ sub'.types = sub.types
           /\ sub'.pending = sub.pending /\ DOMAIN sub.pending = {} /\ ~sub'.marker
           /\ UNCHANGED <<task, events, tx, nextGen, history>>
<1>1. /\ feed[c].pc = "filling" /\ sub.gen = feed[c].gen /\ DOMAIN sub.pending = {}
      /\ sub' = [sub EXCEPT !.marker = FALSE, !.since = {}]
      /\ feed' = [feed EXCEPT ![c].pc = "open"]
      /\ UNCHANGED <<task, events, tx, nextSeq, nextGen, now, history>>
  BY DEF ChunkFinished
<1>2. /\ sub' \in SubRow /\ sub'.gen = sub.gen /\ sub'.states = sub.states
      /\ sub'.types = sub.types /\ sub'.pending = sub.pending /\ ~sub'.marker
  BY <1>1 DEF FeedTypes, SubRow
<1>3. /\ feed' \in [Consumer -> FeedRow] /\ FeedElse(c)
      /\ feed'[c].pc = "open" /\ feed'[c].gen = feed[c].gen
  BY <1>1 DEF FeedTypes, FeedRow, FeedElse
<1> QED
  BY <1>1, <1>2, <1>3 DEF FeedTypes

-----------------------------------------------------------------------------
(* FeedInv, action by action.                                              *)

LEMMA FeedInvParts ==
    FeedInv => FeedTypes /\ TxKept /\ Fresh /\ Owned /\ Behind /\ Marked
BY DEF FeedInv

LEMMA ConsumersConn == Consumer \in SUBSET Conn
BY DEF Conn

\* A step that leaves the registration and its history alone.
LEMMA SubKept ==
    ASSUME Behind, Marked, UNCHANGED <<sub, history>> PROVE Behind' /\ Marked'
BY DEF Behind, Marked

LEMMA BeginKeeps == ASSUME FeedInv, NEW x \in Writer, Begin(x) PROVE FeedInv'
<1>0. x \in Conn /\ x \notin Consumer
  BY ConnAssumption DEF Conn, ConnAssumption
<1>1. FeedTypes /\ TxKept /\ Fresh /\ Owned /\ Behind /\ Marked
  BY FeedInvParts
<1>2. /\ FeedTypes' /\ TxElse(x) /\ Emptied(tx'[x])
      /\ tx[x].phase = "idle" /\ tx'[x].phase = "begun" /\ tx'[x].batch = {}
      /\ UNCHANGED <<task, sub, events, feed, nextGen, history>>
  BY <1>0, <1>1, BeginFacts
<1>3. TxKept'
  BY <1>0, <1>1, <1>2, ConsumersConn DEF TxKept, TxSound, TxElse, Emptied
<1>4. Fresh'
  BY <1>0, <1>1, <1>2 DEF Fresh, TxElse, Emptied, NoSub, FeedTypes
<1>5. Owned'
  BY <1>0, <1>1, <1>2, ConsumersConn DEF Owned, TxElse, Emptied
<1> QED
  BY <1>1, <1>2, <1>3, <1>4, <1>5, SubKept DEF FeedInv

LEMMA SnapshotKeeps == ASSUME FeedInv, NEW p \in Conn, Snapshot(p) PROVE FeedInv'
<1>1. FeedTypes /\ TxKept /\ Fresh /\ Owned /\ Behind /\ Marked
  BY FeedInvParts
<1>2. /\ FeedTypes' /\ TxElse(p)
      /\ tx[p].phase = "begun" /\ tx'[p].phase = "snapped" /\ tx'[p].snap = sub
      /\ tx'[p].writes = tx[p].writes /\ tx'[p].published = tx[p].published
      /\ tx'[p].batch = tx[p].batch
      /\ UNCHANGED <<task, sub, events, feed, nextGen, history>>
  BY <1>1, SnapshotFacts
<1>3. TxKept'
  BY <1>1, <1>2, ConsumersConn DEF TxKept, TxSound, TxElse
<1>4. Fresh'
  BY <1>1, <1>2 DEF Fresh, TxElse
<1>5. Owned'
  BY <1>1, <1>2, ConsumersConn DEF Owned, TxElse
<1> QED
  BY <1>1, <1>2, <1>3, <1>4, <1>5, SubKept DEF FeedInv

LEMMA WriteKeeps ==
    ASSUME FeedInv, NEW p \in Conn, NEW id \in Id, NEW state \in State, Write(p, id, state)
    PROVE  FeedInv'
<1>1. FeedTypes /\ TxKept /\ Fresh /\ Owned /\ Behind /\ Marked
  BY FeedInvParts
<1>2. /\ FeedTypes' /\ TxElse(p) /\ Wrote(p, id, state) /\ tx[p].phase = "snapped"
      /\ UNCHANGED <<task, sub, events, feed, nextGen, history>>
  BY <1>1, WriteFacts
<1>3. TxKept'
  BY <1>1, <1>2, ConsumersConn DEF TxKept, TxSound, TxElse, Wrote
<1>4. Fresh'
  BY <1>1, <1>2 DEF Fresh, TxElse, Wrote
<1>5. Publishes(p, id, state) => tx[p].snap.gen = sub.gen /\ sub.gen # 0
  BY DEF Publishes, Wants
<1>6. \A e \in tx'[p].published : e.gen = sub.gen /\ e.gen # 0 /\ e.from = "live"
  BY <1>2, <1>5 DEF Wrote, NewEvent
<1>7. Owned'
  BY <1>1, <1>2, <1>6, ConsumersConn DEF Owned, TxElse, Wrote
<1> QED
  BY <1>1, <1>2, <1>3, <1>4, <1>7, SubKept DEF FeedInv

LEMMA EndKeeps ==
    ASSUME FeedInv, FeedTypes', NEW x \in Conn, TxElse(x), Ended(tx'[x]), Forgotten(x),
           UNCHANGED <<sub, nextGen>>
    PROVE  TxKept' /\ Fresh'
<1>1. FeedTypes /\ TxKept /\ Fresh
  BY FeedInvParts
<1>2. TxKept'
  BY <1>1, ConsumersConn DEF TxKept, TxSound, TxElse, Ended, Emptied, Forgotten
<1>3. Fresh'
  BY <1>1 DEF Fresh, TxElse, Ended, Emptied, NoSub, Forgotten, FeedTypes
<1> QED
  BY <1>2, <1>3

LEMMA SettleKeeps == ASSUME FeedInv, NEW x \in Conn, Commit(x) \/ Ack(x) PROVE FeedInv'
<1>1. FeedTypes /\ TxKept /\ Fresh /\ Owned /\ Behind /\ Marked
  BY FeedInvParts
<1>2. /\ FeedTypes' /\ TxElse(x) /\ Ended(tx'[x]) /\ Forgotten(x)
      /\ Installed(x) /\ Learned(tx[x].published) /\ history'.projected = history.projected
      /\ events' \subseteq events \cup tx[x].published
      /\ UNCHANGED <<sub, nextGen>>
  BY <1>1, SettleFacts
<1>3. TxKept' /\ Fresh'
  BY <1>2, EndKeeps
<1>4. sub.gen = 0 => history' = history
  <2> SUFFICES ASSUME sub.gen = 0 PROVE history' = history
    OBVIOUS
  <2>1. tx[x].published = {} /\ history = NoHistory
    BY <1>1 DEF Owned
  <2>2. history' = Told(history, {})
    BY <2>1 DEF Commit, Ack, CommitWrites
  <2> QED
    BY <2>1, <2>2 DEF Told, NoHistory
<1>5. Owned'
  BY <1>1, <1>2, <1>4, ConsumersConn DEF Owned, TxElse, Ended, Emptied, Forgotten
<1>6. Behind' /\ Marked'
  BY <1>1, <1>2 DEF Behind, Marked, Learned
<1> QED
  BY <1>2, <1>3, <1>5, <1>6 DEF FeedInv

LEMMA AbortKeeps == ASSUME FeedInv, NEW x \in Conn, Abort(x) PROVE FeedInv'
<1>1. FeedTypes /\ TxKept /\ Fresh /\ Owned /\ Behind /\ Marked
  BY FeedInvParts
<1>2. /\ FeedTypes' /\ TxElse(x) /\ Ended(tx'[x]) /\ Forgotten(x)
      /\ UNCHANGED <<task, sub, events, nextGen, history>>
  BY <1>1, AbortFacts
<1>3. TxKept' /\ Fresh'
  BY <1>2, EndKeeps
<1>4. Owned'
  BY <1>1, <1>2, ConsumersConn DEF Owned, TxElse, Ended, Emptied, Forgotten
<1> QED
  BY <1>1, <1>2, <1>3, <1>4, SubKept DEF FeedInv

\* A pull sees the registration it joined, so its batch is that one's.
LEMMA PullKeeps == ASSUME FeedInv, NEW c \in Consumer, Pull(c) PROVE FeedInv'
<1>1. FeedTypes /\ TxKept /\ Fresh /\ Owned /\ Behind /\ Marked
  BY FeedInvParts
<1>2. /\ FeedTypes' /\ TxElse(c) /\ Emptied(tx'[c]) /\ Forgotten(c)
      /\ tx'[c].phase \in {"idle", "begun"}
      /\ tx'[c].phase = "idle" => tx'[c].batch = {}
      /\ tx'[c].batch \subseteq events \cup tx[c].batch
      /\ feed[c].pc = "open" /\ sub.gen = feed[c].gen
      /\ UNCHANGED <<task, sub, events, nextGen, history>>
  BY <1>1, PullFacts
<1>3. TxKept'
  BY <1>1, <1>2, ConsumersConn DEF TxKept, TxSound, TxElse, Emptied, Forgotten
<1>4. Fresh'
  BY <1>1, <1>2 DEF Fresh, TxElse, Emptied, NoSub, Forgotten, FeedTypes
<1>5. \A e \in tx'[c].batch : e.gen = feed[c].gen
  BY <1>1, <1>2 DEF Owned
<1>6. Owned'
  BY <1>1, <1>2, <1>5, ConsumersConn DEF Owned, TxElse, Emptied, Forgotten
<1> QED
  BY <1>1, <1>2, <1>3, <1>4, <1>6, SubKept DEF FeedInv

LEMMA LeaveKeeps ==
    ASSUME FeedInv, NEW c \in Consumer, PullStopped(c) \/ Leave(c) PROVE FeedInv'
<1>1. FeedTypes /\ TxKept /\ Fresh /\ Owned /\ Behind /\ Marked
  BY FeedInvParts
<1>2. /\ FeedTypes' /\ TxElse(c) /\ Ended(tx'[c])
      /\ LeftAt(c, "closed", feed[c].gen) \/ LeftAt(c, "idle", 0)
      /\ UNCHANGED <<task, sub, events, nextGen, history>>
  BY <1>1, LeaveFacts
<1>3. TxKept'
  BY <1>1, <1>2, ConsumersConn DEF TxKept, TxSound, TxElse, Ended, Emptied, LeftAt
<1>4. Fresh'
  BY <1>1, <1>2 DEF Fresh, TxElse, Ended, Emptied, NoSub, LeftAt, FeedTypes
<1>5. Owned'
  BY <1>1, <1>2, ConsumersConn DEF Owned, TxElse, Ended, Emptied, LeftAt
<1> QED
  BY <1>1, <1>2, <1>3, <1>4, <1>5, SubKept DEF FeedInv

\* A new registration finds no event and no event about to be: the last one's
\* deletion took them, and waited for those who held its key share.
LEMMA SubscribeKeeps ==
    ASSUME FeedInv, NEW c \in Consumer, NEW f \in Filters, NEW b \in Backfills, Subscribe(c, f, b)
    PROVE  FeedInv'
<1>1. FeedTypes /\ TxKept /\ Fresh /\ Owned /\ Behind /\ Marked
  BY FeedInvParts
<1>2. /\ FeedTypes' /\ FeedElse(c) /\ feed[c].pc = "idle"
      /\ feed'[c].pc \in {"capturing", "open"} /\ feed'[c].gen = sub'.gen
      /\ NewRegistration(f, b) \/ Joined
      /\ UNCHANGED <<task, events, tx>>
  BY <1>1, SubscribeFacts
<1>3. TxKept'
  BY <1>1, <1>2 DEF TxKept, FeedElse
<1>4. tx[c].batch = {}
  BY <1>1, <1>2, ConsumersConn DEF TxKept, TxSound
<1>5. CASE NewRegistration(f, b)
  <2>1. Fresh'
    BY <1>1, <1>2, <1>5 DEF Fresh, FeedElse, NewRegistration, FeedTypes, SubRow, FeedRow, TxRow
  <2>2. events = {} /\ \A p \in Conn : tx[p].published = {}
    BY <1>1, <1>5 DEF Owned, NewRegistration
  <2>3. sub'.gen # 0
    BY <1>1, <1>5 DEF NewRegistration, FeedTypes
  <2>4. Owned'
    BY <1>1, <1>2, <1>4, <2>2, <2>3 DEF Owned, FeedElse
  <2>5. Behind'
    BY <1>5 DEF Behind, NewRegistration
  <2>6. Marked'
    BY <1>5, <2>3 DEF Marked, NewRegistration
  <2> QED
    BY <1>2, <1>3, <2>1, <2>4, <2>5, <2>6 DEF FeedInv
<1>6. CASE Joined
  <2>1. Fresh'
    BY <1>1, <1>2, <1>6 DEF Fresh, FeedElse, Joined
  <2>2. Owned'
    BY <1>1, <1>2, <1>4, <1>6 DEF Owned, FeedElse, Joined
  <2>3. Behind' /\ Marked'
    BY <1>1, <1>6 DEF Behind, Marked, Joined
  <2> QED
    BY <1>2, <1>3, <2>1, <2>2, <2>3 DEF FeedInv
<1> QED
  BY <1>2, <1>5, <1>6

LEMMA WaitKeeps ==
    ASSUME FeedInv, NEW c \in Consumer, Capture(c) \/ WaitOver(c) \/ ChunkStopped(c)
    PROVE  FeedInv'
<1>1. FeedTypes /\ TxKept /\ Fresh /\ Owned /\ Behind /\ Marked
  BY FeedInvParts
<1>2. /\ FeedTypes' /\ FeedElse(c) /\ feed[c].pc # "open" /\ feed'[c].gen = feed[c].gen
      /\ UNCHANGED <<task, sub, events, tx, nextGen, history>>
  BY <1>1, CaptureFacts, WaitFacts
<1>3. TxKept'
  BY <1>1, <1>2 DEF TxKept, FeedElse
<1>4. Fresh'
  BY <1>1, <1>2 DEF Fresh, FeedElse
<1>5. Owned'
  BY <1>1, <1>2 DEF Owned, FeedElse
<1> QED
  BY <1>1, <1>2, <1>3, <1>4, <1>5, SubKept DEF FeedInv

LEMMA FinishKeeps == ASSUME FeedInv, NEW c \in Consumer, ChunkFinished(c) PROVE FeedInv'
<1>1. FeedTypes /\ TxKept /\ Fresh /\ Owned /\ Behind /\ Marked
  BY FeedInvParts
<1>2. /\ FeedTypes' /\ FeedElse(c) /\ feed[c].pc = "filling"
      /\ feed'[c].pc = "open" /\ feed'[c].gen = feed[c].gen /\ sub'.gen = sub.gen
      /\ sub'.pending = sub.pending /\ DOMAIN sub.pending = {} /\ ~sub'.marker
      /\ UNCHANGED <<task, events, tx, nextGen, history>>
  BY <1>1, FinishFacts
<1>3. TxKept'
  BY <1>1, <1>2 DEF TxKept, FeedElse
<1>4. Fresh'
  BY <1>1, <1>2 DEF Fresh, FeedElse
<1>5. Owned'
  BY <1>1, <1>2 DEF Owned, FeedElse
<1>6. Behind' /\ Marked'
  BY <1>1, <1>2 DEF Behind, Marked
<1> QED
  BY <1>2, <1>3, <1>4, <1>5, <1>6 DEF FeedInv

LEMMA ChunkKeeps == ASSUME FeedInv, NEW c \in Consumer, BackfillChunk(c) PROVE FeedInv'
<1>1. FeedTypes /\ TxKept /\ Fresh /\ Owned /\ Behind /\ Marked
  BY FeedInvParts
<1>2. /\ FeedTypes' /\ FeedElse(c) /\ ChunkSub
      /\ feed[c].pc = "filling" /\ feed[c].gen = sub.gen /\ DOMAIN sub.pending # {}
      /\ feed'[c].pc \in {"open", "filling"} /\ feed'[c].gen = feed[c].gen
      /\ \E state \in State : \E S : ChunkScan(state, S) /\ ChunkTold(state, S)
      /\ UNCHANGED <<task, tx, nextGen>>
  BY <1>1, ChunkFacts
<1>3. PICK state \in State : \E S : ChunkScan(state, S) /\ ChunkTold(state, S)
  BY <1>2
<1>4. PICK S : ChunkScan(state, S) /\ ChunkTold(state, S)
  BY <1>3
<1>5. sub.gen # 0 /\ history.asked /\ sub.since = history.since
  BY <1>1, <1>2 DEF Marked
<1>6. TxKept'
  BY <1>1, <1>2 DEF TxKept, FeedElse
<1>7. Fresh'
  BY <1>1, <1>2 DEF Fresh, FeedElse, ChunkSub
<1>8. Owned'
  BY <1>1, <1>2, <1>4, <1>5 DEF Owned, FeedElse, ChunkSub, ChunkTold
<1>9. Marked'
  BY <1>2, <1>4, <1>5 DEF Marked, ChunkSub, ChunkTold
<1>10. Behind'
  <2> SUFFICES ASSUME NEW id \in Id, NEW s \in State, <<id, s>> \in history'.projected,
                      s \in DOMAIN sub'.pending
               PROVE  id <= sub'.pending[s]
    BY DEF Behind
  <2>1. s \in DOMAIN sub.pending /\ sub.pending \in Pendings /\ sub'.pending \in Pendings
    BY <1>1, <1>2, <1>4 DEF ChunkScan, FeedTypes, SubRow
  <2>2. sub.pending[s] \in Nat /\ sub'.pending[s] \in Nat /\ id \in Nat
    BY <2>1, PendingFacts, IdFinite
  <2>3. CASE <<id, s>> \in history.projected
    <3>1. id <= sub.pending[s]
      BY <1>1, <2>1, <2>3 DEF Behind
    <3>2. sub.pending[s] <= sub'.pending[s]
      BY <1>4, <2>1, <2>2 DEF ChunkScan
    <3> QED
      BY <2>2, <3>1, <3>2
  <2>4. CASE id \in S /\ s = state
    BY <1>4, <2>4 DEF ChunkScan
  <2>5. <<id, s>> \in history.projected \/ (id \in S /\ s = state)
    BY <1>4 DEF ChunkTold
  <2> QED
    BY <2>3, <2>4, <2>5
<1> QED
  BY <1>2, <1>6, <1>7, <1>8, <1>9, <1>10 DEF FeedInv

\* unsubscribe waits for everyone who holds the key share.
LEMMA UnsubscribeKeeps == ASSUME FeedInv, Unsubscribe PROVE FeedInv'
<1>1. FeedTypes /\ TxKept /\ Fresh /\ Owned /\ Behind /\ Marked
  BY FeedInvParts
<1>2. /\ sub' = NoSub /\ events' = {} /\ history' = NoHistory
      /\ \A p \in Conn : tx[p].published = {} /\ tx[p].batch = {}
      /\ UNCHANGED <<task, tx, feed, nextSeq, nextGen, now>>
  BY DEF Unsubscribe, HoldsKeyShare
<1>3. FeedTypes'
  BY <1>1, <1>2, NoRows DEF FeedTypes
<1>4. sub'.gen = 0 /\ ~sub'.marker /\ DOMAIN sub'.pending = {} /\ history'.projected = {}
  BY <1>2 DEF NoSub, NoPending, NoHistory
<1>5. TxKept'
  BY <1>1, <1>2 DEF TxKept
<1>6. Fresh'
  BY <1>1, <1>2, <1>4 DEF Fresh, FeedTypes
<1>7. Owned'
  BY <1>2, ConsumersConn DEF Owned
<1>8. Behind' /\ Marked'
  BY <1>4 DEF Behind, Marked
<1> QED
  BY <1>3, <1>5, <1>6, <1>7, <1>8 DEF FeedInv

\* The purges, the clock and stuttering change no registration and no transaction.
LEMMA RestKeeps ==
    ASSUME FeedInv, FeedTypes', events' \subseteq events,
           UNCHANGED <<sub, tx, feed, nextGen, history>>
    PROVE  FeedInv'
<1>1. FeedTypes /\ TxKept /\ Fresh /\ Owned /\ Behind /\ Marked
  BY FeedInvParts
<1>2. TxKept' /\ Fresh'
  BY <1>1 DEF TxKept, Fresh
<1>3. Owned'
  BY <1>1 DEF Owned
<1> QED
  BY <1>1, <1>2, <1>3, SubKept DEF FeedInv

LEMMA PurgeFacts ==
    ASSUME FeedTypes, NEW id \in Id, PurgeTask(id)
    PROVE  /\ FeedTypes' /\ task'[id].state = "purged"
           /\ \A i \in Id : i # id => task'[i] = task[i]
           /\ UNCHANGED <<sub, events, tx, feed, nextGen, history>>
<1>1. task' = [task EXCEPT ![id] = [task[id] EXCEPT !.state = "purged", !.finished_at = NoTime]]
  BY DEF PurgeTask
<1>2. [task[id] EXCEPT !.state = "purged", !.finished_at = NoTime] \in TaskRow
  BY DEF FeedTypes, TaskRow
<1>3. task' \in [Id -> TaskRow]
  BY <1>1, <1>2 DEF FeedTypes
<1>4. task'[id].state = "purged" /\ \A i \in Id : i # id => task'[i] = task[i]
  BY <1>1, <1>2 DEF FeedTypes, TaskRow
<1> QED
  BY <1>3, <1>4 DEF FeedTypes, PurgeTask

LEMMA QuietKeeps ==
    ASSUME FeedInv,
           \/ \E S \in SUBSET Unlocked : PurgeEvents(S)
           \/ \E id \in Id : PurgeTask(id)
           \/ Tick \/ UNCHANGED vars
    PROVE  FeedInv'
<1>1. FeedTypes
  BY FeedInvParts
<1>2. CASE \E S \in SUBSET Unlocked : PurgeEvents(S)
  <2>1. events' \subseteq events /\ UNCHANGED <<task, sub, tx, feed, nextSeq, nextGen, now, history>>
    BY <1>2 DEF PurgeEvents
  <2>2. FeedTypes'
    BY <1>1, <2>1 DEF FeedTypes
  <2> QED
    BY <2>1, <2>2, RestKeeps
<1>3. ASSUME NEW id \in Id, PurgeTask(id) PROVE FeedInv'
  <2>1. FeedTypes' /\ UNCHANGED <<sub, events, tx, feed, nextGen, history>>
    BY <1>1, <1>3, PurgeFacts
  <2> QED
    BY <2>1, RestKeeps
<1>4. CASE Tick \/ UNCHANGED vars
  <2>1. /\ UNCHANGED <<task, sub, events, tx, feed, nextSeq, nextGen, history>>
        /\ now' = now \/ now' = now + 1
    BY <1>4 DEF Tick, vars
  <2>2. FeedTypes'
    BY <1>1, <2>1 DEF FeedTypes
  <2> QED
    BY <2>1, <2>2, RestKeeps
<1> QED
  BY <1>2, <1>3, <1>4

LEMMA FeedInvNext == ASSUME FeedInv, [Next]_vars PROVE FeedInv'
<1>1. ASSUME NEW x \in Writer, Begin(x) \/ TxEnds(x) PROVE FeedInv'
  <2>1. x \in Conn
    BY DEF Conn
  <2> QED
    BY <1>1, <2>1, BeginKeeps, SettleKeeps, AbortKeeps DEF TxEnds
<1>2. ASSUME NEW p \in Conn, Snapshot(p) PROVE FeedInv'
  BY <1>2, SnapshotKeeps
<1>3. ASSUME NEW p \in Conn, NEW id \in Id, NEW state \in State, Write(p, id, state) PROVE FeedInv'
  BY <1>3, WriteKeeps
<1>4. ASSUME NEW c \in Consumer, NEW f \in Filters, NEW b \in Backfills, Subscribe(c, f, b)
      PROVE  FeedInv'
  BY <1>4, SubscribeKeeps
<1>5. ASSUME NEW c \in Consumer, Starting(c) PROVE FeedInv'
  BY <1>5, WaitKeeps, FinishKeeps, ChunkKeeps DEF Starting
<1>6. ASSUME NEW c \in Consumer, Pull(c) \/ PullStopped(c) \/ Ack(c) \/ Leave(c) PROVE FeedInv'
  BY <1>6, PullKeeps, LeaveKeeps, SettleKeeps, ConsumersConn
<1> QED
  BY <1>1, <1>2, <1>3, <1>4, <1>5, <1>6, UnsubscribeKeeps, QuietKeeps DEF Next

LEMMA FeedInvInit == Init => FeedInv
<1> SUFFICES ASSUME Init PROVE FeedInv
  OBVIOUS
<1>1. FeedTypes
  <2>1. task \in [Id -> TaskRow]
    BY DEF Init, TaskRow
  <2> QED
    BY <2>1, NoRows DEF Init, FeedTypes
<1>2. /\ sub.gen = 0 /\ ~sub.marker /\ DOMAIN sub.pending = {} /\ history.projected = {}
      /\ history = NoHistory /\ events = {} /\ nextGen = 1
  BY DEF Init, NoSub, NoPending, NoHistory
<1>3. \A p \in Conn : Ended(tx[p]) /\ tx[p].snap.gen = 0
  BY NoRows DEF Init, Ended, Emptied, NoSub
<1>4. \A c \in Consumer : feed[c].gen = 0
  BY DEF Init, Idle
<1>5. TxKept
  BY <1>3, ConsumersConn DEF TxKept, TxSound, Ended, Emptied
<1>6. Fresh
  BY <1>2, <1>3, <1>4 DEF Fresh
<1>7. Owned
  BY <1>2, <1>3, ConsumersConn DEF Owned, Ended, Emptied
<1>8. Behind /\ Marked
  BY <1>2 DEF Behind, Marked
<1> QED
  BY <1>1, <1>5, <1>6, <1>7, <1>8 DEF FeedInv

LEMMA FeedAlways == Spec => []FeedInv
BY FeedInvInit, FeedInvNext, PTL DEF Spec

-----------------------------------------------------------------------------
\* The columns and attributes keep their types, for any interleaving.
THEOREM FeedTypeCorrect == Spec => []TypeOK
<1>1. FeedInv => TypeOK
  <2> SUFFICES ASSUME FeedInv PROVE TypeOK
    OBVIOUS
  <2>1. FeedTypes
    BY FeedInvParts
  <2>2. sub.pending \in Pendings
    BY <2>1 DEF FeedTypes, SubRow
  <2>3. DOMAIN sub.pending \in SUBSET State /\ \A s \in DOMAIN sub.pending : sub.pending[s] \in Nat
    BY <2>2, PendingFacts
  <2>4. /\ sub.gen \in Nat /\ sub.states \subseteq State /\ sub.types \subseteq TaskType
        /\ sub.marker \in BOOLEAN /\ sub.since \subseteq Int
    BY <2>1 DEF FeedTypes, SubRow
  <2>5. \A p \in Conn : /\ tx[p].phase \in {"idle", "begun", "snapped", "wrote"}
                        /\ tx[p].published \subseteq EventRow /\ tx[p].batch \subseteq EventRow
    BY <2>1 DEF FeedTypes, TxRow
  <2>6. \A c \in Consumer :
          /\ feed[c].pc \in {"idle", "capturing", "waiting", "filling", "open", "closed"}
          /\ feed[c].gen \in Nat /\ feed[c].waits \subseteq Conn
    BY <2>1 DEF FeedTypes, FeedRow
  <2> QED
    BY <2>1, <2>3, <2>4, <2>5, <2>6 DEF TypeOK, FeedTypes
<1> QED
  BY <1>1, FeedAlways, PTL

\* Nothing in the backlog was published or projected for a registration that
\* is gone, although its name may be in use again.
THEOREM BacklogKept == Spec => []BacklogOwned
<1>1. FeedInv => BacklogOwned
  BY DEF FeedInv, Owned, BacklogOwned
<1> QED
  BY <1>1, FeedAlways, PTL

\* A consumer is handed only events of the registration it joined.
THEOREM GenerationsApart == Spec => []OwnGeneration
<1>1. FeedInv => OwnGeneration
  BY DEF FeedInv, Owned, OwnGeneration
<1> QED
  BY <1>1, FeedAlways, PTL

\* An event leaves the backlog by the acknowledgement of its batch, by expiry
\* while nobody holds it, or with its registration.
THEOREM EventsKept == Spec => NoEventLost
<1>1. ASSUME FeedInv, [Next]_vars PROVE [NoEventLostStep]_vars
  <2>1. FeedTypes
    BY <1>1, FeedInvParts
  <2>2. ASSUME NEW c \in Consumer, Ack(c) PROVE NoEventLostStep
    <3>1. \A e \in events \ events' : e \in tx[c].batch
      BY <2>2 DEF Ack
    <3>2. Ended(tx'[c])
      BY <2>1, <2>2, SettleFacts, ConsumersConn
    <3> QED
      BY <3>1, <3>2 DEF NoEventLostStep, Ended
  <2>3. ASSUME Unsubscribe PROVE NoEventLostStep
    BY <2>3 DEF Unsubscribe, NoSub, NoEventLostStep
  <2>4. ASSUME NEW S \in SUBSET Unlocked, PurgeEvents(S) PROVE NoEventLostStep
    BY <2>4 DEF PurgeEvents, NoEventLostStep
  <2>5. ASSUME events \subseteq events' PROVE NoEventLostStep
    BY <2>5 DEF NoEventLostStep
  <2>6. CASE UNCHANGED vars
    BY <2>6
  <2>7. ASSUME NEW x \in Writer, Begin(x) \/ TxEnds(x) PROVE events \subseteq events'
    BY <2>7 DEF Begin, TxEnds, Commit, Abort
  <2>8. ASSUME NEW p \in Conn, Snapshot(p) \/ \E id \in Id, state \in State : Write(p, id, state)
        PROVE  events \subseteq events'
    BY <2>8 DEF Snapshot, Write
  <2>9. ASSUME NEW c \in Consumer,
               \/ \E f \in Filters, b \in Backfills : Subscribe(c, f, b)
               \/ Starting(c) \/ Pull(c) \/ PullStopped(c) \/ Leave(c)
        PROVE  events \subseteq events'
    BY <2>9 DEF Subscribe, Starting, Capture, WaitOver, ChunkStopped, ChunkFinished, BackfillChunk,
                Pull, PullStopped, Leave
  <2>10. ASSUME (\E id \in Id : PurgeTask(id)) \/ Tick PROVE events \subseteq events'
    BY <2>10 DEF PurgeTask, Tick
  <2> QED
    BY <1>1, <2>2, <2>3, <2>4, <2>5, <2>6, <2>7, <2>8, <2>9, <2>10 DEF Next
<1> QED
  BY <1>1, FeedAlways, PTL DEF Spec, NoEventLost

\* No task is projected twice in one state for one registration, whoever runs
\* the chunks and however often they are interrupted.
THEOREM ProjectedOnce == Spec => NoReprojection
<1>1. ASSUME FeedInv, [Next]_vars PROVE [NoReprojectionStep]_vars
  <2>1. FeedTypes /\ Owned /\ Behind /\ Marked
    BY <1>1, FeedInvParts
  <2>2. ASSUME events' \subseteq events PROVE NoReprojectionStep
    BY <2>2 DEF NoReprojectionStep
  <2>3. ASSUME NEW x \in Conn, Commit(x) \/ Ack(x) PROVE NoReprojectionStep
    <3>1. events' \subseteq events \cup tx[x].published
      BY <2>3 DEF Commit, Ack
    <3>2. \A e \in tx[x].published : e.from = "live"
      BY <2>1 DEF Owned
    <3> QED
      BY <3>1, <3>2 DEF NoReprojectionStep
  <2>4. ASSUME NEW c \in Consumer, BackfillChunk(c) PROVE NoReprojectionStep
    <3>1. \E state \in State : \E S : ChunkScan(state, S) /\ ChunkTold(state, S)
      BY <2>1, <2>4, ChunkFacts
    <3>2. PICK state \in State : \E S : ChunkScan(state, S) /\ ChunkTold(state, S)
      BY <3>1
    <3>3. PICK S : ChunkScan(state, S) /\ ChunkTold(state, S)
      BY <3>2
    <3>4. ASSUME NEW e \in events' \ events PROVE <<e.id, e.state>> \notin history.projected
      <4>1. e.id \in S /\ e.state = state /\ S \in SUBSET Id
        BY <3>3, <3>4 DEF ChunkTold, ChunkScan
      <4>2. state \in DOMAIN sub.pending /\ e.id > sub.pending[state]
        BY <3>3, <4>1 DEF ChunkScan
      <4>3. sub.pending \in Pendings
        BY <2>1 DEF FeedTypes, SubRow
      <4>4. sub.pending[state] \in Nat /\ e.id \in Nat
        BY <4>1, <4>2, <4>3, PendingFacts, IdFinite
      <4>5. <<e.id, state>> \in history.projected => e.id <= sub.pending[state]
        BY <2>1, <4>1, <4>2 DEF Behind
      <4> QED
        BY <4>1, <4>2, <4>4, <4>5
    <3> QED
      BY <3>4 DEF NoReprojectionStep
  <2>5. CASE UNCHANGED vars
    BY <2>5
  <2>6. ASSUME NEW x \in Writer, Begin(x) \/ Abort(x) PROVE events' \subseteq events
    BY <2>6 DEF Begin, Abort
  <2>7. ASSUME NEW p \in Conn, Snapshot(p) \/ \E id \in Id, state \in State : Write(p, id, state)
        PROVE  events' \subseteq events
    BY <2>7 DEF Snapshot, Write
  <2>8. ASSUME NEW c \in Consumer,
               \/ \E f \in Filters, b \in Backfills : Subscribe(c, f, b)
               \/ Capture(c) \/ WaitOver(c) \/ ChunkStopped(c) \/ ChunkFinished(c)
               \/ Pull(c) \/ PullStopped(c) \/ Leave(c)
        PROVE  events' \subseteq events
    BY <2>8 DEF Subscribe, Capture, WaitOver, ChunkStopped, ChunkFinished, Pull, PullStopped, Leave
  <2>9. ASSUME \/ Unsubscribe \/ \E S \in SUBSET Unlocked : PurgeEvents(S)
               \/ \E id \in Id : PurgeTask(id)
               \/ Tick
        PROVE  events' \subseteq events
    BY <2>9 DEF Unsubscribe, PurgeEvents, PurgeTask, Tick
  <2>10. Writer \in SUBSET Conn
    BY DEF Conn
  <2> QED
    BY <1>1, <2>2, <2>3, <2>4, <2>5, <2>6, <2>7, <2>8, <2>9, <2>10, ConsumersConn
       DEF Next, TxEnds, Starting
<1> QED
  BY <1>1, FeedAlways, PTL DEF Spec, NoReprojection

-----------------------------------------------------------------------------
(* GapInv, action by action.                                               *)

LEMMA GapParts ==
    FeedInv /\ GapInv =>
      /\ FeedTypes /\ TxKept /\ Fresh /\ Owned /\ Behind /\ Marked
      /\ FilterKept /\ Barrier /\ Cutover /\ InFlight /\ Covered
BY DEF FeedInv, GapInv

\* The barrier's part, when the registration stays and no transaction gets staler.
LEMMA StaleKept ==
    ASSUME Cutover, UNCHANGED sub, history'.asked = history.asked,
           \A p \in Conn : Stale(p)' => Stale(p)
    PROVE  Cutover'
BY DEF Cutover, Entire

LEMMA BarrierKept ==
    ASSUME Barrier, UNCHANGED sub, NEW x, ~Stale(x)',
           \A p \in Conn : Stale(p)' => Stale(p),
           \A c \in Consumer : \/ feed'[c].pc \notin {"waiting", "filling"}
                               \/ /\ feed'[c].pc = feed[c].pc /\ feed'[c].gen = feed[c].gen
                                  /\ feed[c].waits \subseteq feed'[c].waits \cup {x}
    PROVE  Barrier'
BY DEF Barrier

\* A transaction that was renewed, one way or another, is not stale and writes nothing yet.
Renewed(x) ==
    /\ TxElse(x) /\ ~Stale(x)' /\ tx'[x].writes = {}
    /\ tx'[x].snap = NoSub \/ tx'[x].snap = sub
    /\ \A c \in Consumer : \/ feed'[c].pc \notin {"waiting", "filling"}
                           \/ /\ feed'[c].pc = feed[c].pc /\ feed'[c].gen = feed[c].gen
                              /\ feed[c].waits \subseteq feed'[c].waits \cup {x}

LEMMA RenewedKeeps ==
    ASSUME FeedInv, GapInv, NEW x \in Conn, Renewed(x), UNCHANGED sub, history'.asked = history.asked
    PROVE  FilterKept' /\ Barrier' /\ Cutover' /\ InFlight'
<1>1. FilterKept /\ Barrier /\ Cutover /\ InFlight
  BY GapParts
<1>2. \A p \in Conn : Stale(p)' => Stale(p)
  BY DEF Renewed, TxElse, Stale
<1>3. FilterKept'
  <2>1. NoSub.gen = 0
    BY DEF NoSub
  <2> QED
    BY <1>1, <2>1 DEF FilterKept, Renewed, TxElse
<1>4. Barrier' /\ Cutover'
  BY <1>1, <1>2, BarrierKept, StaleKept DEF Renewed
<1>5. InFlight'
  BY <1>1 DEF InFlight, Renewed, TxElse
<1> QED
  BY <1>3, <1>4, <1>5

LEMMA CoveredKept ==
    ASSUME Covered, UNCHANGED <<task, sub, history>> PROVE Covered'
BY DEF Covered, Told1, ToScan

LEMMA BeginGap == ASSUME FeedInv, GapInv, NEW x \in Writer, Begin(x) PROVE GapInv'
<1>0. x \in Conn
  BY DEF Conn
<1>1. FeedTypes /\ Covered
  BY GapParts
<1>2. /\ FeedTypes' /\ TxElse(x) /\ Emptied(tx'[x]) /\ tx'[x].phase = "begun"
      /\ UNCHANGED <<task, sub, events, feed, nextGen, history>>
  BY <1>0, <1>1, BeginFacts
<1>3. Renewed(x)
  BY <1>2 DEF Renewed, Emptied, Stale
<1> QED
  BY <1>0, <1>1, <1>2, <1>3, RenewedKeeps, CoveredKept DEF GapInv

LEMMA SnapshotGap == ASSUME FeedInv, GapInv, NEW p \in Conn, Snapshot(p) PROVE GapInv'
<1>1. FeedTypes /\ TxKept /\ Covered
  BY GapParts
<1>2. /\ FeedTypes' /\ TxElse(p)
      /\ tx[p].phase = "begun" /\ tx'[p].snap = sub /\ tx'[p].writes = tx[p].writes
      /\ UNCHANGED <<task, sub, events, feed, nextGen, history>>
  BY <1>1, SnapshotFacts
<1>3. Renewed(p)
  BY <1>1, <1>2 DEF Renewed, Stale, TxKept, TxSound
<1> QED
  BY <1>1, <1>2, <1>3, RenewedKeeps, CoveredKept DEF GapInv

LEMMA EndGap ==
    ASSUME FeedInv, NEW x \in Conn, TxElse(x), Emptied(tx'[x]), tx'[x].phase \in {"idle", "begun"},
           UNCHANGED sub, Forgotten(x) \/ \E pc \in {"idle", "closed"} : \E n : LeftAt(x, pc, n)
    PROVE  Renewed(x)
<1>1. ~Stale(x)'
  BY DEF Stale
<1>2. \A c \in Consumer : \/ feed'[c].pc \notin {"waiting", "filling"}
                          \/ /\ feed'[c].pc = feed[c].pc /\ feed'[c].gen = feed[c].gen
                             /\ feed[c].waits \subseteq feed'[c].waits \cup {x}
  BY DEF Forgotten, LeftAt
<1> QED
  BY <1>1, <1>2 DEF Renewed, Emptied

LEMMA AbortGap ==
    ASSUME FeedInv, GapInv, NEW x \in Conn, Abort(x) PROVE GapInv'
<1>1. FeedTypes /\ Covered
  BY GapParts
<1>2. /\ TxElse(x) /\ Ended(tx'[x]) /\ Forgotten(x)
      /\ UNCHANGED <<task, sub, events, nextGen, history>>
  BY <1>1, AbortFacts
<1>3. Renewed(x)
  BY <1>2, EndGap DEF Ended
<1> QED
  BY <1>1, <1>2, <1>3, RenewedKeeps, CoveredKept DEF GapInv

LEMMA PullGap ==
    ASSUME FeedInv, GapInv, NEW c \in Consumer, Pull(c) \/ PullStopped(c) \/ Leave(c) PROVE GapInv'
<1>0. c \in Conn
  BY ConsumersConn
<1>1. FeedTypes /\ Covered
  BY GapParts
<1>2. /\ TxElse(c) /\ Emptied(tx'[c]) /\ tx'[c].phase \in {"idle", "begun"}
      /\ Forgotten(c) \/ LeftAt(c, "closed", feed[c].gen) \/ LeftAt(c, "idle", 0)
      /\ UNCHANGED <<task, sub, history>>
  <2>1. CASE Pull(c)
    BY <1>1, <2>1, PullFacts
  <2>2. CASE PullStopped(c) \/ Leave(c)
    BY <1>1, <2>2, LeaveFacts DEF Ended
  <2> QED
    BY <2>1, <2>2
<1>3. Renewed(c)
  BY <1>0, <1>2, EndGap
<1> QED
  BY <1>0, <1>1, <1>2, <1>3, RenewedKeeps, CoveredKept DEF GapInv

\* An up-to-date snapshot has the filter in force, so the write publishes.
LEMMA WriteGap ==
    ASSUME FeedInv, GapInv, NEW p \in Conn, NEW id \in Id, NEW state \in State, Write(p, id, state)
    PROVE  GapInv'
<1>1. FeedTypes /\ FilterKept /\ Barrier /\ Cutover /\ InFlight /\ Covered
  BY GapParts
<1>2. /\ TxElse(p) /\ Wrote(p, id, state) /\ tx[p].phase = "snapped"
      /\ UNCHANGED <<task, sub, events, feed, nextGen, history>>
  BY <1>1, WriteFacts
<1>3. \A q \in Conn : Stale(q)' => Stale(q)
  BY <1>2 DEF Stale, TxElse, Wrote
<1>4. FilterKept'
  BY <1>1, <1>2 DEF FilterKept, TxElse, Wrote
<1>5. Cutover'
  BY <1>1, <1>2, <1>3, StaleKept
<1>6. Barrier'
  BY <1>1, <1>2, <1>3 DEF Barrier
<1>7. InFlight'
  <2>1. ASSUME sub.gen # 0, tx[p].snap.gen = sub.gen, Wants(sub, id, state)
        PROVE  \E e \in tx'[p].published : e.id = id /\ e.version = task[id].version + 1
    <3>1. Publishes(p, id, state)
      BY <1>1, <2>1 DEF Publishes, Wants, FilterKept
    <3>2. tx'[p].published = {NewEvent(p, id, state)}
      BY <1>2, <3>1 DEF Wrote
    <3>3. NewEvent(p, id, state).id = id /\ NewEvent(p, id, state).version = task[id].version + 1
      BY DEF NewEvent
    <3> QED
      BY <3>2, <3>3
  <2>2. ASSUME NEW w \in tx'[p].writes
        PROVE  w.id = id /\ w.row.state = state /\ w.row.version = task[id].version + 1
    BY <1>2, <2>2 DEF Wrote, NewRow
  <2>3. ASSUME NEW w \in tx'[p].writes, sub'.gen # 0, tx'[p].snap.gen = sub'.gen,
               Wants(sub', w.id, w.row.state)
        PROVE  \E e \in tx'[p].published : e.id = w.id /\ e.version = w.row.version
    <3>1. w.id = id /\ w.row.state = state /\ sub' = sub /\ tx'[p].snap = tx[p].snap
      BY <1>2, <2>2 DEF Wrote
    <3>2. sub.gen # 0 /\ tx[p].snap.gen = sub.gen /\ Wants(sub, id, state)
      BY <2>3, <3>1 DEF Wants
    <3> QED
      BY <2>1, <2>2, <3>2
  <2> QED
    BY <1>1, <1>2, <2>3 DEF InFlight, TxElse
<1> QED
  BY <1>1, <1>2, <1>4, <1>5, <1>6, <1>7, CoveredKept DEF GapInv

\* What a commit installs was told, or its transaction is stale and the scan,
\* which has not begun, will find it.
LEMMA SettleGap == ASSUME FeedInv, GapInv, NEW x \in Conn, Commit(x) \/ Ack(x) PROVE GapInv'
<1>1. FeedTypes /\ TxKept /\ Cutover /\ InFlight /\ Covered
  BY GapParts
<1>2. /\ TxElse(x) /\ Ended(tx'[x]) /\ Forgotten(x)
      /\ Installed(x) /\ Learned(tx[x].published)
      /\ UNCHANGED <<sub, nextGen>>
  BY <1>1, SettleFacts
<1>3. Renewed(x)
  BY <1>2, EndGap DEF Ended
<1>4. history'.asked = history.asked /\ history'.since = history.since
  BY <1>2 DEF Learned
<1>5. Covered'
  <2> SUFFICES ASSUME sub.gen # 0, history.asked, NEW id \in Id,
                      Wants(sub, id, task'[id].state), InWindow(task'[id], history.since)
               PROVE  \/ [id |-> id, version |-> task'[id].version] \in history'.told
                      \/ ToScan(id, task'[id].state)
    BY <1>2, <1>4 DEF Covered, Told1, ToScan
  <2>1. CASE task'[id] = task[id]
    <3>1. Told1(id, task[id]) \/ ToScan(id, task[id].state)
      BY <1>1, <2>1 DEF Covered
    <3> QED
      BY <1>2, <2>1, <3>1 DEF Told1, Learned
  <2>2. ASSUME NEW w \in tx[x].writes, w.id = id, task'[id] = w.row
        PROVE  \/ [id |-> id, version |-> task'[id].version] \in history'.told
               \/ ToScan(id, task'[id].state)
    <3>1. CASE tx[x].snap.gen = sub.gen
      <4>1. PICK e \in tx[x].published : e.id = w.id /\ e.version = w.row.version
        BY <1>1, <2>2, <3>1 DEF InFlight
      <4> QED
        BY <1>2, <2>2, <4>1 DEF Learned
    <3>2. CASE tx[x].snap.gen # sub.gen
      <4>1. Stale(x)
        BY <1>1, <2>2, <3>2 DEF TxKept, TxSound, Stale
      <4>2. Entire
        BY <1>1, <4>1 DEF Cutover
      <4>3. task'[id].state \in sub.states
        BY DEF Wants
      <4>4. id > 0
        BY IdAssumption DEF IdAssumption
      <4> QED
        BY <4>2, <4>3, <4>4 DEF Entire, ToScan
    <3> QED
      BY <3>1, <3>2
  <2>3. task'[id] = task[id] \/ \E w \in tx[x].writes : w.id = id /\ task'[id] = w.row
    BY <1>2 DEF Installed
  <2> QED
    BY <2>1, <2>2, <2>3
<1> QED
  BY <1>2, <1>3, <1>4, <1>5, RenewedKeeps DEF GapInv

LEMMA SubscribeGap ==
    ASSUME OneFilter, FeedInv, GapInv,
           NEW c \in Consumer, NEW f \in Filters, NEW b \in Backfills, Subscribe(c, f, b)
    PROVE  GapInv'
<1>1. FeedTypes /\ TxKept /\ Fresh /\ FilterKept /\ Barrier /\ Cutover /\ InFlight /\ Covered
  BY GapParts
<1>2. /\ FeedTypes' /\ FeedElse(c) /\ feed[c].pc = "idle"
      /\ feed'[c].pc \in {"capturing", "open"} /\ feed'[c].gen = sub'.gen
      /\ sub'.states = f.states /\ sub'.types = f.types
      /\ NewRegistration(f, b) \/ Joined
      /\ UNCHANGED <<task, events, tx>>
  BY <1>1, SubscribeFacts
<1>3. \A g \in Filters : sub'.states = g.states /\ sub'.types = g.types
  BY <1>2 DEF OneFilter
<1>4. CASE NewRegistration(f, b)
  <2>1. /\ \A p \in Conn : tx[p].snap.gen # sub'.gen
        /\ \A d \in Consumer : d # c => feed'[d].gen # sub'.gen
    BY <1>1, <1>2, <1>4 DEF Fresh, NewRegistration, FeedElse, FeedTypes, TxRow, SubRow, FeedRow
  <2>2. FilterKept' /\ InFlight'
    BY <1>2, <1>3, <2>1 DEF FilterKept, InFlight
  <2>3. Barrier'
    BY <1>2, <2>1 DEF Barrier
  <2>4. history'.asked => Entire'
    BY <1>2, <1>4 DEF NewRegistration, Entire
  <2>5. Cutover'
    BY <2>4 DEF Cutover
  <2>6. \A id \in Id : id > 0
    BY IdAssumption DEF IdAssumption
  <2>7. Covered'
    BY <2>4, <2>6 DEF Covered, Entire, Wants, ToScan
  <2> QED
    BY <2>2, <2>3, <2>5, <2>7 DEF GapInv
<1>5. CASE Joined
  <2>1. sub'.gen = sub.gen /\ sub'.states = sub.states /\ sub'.types = sub.types
        /\ sub'.pending = sub.pending /\ history' = history
    BY <1>1, <1>2, <1>5 DEF Joined, FilterKept
  <2>2. FilterKept'
    BY <1>1, <1>2, <1>3, <2>1 DEF FilterKept
  <2>3. \A p \in Conn : Stale(p)' <=> Stale(p)
    BY <1>2, <2>1 DEF Stale
  <2>4. Barrier'
    BY <1>1, <1>2, <2>1, <2>3 DEF Barrier, FeedElse
  <2>5. Cutover'
    BY <1>1, <2>1, <2>3 DEF Cutover, Entire
  <2>6. InFlight'
    BY <1>1, <1>2, <2>1 DEF InFlight, Wants
  <2>7. Covered'
    BY <1>1, <1>2, <2>1 DEF Covered, Wants, Told1, ToScan
  <2> QED
    BY <2>2, <2>4, <2>5, <2>6, <2>7 DEF GapInv
<1> QED
  BY <1>2, <1>4, <1>5

\* The capture sees every open transaction, and a consumer that starts has none.
LEMMA CaptureGap == ASSUME FeedInv, GapInv, NEW c \in Consumer, Capture(c) PROVE GapInv'
<1>1. FeedTypes /\ TxKept /\ FilterKept /\ Barrier /\ Cutover /\ InFlight /\ Covered
  BY GapParts
<1>2. /\ FeedElse(c) /\ feed[c].pc = "capturing"
      /\ feed'[c].pc = "waiting" /\ feed'[c].gen = feed[c].gen /\ feed'[c].waits = OpenTx(c)
      /\ UNCHANGED <<task, sub, events, tx, nextGen, history>>
  BY <1>1, CaptureFacts
<1>3. \A p \in Conn : Stale(p) => p \in OpenTx(c)
  BY <1>1, <1>2 DEF Stale, OpenTx, TxKept
<1>4. \A p \in Conn : Stale(p)' <=> Stale(p)
  BY <1>2 DEF Stale
<1>5. Barrier'
  BY <1>1, <1>2, <1>3, <1>4 DEF Barrier, FeedElse
<1>6. Cutover'
  BY <1>1, <1>2, <1>4, StaleKept
<1>7. FilterKept' /\ InFlight'
  BY <1>1, <1>2 DEF FilterKept, InFlight, Wants
<1> QED
  BY <1>1, <1>2, <1>5, <1>6, <1>7, CoveredKept DEF GapInv

LEMMA WaitGap ==
    ASSUME FeedInv, GapInv, NEW c \in Consumer, WaitOver(c) \/ ChunkStopped(c) PROVE GapInv'
<1>1. FeedTypes /\ FilterKept /\ Barrier /\ Cutover /\ InFlight /\ Covered
  BY GapParts
<1>2. /\ FeedElse(c) /\ feed'[c].gen = feed[c].gen
      /\ \/ feed'[c].pc = "closed"
         \/ feed'[c].pc = "filling" /\ feed[c].pc = "waiting" /\ feed[c].waits = {}
      /\ UNCHANGED <<task, sub, events, tx, nextGen, history>>
  BY <1>1, WaitFacts
<1>3. \A p \in Conn : Stale(p)' <=> Stale(p)
  BY <1>2 DEF Stale
<1>4. Barrier'
  BY <1>1, <1>2, <1>3 DEF Barrier, FeedElse
<1>5. Cutover'
  BY <1>1, <1>2, <1>3, StaleKept
<1>6. FilterKept' /\ InFlight'
  BY <1>1, <1>2 DEF FilterKept, InFlight, Wants
<1> QED
  BY <1>1, <1>2, <1>4, <1>5, <1>6, CoveredKept DEF GapInv

LEMMA FinishGap == ASSUME FeedInv, GapInv, NEW c \in Consumer, ChunkFinished(c) PROVE GapInv'
<1>1. FeedTypes /\ FilterKept /\ Barrier /\ Cutover /\ InFlight /\ Covered
  BY GapParts
<1>2. /\ FeedElse(c) /\ feed'[c].pc = "open"
      /\ sub'.gen = sub.gen /\ sub'.states = sub.states /\ sub'.types = sub.types
      /\ sub'.pending = sub.pending
      /\ UNCHANGED <<task, events, tx, nextGen, history>>
  BY <1>1, FinishFacts
<1>3. \A p \in Conn : Stale(p)' <=> Stale(p)
  BY <1>2 DEF Stale
<1>4. Barrier'
  BY <1>1, <1>2, <1>3 DEF Barrier, FeedElse
<1>5. Cutover'
  BY <1>1, <1>2, <1>3 DEF Cutover, Entire
<1>6. FilterKept'
  BY <1>1, <1>2 DEF FilterKept
<1>7. InFlight'
  BY <1>1, <1>2 DEF InFlight, Wants
<1>8. Covered'
  BY <1>1, <1>2 DEF Covered, Wants, Told1, ToScan
<1> QED
  BY <1>4, <1>5, <1>6, <1>7, <1>8 DEF GapInv

\* A chunk tells of every row its cursor passes.
LEMMA ChunkGap == ASSUME FeedInv, GapInv, NEW c \in Consumer, BackfillChunk(c) PROVE GapInv'
<1>1. FeedTypes /\ Marked /\ FilterKept /\ Barrier /\ Cutover /\ InFlight /\ Covered
  BY GapParts
<1>2. /\ FeedElse(c) /\ ChunkSub
      /\ feed[c].pc = "filling" /\ feed[c].gen = sub.gen /\ DOMAIN sub.pending # {}
      /\ feed'[c].pc \in {"open", "filling"} /\ feed'[c].gen = feed[c].gen
      /\ \E state \in State : \E S : ChunkScan(state, S) /\ ChunkTold(state, S)
      /\ UNCHANGED <<task, tx, nextGen>>
  BY <1>1, ChunkFacts
<1>3. PICK state \in State : \E S : ChunkScan(state, S) /\ ChunkTold(state, S)
  BY <1>2
<1>4. PICK S : ChunkScan(state, S) /\ ChunkTold(state, S)
  BY <1>3
<1>5. sub.gen # 0 /\ history.asked /\ sub.since = history.since
  BY <1>1, <1>2 DEF Marked
<1>6. sub'.gen = sub.gen /\ sub'.states = sub.states /\ sub'.types = sub.types
  BY <1>2 DEF ChunkSub
<1>7. \A p \in Conn : ~Stale(p) /\ ~Stale(p)'
  <2>1. \A p \in Conn : ~Stale(p)
    BY <1>1, <1>2, <1>5 DEF Barrier
  <2> QED
    BY <1>2, <1>6, <2>1 DEF Stale
<1>8. Barrier' /\ Cutover'
  BY <1>7 DEF Barrier, Cutover
<1>9. FilterKept'
  BY <1>1, <1>2, <1>6 DEF FilterKept
<1>10. InFlight'
  BY <1>1, <1>2, <1>6 DEF InFlight, Wants
<1>11. Covered'
  <2> SUFFICES ASSUME NEW id \in Id, Wants(sub', id, task[id].state),
                      InWindow(task[id], history.since)
               PROVE  \/ [id |-> id, version |-> task[id].version] \in history'.told
                      \/ /\ task[id].state \in DOMAIN sub'.pending
                         /\ id > sub'.pending[task[id].state]
    BY <1>2, <1>4 DEF Covered, Told1, ToScan, ChunkTold
  <2>1. Wants(sub, id, task[id].state) /\ TypeOf[id] \in sub.types
    BY <1>6 DEF Wants
  <2>2. Told1(id, task[id]) \/ ToScan(id, task[id].state)
    BY <1>1, <1>5, <2>1 DEF Covered
  <2>3. CASE Told1(id, task[id])
    BY <1>4, <2>3 DEF Told1, ChunkTold
  <2>4. CASE ToScan(id, task[id].state) /\ task[id].state # state
    BY <1>4, <2>4 DEF ToScan, ChunkScan
  <2>5. CASE id \in S
    BY <1>4, <2>5 DEF ChunkTold
  <2>6. CASE ToScan(id, task[id].state) /\ task[id].state = state /\ id \notin S
    BY <1>4, <1>5, <2>1, <2>6 DEF ToScan, ChunkScan
  <2> QED
    BY <2>2, <2>3, <2>4, <2>5, <2>6
<1> QED
  BY <1>8, <1>9, <1>10, <1>11 DEF GapInv

LEMMA UnsubscribeGap == ASSUME FeedInv, GapInv, Unsubscribe PROVE GapInv'
<1>1. sub'.gen = 0
  BY DEF Unsubscribe, NoSub
<1> QED
  BY <1>1 DEF GapInv, FilterKept, Barrier, Cutover, InFlight, Covered

\* A purged task is in no state anybody asks for.
LEMMA QuietGap ==
    ASSUME FeedInv, GapInv,
           \/ \E S \in SUBSET Unlocked : PurgeEvents(S)
           \/ \E id \in Id : PurgeTask(id)
           \/ Tick \/ UNCHANGED vars
    PROVE  GapInv'
<1>1. FeedTypes /\ FilterKept /\ Barrier /\ Cutover /\ InFlight /\ Covered
  BY GapParts
<1>2. UNCHANGED <<sub, tx, feed, history>>
  BY DEF PurgeEvents, PurgeTask, Tick, vars
<1>3. \A p \in Conn : Stale(p)' <=> Stale(p)
  BY <1>2 DEF Stale
<1>4. Barrier'
  BY <1>1, <1>2, <1>3 DEF Barrier
<1>5. Cutover'
  BY <1>1, <1>2, <1>3, StaleKept
<1>6. FilterKept' /\ InFlight'
  BY <1>1, <1>2 DEF FilterKept, InFlight, Wants
<1>7. CASE UNCHANGED task
  BY <1>1, <1>2, <1>4, <1>5, <1>6, <1>7, CoveredKept DEF GapInv
<1>8. ASSUME NEW id \in Id, PurgeTask(id) PROVE GapInv'
  <2>1. task'[id].state = "purged" /\ \A i \in Id : i # id => task'[i] = task[i]
    BY <1>1, <1>8, PurgeFacts
  <2>2. "purged" \notin sub.states
    BY <1>1 DEF FeedTypes, SubRow, State, Active, Terminal
  <2>3. Covered'
    BY <1>1, <1>2, <2>1, <2>2 DEF Covered, Wants, Told1, ToScan
  <2> QED
    BY <1>4, <1>5, <1>6, <2>3 DEF GapInv
<1>9. UNCHANGED task \/ \E id \in Id : PurgeTask(id)
  BY DEF PurgeEvents, Tick, vars
<1> QED
  BY <1>7, <1>8, <1>9

LEMMA GapInvNext == ASSUME OneFilter, FeedInv, GapInv, [Next]_vars PROVE GapInv'
<1>1. ASSUME NEW x \in Writer, Begin(x) \/ TxEnds(x) PROVE GapInv'
  <2>1. x \in Conn
    BY DEF Conn
  <2> QED
    BY <1>1, <2>1, BeginGap, SettleGap, AbortGap DEF TxEnds
<1>2. ASSUME NEW p \in Conn, Snapshot(p) PROVE GapInv'
  BY <1>2, SnapshotGap
<1>3. ASSUME NEW p \in Conn, NEW id \in Id, NEW state \in State, Write(p, id, state) PROVE GapInv'
  BY <1>3, WriteGap
<1>4. ASSUME NEW c \in Consumer, NEW f \in Filters, NEW b \in Backfills, Subscribe(c, f, b)
      PROVE  GapInv'
  BY <1>4, SubscribeGap
<1>5. ASSUME NEW c \in Consumer, Starting(c) PROVE GapInv'
  BY <1>5, CaptureGap, WaitGap, FinishGap, ChunkGap DEF Starting
<1>6. ASSUME NEW c \in Consumer, Pull(c) \/ PullStopped(c) \/ Ack(c) \/ Leave(c) PROVE GapInv'
  BY <1>6, PullGap, SettleGap, ConsumersConn
<1> QED
  BY <1>1, <1>2, <1>3, <1>4, <1>5, <1>6, UnsubscribeGap, QuietGap DEF Next

LEMMA GapInvInit == Init => GapInv
<1> SUFFICES ASSUME Init PROVE GapInv
  OBVIOUS
<1>1. sub.gen = 0 /\ \A p \in Conn : tx[p].writes = {}
  BY DEF Init, NoSub, NoTx
<1> QED
  BY <1>1 DEF GapInv, FilterKept, Barrier, Cutover, InFlight, Covered

\* When a backfill is over, its registration was told of every task it asks for
\* in the task's present state: no transaction that read the subscriptions
\* before the registration slipped between the snapshot and the live events.
\* Consumers of the name agree on the filter: one that widens it asks for no
\* backfill of what it adds.
THEOREM NoGaps == ASSUME OneFilter PROVE Spec => []NoGap
<1>1. FeedInv /\ GapInv => NoGap
  <2> SUFFICES ASSUME FeedInv, GapInv, sub.gen # 0, history.asked, ~sub.marker, NEW id \in Id,
                      Wants(sub, id, task[id].state), InWindow(task[id], history.since)
               PROVE  [id |-> id, version |-> task[id].version] \in history.told
    BY DEF NoGap
  <2>1. Marked /\ Covered
    BY GapParts
  <2>2. Told1(id, task[id]) \/ ToScan(id, task[id].state)
    BY <2>1 DEF Covered
  <2>3. ~ToScan(id, task[id].state)
    BY <2>1 DEF Marked, ToScan
  <2> QED
    BY <2>2, <2>3 DEF Told1
<1>2. FeedInv /\ GapInv /\ [Next]_vars => FeedInv' /\ GapInv'
  BY FeedInvNext, GapInvNext
<1> QED
  BY <1>1, <1>2, FeedInvInit, GapInvInit, PTL DEF Spec
=============================================================================
