------------------------------ MODULE TaskStore ------------------------------
(***************************************************************************)
(* The PostgreSQL side of Fronta: the tables fronta.tasks and              *)
(* fronta.task_types, and every statement of store.py, claim.sql and       *)
(* complete.sql that changes a task.  Each statement is one transaction    *)
(* and runs under the row locks it takes, so each is one atomic action.    *)
(*                                                                         *)
(* Data that no property tells apart is abstracted: a progress, result or  *)
(* error document is the execution token of the attempt that wrote it; an  *)
(* execution token (a fresh uuid per claim, only ever compared within one  *)
(* row) is the row's claim number.  Zero is SQL NULL for both.             *)
(***************************************************************************)
EXTENDS Integers, Sequences, FiniteSets

CONSTANTS Id, TaskType, Key, CKey, Worker, Sub,
          None,            \* SQL NULL for a key or a worker
          Budgets,         \* the max_attempts a policy may carry
          Limits,          \* the limits a definition may publish (0 is NULL)
          Filters,         \* the state sets a subscription may name
          RunDelays,       \* how far in the future an enqueue may schedule
          Accepts,         \* Accepts[w]: the types worker w was built with
          LeaseS, RetentionS, BackoffBase, BackoffFactor, BackoffCap,
          BatchLimit,      \* the 256 of claims, completions and releases
          MaxAttempt, MaxNow, MaxEvents   \* bounds of the checked instance

ASSUME IdAssumption == IsFiniteSet(Id)      \* tasks.id is a bigint
ASSUME NoneAssumption == None \notin TaskType \cup Key \cup CKey \cup Worker
ASSUME PolicyAssumption ==
    /\ Budgets \subseteq Nat \ {0}
    /\ Limits \subseteq Nat
    /\ RunDelays \subseteq Nat
    /\ LeaseS \in Nat \ {0} /\ RetentionS \in Nat
    /\ BackoffBase \in Nat /\ BackoffFactor \in Nat /\ BackoffCap \in Nat
    /\ BackoffBase <= BackoffCap /\ BackoffFactor >= 1
ASSUME AcceptsAssumption == Accepts \in [Worker -> SUBSET TaskType]
ASSUME FilterAssumption ==
    Filters \subseteq SUBSET {"queued", "running", "succeeded", "failed", "cancelled"}
ASSUME BoundAssumption ==
    BatchLimit \in Nat \ {0} /\ MaxAttempt \in Nat /\ MaxNow \in Nat /\ MaxEvents \in Nat

VARIABLES task,    \* fronta.tasks, one record per id
          types,   \* fronta.task_types
          subs,    \* fronta.subscriptions
          events,  \* fronta.events: per subscription and task, in seq order
          now      \* the database clock

storeVars == <<task, types, subs, events, now>>

NoTime == -1
Time == Nat \cup {NoTime}
Active == {"queued", "running"}
Terminal == {"succeeded", "failed", "cancelled"}
State == Active \cup Terminal
Kinds == {"succeed", "fail", "fail_final", "cancel", "release"}

Row == [state: State \cup {"absent", "purged"}, type: TaskType \cup {None},
        key: Key \cup {None}, concurrency_key: CKey \cup {None},
        max_attempts: Nat, attempt: Nat, failures: Nat, token: Nat,
        lease_until: Time, worker: Worker \cup {None}, cancel_requested: BOOLEAN,
        run_at: Nat, finished_at: Time, progress: Nat, result: Nat, error: Nat]

TypeRow == [published: BOOLEAN, paused: BOOLEAN,
            max_concurrency: Nat, max_concurrency_per_key: Nat]

SubRow == [registered: BOOLEAN, states: SUBSET State, types: SUBSET TaskType]
Event == [state: State, attempt: Nat]

\* An id the identity column has not allocated yet (or a deleted row).
NoRow == [state |-> "absent", type |-> None, key |-> None, concurrency_key |-> None,
          max_attempts |-> 0, attempt |-> 0, failures |-> 0, token |-> 0,
          lease_until |-> NoTime, worker |-> None, cancel_requested |-> FALSE,
          run_at |-> 0, finished_at |-> NoTime, progress |-> 0, result |-> 0, error |-> 0]
NoSub == [registered |-> FALSE, states |-> {}, types |-> {}]

-----------------------------------------------------------------------------
(* What each statement writes into one row.                                *)

\* _BACKOFF: min(cap, base * factor^failures) * (0.5 + 0.5 * random()).
BackoffBound(failures) ==
    LET d == BackoffBase * BackoffFactor ^ (IF failures < 64 THEN failures ELSE 64)
    IN  IF d < BackoffCap THEN d ELSE BackoffCap
Backoff(failures) ==
    {d \in 0..BackoffCap : d <= BackoffBound(failures) /\ 2 * d >= BackoffBound(failures)}

\* _ENQUEUE.
NewRow(type, key, ckey, max_attempts, delay) ==
    [NoRow EXCEPT !.state = "queued", !.type = type, !.key = key,
                  !.concurrency_key = ckey, !.max_attempts = max_attempts,
                  !.run_at = now + delay]

\* The UPDATE that ends claim.sql.
Claimed(r, w) ==
    [r EXCEPT !.state = "running", !.attempt = r.attempt + 1, !.token = r.attempt + 1,
              !.lease_until = now + LeaseS, !.worker = w, !.progress = 0]

\* complete.sql: the outcome of the attempt that holds the row's token.
RetriesOnceMore(r) == r.failures < r.max_attempts
Retries(r) == r.failures + 1 < r.max_attempts
CompletedStateIsKind(r, kind) == kind
CompletedState(r, kind) ==
    CASE kind = "succeed"    -> "succeeded"
      [] kind = "fail_final" -> "failed"
      [] kind = "cancel"     -> "cancelled"
      [] kind = "release"    -> IF r.cancel_requested THEN "cancelled" ELSE "queued"
      [] kind = "fail"       -> IF r.cancel_requested THEN "cancelled"
                                ELSE IF Retries(r) THEN "queued" ELSE "failed"
Completed(r, token, kind, delay) ==
    LET charged == kind \in {"fail", "fail_final"}
    IN  [r EXCEPT !.state = CompletedState(r, kind),
                  !.result = IF kind = "succeed" THEN token ELSE r.result,
                  !.error = IF charged THEN token ELSE r.error,
                  !.failures = IF charged THEN r.failures + 1 ELSE r.failures,
                  !.run_at = IF kind = "release" THEN now
                             ELSE IF kind = "fail" /\ ~r.cancel_requested /\ Retries(r)
                                  THEN now + delay ELSE r.run_at,
                  !.finished_at = IF \/ kind \in {"succeed", "fail_final", "cancel"}
                                     \/ r.cancel_requested
                                     \/ kind = "fail" /\ ~Retries(r)
                                  THEN now ELSE NoTime,
                  !.token = 0, !.lease_until = NoTime]

\* _REAP: the lease ran out; a pending cancellation is honoured without a charge.
ReapedIgnoringCancel(r, delay) ==
    [r EXCEPT !.state = IF Retries(r) THEN "queued" ELSE "failed",
              !.failures = r.failures + 1, !.error = r.attempt,
              !.run_at = IF Retries(r) THEN now + delay ELSE r.run_at,
              !.finished_at = IF Retries(r) THEN NoTime ELSE now,
              !.token = 0, !.lease_until = NoTime]
ReapedUncharged(r, delay) ==
    [ReapedIgnoringCancel(r, delay) EXCEPT !.failures = r.failures]
ReapedKeepingToken(r, delay) ==
    [ReapedIgnoringCancel(r, delay) EXCEPT !.token = r.token]
Reaped(r, delay) ==
    LET charged == ~r.cancel_requested
    IN  [r EXCEPT !.state = IF r.cancel_requested THEN "cancelled"
                            ELSE IF Retries(r) THEN "queued" ELSE "failed",
                  !.failures = IF charged THEN r.failures + 1 ELSE r.failures,
                  !.error = IF charged THEN r.attempt ELSE r.error,
                  !.run_at = IF charged /\ Retries(r) THEN now + delay ELSE r.run_at,
                  !.finished_at = IF r.cancel_requested \/ ~Retries(r) THEN now ELSE NoTime,
                  !.token = 0, !.lease_until = NoTime]

\* _REQUEST_CANCEL: a queued task is cancelled at once, a running one is flagged.
CancelRequested(r) ==
    [r EXCEPT !.cancel_requested = TRUE,
              !.state = IF r.state = "queued" THEN "cancelled" ELSE r.state,
              !.finished_at = IF r.state = "queued" THEN now ELSE r.finished_at]

\* _REQUEUE: attempt, result, error and progress are kept.
Requeued(r) ==
    [r EXCEPT !.state = "queued", !.run_at = now, !.failures = 0,
              !.cancel_requested = FALSE, !.finished_at = NoTime,
              !.token = 0, !.lease_until = NoTime]

\* state = 'running' AND token = ...: the fence of every write of an attempt.
Unfenced(r, token) == r.state = "running"
Holds(r, token) == r.state = "running" /\ r.token = token

-----------------------------------------------------------------------------
(* _PUBLISHED: the statement that changes rows also inserts their events,  *)
(* one for each subscription whose filter the new row matches.             *)
Matches(s, r) == subs[s].registered /\ r.state \in subs[s].states /\ r.type \in subs[s].types
Publish(S) ==
    events' = [s \in Sub |-> [id \in Id |->
        IF id \in S /\ Matches(s, task'[id])
        THEN Append(events[s][id], [state |-> task'[id].state, attempt |-> task'[id].attempt])
        ELSE events[s][id]]]

\* The partial unique index tasks_active_key_uidx.
ActiveDuplicate(type, key) ==
    key # None /\ \E id \in Id : task[id].type = type /\ task[id].key = key
                                 /\ task[id].state \in Active

\* store.enqueue when no active task has the key; with one, it writes nothing.
Enqueue(id, type, key, ckey, max_attempts, delay) ==
    /\ task[id].state = "absent"
    /\ ~ActiveDuplicate(type, key)
    /\ task' = [task EXCEPT ![id] = NewRow(type, key, ckey, max_attempts, delay)]
    /\ Publish({id})
    /\ UNCHANGED <<types, subs, now>>

\* The admission loop of claim.sql.  Row locks (SKIP LOCKED), the byte cap and
\* the deadline may leave any eligible row out, so S is any admissible set.
Running(type) == {id \in Id : task[id].state = "running" /\ task[id].type = type}
RunningKey(type, k) == {id \in Running(type) : task[id].concurrency_key = k}
Due(w, id) ==
    /\ task[id].state = "queued" /\ task[id].run_at <= now
    /\ task[id].type \in Accepts[w]
Fits(limit, running, S) ==
    limit = 0 \/ S = {} \/ Cardinality(running) + Cardinality(S) <= limit
Admits(type, S) ==
    LET mine == {id \in S : task[id].type = type}
        ty   == types[type]
    IN  mine # {} =>
          /\ ty.published /\ ~ty.paused
          /\ Fits(ty.max_concurrency, Running(type), mine)
          /\ \A k \in CKey : Fits(ty.max_concurrency_per_key, RunningKey(type, k),
                                  {id \in mine : task[id].concurrency_key = k})
Claim(w, S) ==
    /\ S # {} /\ Cardinality(S) <= BatchLimit
    /\ \A id \in S : Due(w, id) /\ task[id].attempt < MaxAttempt
    /\ \A type \in TaskType : Admits(type, S)
    /\ task' = [id \in Id |-> IF id \in S THEN Claimed(task[id], w) ELSE task[id]]
    /\ Publish(S)
    /\ UNCHANGED <<types, subs, now>>

\* _HEARTBEAT: only rows whose token still holds are renewed.
Heartbeat(held) ==
    /\ task' = [id \in Id |-> IF id \in DOMAIN held /\ Holds(task[id], held[id])
                              THEN [task[id] EXCEPT !.lease_until = now + LeaseS]
                              ELSE task[id]]
    /\ UNCHANGED <<types, subs, events, now>>

\* _PROGRESS.
SetProgress(id, token) ==
    /\ Holds(task[id], token)
    /\ task' = [task EXCEPT ![id].progress = token]
    /\ UNCHANGED <<types, subs, events, now>>

\* store.complete: a batch of distinct ids, each row fenced on its own.
Applies(c, id) ==
    /\ id \in DOMAIN c /\ Holds(task[id], c[id].token)
    /\ c[id].kind = "cancel" => task[id].cancel_requested
Delays == [Id -> 0..BackoffCap]
Complete(c) ==
    LET applied == {id \in Id : Applies(c, id)}
    IN  /\ Cardinality(DOMAIN c) <= BatchLimit
        /\ \E delay \in Delays :
             /\ \A id \in Id : delay[id] \in Backoff(task[id].failures)
             /\ task' = [id \in Id |-> IF id \in applied
                           THEN Completed(task[id], c[id].token, c[id].kind, delay[id])
                           ELSE task[id]]
        /\ Publish(applied)
        /\ UNCHANGED <<types, subs, now>>

\* _ORPHANS: releases rows of worker w that it does not track, at most a batch.
Orphans(w, live) == {id \in Id \ live : task[id].state = "running" /\ task[id].worker = w}
ReleaseOrphans(w, live, S) ==
    /\ S \subseteq Orphans(w, live)
    /\ Cardinality(S) = IF Cardinality(Orphans(w, live)) < BatchLimit
                        THEN Cardinality(Orphans(w, live)) ELSE BatchLimit
    /\ task' = [id \in Id |-> IF id \in S
                              THEN Completed(task[id], task[id].token, "release", 0)
                              ELSE task[id]]
    /\ Publish(S)
    /\ UNCHANGED <<types, subs, now>>

\* store.request_cancel; the event only when the row became cancelled.
RequestCancel(id) ==
    /\ task[id].state \in Active
    /\ task' = [task EXCEPT ![id] = CancelRequested(task[id])]
    /\ Publish(IF task[id].state = "queued" THEN {id} ELSE {})
    /\ UNCHANGED <<types, subs, now>>

\* store.reap; locked rows are skipped, so S is any set of expired rows.
ReapSilently(S) ==
    /\ S # {} /\ \A id \in S : task[id].state = "running" /\ task[id].lease_until < now
    /\ \E delay \in Delays :
         /\ \A id \in Id : delay[id] \in Backoff(task[id].failures)
         /\ task' = [id \in Id |-> IF id \in S THEN Reaped(task[id], delay[id]) ELSE task[id]]
    /\ UNCHANGED <<types, subs, events, now>>
Reap(S) ==
    /\ S # {} /\ \A id \in S : task[id].state = "running" /\ task[id].lease_until < now
    /\ \E delay \in Delays :
         /\ \A id \in Id : delay[id] \in Backoff(task[id].failures)
         /\ task' = [id \in Id |-> IF id \in S THEN Reaped(task[id], delay[id]) ELSE task[id]]
    /\ Publish(S)
    /\ UNCHANGED <<types, subs, now>>

\* store.requeue; the unique index turns it down while a duplicate is active.
RequeueAlways(id) ==
    /\ task[id].state \in {"failed", "cancelled"}
    /\ \A s \in Sub : Len(events[s][id]) < MaxEvents
    /\ task' = [task EXCEPT ![id] = Requeued(task[id])]
    /\ Publish({id})
    /\ UNCHANGED <<types, subs, now>>
Requeue(id) ==
    /\ task[id].state \in {"failed", "cancelled"}
    /\ ~ActiveDuplicate(task[id].type, task[id].key)
    /\ \A s \in Sub : Len(events[s][id]) < MaxEvents
    /\ task' = [task EXCEPT ![id] = Requeued(task[id])]
    /\ Publish({id})
    /\ UNCHANGED <<types, subs, now>>

\* store.purge_tasks; deleted ids are never allocated again.
PurgeTasks(S) ==
    /\ S # {}
    /\ \A id \in S : task[id].state \in Terminal /\ task[id].finished_at < now - RetentionS
    /\ task' = [id \in Id |-> IF id \in S THEN [NoRow EXCEPT !.state = "purged"] ELSE task[id]]
    /\ UNCHANGED <<types, subs, events, now>>

\* store.publish_task_type for the definitions of one transaction: an upsert
\* that keeps the paused flag.
PublishTaskTypes(limit, keyLimit) ==
    /\ types' = [type \in TaskType |->
                   IF type \in DOMAIN limit
                   THEN [types[type] EXCEPT !.published = TRUE,
                                            !.max_concurrency = limit[type],
                                            !.max_concurrency_per_key = keyLimit[type]]
                   ELSE types[type]]
    /\ UNCHANGED <<task, subs, events, now>>

\* store.set_paused.
SetPaused(type, paused) ==
    /\ types[type].published
    /\ types' = [types EXCEPT ![type].paused = paused]
    /\ UNCHANGED <<task, subs, events, now>>

\* store.register_subscription without a backfill: installs or updates the filter.
RegisterSubscription(s, states, accepted) ==
    /\ subs' = [subs EXCEPT ![s] = [registered |-> TRUE, states |-> states, types |-> accepted]]
    /\ UNCHANGED <<task, types, events, now>>

\* feed.unsubscribe: the registration and its backlog go in one transaction.
Unsubscribe(s) ==
    /\ subs' = [subs EXCEPT ![s] = NoSub]
    /\ events' = [events EXCEPT ![s] = [id \in Id |-> <<>>]]
    /\ UNCHANGED <<task, types, now>>

\* The database clock; bounded for the checked instance.
Tick ==
    /\ now < MaxNow
    /\ now' = now + 1
    /\ UNCHANGED <<task, types, subs, events>>

-----------------------------------------------------------------------------
StoreInit ==
    /\ task = [id \in Id |-> NoRow]
    /\ types = [type \in TaskType |-> [published |-> FALSE, paused |-> FALSE,
                                       max_concurrency |-> 0, max_concurrency_per_key |-> 0]]
    /\ subs = [s \in Sub |-> NoSub]
    /\ events = [s \in Sub |-> [id \in Id |-> <<>>]]
    /\ now = 0

\* A client may present any token, current or stale.
AttemptWrite ==
    \/ \E id \in Id, token \in 1..MaxAttempt : SetProgress(id, token)
    \/ \E S \in SUBSET Id : \E token \in [S -> 1..MaxAttempt] :
         \/ Heartbeat(token)
         \/ \E kind \in [S -> Kinds] :
              Complete([id \in S |-> [token |-> token[id], kind |-> kind[id]]])

Control ==
    \/ \E id \in Id, type \in TaskType, key \in Key \cup {None}, ckey \in CKey \cup {None},
          max_attempts \in Budgets, delay \in RunDelays :
            Enqueue(id, type, key, ckey, max_attempts, delay)
    \/ \E id \in Id : RequestCancel(id) \/ Requeue(id)
    \/ \E S \in SUBSET TaskType : \E limit, keyLimit \in [S -> Limits] :
         PublishTaskTypes(limit, keyLimit)
    \/ \E type \in TaskType, paused \in BOOLEAN : SetPaused(type, paused)
    \/ \E s \in Sub : \/ \E states \in Filters, accepted \in SUBSET TaskType :
                            RegisterSubscription(s, states, accepted)
                      \/ Unsubscribe(s)

Maintenance ==
    \/ \E S \in SUBSET Id : Reap(S) \/ PurgeTasks(S)
    \/ \E w \in Worker : \E live \in SUBSET Id : \E S \in SUBSET Id : ReleaseOrphans(w, live, S)

Next ==
    \/ Tick
    \/ AttemptWrite
    \/ Control
    \/ Maintenance
    \/ \E w \in Worker : \E S \in SUBSET Id : Claim(w, S)

Spec == StoreInit /\ [][Next]_storeVars

-----------------------------------------------------------------------------
(* Properties.                                                             *)

\* Every column holds a value its declaration in schema.sql allows.
TypeOK ==
    /\ task \in [Id -> Row]
    /\ types \in [TaskType -> TypeRow]
    /\ subs \in [Sub -> SubRow]
    /\ events \in [Sub -> [Id -> Seq(Event)]]
    /\ now \in Nat

\* A row has a token and a lease exactly while it is running, the token is the
\* one of its latest claim, and it has a finish stamp exactly when it is terminal.
RowLeaseFence(r) ==
    /\ r.state = "running" <=> r.token # 0
    /\ r.state = "running" <=> r.lease_until # NoTime
    /\ r.token \in {0, r.attempt}
    /\ r.state \in Terminal <=> r.finished_at # NoTime

\* The retry budget: a task that can still run has failures left, and no attempt
\* is charged twice (a running attempt has not been charged yet).
RowRetryBudget(r) ==
    /\ r.failures <= r.max_attempts
    /\ r.state \in Active => r.failures < r.max_attempts
    /\ r.failures <= r.attempt
    /\ r.state = "running" => r.failures < r.attempt

\* A requested cancellation is never dropped by a retry, a release or a reap:
\* no queued row carries one, and a cancelled row always does.
RowCancelHonoured(r) ==
    /\ r.state = "queued" => ~r.cancel_requested
    /\ r.state = "cancelled" => r.cancel_requested

\* What a row shows was written by the attempt it is credited to: a stale
\* attempt leaves no progress, result or error behind.
RowOutcomeOwned(r) ==
    /\ r.progress \in {0, r.attempt}
    /\ r.state = "succeeded" => r.result = r.attempt
    /\ r.result # 0 => r.state = "succeeded"
    /\ r.state = "failed" => r.error = r.attempt
    /\ r.error <= r.attempt

LeaseFence == \A id \in Id : RowLeaseFence(task[id])
RetryBudget == \A id \in Id : RowRetryBudget(task[id])
CancelHonoured == \A id \in Id : RowCancelHonoured(task[id])
OutcomeOwned == \A id \in Id : RowOutcomeOwned(task[id])

\* At most one active task per type and key, whatever enqueues, requeues and
\* retries interleave (the tasks_active_key_uidx index).
UniqueActiveKey ==
    \A i, j \in Id :
      (/\ i # j /\ task[i].key # None /\ task[i].key = task[j].key
       /\ task[i].type = task[j].type)
      => ~(task[i].state \in Active /\ task[j].state \in Active)

\* A step that starts a task of a limited type leaves no more running than the
\* limit in force allows, for the type and for the concurrency key.
LimitsStep ==
    \A type \in TaskType :
      LET ty == types[type]
          Within(limit, before, after) ==
              limit # 0 /\ ~(after \subseteq before) => Cardinality(after) <= limit
      IN  /\ Within(ty.max_concurrency, Running(type), Running(type)')
          /\ \A k \in CKey : Within(ty.max_concurrency_per_key, RunningKey(type, k),
                                    RunningKey(type, k)')
LimitsRespected == [][LimitsStep]_storeVars

\* The outbox: a step that moves a task to a state a live subscription asks for
\* appends exactly that event, and no other step adds one.
OutboxStep ==
    \A s \in Sub, id \in Id :
      subs[s].registered /\ subs' = subs =>
        LET moved == /\ task'[id].state \in State
                     /\ \/ task'[id].state # task[id].state
                        \/ task'[id].attempt # task[id].attempt
        IN  events'[s][id] = IF moved /\ Matches(s, task'[id])
                             THEN Append(events[s][id], [state |-> task'[id].state,
                                                         attempt |-> task'[id].attempt])
                             ELSE events[s][id]
Outbox == [][OutboxStep]_storeVars

\* The documented life cycle of a task, abstracted from leases, tokens and time.
Lifecycle == INSTANCE TaskLifecycle WITH
    life <- [id \in Id |-> [state |-> task[id].state, attempt |-> task[id].attempt,
                            failures |-> task[id].failures, budget |-> task[id].max_attempts,
                            cancelling |-> task[id].cancel_requested]]
RefinesLifecycle == Lifecycle!Spec
=============================================================================
