------------------------ MODULE TaskRefinementProofs ------------------------
(* TaskStore implements TaskLifecycle, and its outbox misses nothing.      *)
EXTENDS TaskStoreProofs

\* What the life cycle sees of a row: the refinement mapping, row by row.
View(r) == [state |-> r.state, attempt |-> r.attempt, failures |-> r.failures,
            budget |-> r.max_attempts, cancelling |-> r.cancel_requested]

\* Every row operation is a transition of the life cycle, or invisible to it.
LEMMA RowStepRefines ==
    ASSUME NEW r \in Row, NEW q, RowStep(r, q)
    PROVE  View(q) = View(r) \/ Lifecycle!Step(View(r), View(q))
<1> DEFINE o == View(r)
           n == View(q)
<1>o. /\ o.state = r.state /\ o.attempt = r.attempt /\ o.failures = r.failures
      /\ o.budget = r.max_attempts /\ o.cancelling = r.cancel_requested
  BY DEF View
<1>n. /\ n.state = q.state /\ n.attempt = q.attempt /\ n.failures = q.failures
      /\ n.budget = q.max_attempts /\ n.cancelling = q.cancel_requested
  BY DEF View
<1>b. r.cancel_requested \in BOOLEAN
  BY DEF Row
<1> DEFINE Goal == n = o \/ Lifecycle!Step(o, n)
<1> SUFFICES Goal
  OBVIOUS
<1>0. CASE q = r
  BY <1>0
<1>1. ASSUME NEW type \in TaskType, NEW key \in Key \cup {None}, NEW ckey \in CKey \cup {None},
             NEW max_attempts \in Budgets, NEW delay \in RunDelays,
             r.state = "absent", q = NewRow(type, key, ckey, max_attempts, delay)
      PROVE  Goal
  <2>1. /\ q.state = "queued" /\ q.max_attempts = max_attempts /\ q.attempt = 0
        /\ q.failures = 0 /\ q.cancel_requested = FALSE
    BY <1>1 DEF NewRow, NoRow
  <2> HIDE DEF o, n
  <2>2. Lifecycle!Created(o, n)
    BY <1>o, <1>n, <1>1, <2>1 DEF Lifecycle!Created
  <2> QED
    BY <2>2 DEF Lifecycle!Step
<1>2. ASSUME NEW w \in Worker, r.state = "queued", q = Claimed(r, w) PROVE Goal
  <2>1. /\ q.state = "running" /\ q.attempt = r.attempt + 1 /\ q.failures = r.failures
        /\ q.max_attempts = r.max_attempts /\ q.cancel_requested = r.cancel_requested
    BY <1>2 DEF Claimed, Row
  <2> HIDE DEF o, n
  <2>2. Lifecycle!Started(o, n)
    BY <1>o, <1>n, <1>2, <2>1 DEF Lifecycle!Started, Lifecycle!Move, Lifecycle!Flag
  <2> QED
    BY <2>2 DEF Lifecycle!Step
<1>3. CASE /\ r.state = "running"
           /\ q = [r EXCEPT !.lease_until = now + LeaseS] \/ q = [r EXCEPT !.progress = r.token]
  BY <1>3 DEF View, Row
<1>4. ASSUME NEW kind \in Kinds, NEW delay \in Nat, r.state = "running",
             kind = "cancel" => r.cancel_requested, q = Completed(r, r.token, kind, delay)
      PROVE  Goal
  <2>1. /\ q.state = CompletedState(r, kind) /\ q.attempt = r.attempt
        /\ q.failures = (IF kind \in {"fail", "fail_final"} THEN r.failures + 1 ELSE r.failures)
        /\ q.max_attempts = r.max_attempts /\ q.cancel_requested = r.cancel_requested
    BY <1>4 DEF Completed, Row
  <2> HIDE DEF o, n
  <2> USE <1>o, <1>n, <1>b, <1>4, <2>1
          DEF CompletedState, Lifecycle!Move, Lifecycle!Kept, Lifecycle!Flag, Lifecycle!Charged
  <2>2. CASE kind = "succeed"
    BY <2>2 DEF Lifecycle!Succeeded, Lifecycle!Step
  <2>3. CASE kind = "fail_final"
    BY <2>3 DEF Lifecycle!Failed, Lifecycle!Step
  <2>4. CASE kind = "cancel"
    BY <2>4 DEF Lifecycle!Cancelled, Lifecycle!Step
  <2>5. CASE kind = "release"
    BY <2>5 DEF Lifecycle!Cancelled, Lifecycle!Released, Lifecycle!Step
  <2>6. CASE kind = "fail"
    <3>1. CASE r.cancel_requested
      BY <2>6, <3>1 DEF Lifecycle!Cancelled, Lifecycle!Step
    <3>2. CASE ~r.cancel_requested /\ Retries(r)
      BY <2>6, <3>2 DEF Lifecycle!Retried, Lifecycle!Step, Retries
    <3>3. CASE ~r.cancel_requested /\ ~Retries(r)
      BY <2>6, <3>3 DEF Lifecycle!Failed, Lifecycle!Step
    <3> QED
      BY <3>1, <3>2, <3>3
  <2> QED
    BY <2>2, <2>3, <2>4, <2>5, <2>6 DEF Kinds
<1>5. CASE r.state \in Active /\ q = CancelRequested(r)
  <2>1. /\ q.state = (IF r.state = "queued" THEN "cancelled" ELSE r.state)
        /\ q.attempt = r.attempt /\ q.failures = r.failures
        /\ q.max_attempts = r.max_attempts /\ q.cancel_requested = TRUE
    BY <1>5 DEF CancelRequested, Row
  <2> HIDE DEF o, n
  <2>2. Lifecycle!CancelAsked(o, n)
    BY <1>o, <1>n, <1>5, <2>1 DEF Lifecycle!CancelAsked, Lifecycle!Kept, Active
  <2> QED
    BY <2>2 DEF Lifecycle!Step
<1>6. ASSUME NEW delay \in Nat, r.state = "running", q = Reaped(r, delay) PROVE Goal
  <2>1. /\ q.state = (IF r.cancel_requested THEN "cancelled"
                      ELSE IF Retries(r) THEN "queued" ELSE "failed")
        /\ q.attempt = r.attempt
        /\ q.failures = (IF ~r.cancel_requested THEN r.failures + 1 ELSE r.failures)
        /\ q.max_attempts = r.max_attempts /\ q.cancel_requested = r.cancel_requested
    BY <1>6 DEF Reaped, Row
  <2> HIDE DEF o, n
  <2> USE <1>o, <1>n, <1>b, <1>6, <2>1
          DEF Lifecycle!Move, Lifecycle!Kept, Lifecycle!Flag, Lifecycle!Charged
  <2>2. CASE r.cancel_requested
    BY <2>2 DEF Lifecycle!Cancelled, Lifecycle!Step
  <2>3. CASE ~r.cancel_requested /\ Retries(r)
    BY <2>3 DEF Lifecycle!Retried, Lifecycle!Step, Retries
  <2>4. CASE ~r.cancel_requested /\ ~Retries(r)
    BY <2>4 DEF Lifecycle!Failed, Lifecycle!Step
  <2> QED
    BY <2>2, <2>3, <2>4
<1>7. CASE r.state \in {"failed", "cancelled"} /\ q = Requeued(r)
  <2>1. /\ q.state = "queued" /\ q.attempt = r.attempt /\ q.failures = 0
        /\ q.max_attempts = r.max_attempts /\ q.cancel_requested = FALSE
    BY <1>7 DEF Requeued, Row
  <2> HIDE DEF o, n
  <2>2. Lifecycle!Requeued(o, n)
    BY <1>o, <1>n, <1>7, <2>1 DEF Lifecycle!Requeued
  <2> QED
    BY <2>2 DEF Lifecycle!Step
<1>8. CASE r.state \in Terminal /\ q = [NoRow EXCEPT !.state = "purged"]
  <2>1. q.state = "purged"
    BY <1>8 DEF NoRow
  <2> HIDE DEF o, n
  <2>2. Lifecycle!Forgotten(o, n)
    BY <1>o, <1>n, <1>8, <2>1 DEF Lifecycle!Forgotten, Lifecycle!Settled, Terminal
  <2> QED
    BY <2>2 DEF Lifecycle!Step
<1> QED
  BY <1>0, <1>1, <1>2, <1>3, <1>4, <1>5, <1>6, <1>7, <1>8, Zenon DEF RowStep

\* The store implements the documented life cycle of a task: whatever statements
\* interleave, each row only ever makes a transition of TaskLifecycle.
THEOREM Refinement == Spec => RefinesLifecycle
<1> DEFINE life == [id \in Id |-> [state |-> task[id].state, attempt |-> task[id].attempt,
                                   failures |-> task[id].failures,
                                   budget |-> task[id].max_attempts,
                                   cancelling |-> task[id].cancel_requested]]
<1>1. StoreInit => Lifecycle!Init
  BY DEF StoreInit, NoRow, Lifecycle!Init
<1>2. ASSUME TypeOK, [Next]_storeVars PROVE [Lifecycle!Next]_life
  <2>1. task = [id \in Id |-> task[id]] /\ \A id \in Id : task[id] \in Row
    BY <1>2 DEF TypeOK
  <2>2. \A id \in Id : \/ View(task'[id]) = View(task[id])
                       \/ Lifecycle!Step(View(task[id]), View(task'[id]))
    BY <1>2, <2>1, Rowwise, RowStepRefines
  <2>3. \A id \in Id : life[id] = View(task[id]) /\ life'[id] = View(task'[id])
    BY DEF View
  <2>4. \A id \in Id : life'[id] = life[id] \/ Lifecycle!Step(life[id], life'[id])
    <3> TAKE id \in Id
    <3>1. View(task'[id]) = View(task[id]) \/ Lifecycle!Step(View(task[id]), View(task'[id]))
      BY <2>2
    <3>2. life[id] = View(task[id]) /\ life'[id] = View(task'[id])
      BY <2>3
    <3> HIDE DEF life
    <3> QED
      BY <3>1, <3>2, Zenon
  <2> QED
    BY <2>4, Zenon DEF Lifecycle!Next
<1> QED
  BY <1>1, <1>2, TypeCorrect, PTL DEF Spec, RefinesLifecycle, Lifecycle!Spec

-----------------------------------------------------------------------------
(* The outbox.  A statement that publishes for S changes the state of each *)
(* row of S and of no other; one that publishes nothing changes no state.  *)
Moves(S) ==
    \A id \in Id : /\ id \in S => task'[id].state # task[id].state
                   /\ id \notin S => /\ task'[id].state = task[id].state
                                     /\ task'[id].attempt = task[id].attempt

LEMMA PublishOutbox ==
    ASSUME TypeOK, NEW S, Publish(S), Moves(S) PROVE OutboxStep
<1> SUFFICES ASSUME NEW s \in Sub, NEW id \in Id
             PROVE  LET moved == /\ task'[id].state \in State
                                 /\ \/ task'[id].state # task[id].state
                                    \/ task'[id].attempt # task[id].attempt
                    IN  events'[s][id] = IF moved /\ Matches(s, task'[id])
                             THEN Append(events[s][id], [state |-> task'[id].state,
                                                         attempt |-> task'[id].attempt])
                             ELSE events[s][id]
  BY DEF OutboxStep
<1>1. Matches(s, task'[id]) => task'[id].state \in State
  BY DEF Matches, TypeOK, SubRow
<1> QED
  BY <1>1 DEF Publish, Moves

LEMMA QuietOutbox ==
    ASSUME UNCHANGED events,
           \A id \in Id : task'[id].state \in State => /\ task'[id].state = task[id].state
                                                       /\ task'[id].attempt = task[id].attempt
    PROVE  OutboxStep
BY DEF OutboxStep

\* The states the row operations lead to.
LEMMA EndStates ==
    ASSUME NEW r \in Row
    PROVE  /\ \A token, delay : \A kind \in Kinds : Completed(r, token, kind, delay).state # "running"
           /\ \A delay : Reaped(r, delay).state # "running"
           /\ \A w : Claimed(r, w).state = "running"
<1>1. ASSUME NEW token, NEW delay, NEW kind \in Kinds
      PROVE  Completed(r, token, kind, delay).state # "running"
  <2>1. Completed(r, token, kind, delay).state = CompletedState(r, kind)
    BY DEF Completed, Row
  <2> QED
    BY <2>1 DEF CompletedState, Kinds
<1>2. ASSUME NEW delay PROVE Reaped(r, delay).state # "running"
  BY DEF Reaped, Row
<1>3. ASSUME NEW w PROVE Claimed(r, w).state = "running"
  BY DEF Claimed, Row
<1> QED
  BY <1>1, <1>2, <1>3

LEMMA OutboxNext == ASSUME TypeOK, [Next]_storeVars PROVE OutboxStep
<1>0. task = [id \in Id |-> task[id]] /\ \A id \in Id : task[id] \in Row
  BY DEF TypeOK
<1>1. CASE UNCHANGED <<task, events>>
  BY <1>1, QuietOutbox
<1>2. ASSUME NEW held, Heartbeat(held) PROVE OutboxStep
  <2>1. \A i \in Id : [task[i] EXCEPT !.lease_until = now + LeaseS].state = task[i].state
                      /\ [task[i] EXCEPT !.lease_until = now + LeaseS].attempt = task[i].attempt
    BY <1>0 DEF Row
  <2>2. UNCHANGED events /\ \A i \in Id : \/ task'[i] = task[i]
                                          \/ task'[i] = [task[i] EXCEPT !.lease_until = now + LeaseS]
    BY <1>2 DEF Heartbeat
  <2> QED
    BY <2>1, <2>2, QuietOutbox
<1>3. ASSUME NEW id \in Id, NEW token, SetProgress(id, token) PROVE OutboxStep
  <2>1. UNCHANGED events /\ task' = [task EXCEPT ![id].progress = token]
    BY <1>3 DEF SetProgress
  <2>2. \A i \in Id : task'[i].state = task[i].state /\ task'[i].attempt = task[i].attempt
    BY <1>0, <2>1 DEF Row
  <2> QED
    BY <2>1, <2>2, QuietOutbox
<1>4. ASSUME NEW S \in SUBSET Id, NEW token, NEW kind \in [S -> Kinds],
             Complete([id \in S |-> [token |-> token[id], kind |-> kind[id]]])
      PROVE  OutboxStep
  <2> DEFINE c == [id \in S |-> [token |-> token[id], kind |-> kind[id]]]
             applied == {id \in Id : Applies(c, id)}
  <2>1. /\ Publish(applied)
        /\ \E delay \in Delays :
             task' = [id \in Id |-> IF id \in applied
                        THEN Completed(task[id], c[id].token, c[id].kind, delay[id])
                        ELSE task[id]]
    BY <1>4, Zenon DEF Complete
  <2>2. \A id \in applied : task[id].state = "running" /\ c[id].kind \in Kinds
    BY DEF Applies, Holds
  <2> HIDE DEF c, applied
  <2>3. Moves(applied)
    <3>1. PICK delay \in Delays :
             task' = [id \in Id |-> IF id \in applied
                        THEN Completed(task[id], c[id].token, c[id].kind, delay[id])
                        ELSE task[id]]
      BY <2>1
    <3>2. ASSUME NEW id \in Id, id \in applied PROVE task'[id].state # task[id].state
      <4>1. task'[id] = Completed(task[id], c[id].token, c[id].kind, delay[id])
        BY <3>1, <3>2
      <4> QED
        BY <1>0, <2>2, <3>2, <4>1, EndStates
    <3>3. ASSUME NEW id \in Id, id \notin applied PROVE task'[id] = task[id]
      BY <3>1, <3>3
    <3> QED
      BY <3>2, <3>3 DEF Moves
  <2> QED
    BY <2>1, <2>3, PublishOutbox
<1>5. ASSUME NEW id \in Id, NEW type, NEW key, NEW ckey, NEW max_attempts, NEW delay,
             Enqueue(id, type, key, ckey, max_attempts, delay)
      PROVE  OutboxStep
  <2>1. NewRow(type, key, ckey, max_attempts, delay).state = "queued"
    BY DEF NewRow, NoRow
  <2>2. Publish({id}) /\ Moves({id})
    BY <1>0, <1>5, <2>1 DEF Enqueue, Moves
  <2> QED
    BY <2>2, PublishOutbox
<1>6. ASSUME NEW id \in Id, RequestCancel(id) PROVE OutboxStep
  <2> DEFINE S == IF task[id].state = "queued" THEN {id} ELSE {}
  <2>1. /\ CancelRequested(task[id]).state
             = (IF task[id].state = "queued" THEN "cancelled" ELSE task[id].state)
        /\ CancelRequested(task[id]).attempt = task[id].attempt
    BY <1>0 DEF CancelRequested, Row
  <2>2. Publish(S) /\ Moves(S)
    BY <1>0, <1>6, <2>1 DEF RequestCancel, Moves
  <2> QED
    BY <2>2, PublishOutbox
<1>7. ASSUME NEW id \in Id, Requeue(id) PROVE OutboxStep
  <2>1. Requeued(task[id]).state = "queued"
    BY <1>0 DEF Requeued, Row
  <2>2. Publish({id}) /\ Moves({id})
    BY <1>0, <1>7, <2>1 DEF Requeue, Moves
  <2> QED
    BY <2>2, PublishOutbox
<1>8. ASSUME NEW S \in SUBSET Id, Reap(S) PROVE OutboxStep
  <2>1. Publish(S) /\ Moves(S)
    <3>1. Publish(S) /\ \A id \in S : task[id].state = "running"
      BY <1>8 DEF Reap
    <3>2. PICK delay \in Delays :
            task' = [id \in Id |-> IF id \in S THEN Reaped(task[id], delay[id]) ELSE task[id]]
      BY <1>8 DEF Reap
    <3>3. ASSUME NEW id \in Id, id \in S PROVE task'[id].state # task[id].state
      BY <1>0, <3>1, <3>2, <3>3, EndStates
    <3>4. ASSUME NEW id \in Id, id \notin S PROVE task'[id] = task[id]
      BY <3>2, <3>4
    <3> QED
      BY <3>1, <3>3, <3>4 DEF Moves
  <2> QED
    BY <2>1, PublishOutbox
<1>9. ASSUME NEW S \in SUBSET Id, PurgeTasks(S) PROVE OutboxStep
  <2>1. [NoRow EXCEPT !.state = "purged"].state \notin State
    BY DEF NoRow, State, Active, Terminal
  <2> QED
    BY <1>9, <2>1, QuietOutbox DEF PurgeTasks
<1>10. ASSUME NEW w \in Worker, NEW live \in SUBSET Id, NEW S \in SUBSET Id,
              ReleaseOrphans(w, live, S)
       PROVE  OutboxStep
  <2>1. "release" \in Kinds
    BY DEF Kinds
  <2>2. Publish(S) /\ Moves(S)
    <3>1. Publish(S) /\ \A id \in S : task[id].state = "running"
      BY <1>10 DEF ReleaseOrphans, Orphans
    <3>2. task' = [id \in Id |-> IF id \in S
                                THEN Completed(task[id], task[id].token, "release", 0)
                                ELSE task[id]]
      BY <1>10 DEF ReleaseOrphans
    <3>3. ASSUME NEW id \in Id, id \in S PROVE task'[id].state # task[id].state
      BY <1>0, <2>1, <3>1, <3>2, <3>3, EndStates
    <3>4. ASSUME NEW id \in Id, id \notin S PROVE task'[id] = task[id]
      BY <3>2, <3>4
    <3> QED
      BY <3>1, <3>3, <3>4 DEF Moves
  <2> QED
    BY <2>2, PublishOutbox
<1>11. ASSUME NEW w \in Worker, NEW S \in SUBSET Id, Claim(w, S) PROVE OutboxStep
  <2>1. Publish(S) /\ Moves(S)
    BY <1>0, <1>11, EndStates DEF Claim, Due, Moves
  <2> QED
    BY <2>1, PublishOutbox
<1>12. ASSUME NEW s \in Sub, Unsubscribe(s) PROVE OutboxStep
  BY <1>12 DEF Unsubscribe, NoSub, OutboxStep, TypeOK
<1>13. CASE AttemptWrite
  BY <1>2, <1>3, <1>4, <1>13 DEF AttemptWrite
<1>14. CASE Control
  <2>1. ASSUME NEW limit, NEW keyLimit, PublishTaskTypes(limit, keyLimit)
        PROVE  OutboxStep
    BY <1>1, <2>1 DEF PublishTaskTypes
  <2>2. ASSUME NEW type, NEW paused, SetPaused(type, paused) PROVE OutboxStep
    BY <1>1, <2>2 DEF SetPaused
  <2>3. ASSUME NEW s, NEW states, NEW accepted, RegisterSubscription(s, states, accepted)
        PROVE  OutboxStep
    BY <1>1, <2>3 DEF RegisterSubscription
  <2> QED
    BY <1>5, <1>6, <1>7, <1>12, <1>14, <2>1, <2>2, <2>3, Zenon DEF Control
<1>15. CASE Maintenance
  BY <1>8, <1>9, <1>10, <1>15 DEF Maintenance
<1>16. CASE Tick
  BY <1>1, <1>16 DEF Tick
<1> QED
  BY <1>1, <1>11, <1>13, <1>14, <1>15, <1>16 DEF Next, storeVars

\* No transition is lost to a subscription that was registered when it committed,
\* and none is delivered that did not happen.
THEOREM OutboxComplete == Spec => Outbox
BY TypeCorrect, OutboxNext, PTL DEF Spec, Outbox
=============================================================================
