--------------------------- MODULE TaskStoreProofs ---------------------------
(* The invariants of TaskStore, for every value of its constants.          *)
EXTENDS TaskStore, FiniteSetTheorems, TLAPS

-----------------------------------------------------------------------------
(* Type correctness: every statement writes a well-typed row.              *)

LEMMA StateFacts ==
    /\ "queued" \in State /\ "running" \in State /\ "succeeded" \in State
    /\ "failed" \in State /\ "cancelled" \in State
BY DEF State, Active, Terminal

LEMMA TimeFacts == NoTime \in Time /\ \A n \in Nat : n \in Time
BY DEF Time

LEMMA BackoffNat ==
    ASSUME NEW n, NEW d \in Backoff(n) PROVE d \in Nat
BY PolicyAssumption DEF PolicyAssumption, Backoff

LEMMA NoRowType == NoRow \in Row /\ [NoRow EXCEPT !.state = "purged"] \in Row
BY TimeFacts DEF NoRow, Row

LEMMA NewRowType ==
    ASSUME now \in Nat, NEW type \in TaskType, NEW key \in Key \cup {None},
           NEW ckey \in CKey \cup {None}, NEW max_attempts \in Budgets, NEW delay \in RunDelays
    PROVE  NewRow(type, key, ckey, max_attempts, delay) \in Row
<1>1. now + delay \in Nat /\ max_attempts \in Nat
  BY PolicyAssumption DEF PolicyAssumption
<1> QED
  BY <1>1, NoRowType, StateFacts DEF NewRow, Row

LEMMA ClaimedType ==
    ASSUME now \in Nat, NEW r \in Row, NEW w \in Worker
    PROVE  Claimed(r, w) \in Row
<1>1. r.attempt + 1 \in Nat
  BY DEF Row
<1>2. now + LeaseS \in Time
  BY PolicyAssumption, TimeFacts DEF PolicyAssumption
<1> QED
  BY <1>1, <1>2, StateFacts DEF Claimed, Row

LEMMA CompletedStateType ==
    ASSUME NEW r, NEW kind \in Kinds PROVE CompletedState(r, kind) \in State
BY DEF CompletedState, Kinds, State, Active, Terminal

\* Completed, Reaped and Requeued assign every field they touch a value of its column.
LEMMA EndedType ==
    ASSUME NEW r \in Row, NEW s \in State, NEW res \in Nat, NEW err \in Nat, NEW f \in Nat,
           NEW at \in Nat, NEW fin \in Time
    PROVE  [r EXCEPT !.state = s, !.result = res, !.error = err, !.failures = f,
                     !.run_at = at, !.finished_at = fin, !.token = 0,
                     !.lease_until = NoTime] \in Row
BY TimeFacts DEF Row

LEMMA ReapedFieldsType ==
    ASSUME NEW r \in Row, NEW s \in State, NEW f \in Nat, NEW err \in Nat,
           NEW at \in Nat, NEW fin \in Time
    PROVE  [r EXCEPT !.state = s, !.failures = f, !.error = err, !.run_at = at,
                     !.finished_at = fin, !.token = 0, !.lease_until = NoTime] \in Row
BY TimeFacts DEF Row

LEMMA CompletedType ==
    ASSUME now \in Nat, NEW r \in Row, NEW token \in Nat, NEW kind \in Kinds, NEW delay \in Nat
    PROVE  Completed(r, token, kind, delay) \in Row
<1> DEFINE charged == kind \in {"fail", "fail_final"}
           res == IF kind = "succeed" THEN token ELSE r.result
           err == IF charged THEN token ELSE r.error
           f   == IF charged THEN r.failures + 1 ELSE r.failures
           at  == IF kind = "release" THEN now
                  ELSE IF kind = "fail" /\ ~r.cancel_requested /\ Retries(r)
                       THEN now + delay ELSE r.run_at
           fin == IF \/ kind \in {"succeed", "fail_final", "cancel"}
                     \/ r.cancel_requested
                     \/ kind = "fail" /\ ~Retries(r)
                  THEN now ELSE NoTime
           s   == CompletedState(r, kind)
<1>1. res \in Nat /\ err \in Nat /\ f \in Nat /\ at \in Nat
  BY DEF Row
<1>2. fin \in Time
  BY TimeFacts
<1>3. s \in State
  BY CompletedStateType
<1>4. Completed(r, token, kind, delay)
        = [r EXCEPT !.state = s, !.result = res, !.error = err, !.failures = f,
                    !.run_at = at, !.finished_at = fin, !.token = 0, !.lease_until = NoTime]
  BY DEF Completed
<1>5. [r EXCEPT !.state = s, !.result = res, !.error = err, !.failures = f,
                !.run_at = at, !.finished_at = fin, !.token = 0, !.lease_until = NoTime] \in Row
  <2> HIDE DEF charged, res, err, f, at, fin, s
  <2> QED
    BY <1>1, <1>2, <1>3, EndedType, Zenon
<1> QED
  BY <1>4, <1>5, Zenon

LEMMA ReapedType ==
    ASSUME now \in Nat, NEW r \in Row, NEW delay \in Nat
    PROVE  Reaped(r, delay) \in Row
<1> DEFINE s   == IF r.cancel_requested THEN "cancelled"
                  ELSE IF Retries(r) THEN "queued" ELSE "failed"
           f   == IF ~r.cancel_requested THEN r.failures + 1 ELSE r.failures
           err == IF ~r.cancel_requested THEN r.attempt ELSE r.error
           at  == IF ~r.cancel_requested /\ Retries(r) THEN now + delay ELSE r.run_at
           fin == IF r.cancel_requested \/ ~Retries(r) THEN now ELSE NoTime
<1>1. f \in Nat /\ err \in Nat /\ at \in Nat
  BY DEF Row
<1>2. fin \in Time /\ s \in State
  BY TimeFacts, StateFacts
<1>3. Reaped(r, delay)
        = [r EXCEPT !.state = s, !.failures = f, !.error = err, !.run_at = at,
                    !.finished_at = fin, !.token = 0, !.lease_until = NoTime]
  BY DEF Reaped
<1>4. [r EXCEPT !.state = s, !.failures = f, !.error = err, !.run_at = at,
                !.finished_at = fin, !.token = 0, !.lease_until = NoTime] \in Row
  <2> HIDE DEF s, f, err, at, fin
  <2> QED
    BY <1>1, <1>2, ReapedFieldsType, Zenon
<1> QED
  BY <1>3, <1>4, Zenon

LEMMA CancelRequestedType ==
    ASSUME now \in Nat, NEW r \in Row PROVE CancelRequested(r) \in Row
<1> DEFINE s   == IF r.state = "queued" THEN "cancelled" ELSE r.state
           fin == IF r.state = "queued" THEN now ELSE r.finished_at
<1>1. s \in State \cup {"absent", "purged"} /\ fin \in Time
  BY TimeFacts, StateFacts DEF Row
<1>2. CancelRequested(r) = [r EXCEPT !.cancel_requested = TRUE, !.state = s, !.finished_at = fin]
  BY DEF CancelRequested
<1> HIDE DEF s, fin
<1> QED
  BY <1>1, <1>2 DEF Row

LEMMA RequeuedType ==
    ASSUME now \in Nat, NEW r \in Row PROVE Requeued(r) \in Row
BY TimeFacts, StateFacts DEF Requeued, Row

-----------------------------------------------------------------------------
(* Whatever rows a statement touches, it moves each of them by one of these *)
(* row operations, under the condition its WHERE clause checks.            *)
RowStep(r, q) ==
    \/ q = r
    \/ /\ r.state = "absent"
       /\ \E type \in TaskType, key \in Key \cup {None}, ckey \in CKey \cup {None},
             max_attempts \in Budgets, delay \in RunDelays :
               q = NewRow(type, key, ckey, max_attempts, delay)
    \/ r.state = "queued" /\ \E w \in Worker : q = Claimed(r, w)
    \/ r.state = "running" /\ q = [r EXCEPT !.lease_until = now + LeaseS]
    \/ r.state = "running" /\ q = [r EXCEPT !.progress = r.token]
    \/ /\ r.state = "running"
       /\ \E kind \in Kinds, delay \in Nat :
            /\ kind = "cancel" => r.cancel_requested
            /\ q = Completed(r, r.token, kind, delay)
    \/ r.state \in Active /\ q = CancelRequested(r)
    \/ r.state = "running" /\ \E delay \in Nat : q = Reaped(r, delay)
    \/ r.state \in {"failed", "cancelled"} /\ q = Requeued(r)
    \/ r.state \in Terminal /\ q = [NoRow EXCEPT !.state = "purged"]

\* Every step of the store moves every row by a RowStep.
LEMMA Rowwise ==
    ASSUME task = [id \in Id |-> task[id]], [Next]_storeVars
    PROVE  \A id \in Id : RowStep(task[id], task'[id])
<1> SUFFICES ASSUME NEW i \in Id PROVE RowStep(task[i], task'[i])
  OBVIOUS
<1>0. CASE task' = task
  BY <1>0 DEF RowStep
<1>1. ASSUME NEW held, Heartbeat(held)
      PROVE  RowStep(task[i], task'[i])
  BY <1>1 DEF Heartbeat, Holds, RowStep
<1>2. ASSUME NEW id \in Id, NEW token, SetProgress(id, token)
      PROVE  RowStep(task[i], task'[i])
  <2>1. Holds(task[id], token) /\ task' = [task EXCEPT ![id].progress = token]
    BY <1>2 DEF SetProgress
  <2>2. CASE i = id
    BY <2>1, <2>2 DEF Holds, RowStep
  <2>3. CASE i # id
    BY <2>1, <2>3 DEF RowStep
  <2> QED
    BY <2>2, <2>3
<1>3. ASSUME NEW S \in SUBSET Id, NEW token, NEW kind \in [S -> Kinds],
             Complete([id \in S |-> [token |-> token[id], kind |-> kind[id]]])
      PROVE  RowStep(task[i], task'[i])
  <2> DEFINE c == [id \in S |-> [token |-> token[id], kind |-> kind[id]]]
             applied == {id \in Id : Applies(c, id)}
  <2>1. PICK delay \in Delays :
          /\ \A id \in Id : delay[id] \in Backoff(task[id].failures)
          /\ task' = [id \in Id |-> IF id \in applied
                        THEN Completed(task[id], c[id].token, c[id].kind, delay[id])
                        ELSE task[id]]
    BY <1>3, Zenon DEF Complete
  <2>2. CASE i \in applied
    <3>1. i \in S /\ Holds(task[i], token[i]) /\ (kind[i] = "cancel" => task[i].cancel_requested)
      BY <2>2 DEF Applies
    <3>2. task'[i] = Completed(task[i], token[i], kind[i], delay[i])
      BY <2>1, <2>2, <3>1
    <3>3. delay[i] \in Nat
      BY <2>1, BackoffNat
    <3> QED
      BY <3>1, <3>2, <3>3 DEF Holds, RowStep
  <2>3. CASE i \notin applied
    BY <2>1, <2>3 DEF RowStep
  <2> QED
    BY <2>2, <2>3
<1>4. ASSUME NEW id \in Id, NEW type \in TaskType, NEW key \in Key \cup {None},
             NEW ckey \in CKey \cup {None}, NEW max_attempts \in Budgets, NEW delay \in RunDelays,
             Enqueue(id, type, key, ckey, max_attempts, delay)
      PROVE  RowStep(task[i], task'[i])
  BY <1>4 DEF Enqueue, RowStep
<1>5. ASSUME NEW id \in Id, RequestCancel(id) \/ Requeue(id)
      PROVE  RowStep(task[i], task'[i])
  BY <1>5 DEF RequestCancel, Requeue, RowStep
<1>6. ASSUME NEW S \in SUBSET Id, Reap(S)
      PROVE  RowStep(task[i], task'[i])
  <2>1. PICK delay \in Delays :
          /\ \A id \in Id : delay[id] \in Backoff(task[id].failures)
          /\ task' = [id \in Id |-> IF id \in S THEN Reaped(task[id], delay[id]) ELSE task[id]]
    BY <1>6 DEF Reap
  <2>2. delay[i] \in Nat
    BY <2>1, BackoffNat
  <2> QED
    BY <1>6, <2>1, <2>2 DEF Reap, RowStep
<1>7. ASSUME NEW S \in SUBSET Id, PurgeTasks(S)
      PROVE  RowStep(task[i], task'[i])
  BY <1>7 DEF PurgeTasks, RowStep
<1>8. ASSUME NEW w \in Worker, NEW live \in SUBSET Id, NEW S \in SUBSET Id,
             ReleaseOrphans(w, live, S)
      PROVE  RowStep(task[i], task'[i])
  BY <1>8 DEF ReleaseOrphans, Orphans, Kinds, RowStep
<1>9. ASSUME NEW w \in Worker, NEW S \in SUBSET Id, Claim(w, S)
      PROVE  RowStep(task[i], task'[i])
  BY <1>9 DEF Claim, Due, RowStep
<1>10. CASE AttemptWrite
  BY <1>1, <1>2, <1>3, <1>10 DEF AttemptWrite
<1>11. CASE Control
  <2>1. \/ task' = task
        \/ \E id \in Id, type \in TaskType, key \in Key \cup {None}, ckey \in CKey \cup {None},
              max_attempts \in Budgets, delay \in RunDelays :
                Enqueue(id, type, key, ckey, max_attempts, delay)
        \/ \E id \in Id : RequestCancel(id) \/ Requeue(id)
    BY <1>11 DEF Control, PublishTaskTypes, SetPaused, RegisterSubscription, Unsubscribe
  <2> QED
    BY <1>0, <1>4, <1>5, <2>1
<1>12. CASE Maintenance
  BY <1>6, <1>7, <1>8, <1>12 DEF Maintenance
<1>13. CASE Tick
  BY <1>0, <1>13 DEF Tick
<1> QED
  BY <1>0, <1>9, <1>10, <1>11, <1>12, <1>13 DEF Next, storeVars

-----------------------------------------------------------------------------
LEMMA RowStepType ==
    ASSUME now \in Nat, NEW r \in Row, NEW q, RowStep(r, q)
    PROVE  q \in Row
<1>1. r.token \in Nat /\ now + LeaseS \in Time
  BY PolicyAssumption, TimeFacts DEF PolicyAssumption, Row
<1>2. [r EXCEPT !.lease_until = now + LeaseS] \in Row /\ [r EXCEPT !.progress = r.token] \in Row
  BY <1>1 DEF Row
<1>3. \A w \in Worker : Claimed(r, w) \in Row
  BY ClaimedType
<1>4. \A kind \in Kinds, delay \in Nat :
        Completed(r, r.token, kind, delay) \in Row
  BY <1>1, CompletedType
<1>5. CancelRequested(r) \in Row /\ Requeued(r) \in Row
  BY CancelRequestedType, RequeuedType
<1>6. \A type \in TaskType, key \in Key \cup {None}, ckey \in CKey \cup {None},
         max_attempts \in Budgets, delay \in RunDelays :
           NewRow(type, key, ckey, max_attempts, delay) \in Row
  BY NewRowType
<1>7. \A delay \in Nat : Reaped(r, delay) \in Row
  BY ReapedType
<1>8. \/ q = r
      \/ \E type \in TaskType, key \in Key \cup {None}, ckey \in CKey \cup {None},
            max_attempts \in Budgets, delay \in RunDelays :
              q = NewRow(type, key, ckey, max_attempts, delay)
      \/ \E w \in Worker : q = Claimed(r, w)
      \/ q = [r EXCEPT !.lease_until = now + LeaseS]
      \/ q = [r EXCEPT !.progress = r.token]
      \/ \E kind \in Kinds, delay \in Nat : q = Completed(r, r.token, kind, delay)
      \/ q = CancelRequested(r)
      \/ \E delay \in Nat : q = Reaped(r, delay)
      \/ q = Requeued(r)
      \/ q = [NoRow EXCEPT !.state = "purged"]
  BY Zenon DEF RowStep
<1>9. CASE q = [r EXCEPT !.lease_until = now + LeaseS] \/ q = [r EXCEPT !.progress = r.token]
  BY <1>2, <1>9
<1>10. CASE q = [NoRow EXCEPT !.state = "purged"]
  BY <1>10, NoRowType
<1>11. CASE \/ \E w \in Worker : q = Claimed(r, w)
            \/ \E kind \in Kinds, delay \in Nat : q = Completed(r, r.token, kind, delay)
            \/ \E delay \in Nat : q = Reaped(r, delay)
            \/ q = CancelRequested(r)
            \/ q = Requeued(r)
  BY <1>3, <1>4, <1>5, <1>7, <1>11, Zenon
<1>12. CASE \E type \in TaskType, key \in Key \cup {None}, ckey \in CKey \cup {None},
              max_attempts \in Budgets, delay \in RunDelays :
                q = NewRow(type, key, ckey, max_attempts, delay)
  BY <1>6, <1>12, Zenon
<1> QED
  BY <1>8, <1>9, <1>10, <1>11, <1>12, Zenon

\* The statement that moves rows appends well-typed events.
LEMMA PublishType ==
    ASSUME TypeOK, task' \in [Id -> Row], NEW S, Publish(S)
    PROVE  events' \in [Sub -> [Id -> Seq(Event)]]
<1> SUFFICES ASSUME NEW s \in Sub, NEW id \in Id, Matches(s, task'[id])
             PROVE  Append(events[s][id], [state |-> task'[id].state,
                                           attempt |-> task'[id].attempt]) \in Seq(Event)
  BY DEF Publish, TypeOK
<1>1. task'[id].state \in State
  BY DEF TypeOK, SubRow, Matches
<1>2. task'[id].attempt \in Nat
  BY DEF Row
<1>3. [state |-> task'[id].state, attempt |-> task'[id].attempt] \in Event
  BY <1>1, <1>2 DEF Event
<1> QED
  BY <1>3 DEF TypeOK

LEMMA NextType == ASSUME TypeOK, [Next]_storeVars PROVE TypeOK'
<1>1. task' \in [Id -> Row]
  <2>1. task = [id \in Id |-> task[id]] /\ now \in Nat
    BY DEF TypeOK
  <2>2. \A id \in Id : task'[id] \in Row
    BY <2>1, Rowwise, RowStepType DEF TypeOK
  <2>3. task' = [id \in Id |-> task'[id]]
    BY <2>1 DEF Next, storeVars, Tick, AttemptWrite, Heartbeat, SetProgress, Complete, Control,
                Enqueue, RequestCancel, Requeue, PublishTaskTypes, SetPaused,
                RegisterSubscription, Unsubscribe, Maintenance, Reap, PurgeTasks,
                ReleaseOrphans, Claim
  <2> QED
    BY <2>2, <2>3
<1>2. \/ UNCHANGED events \/ (\E S : Publish(S)) \/ \E s \in Sub : Unsubscribe(s)
  BY DEF Next, storeVars, Tick, AttemptWrite, Heartbeat, SetProgress, Complete, Control,
         Enqueue, RequestCancel, Requeue, PublishTaskTypes, SetPaused,
         RegisterSubscription, Maintenance, Reap, PurgeTasks, ReleaseOrphans, Claim
<1>3. events' \in [Sub -> [Id -> Seq(Event)]]
  <2>1. CASE \E s \in Sub : Unsubscribe(s)
    BY <2>1 DEF Unsubscribe, TypeOK
  <2> QED
    BY <1>1, <1>2, <2>1, PublishType DEF TypeOK
<1> DEFINE Rest == types \in [TaskType -> TypeRow] /\ subs \in [Sub -> SubRow] /\ now \in Nat
<1>4. Rest'
  <2>1. \/ UNCHANGED <<types, subs, now>>
        \/ Tick
        \/ \E S \in SUBSET TaskType : \E limit, keyLimit \in [S -> Limits] :
             PublishTaskTypes(limit, keyLimit)
        \/ \E type \in TaskType, paused \in BOOLEAN : SetPaused(type, paused)
        \/ \E s \in Sub, states \in Filters, accepted \in SUBSET TaskType :
             RegisterSubscription(s, states, accepted)
        \/ \E s \in Sub : Unsubscribe(s)
    BY DEF Next, storeVars, AttemptWrite, Heartbeat, SetProgress, Complete, Control,
           Enqueue, RequestCancel, Requeue, Maintenance, Reap, PurgeTasks, ReleaseOrphans, Claim
  <2>2. CASE UNCHANGED <<types, subs, now>> \/ Tick
    BY <2>2 DEF Tick, TypeOK
  <2>3. ASSUME NEW S \in SUBSET TaskType, NEW limit \in [S -> Limits],
               NEW keyLimit \in [S -> Limits], PublishTaskTypes(limit, keyLimit)
        PROVE  Rest'
    BY <2>3, PolicyAssumption DEF PublishTaskTypes, TypeOK, TypeRow, PolicyAssumption
  <2>4. ASSUME NEW type \in TaskType, NEW paused \in BOOLEAN, SetPaused(type, paused)
        PROVE  Rest'
    BY <2>4 DEF SetPaused, TypeOK, TypeRow
  <2>5. ASSUME NEW s \in Sub, NEW states \in Filters, NEW accepted \in SUBSET TaskType,
               RegisterSubscription(s, states, accepted)
        PROVE  Rest'
    <3>1. states \in SUBSET State
      BY FilterAssumption DEF FilterAssumption, State, Active, Terminal
    <3> QED
      BY <2>5, <3>1 DEF RegisterSubscription, TypeOK, SubRow
  <2>6. ASSUME NEW s \in Sub, Unsubscribe(s)
        PROVE  Rest'
    BY <2>6 DEF Unsubscribe, NoSub, TypeOK, SubRow
  <2> QED
    BY <2>1, <2>2, <2>3, <2>4, <2>5, <2>6
<1> QED
  BY <1>1, <1>3, <1>4 DEF TypeOK

LEMMA InitType == StoreInit => TypeOK
BY NoRowType DEF StoreInit, TypeOK, TypeRow, SubRow, NoSub

\* Every reachable state of the store has the columns schema.sql declares.
THEOREM TypeCorrect == Spec => []TypeOK
BY InitType, NextType, PTL DEF Spec

-----------------------------------------------------------------------------
(* The safety of a row.  The four properties are inductive together once   *)
(* every row is known to have been inserted with a positive budget: a      *)
(* requeue resets failures and must still leave a failure to spend.        *)
RowSafe(r) ==
    /\ RowLeaseFence(r)
    /\ RowRetryBudget(r)
    /\ RowCancelHonoured(r)
    /\ RowOutcomeOwned(r)
    /\ r.state \in State => r.max_attempts > 0

\* Only the fields the row properties read.
LEMMA ClaimedSafe ==
    ASSUME now \in Nat, NEW r \in Row, NEW w \in Worker, RowSafe(r), r.state = "queued"
    PROVE  RowSafe(Claimed(r, w))
<1>1. now + LeaseS # NoTime
  BY PolicyAssumption DEF PolicyAssumption, NoTime
<1> DEFINE q == Claimed(r, w)
<1>2. /\ q.state = "running" /\ q.attempt = r.attempt + 1 /\ q.token = r.attempt + 1
      /\ q.lease_until = now + LeaseS /\ q.progress = 0 /\ q.failures = r.failures
      /\ q.max_attempts = r.max_attempts /\ q.finished_at = r.finished_at
      /\ q.cancel_requested = r.cancel_requested /\ q.result = r.result /\ q.error = r.error
  BY DEF Claimed, Row
<1>3. r.attempt \in Nat /\ r.failures \in Nat /\ r.max_attempts \in Nat /\ r.error \in Nat
  BY DEF Row
<1> HIDE DEF q
<1>4. RowLeaseFence(q)
  BY <1>1, <1>2, <1>3 DEF RowSafe, RowLeaseFence, Active, Terminal
<1>5. RowRetryBudget(q)
  BY <1>1, <1>2, <1>3 DEF RowSafe, RowRetryBudget, State, Active, Terminal
<1>6. RowCancelHonoured(q)
  BY <1>1, <1>2, <1>3 DEF RowSafe, RowCancelHonoured
<1>7. RowOutcomeOwned(q)
  BY <1>1, <1>2, <1>3 DEF RowSafe, RowLeaseFence, RowOutcomeOwned
<1>8. q.state \in State => q.max_attempts > 0
  BY <1>1, <1>2, <1>3 DEF RowSafe, State, Active, Terminal
<1> QED
  BY <1>4, <1>5, <1>6, <1>7, <1>8 DEF RowSafe, q

LEMMA CompletedSafe ==
    ASSUME now \in Nat, NEW r \in Row, NEW kind \in Kinds, NEW delay \in Nat, RowSafe(r),
           r.state = "running", kind = "cancel" => r.cancel_requested
    PROVE  RowSafe(Completed(r, r.token, kind, delay))
<1> DEFINE q == Completed(r, r.token, kind, delay)
<1>1. /\ q.state = CompletedState(r, kind)
      /\ q.result = (IF kind = "succeed" THEN r.token ELSE r.result)
      /\ q.error = (IF kind \in {"fail", "fail_final"} THEN r.token ELSE r.error)
      /\ q.failures = (IF kind \in {"fail", "fail_final"} THEN r.failures + 1 ELSE r.failures)
      /\ q.finished_at = (IF \/ kind \in {"succeed", "fail_final", "cancel"}
                             \/ r.cancel_requested
                             \/ kind = "fail" /\ ~Retries(r)
                          THEN now ELSE NoTime)
      /\ q.token = 0 /\ q.lease_until = NoTime /\ q.attempt = r.attempt
      /\ q.progress = r.progress /\ q.max_attempts = r.max_attempts
      /\ q.cancel_requested = r.cancel_requested
  BY DEF Completed, Row
<1>2. /\ r.attempt \in Nat /\ r.failures \in Nat /\ r.max_attempts \in Nat /\ r.error \in Nat
      /\ r.cancel_requested \in BOOLEAN
  BY DEF Row
<1>3. now # NoTime
  BY DEF NoTime
<1> HIDE DEF q
<1>4. RowLeaseFence(q)
  BY <1>1, <1>2, <1>3 DEF RowSafe, RowLeaseFence, CompletedState, Retries, Kinds, Active, Terminal
<1>5. RowRetryBudget(q)
  BY <1>1, <1>2, <1>3 DEF RowSafe, RowRetryBudget, CompletedState, Retries, Kinds, State, Active, Terminal
<1>6. RowCancelHonoured(q)
  BY <1>1, <1>2, <1>3 DEF RowSafe, RowCancelHonoured, CompletedState, Retries, Kinds
<1>7. RowOutcomeOwned(q)
  BY <1>1, <1>2, <1>3 DEF RowSafe, RowLeaseFence, RowOutcomeOwned, CompletedState, Retries, Kinds
<1>8. q.state \in State => q.max_attempts > 0
  BY <1>1, <1>2, <1>3 DEF RowSafe, State, Active, Terminal
<1> QED
  BY <1>4, <1>5, <1>6, <1>7, <1>8 DEF RowSafe, q

LEMMA ReapedSafe ==
    ASSUME now \in Nat, NEW r \in Row, NEW delay \in Nat, RowSafe(r), r.state = "running"
    PROVE  RowSafe(Reaped(r, delay))
<1> DEFINE q == Reaped(r, delay)
<1>1. /\ q.state = (IF r.cancel_requested THEN "cancelled"
                    ELSE IF Retries(r) THEN "queued" ELSE "failed")
      /\ q.error = (IF ~r.cancel_requested THEN r.attempt ELSE r.error)
      /\ q.failures = (IF ~r.cancel_requested THEN r.failures + 1 ELSE r.failures)
      /\ q.finished_at = (IF r.cancel_requested \/ ~Retries(r) THEN now ELSE NoTime)
      /\ q.token = 0 /\ q.lease_until = NoTime /\ q.attempt = r.attempt
      /\ q.progress = r.progress /\ q.max_attempts = r.max_attempts /\ q.result = r.result
      /\ q.cancel_requested = r.cancel_requested
  BY DEF Reaped, Row
<1>2. /\ r.attempt \in Nat /\ r.failures \in Nat /\ r.max_attempts \in Nat /\ r.error \in Nat
      /\ r.cancel_requested \in BOOLEAN
  BY DEF Row
<1>3. now # NoTime
  BY DEF NoTime
<1> HIDE DEF q
<1>4. RowLeaseFence(q)
  BY <1>1, <1>2, <1>3 DEF RowSafe, RowLeaseFence, Retries, Active, Terminal
<1>5. RowRetryBudget(q)
  BY <1>1, <1>2, <1>3 DEF RowSafe, RowRetryBudget, Retries, State, Active, Terminal
<1>6. RowCancelHonoured(q)
  BY <1>1, <1>2, <1>3 DEF RowSafe, RowCancelHonoured, Retries
<1>7. RowOutcomeOwned(q)
  BY <1>1, <1>2, <1>3 DEF RowSafe, RowLeaseFence, RowOutcomeOwned, Retries
<1>8. q.state \in State => q.max_attempts > 0
  BY <1>1, <1>2, <1>3 DEF RowSafe, State, Active, Terminal
<1> QED
  BY <1>4, <1>5, <1>6, <1>7, <1>8 DEF RowSafe, q

LEMMA CancelRequestedSafe ==
    ASSUME now \in Nat, NEW r \in Row, RowSafe(r), r.state \in Active
    PROVE  RowSafe(CancelRequested(r))
<1> DEFINE q == CancelRequested(r)
<1>1. /\ q.state = (IF r.state = "queued" THEN "cancelled" ELSE r.state)
      /\ q.finished_at = (IF r.state = "queued" THEN now ELSE r.finished_at)
      /\ q.cancel_requested = TRUE
      /\ q.token = r.token /\ q.lease_until = r.lease_until /\ q.attempt = r.attempt
      /\ q.progress = r.progress /\ q.max_attempts = r.max_attempts /\ q.result = r.result
      /\ q.error = r.error /\ q.failures = r.failures
  BY DEF CancelRequested, Row
<1>2. now # NoTime
  BY DEF NoTime
<1> HIDE DEF q
<1>4. RowLeaseFence(q)
  BY <1>1, <1>2 DEF RowSafe, RowLeaseFence, Active, Terminal
<1>5. RowRetryBudget(q)
  BY <1>1, <1>2 DEF RowSafe, RowRetryBudget, State, Active, Terminal
<1>6. RowCancelHonoured(q)
  BY <1>1, <1>2 DEF RowSafe, RowCancelHonoured
<1>7. RowOutcomeOwned(q)
  BY <1>1, <1>2 DEF RowSafe, RowLeaseFence, RowOutcomeOwned
<1>8. q.state \in State => q.max_attempts > 0
  BY <1>1, <1>2 DEF RowSafe, State, Active, Terminal
<1> QED
  BY <1>4, <1>5, <1>6, <1>7, <1>8 DEF RowSafe, q

LEMMA RequeuedSafe ==
    ASSUME now \in Nat, NEW r \in Row, RowSafe(r), r.state \in {"failed", "cancelled"}
    PROVE  RowSafe(Requeued(r))
<1> DEFINE q == Requeued(r)
<1>1. /\ q.state = "queued" /\ q.failures = 0 /\ q.cancel_requested = FALSE
      /\ q.finished_at = NoTime /\ q.token = 0 /\ q.lease_until = NoTime
      /\ q.attempt = r.attempt /\ q.progress = r.progress /\ q.max_attempts = r.max_attempts
      /\ q.result = r.result /\ q.error = r.error
  BY DEF Requeued, Row
<1>2. r.attempt \in Nat /\ r.max_attempts \in Nat
  BY DEF Row
<1> HIDE DEF q
<1>4. RowLeaseFence(q)
  BY <1>1, <1>2 DEF RowSafe, RowLeaseFence, Active, Terminal
<1>5. RowRetryBudget(q)
  BY <1>1, <1>2 DEF RowSafe, RowRetryBudget, State, Active, Terminal
<1>6. RowCancelHonoured(q)
  BY <1>1, <1>2 DEF RowSafe, RowCancelHonoured
<1>7. RowOutcomeOwned(q)
  BY <1>1, <1>2 DEF RowSafe, RowLeaseFence, RowOutcomeOwned
<1>8. q.state \in State => q.max_attempts > 0
  BY <1>1, <1>2 DEF RowSafe, State, Active, Terminal
<1> QED
  BY <1>4, <1>5, <1>6, <1>7, <1>8 DEF RowSafe, q

LEMMA NewRowSafe ==
    ASSUME now \in Nat, NEW type, NEW key, NEW ckey, NEW max_attempts \in Budgets, NEW delay
    PROVE  RowSafe(NewRow(type, key, ckey, max_attempts, delay))
<1> DEFINE q == NewRow(type, key, ckey, max_attempts, delay)
<1>1. /\ q.state = "queued" /\ q.attempt = 0 /\ q.failures = 0 /\ q.token = 0
      /\ q.lease_until = NoTime /\ q.finished_at = NoTime /\ q.progress = 0 /\ q.result = 0
      /\ q.error = 0 /\ q.max_attempts = max_attempts /\ q.cancel_requested = FALSE
  BY DEF NewRow, NoRow
<1>2. max_attempts \in Nat /\ max_attempts > 0
  BY PolicyAssumption DEF PolicyAssumption
<1> HIDE DEF q
<1>4. RowLeaseFence(q)
  BY <1>1 DEF RowLeaseFence, Terminal
<1>5. RowRetryBudget(q)
  BY <1>1, <1>2 DEF RowRetryBudget
<1>6. RowCancelHonoured(q) /\ RowOutcomeOwned(q)
  BY <1>1 DEF RowCancelHonoured, RowOutcomeOwned
<1> QED
  BY <1>1, <1>2, <1>4, <1>5, <1>6 DEF RowSafe, q

LEMMA NoRowSafe == RowSafe(NoRow) /\ RowSafe([NoRow EXCEPT !.state = "purged"])
BY DEF NoRow, RowSafe, RowLeaseFence, RowRetryBudget, RowCancelHonoured, RowOutcomeOwned,
       State, Active, Terminal, NoTime

\* A heartbeat and a progress write.
LEMMA WrittenSafe ==
    ASSUME now \in Nat, NEW r \in Row, RowSafe(r), r.state = "running"
    PROVE  /\ RowSafe([r EXCEPT !.lease_until = now + LeaseS])
           /\ RowSafe([r EXCEPT !.progress = r.token])
<1> DEFINE h == [r EXCEPT !.lease_until = now + LeaseS]
           p == [r EXCEPT !.progress = r.token]
<1>1. /\ h.state = r.state /\ h.attempt = r.attempt /\ h.failures = r.failures
      /\ h.token = r.token /\ h.finished_at = r.finished_at /\ h.progress = r.progress
      /\ h.result = r.result /\ h.error = r.error /\ h.max_attempts = r.max_attempts
      /\ h.cancel_requested = r.cancel_requested /\ h.lease_until = now + LeaseS
  BY DEF Row
<1>2. /\ p.state = r.state /\ p.attempt = r.attempt /\ p.failures = r.failures
      /\ p.token = r.token /\ p.finished_at = r.finished_at /\ p.progress = r.token
      /\ p.result = r.result /\ p.error = r.error /\ p.max_attempts = r.max_attempts
      /\ p.cancel_requested = r.cancel_requested /\ p.lease_until = r.lease_until
  BY DEF Row
<1>3. now + LeaseS # NoTime
  BY PolicyAssumption DEF PolicyAssumption, NoTime
<1> HIDE DEF h, p
<1>4. RowLeaseFence(h) /\ RowLeaseFence(p)
  BY <1>1, <1>2, <1>3 DEF RowSafe, RowLeaseFence
<1>5. RowRetryBudget(h) /\ RowRetryBudget(p)
  BY <1>1, <1>2 DEF RowSafe, RowRetryBudget
<1>6. RowCancelHonoured(h) /\ RowCancelHonoured(p)
  BY <1>1, <1>2 DEF RowSafe, RowCancelHonoured
<1>7. RowOutcomeOwned(h) /\ RowOutcomeOwned(p)
  BY <1>1, <1>2 DEF RowSafe, RowOutcomeOwned, RowLeaseFence
<1>8. (h.state \in State => h.max_attempts > 0) /\ (p.state \in State => p.max_attempts > 0)
  BY <1>1, <1>2 DEF RowSafe
<1> QED
  BY <1>4, <1>5, <1>6, <1>7, <1>8 DEF RowSafe, h, p

LEMMA RowStepSafe ==
    ASSUME now \in Nat, NEW r \in Row, NEW q, RowSafe(r), RowStep(r, q)
    PROVE  RowSafe(q)
<1>1. CASE r.state = "absent" /\ \E type \in TaskType, key \in Key \cup {None},
             ckey \in CKey \cup {None}, max_attempts \in Budgets, delay \in RunDelays :
               q = NewRow(type, key, ckey, max_attempts, delay)
  BY <1>1, NewRowSafe
<1>2. CASE r.state = "queued" /\ \E w \in Worker : q = Claimed(r, w)
  BY <1>2, ClaimedSafe
<1>3. CASE /\ r.state = "running"
           /\ q = [r EXCEPT !.lease_until = now + LeaseS] \/ q = [r EXCEPT !.progress = r.token]
  BY <1>3, WrittenSafe, Zenon
<1>4. CASE /\ r.state = "running"
           /\ \E kind \in Kinds, delay \in Nat :
                /\ kind = "cancel" => r.cancel_requested
                /\ q = Completed(r, r.token, kind, delay)
  BY <1>4, CompletedSafe
<1>5. CASE r.state \in Active /\ q = CancelRequested(r)
  BY <1>5, CancelRequestedSafe
<1>6. CASE r.state = "running" /\ \E delay \in Nat : q = Reaped(r, delay)
  BY <1>6, ReapedSafe
<1>7. CASE r.state \in {"failed", "cancelled"} /\ q = Requeued(r)
  BY <1>7, RequeuedSafe
<1>8. CASE r.state \in Terminal /\ q = [NoRow EXCEPT !.state = "purged"]
  BY <1>8, NoRowSafe, Zenon
<1> QED
  BY <1>1, <1>2, <1>3, <1>4, <1>5, <1>6, <1>7, <1>8, Zenon DEF RowStep

\* The inductive invariant: well-typed, and every row safe.
StoreInv == TypeOK /\ \A id \in Id : RowSafe(task[id])

LEMMA StoreInvInit == StoreInit => StoreInv
BY InitType, NoRowSafe DEF StoreInit, StoreInv

LEMMA StoreInvNext == ASSUME StoreInv, [Next]_storeVars PROVE StoreInv'
<1>1. TypeOK'
  BY NextType DEF StoreInv
<1>2. task = [id \in Id |-> task[id]] /\ now \in Nat /\ \A id \in Id : task[id] \in Row
  BY DEF StoreInv, TypeOK
<1>3. \A id \in Id : RowSafe(task'[id])
  BY <1>2, Rowwise, RowStepSafe DEF StoreInv
<1> QED
  BY <1>1, <1>3 DEF StoreInv

\* In every reachable state, every row keeps its lease fence, its retry budget,
\* its promise to a requested cancellation and the authorship of its outcome.
THEOREM RowSafety == Spec => [](LeaseFence /\ RetryBudget /\ CancelHonoured /\ OutcomeOwned)
<1>1. StoreInv => LeaseFence /\ RetryBudget /\ CancelHonoured /\ OutcomeOwned
  BY DEF StoreInv, RowSafe, LeaseFence, RetryBudget, CancelHonoured, OutcomeOwned
<1> QED
  BY <1>1, StoreInvInit, StoreInvNext, PTL DEF Spec

\* A row has its token and its lease exactly while it runs: what a stale
\* completion or heartbeat is compared with is gone once the attempt is over.
THEOREM LeaseFencing == Spec => []LeaseFence
BY RowSafety, PTL

\* Completions and reaps charge an attempt at most once, and a task that may
\* still run has a failure left to spend.
THEOREM BudgetKept == Spec => []RetryBudget
BY RowSafety, PTL

\* No retry, release or reap drops a cancellation request.
THEOREM CancellationKept == Spec => []CancelHonoured
BY RowSafety, PTL

-----------------------------------------------------------------------------
(* Key uniqueness.  Only an insert and a requeue make a row active, and    *)
(* both consult the unique index; nothing else changes a row's key.        *)

LEMMA RowStepKey ==
    ASSUME NEW r \in Row, NEW q, RowStep(r, q), r.state \in Active
    PROVE  q.state \in Active => q.type = r.type /\ q.key = r.key
<1>1. \A w \in Worker : Claimed(r, w).type = r.type /\ Claimed(r, w).key = r.key
  BY DEF Claimed, Row
<1>2. \A kind \in Kinds, delay \in Nat :
        /\ Completed(r, r.token, kind, delay).type = r.type
        /\ Completed(r, r.token, kind, delay).key = r.key
  BY DEF Completed, Row
<1>3. \A delay \in Nat : Reaped(r, delay).type = r.type /\ Reaped(r, delay).key = r.key
  BY DEF Reaped, Row
<1>4. CancelRequested(r).type = r.type /\ CancelRequested(r).key = r.key
  BY DEF CancelRequested, Row
<1>5. /\ [r EXCEPT !.lease_until = now + LeaseS].type = r.type
      /\ [r EXCEPT !.lease_until = now + LeaseS].key = r.key
      /\ [r EXCEPT !.progress = r.token].type = r.type
      /\ [r EXCEPT !.progress = r.token].key = r.key
  BY DEF Row
<1>6. \/ q = r \/ (\E w \in Worker : q = Claimed(r, w))
      \/ (\E kind \in Kinds, delay \in Nat : q = Completed(r, r.token, kind, delay))
      \/ q = CancelRequested(r) \/ (\E delay \in Nat : q = Reaped(r, delay))
      \/ q = [r EXCEPT !.lease_until = now + LeaseS] \/ q = [r EXCEPT !.progress = r.token]
  <2>1. r.state \notin {"absent", "failed", "cancelled"} /\ r.state \notin Terminal
    BY DEF Active, Terminal
  <2> QED
    BY <2>1, Zenon DEF RowStep
<1>7. CASE q = [r EXCEPT !.lease_until = now + LeaseS] \/ q = [r EXCEPT !.progress = r.token]
  BY <1>5, <1>7
<1> QED
  BY <1>1, <1>2, <1>3, <1>4, <1>6, <1>7, Zenon

\* Apart from Enqueue and Requeue, a step changes active rows or deletes rows.
LEMMA Quiet ==
    ASSUME task = [id \in Id |-> task[id]], [Next]_storeVars
    PROVE  \/ \E id \in Id : \E type, key, ckey, max_attempts, delay :
                Enqueue(id, type, key, ckey, max_attempts, delay)
           \/ \E id \in Id : Requeue(id)
           \/ \A id \in Id : \/ task'[id] = task[id]
                             \/ task[id].state \in Active
                             \/ task'[id].state = "purged"
<1> DEFINE Still == \A id \in Id : \/ task'[id] = task[id]
                                   \/ task[id].state \in Active
                                   \/ task'[id].state = "purged"
<1>0. CASE task' = task
  BY <1>0
<1>1. CASE AttemptWrite
  <2>1. ASSUME NEW c, Complete(c) PROVE Still
    BY <2>1 DEF Complete, Applies, Holds, Active
  <2>2. ASSUME NEW held, Heartbeat(held) PROVE Still
    BY <2>2 DEF Heartbeat, Holds, Active
  <2>3. ASSUME NEW id \in Id, NEW token, SetProgress(id, token) PROVE Still
    BY <2>3 DEF SetProgress, Holds, Active
  <2> QED
    BY <1>1, <2>1, <2>2, <2>3, Zenon DEF AttemptWrite
<1>2. CASE Maintenance
  <2>1. [NoRow EXCEPT !.state = "purged"].state = "purged"
    BY DEF NoRow
  <2>2. ASSUME NEW S \in SUBSET Id, Reap(S) \/ PurgeTasks(S) PROVE Still
    BY <2>1, <2>2 DEF Reap, PurgeTasks, Active
  <2>3. ASSUME NEW w, NEW live, NEW S \in SUBSET Id, ReleaseOrphans(w, live, S) PROVE Still
    BY <2>3 DEF ReleaseOrphans, Orphans, Active
  <2> QED
    BY <1>2, <2>2, <2>3 DEF Maintenance
<1>3. CASE \E w \in Worker : \E S \in SUBSET Id : Claim(w, S)
  BY <1>3 DEF Claim, Due, Active
<1>4. ASSUME NEW id \in Id, RequestCancel(id) PROVE Still
  BY <1>4 DEF RequestCancel
<1>5. CASE Control
  BY <1>0, <1>4, <1>5
     DEF Control, PublishTaskTypes, SetPaused, RegisterSubscription, Unsubscribe
<1> QED
  BY <1>0, <1>1, <1>2, <1>3, <1>5 DEF Next, Tick, storeVars

LEMMA UniqueNext ==
    ASSUME StoreInv, UniqueActiveKey, [Next]_storeVars PROVE UniqueActiveKey'
<1>1. task = [id \in Id |-> task[id]] /\ \A id \in Id : task[id] \in Row
  BY DEF StoreInv, TypeOK
<1>2. ASSUME NEW id \in Id, NEW type, NEW key, NEW ckey, NEW max_attempts, NEW delay,
             Enqueue(id, type, key, ckey, max_attempts, delay)
      PROVE  UniqueActiveKey'
  <2>1. ~ActiveDuplicate(type, key) /\ task[id].state = "absent"
        /\ task' = [task EXCEPT ![id] = NewRow(type, key, ckey, max_attempts, delay)]
    BY <1>2 DEF Enqueue
  <2>2. /\ NewRow(type, key, ckey, max_attempts, delay).type = type
        /\ NewRow(type, key, ckey, max_attempts, delay).key = key
    BY DEF NewRow, NoRow
  <2>3. task'[id].type = type /\ task'[id].key = key /\ \A j \in Id \ {id} : task'[j] = task[j]
    BY <1>1, <2>1, <2>2
  <2> QED
    BY <2>1, <2>3 DEF UniqueActiveKey, ActiveDuplicate
<1>3. ASSUME NEW id \in Id, Requeue(id) PROVE UniqueActiveKey'
  <2>1. ~ActiveDuplicate(task[id].type, task[id].key)
        /\ task' = [task EXCEPT ![id] = Requeued(task[id])]
    BY <1>3 DEF Requeue
  <2>2. Requeued(task[id]).type = task[id].type /\ Requeued(task[id]).key = task[id].key
    BY <1>1 DEF Requeued, Row
  <2>3. /\ task'[id].type = task[id].type /\ task'[id].key = task[id].key
        /\ \A j \in Id \ {id} : task'[j] = task[j]
    BY <1>1, <2>1, <2>2
  <2> QED
    BY <2>1, <2>3 DEF UniqueActiveKey, ActiveDuplicate
<1>4. CASE \A id \in Id : \/ task'[id] = task[id]
                          \/ task[id].state \in Active
                          \/ task'[id].state = "purged"
  <2>1. \A id \in Id : task'[id].state \in Active =>
          /\ task[id].state \in Active
          /\ task'[id].type = task[id].type /\ task'[id].key = task[id].key
    <3> SUFFICES ASSUME NEW id \in Id, task'[id].state \in Active
                 PROVE  /\ task[id].state \in Active
                        /\ task'[id].type = task[id].type /\ task'[id].key = task[id].key
      OBVIOUS
    <3>1. task[id].state \in Active
      BY <1>4 DEF Active
    <3> QED
      BY <1>1, <3>1, Rowwise, RowStepKey
  <2> QED
    BY <2>1 DEF UniqueActiveKey
<1> QED
  BY <1>1, <1>2, <1>3, <1>4, Quiet, Zenon

\* At most one active task per type and key, in every reachable state.
THEOREM KeyUniqueness == Spec => []UniqueActiveKey
<1>1. StoreInit => UniqueActiveKey
  BY DEF StoreInit, UniqueActiveKey, NoRow
<1> QED
  BY <1>1, StoreInvInit, StoreInvNext, UniqueNext, PTL DEF Spec

-----------------------------------------------------------------------------
(* The concurrency limits.                                                 *)

\* A union has no more elements than its parts have together.
LEMMA UnionBound ==
    ASSUME NEW A \in SUBSET Id, NEW B \in SUBSET Id
    PROVE  /\ Cardinality(A) \in Nat /\ Cardinality(B) \in Nat
           /\ Cardinality(A \cup B) \in Nat
           /\ Cardinality(A \cup B) <= Cardinality(A) + Cardinality(B)
<1>1. IsFiniteSet(A) /\ IsFiniteSet(B) /\ IsFiniteSet(A \cap B) /\ IsFiniteSet(A \cup B)
  BY IdAssumption, FS_Subset DEF IdAssumption
<1>2. /\ Cardinality(A) \in Nat /\ Cardinality(B) \in Nat
      /\ Cardinality(A \cap B) \in Nat /\ Cardinality(A \cup B) \in Nat
  BY <1>1, FS_CardinalityType
<1>3. Cardinality(A \cup B) = Cardinality(A) + Cardinality(B) - Cardinality(A \cap B)
  BY <1>1, FS_Union
<1> QED
  BY <1>2, <1>3

\* Only the claim statement starts a task: after any other, every running row
\* is one that was running before.
Calm == \A id \in Id : task'[id].state = "running" => task[id].state = "running"

LEMMA CompleteCalm == ASSUME NEW c, Complete(c) PROVE Calm
BY DEF Complete, Applies, Holds, Calm

LEMMA EnqueueCalm ==
    ASSUME StoreInv, NEW id \in Id, NEW type, NEW key, NEW ckey, NEW max_attempts, NEW delay,
           Enqueue(id, type, key, ckey, max_attempts, delay)
    PROVE  Calm
<1>1. NewRow(type, key, ckey, max_attempts, delay).state = "queued"
  BY DEF NewRow, NoRow
<1>2. task = [i \in Id |-> task[i]]
  BY DEF StoreInv, TypeOK
<1> QED
  BY <1>1, <1>2 DEF Enqueue, Calm

LEMMA OperatorCalm ==
    ASSUME StoreInv, NEW id \in Id, RequestCancel(id) \/ Requeue(id)
    PROVE  Calm
<1>1. task = [i \in Id |-> task[i]] /\ task[id] \in Row
  BY DEF StoreInv, TypeOK
<1>2. CancelRequested(task[id]).state = "running" => task[id].state = "running"
  BY <1>1 DEF CancelRequested, Row
<1>3. Requeued(task[id]).state = "queued"
  BY <1>1 DEF Requeued, Row
<1>4. CASE RequestCancel(id)
  BY <1>1, <1>2, <1>4 DEF RequestCancel, Calm
<1>5. CASE Requeue(id)
  BY <1>1, <1>3, <1>5 DEF Requeue, Calm
<1> QED
  BY <1>4, <1>5

LEMMA Starts ==
    ASSUME StoreInv, [Next]_storeVars
    PROVE  (\E w \in Worker : \E S \in SUBSET Id : Claim(w, S)) \/ Calm
<1>1. task = [id \in Id |-> task[id]]
  BY DEF StoreInv, TypeOK
<1>2. CASE task' = task
  BY <1>2 DEF Calm
<1>3. CASE AttemptWrite
  <2>1. ASSUME NEW held, Heartbeat(held) PROVE Calm
    BY <2>1 DEF Heartbeat, Holds, Calm
  <2>2. ASSUME NEW id \in Id, NEW token, SetProgress(id, token) PROVE Calm
    BY <1>1, <2>2 DEF SetProgress, Holds, Calm
  <2> QED
    BY <1>3, <2>1, <2>2, CompleteCalm, Zenon DEF AttemptWrite
<1>4. CASE Maintenance
  <2>1. [NoRow EXCEPT !.state = "purged"].state = "purged"
    BY DEF NoRow
  <2>2. ASSUME NEW S \in SUBSET Id, Reap(S) \/ PurgeTasks(S) PROVE Calm
    BY <2>1, <2>2 DEF Reap, PurgeTasks, Calm
  <2>3. ASSUME NEW w, NEW live, NEW S \in SUBSET Id, ReleaseOrphans(w, live, S) PROVE Calm
    BY <2>3 DEF ReleaseOrphans, Orphans, Calm
  <2> QED
    BY <1>4, <2>2, <2>3 DEF Maintenance
<1>5. CASE Control
  <2>1. \/ task' = task
        \/ \E id \in Id, type \in TaskType, key \in Key \cup {None}, ckey \in CKey \cup {None},
              max_attempts \in Budgets, delay \in RunDelays :
                Enqueue(id, type, key, ckey, max_attempts, delay)
        \/ \E id \in Id : RequestCancel(id) \/ Requeue(id)
    BY <1>5 DEF Control, PublishTaskTypes, SetPaused, RegisterSubscription, Unsubscribe
  <2> QED
    BY <1>2, <2>1, EnqueueCalm, OperatorCalm, Zenon
<1> QED
  BY <1>2, <1>3, <1>4, <1>5 DEF Next, Tick, storeVars

\* Attempts are counted by claims alone, which stop at the instance's bound.
AttemptsBounded == \A id \in Id : task[id].attempt <= MaxAttempt

LEMMA RowStepAttempt ==
    ASSUME NEW r \in Row, NEW q, RowStep(r, q)
    PROVE  \/ q.attempt = 0 \/ q.attempt = r.attempt
           \/ q.state = "running" /\ r.state = "queued"
<1>1. \A w \in Worker : Claimed(r, w).state = "running"
  BY DEF Claimed, Row
<1>2. \A kind \in Kinds, delay \in Nat :
        Completed(r, r.token, kind, delay).attempt = r.attempt
  BY DEF Completed, Row
<1>3. \A delay \in Nat : Reaped(r, delay).attempt = r.attempt
  BY DEF Reaped, Row
<1>4. CancelRequested(r).attempt = r.attempt /\ Requeued(r).attempt = r.attempt
  BY DEF CancelRequested, Requeued, Row
<1>5. /\ [r EXCEPT !.lease_until = now + LeaseS].attempt = r.attempt
      /\ [r EXCEPT !.progress = r.token].attempt = r.attempt
      /\ [NoRow EXCEPT !.state = "purged"].attempt = 0
  BY DEF Row, NoRow
<1>6. \A type, key, ckey, max_attempts, delay :
        NewRow(type, key, ckey, max_attempts, delay).attempt = 0
  BY DEF NewRow, NoRow
<1>7. CASE \/ q = [r EXCEPT !.lease_until = now + LeaseS]
           \/ q = [r EXCEPT !.progress = r.token]
           \/ q = [NoRow EXCEPT !.state = "purged"]
  BY <1>5, <1>7
<1>8. CASE \/ \E kind \in Kinds, delay \in Nat : q = Completed(r, r.token, kind, delay)
           \/ \E delay \in Nat : q = Reaped(r, delay)
           \/ q = CancelRequested(r) \/ q = Requeued(r) \/ q = r
  BY <1>2, <1>3, <1>4, <1>8, Zenon
<1>9. CASE \E type \in TaskType, key \in Key \cup {None}, ckey \in CKey \cup {None},
             max_attempts \in Budgets, delay \in RunDelays :
               q = NewRow(type, key, ckey, max_attempts, delay)
  BY <1>6, <1>9, Zenon
<1>10. CASE r.state = "queued" /\ \E w \in Worker : q = Claimed(r, w)
  BY <1>1, <1>10, Zenon
<1> QED
  BY <1>7, <1>8, <1>9, <1>10, Zenon DEF RowStep

LEMMA BoundNext ==
    ASSUME StoreInv, AttemptsBounded, [Next]_storeVars PROVE AttemptsBounded'
<1>1. task = [id \in Id |-> task[id]] /\ \A id \in Id : task[id] \in Row
  BY DEF StoreInv, TypeOK
<1>2. MaxAttempt \in Nat /\ \A id \in Id : task[id].attempt \in Nat
  BY <1>1, BoundAssumption DEF BoundAssumption, Row
<1>3. CASE Calm
  <2>1. \A id \in Id : task'[id].attempt = 0 \/ task'[id].attempt = task[id].attempt
    <3> SUFFICES ASSUME NEW id \in Id
                 PROVE  task'[id].attempt = 0 \/ task'[id].attempt = task[id].attempt
      OBVIOUS
    <3>1. RowStep(task[id], task'[id])
      BY <1>1, Rowwise
    <3> QED
      BY <1>1, <1>3, <3>1, RowStepAttempt DEF Calm
  <2> QED
    BY <1>2, <2>1 DEF AttemptsBounded
<1>4. ASSUME NEW w \in Worker, NEW S \in SUBSET Id, Claim(w, S) PROVE AttemptsBounded'
  <2>1. /\ \A id \in S : task[id].attempt < MaxAttempt
        /\ task' = [id \in Id |-> IF id \in S THEN Claimed(task[id], w) ELSE task[id]]
    BY <1>4 DEF Claim
  <2>2. \A id \in Id : Claimed(task[id], w).attempt = task[id].attempt + 1
    BY <1>1 DEF Claimed, Row
  <2>3. \A id \in Id : task'[id].attempt <= MaxAttempt
    BY <1>2, <2>1, <2>2 DEF AttemptsBounded
  <2> QED
    BY <2>3 DEF AttemptsBounded
<1> QED
  BY <1>3, <1>4, Starts

\* A row keeps its type and its concurrency key while it runs.
LEMMA RunningRow ==
    ASSUME NEW r \in Row, NEW q, RowStep(r, q), r.state = "running"
    PROVE  q.state = "running" => q.type = r.type /\ q.concurrency_key = r.concurrency_key
<1>1. \A kind \in Kinds, delay \in Nat :
        Completed(r, r.token, kind, delay).state # "running"
  BY DEF Completed, CompletedState, Kinds, Row
<1>2. \A delay \in Nat : Reaped(r, delay).state # "running"
  BY DEF Reaped, Row
<1>3. /\ CancelRequested(r).type = r.type
      /\ CancelRequested(r).concurrency_key = r.concurrency_key
  BY DEF CancelRequested, Row
<1>4. /\ [r EXCEPT !.lease_until = now + LeaseS].type = r.type
      /\ [r EXCEPT !.lease_until = now + LeaseS].concurrency_key = r.concurrency_key
      /\ [r EXCEPT !.progress = r.token].type = r.type
      /\ [r EXCEPT !.progress = r.token].concurrency_key = r.concurrency_key
  BY DEF Row
<1>5. \/ q = r
      \/ (\E kind \in Kinds, delay \in Nat : q = Completed(r, r.token, kind, delay))
      \/ q = CancelRequested(r) \/ (\E delay \in Nat : q = Reaped(r, delay))
      \/ q = [r EXCEPT !.lease_until = now + LeaseS] \/ q = [r EXCEPT !.progress = r.token]
  <2>1. r.state \notin {"absent", "queued", "failed", "cancelled"} /\ r.state \notin Terminal
    BY DEF Terminal
  <2> QED
    BY <2>1, Zenon DEF RowStep
<1>6. CASE q = [r EXCEPT !.lease_until = now + LeaseS] \/ q = [r EXCEPT !.progress = r.token]
  BY <1>4, <1>6
<1> QED
  BY <1>1, <1>2, <1>3, <1>5, <1>6, Zenon

\* What a claim adds to the running rows of a type, and of a key.
LEMMA ClaimRuns ==
    ASSUME StoreInv, NEW w \in Worker, NEW S \in SUBSET Id, Claim(w, S), NEW type, NEW k
    PROVE  /\ Running(type)' = Running(type) \cup {id \in S : task[id].type = type}
           /\ RunningKey(type, k)' = RunningKey(type, k)
                 \cup {id \in S : task[id].type = type /\ task[id].concurrency_key = k}
<1>1. task' = [id \in Id |-> IF id \in S THEN Claimed(task[id], w) ELSE task[id]]
  BY DEF Claim
<1>2. \A id \in Id : /\ Claimed(task[id], w).state = "running"
                     /\ Claimed(task[id], w).type = task[id].type
                     /\ Claimed(task[id], w).concurrency_key = task[id].concurrency_key
  <2> SUFFICES ASSUME NEW id \in Id
               PROVE  /\ Claimed(task[id], w).state = "running"
                      /\ Claimed(task[id], w).type = task[id].type
                      /\ Claimed(task[id], w).concurrency_key = task[id].concurrency_key
    OBVIOUS
  <2>1. task[id] \in Row
    BY DEF StoreInv, TypeOK
  <2> QED
    BY <2>1 DEF Claimed, Row
<1>3. \A id \in Id :
        /\ task'[id].state = "running" <=> (id \in S \/ task[id].state = "running")
        /\ task'[id].type = task[id].type
        /\ task'[id].concurrency_key = task[id].concurrency_key
  BY <1>1, <1>2
<1> QED
  BY <1>3 DEF Running, RunningKey

\* What no claim touches only leaves the running rows of a type and of a key.
LEMMA Shrinks ==
    ASSUME StoreInv, [Next]_storeVars, Calm, NEW type, NEW k
    PROVE  /\ Running(type)' \subseteq Running(type)
           /\ RunningKey(type, k)' \subseteq RunningKey(type, k)
<1>1. task = [id \in Id |-> task[id]] /\ \A id \in Id : task[id] \in Row
  BY DEF StoreInv, TypeOK
<1>2. \A id \in Id : task'[id].state = "running" =>
        /\ task[id].state = "running" /\ task'[id].type = task[id].type
        /\ task'[id].concurrency_key = task[id].concurrency_key
  BY <1>1, Rowwise, RunningRow DEF Calm
<1> QED
  BY <1>2 DEF Running, RunningKey

LEMMA LimitsNext == ASSUME StoreInv, [Next]_storeVars PROVE [LimitsStep]_storeVars
<1>1. CASE Calm
  BY <1>1, Shrinks DEF LimitsStep
<1>2. ASSUME NEW w \in Worker, NEW S \in SUBSET Id, Claim(w, S) PROVE LimitsStep
  <2> SUFFICES ASSUME NEW type \in TaskType
               PROVE  /\ (/\ types[type].max_concurrency # 0
                          /\ ~(Running(type)' \subseteq Running(type)))
                         => Cardinality(Running(type)') <= types[type].max_concurrency
                      /\ \A k \in CKey :
                           (/\ types[type].max_concurrency_per_key # 0
                            /\ ~(RunningKey(type, k)' \subseteq RunningKey(type, k)))
                           => Cardinality(RunningKey(type, k)')
                                <= types[type].max_concurrency_per_key
    BY DEF LimitsStep
  <2> DEFINE mine == {id \in S : task[id].type = type}
             ofKey(k) == {id \in mine : task[id].concurrency_key = k}
             added(k) == {id \in S : task[id].type = type /\ task[id].concurrency_key = k}
  <2>0. \A k : ofKey(k) = added(k)
    OBVIOUS
  <2>1. /\ Running(type)' = Running(type) \cup mine
        /\ \A k : RunningKey(type, k)' = RunningKey(type, k) \cup ofKey(k)
    BY <1>2, <2>0, ClaimRuns
  <2>2. mine # {} =>
          /\ Fits(types[type].max_concurrency, Running(type), mine)
          /\ \A k \in CKey : Fits(types[type].max_concurrency_per_key, RunningKey(type, k),
                                  ofKey(k))
    BY <1>2 DEF Claim, Admits
  <2>3. \A k : ofKey(k) \subseteq mine
    OBVIOUS
  <2>4. /\ types[type].max_concurrency \in Nat
        /\ types[type].max_concurrency_per_key \in Nat
    BY DEF StoreInv, TypeOK, TypeRow
  <2>5. /\ Running(type) \in SUBSET Id /\ mine \in SUBSET Id
        /\ \A k : RunningKey(type, k) \in SUBSET Id /\ ofKey(k) \in SUBSET Id
    BY DEF Running, RunningKey
  <2> HIDE DEF mine, ofKey
  <2>6. /\ types[type].max_concurrency # 0
        /\ ~(Running(type)' \subseteq Running(type))
        => Cardinality(Running(type)') <= types[type].max_concurrency
    <3> SUFFICES ASSUME types[type].max_concurrency # 0,
                        ~(Running(type)' \subseteq Running(type))
                 PROVE  Cardinality(Running(type)') <= types[type].max_concurrency
      OBVIOUS
    <3>1. mine # {}
      BY <2>1
    <3>2. Cardinality(Running(type)) + Cardinality(mine) <= types[type].max_concurrency
      BY <2>2, <3>1 DEF Fits
    <3>3. /\ Cardinality(Running(type)) \in Nat /\ Cardinality(mine) \in Nat
          /\ Cardinality(Running(type) \cup mine) \in Nat
          /\ Cardinality(Running(type) \cup mine)
               <= Cardinality(Running(type)) + Cardinality(mine)
      BY <2>5, UnionBound
    <3>4. Cardinality(Running(type)') = Cardinality(Running(type) \cup mine)
      BY <2>1
    <3> QED
      BY <2>4, <3>2, <3>3, <3>4
  <2>7. ASSUME NEW k \in CKey, types[type].max_concurrency_per_key # 0,
               ~(RunningKey(type, k)' \subseteq RunningKey(type, k))
        PROVE  Cardinality(RunningKey(type, k)') <= types[type].max_concurrency_per_key
    <3>1. ofKey(k) # {} /\ mine # {}
      BY <2>1, <2>3, <2>7
    <3>2. Cardinality(RunningKey(type, k)) + Cardinality(ofKey(k))
            <= types[type].max_concurrency_per_key
      BY <2>2, <2>7, <3>1 DEF Fits
    <3>3. /\ Cardinality(RunningKey(type, k)) \in Nat /\ Cardinality(ofKey(k)) \in Nat
          /\ Cardinality(RunningKey(type, k) \cup ofKey(k)) \in Nat
          /\ Cardinality(RunningKey(type, k) \cup ofKey(k))
               <= Cardinality(RunningKey(type, k)) + Cardinality(ofKey(k))
      BY <2>5, UnionBound
    <3>4. Cardinality(RunningKey(type, k)') = Cardinality(RunningKey(type, k) \cup ofKey(k))
      BY <2>1
    <3> QED
      BY <2>4, <3>2, <3>3, <3>4
  <2> QED
    BY <2>6, <2>7
<1> QED
  BY <1>1, <1>2, Starts

\* Whenever a task of a limited type starts, no more than the limit run, for the
\* type and for the concurrency key: claim.sql counts what runs and what it admits
\* under the lock of the type's row, and no other statement starts a task.
THEOREM LimitsKept == Spec => LimitsRespected
BY StoreInvInit, StoreInvNext, LimitsNext, PTL DEF Spec, LimitsRespected
=============================================================================
