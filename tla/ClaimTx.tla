------------------------------- MODULE ClaimTx -------------------------------
(***************************************************************************)
(* The transactions that TaskStore takes in one step, statement by         *)
(* statement and with their row locks: the claim function of claim.sql,    *)
(* the publication of a worker's definitions, and the loop of              *)
(* store.enqueue.  PostgreSQL's locks are modelled from how the statements *)
(* use them: a row is locked FOR SHARE by several transactions or FOR      *)
(* UPDATE by one, until the transaction ends.                              *)
(***************************************************************************)
EXTENDS TaskStore

CONSTANTS Starter,   \* worker processes that start
          Client     \* the callers of enqueue

VARIABLES tx,    \* per worker: the claim transaction
          pub,   \* per starter: the types its publication has locked
          enq    \* per client: the call of enqueue

txVars == <<tx, pub, enq>>
vars == <<storeVars, txVars>>

\* The variables of claim.sql: rows it has locked, rows of the current candidate
\* statement still to admit, v_ids, v_skip_types, the types that statement saw as
\* limited, the locks on type rows, and v_limits, v_key_limits and v_counts.
NoTx == [open |-> FALSE, rows |-> {}, todo |-> {}, ids |-> {}, skip |-> {}, limited |-> {},
         share |-> {}, update |-> {}, known |-> [type \in {} |-> 0]]
NoCall == [pc |-> "idle", key |-> None, type |-> None]

\* Who has locked a task row, and a type row.
RowFree(id) == \A w \in Worker : id \notin tx[w].rows
UpdateLocked(type, w) ==
    \/ \E p \in Starter : type \in pub[p]
    \/ \E v \in Worker \ {w} : type \in tx[v].update
Locked(type, w) ==
    UpdateLocked(type, w) \/ \E v \in Worker \ {w} : type \in tx[v].share
TypeFree(type) == ~Locked(type, None)

-----------------------------------------------------------------------------
(* The claim function.                                                     *)

Become(w, t) == tx' = [tx EXCEPT ![w] = t]
Inside == UNCHANGED <<storeVars, pub, enq>>
Skip(w, type) == [tx[w] EXCEPT !.skip = @ \cup {type}]
Pending(w) == {id \in tx[w].todo : task[id].type \notin tx[w].skip}
Undecided(w) == {task[id].type : id \in Pending(w)} \ DOMAIN tx[w].known
HasLimit(type) == types[type].max_concurrency # 0 \/ types[type].max_concurrency_per_key # 0

\* claim_candidate.sql: the eligible rows nobody has locked, locked; whether
\* their types are limited is what this statement's snapshot shows.
Eligible(w, type) ==
    LET ty == types[type]
    IN  /\ type \in Accepts[w] \ tx[w].skip /\ ty.published /\ ~ty.paused
        /\ ty.max_concurrency = 0 \/ Cardinality(Running(type)) < ty.max_concurrency
Saturated(type, k) ==
    /\ types[type].max_concurrency_per_key # 0 /\ k # None
    /\ Cardinality(RunningKey(type, k)) >= types[type].max_concurrency_per_key
ClaimChoose(w, C) ==
    /\ Pending(w) = {}
    /\ C # {} /\ Cardinality(C) <= BatchLimit
    /\ \A id \in C : /\ Due(w, id) /\ task[id].attempt < MaxAttempt /\ RowFree(id)
                     /\ Eligible(w, task[id].type)
                     /\ ~Saturated(task[id].type, task[id].concurrency_key)
    /\ Become(w, [tx[w] EXCEPT !.open = TRUE, !.rows = @ \cup C, !.todo = C,
                    !.limited = {type \in {task[id].type : id \in C} : HasLimit(type)}])
    /\ Inside

\* The type is paused, or its limits are known from now on.
Decide(w, type, t) ==
    IF types[type].paused THEN [t EXCEPT !.skip = @ \cup {type}]
    ELSE [t EXCEPT !.known = [x \in DOMAIN t.known \cup {type} |->
            IF x = type THEN [limit |-> types[type].max_concurrency,
                              keyLimit |-> types[type].max_concurrency_per_key,
                              count |-> Cardinality(Running(type))]
            ELSE t.known[x]]]
\* SELECT ... FOR SHARE SKIP LOCKED: a limit that was enabled meanwhile asks for more.
ShareUnchecked(w, type) ==
    /\ type \in Undecided(w) \ tx[w].limited
    /\ IF UpdateLocked(type, w) THEN Become(w, Skip(w, type))
       ELSE Become(w, [Decide(w, type, tx[w]) EXCEPT !.share = @ \cup {type}])
    /\ Inside
ClaimShare(w, type) ==
    /\ type \in Undecided(w) \ tx[w].limited
    /\ IF UpdateLocked(type, w) THEN Become(w, Skip(w, type))
       ELSE LET t == [tx[w] EXCEPT !.share = @ \cup {type}]
            IN  IF HasLimit(type) THEN Become(w, [t EXCEPT !.limited = @ \cup {type}])
                ELSE Become(w, Decide(w, type, t))
    /\ Inside
\* SELECT ... FOR UPDATE SKIP LOCKED, then the recount.
UpdateUnlocked(w, type) ==
    /\ type \in Undecided(w) \cap tx[w].limited
    /\ Become(w, Decide(w, type, tx[w]))
    /\ Inside
ClaimUpdate(w, type) ==
    /\ type \in Undecided(w) \cap tx[w].limited
    /\ IF Locked(type, w) THEN Become(w, Skip(w, type))
       ELSE Become(w, Decide(w, type, [tx[w] EXCEPT !.update = @ \cup {type}]))
    /\ Inside

\* One candidate of a decided type: the type's count, then the key's count with
\* the rows this claim has already taken for the key.
KeyFull(w, id) ==
    LET k == task[id].concurrency_key
        limit == tx[w].known[task[id].type].keyLimit
        mine == {i \in tx[w].ids : task[i].type = task[id].type /\ task[i].concurrency_key = k}
    IN  /\ limit # 0 /\ k # None
        /\ Cardinality(RunningKey(task[id].type, k)) + Cardinality(mine) >= limit
ClaimAdmit(w, id) ==
    LET type == task[id].type
        t == [tx[w] EXCEPT !.todo = @ \ {id}]
    IN  /\ id \in Pending(w) /\ type \in DOMAIN tx[w].known
        /\ Cardinality(tx[w].ids) < BatchLimit
        /\ Become(w, IF tx[w].known[type].limit # 0
                        /\ tx[w].known[type].count >= tx[w].known[type].limit
                     THEN [t EXCEPT !.skip = @ \cup {type}]
                     ELSE IF KeyFull(w, id) THEN t
                     ELSE [t EXCEPT !.ids = @ \cup {id}, !.known[type].count = @ + 1])
        /\ Inside

\* The final UPDATE and the commit: a full batch, the byte cap or the deadline
\* may cut the admission short once a row is admitted.
ClaimCommit(w) ==
    /\ tx[w].open
    /\ tx[w].ids # {} \/ Pending(w) = {}
    /\ task' = [id \in Id |-> IF id \in tx[w].ids /\ task[id].state = "queued"
                              THEN Claimed(task[id], w) ELSE task[id]]
    /\ Publish({id \in tx[w].ids : task[id].state = "queued"})
    /\ Become(w, NoTx)
    /\ UNCHANGED <<types, subs, now, pub, enq>>
\* The connection is lost: rolled back.
ClaimRollback(w) ==
    /\ tx[w].open
    /\ Become(w, NoTx)
    /\ Inside

-----------------------------------------------------------------------------
(* _start_checks: one upsert per definition, in the order of the worker's  *)
(* own list, in one transaction.                                           *)

\* An upsert waits for whoever has locked the row; any list, in any order.
Upsert(p, type) ==
    /\ type \notin pub[p] /\ TypeFree(type)
    /\ pub' = [pub EXCEPT ![p] = @ \cup {type}]
    /\ UNCHANGED <<storeVars, tx, enq>>
PublishCommit(p) ==
    /\ pub[p] # {}
    /\ \E limit, keyLimit \in [pub[p] -> Limits] : PublishTaskTypes(limit, keyLimit)
    /\ pub' = [pub EXCEPT ![p] = {}]
    /\ UNCHANGED <<tx, enq>>
\* The deadlock detector picked it, or it failed otherwise: the worker does not start.
PublishRollback(p) ==
    /\ pub[p] # {}
    /\ pub' = [pub EXCEPT ![p] = {}]
    /\ UNCHANGED <<storeVars, tx, enq>>

-----------------------------------------------------------------------------
(* store.enqueue: insert, and look the active duplicate up on a conflict.  *)

EnqueueCall(c, type, key) ==
    /\ enq[c].pc = "idle"
    /\ Cardinality({id \in Id : task[id].state = "absent"})     \* bound: ids left for all
         > Cardinality({d \in Client : enq[d].pc # "idle"})
    /\ enq' = [enq EXCEPT ![c] = [pc |-> "insert", key |-> key, type |-> type]]
    /\ UNCHANGED <<storeVars, tx, pub>>
Goes(c, pc) == enq' = [enq EXCEPT ![c].pc = pc]
Returns(c) == enq' = [enq EXCEPT ![c] = NoCall]
EnqueueInsert(c) ==
    /\ enq[c].pc = "insert"
    /\ IF ActiveDuplicate(enq[c].type, enq[c].key)
       THEN Goes(c, "find") /\ UNCHANGED storeVars
       ELSE /\ \E id \in Id, ckey \in CKey \cup {None}, max_attempts \in Budgets, delay \in RunDelays :
                 Enqueue(id, enq[c].type, enq[c].key, ckey, max_attempts, delay)
            /\ Returns(c)
    /\ UNCHANGED <<tx, pub>>
\* The duplicate may have turned terminal: insert again, until the deadline.
EnqueueFind(c) ==
    /\ enq[c].pc = "find"
    /\ IF ActiveDuplicate(enq[c].type, enq[c].key) THEN Returns(c) ELSE Goes(c, "insert")
    /\ UNCHANGED <<storeVars, tx, pub>>
EnqueueTimeout(c) ==
    /\ enq[c].pc = "find" /\ ~ActiveDuplicate(enq[c].type, enq[c].key)
    /\ Returns(c)
    /\ UNCHANGED <<storeVars, tx, pub>>

-----------------------------------------------------------------------------
(* The other statements, each in one step.  They wait for rows a claim has *)
(* locked.  A reaped attempt leaves a type as a failed one does, and time  *)
(* does not matter to a lock: reaps and ticks are left to TaskStore.       *)
Others ==
    /\ \/ \E id \in Id : RowFree(id) /\ (RequestCancel(id) \/ Requeue(id))
       \/ \E id \in Id, kind \in {"succeed", "fail"} : Complete([i \in {id} |->
            [token |-> task[id].token, kind |-> kind]])
       \/ \E type \in TaskType, paused \in BOOLEAN : TypeFree(type) /\ SetPaused(type, paused)
    /\ UNCHANGED txVars

TxInit ==
    /\ StoreInit
    /\ tx = [w \in Worker |-> NoTx]
    /\ pub = [p \in Starter |-> {}]
    /\ enq = [c \in Client |-> NoCall]

ClaimStep(w) ==
    \/ \E type \in TaskType : ClaimShare(w, type) \/ ClaimUpdate(w, type)
    \/ \E id \in Id : ClaimAdmit(w, id)
    \/ ClaimCommit(w)
TxNext ==
    \/ \E w \in Worker : \/ \E C \in SUBSET Id : ClaimChoose(w, C)
                         \/ ClaimStep(w) \/ ClaimRollback(w)
    \/ \E p \in Starter : \/ \E type \in TaskType : Upsert(p, type)
                          \/ PublishCommit(p) \/ PublishRollback(p)
    \/ \E c \in Client : \/ \E type \in TaskType, key \in Key \cup {None} : EnqueueCall(c, type, key)
                         \/ EnqueueInsert(c) \/ EnqueueFind(c) \/ EnqueueTimeout(c)
    \/ Others
TxSpec == TxInit /\ [][TxNext]_vars

-----------------------------------------------------------------------------
(* Properties.                                                             *)

\* The transactions, interleaved statement by statement, do what the store's
\* atomic statements do: a claim that commits is one that Claim allows in the
\* state it commits in, although it read limits, pause flags and counts earlier.
RefinesStore == Spec
=============================================================================
