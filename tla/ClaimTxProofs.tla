---------------------------- MODULE ClaimTxProofs ----------------------------
(***************************************************************************)
(* The claim, publication and enqueue transactions of ClaimTx implement    *)
(* the atomic statements of TaskStore, for every value of the constants.   *)
(*                                                                         *)
(* A claim reads pause flags, limits and counts in one statement and acts  *)
(* on them in a later one.  What it relies on is kept true by its locks:   *)
(* the rows it locked stay queued, the flags and limits of a type it has   *)
(* decided stay what they were, and, when the type has a limit, nobody     *)
(* else starts a task of the type.  That is the inductive invariant.       *)
(***************************************************************************)
EXTENDS ClaimTx, TaskStoreProofs

Known == [limit: Nat, keyLimit: Nat, count: Nat]
KnownTypes == UNION {[D -> Known] : D \in SUBSET TaskType}
TxRow == [open: BOOLEAN, rows: SUBSET Id, todo: SUBSET Id, ids: SUBSET Id,
          skip: SUBSET TaskType, limited: SUBSET TaskType,
          share: SUBSET TaskType, update: SUBSET TaskType,
          known: KnownTypes]
Call == [pc: {"idle", "insert", "find"}, key: Key \cup {None}, type: TaskType \cup {None}]

\* Every transaction's variables hold values of their kinds.
TxTypeOK ==
    /\ tx \in [Worker -> TxRow]
    /\ pub \in [Starter -> SUBSET TaskType]
    /\ enq \in [Client -> Call]
    /\ \A c \in Client : enq[c].pc # "idle" => enq[c].type \in TaskType

Mine(w, type) == {id \in tx[w].ids : task[id].type = type}
MineKey(w, type, k) == {id \in Mine(w, type) : task[id].concurrency_key = k}

\* The rows a claim has locked stay due.
RowsHeld(w) ==
    /\ tx[w].todo \subseteq tx[w].rows /\ tx[w].ids \subseteq tx[w].rows
    /\ \A id \in tx[w].rows : /\ Due(w, id) /\ task[id].attempt < MaxAttempt
                              /\ types[task[id].type].published

\* What a claim knows of a type is what the type's row says, and a type with a
\* limit is locked FOR UPDATE.
TypesHeld(w) ==
    /\ \A id \in tx[w].ids : task[id].type \in DOMAIN tx[w].known
    /\ \A type \in DOMAIN tx[w].known :
         /\ type \in tx[w].share \cup tx[w].update
         /\ ~types[type].paused
         /\ tx[w].known[type].limit = types[type].max_concurrency
         /\ tx[w].known[type].keyLimit = types[type].max_concurrency_per_key
         /\ HasLimit(type) => type \in tx[w].update

\* The counts of a type locked FOR UPDATE cover what runs and what is admitted.
Counted(w) ==
    /\ Cardinality(tx[w].ids) <= BatchLimit
    /\ \A type \in DOMAIN tx[w].known \cap tx[w].update :
         LET known == tx[w].known[type]
         IN  /\ Cardinality(Running(type)) + Cardinality(Mine(w, type)) <= known.count
             /\ known.limit # 0 /\ Mine(w, type) # {} => known.count <= known.limit
             /\ \A k \in CKey : known.keyLimit # 0 /\ MineKey(w, type, k) # {} =>
                  Cardinality(RunningKey(type, k)) + Cardinality(MineKey(w, type, k))
                    <= known.keyLimit

\* No two transactions have locked the same row in conflicting modes.
Exclusive ==
    \A w \in Worker :
      /\ \A v \in Worker \ {w} :
           /\ tx[v].rows \cap tx[w].rows = {}
           /\ tx[v].update \cap (tx[w].share \cup tx[w].update) = {}
      /\ \A p \in Starter : pub[p] \cap (tx[w].share \cup tx[w].update) = {}

ClaimSound(w) == RowsHeld(w) /\ TypesHeld(w) /\ Counted(w)
TxInv ==
    /\ StoreInv /\ AttemptsBounded
    /\ TxTypeOK /\ Exclusive
    /\ \A w \in Worker : ClaimSound(w)

-----------------------------------------------------------------------------
(* Cardinalities.                                                          *)

LEMMA SubsetCard ==
    ASSUME NEW B \in SUBSET Id, NEW A \in SUBSET B
    PROVE  /\ Cardinality(A) \in Nat /\ Cardinality(B) \in Nat
           /\ Cardinality(A) <= Cardinality(B)
<1>1. IsFiniteSet(B) /\ IsFiniteSet(A)
  BY IdAssumption, FS_Subset DEF IdAssumption
<1> QED
  BY <1>1, FS_Subset, FS_CardinalityType

LEMMA AddCard ==
    ASSUME NEW A \in SUBSET Id, NEW x \in Id
    PROVE  /\ Cardinality(A) \in Nat /\ Cardinality(A \cup {x}) \in Nat
           /\ Cardinality(A \cup {x}) <= Cardinality(A) + 1
<1>1. IsFiniteSet(A) /\ IsFiniteSet(A \cup {x})
  BY IdAssumption, FS_Subset DEF IdAssumption
<1> QED
  BY <1>1, FS_AddElement, FS_CardinalityType

LEMMA EmptyCard == Cardinality({}) = 0
BY FS_EmptySet

\* The sets a claim counts are sets of rows.
LEMMA CountedSets ==
    ASSUME TxTypeOK, NEW w \in Worker, NEW type, NEW k
    PROVE  /\ Running(type) \in SUBSET Id /\ RunningKey(type, k) \in SUBSET Id
           /\ Mine(w, type) \in SUBSET Id /\ MineKey(w, type, k) \in SUBSET Id
           /\ tx[w].ids \in SUBSET Id
<1>1. tx[w].ids \in SUBSET Id
  BY DEF TxTypeOK, TxRow
<1> QED
  BY <1>1 DEF Running, RunningKey, Mine, MineKey

-----------------------------------------------------------------------------
(* A transaction that does nothing keeps what it relies on, whatever the   *)
(* others do that its locks allow.                                         *)
LEMMA SoundStable ==
    ASSUME TxInv, StoreInv', NEW w \in Worker, tx'[w] = tx[w], now' = now,
           \A id \in tx[w].rows : task'[id] = task[id],
           \A type \in TaskType : types[type].published => types'[type].published,
           \A type \in tx[w].share \cup tx[w].update : types'[type] = types[type],
           \A type \in tx[w].update : \A k : /\ Running(type)' \subseteq Running(type)
                                           /\ RunningKey(type, k)' \subseteq RunningKey(type, k)
    PROVE  ClaimSound(w)'
<1>1. /\ tx[w] \in TxRow
      /\ tx[w].ids \subseteq tx[w].rows /\ tx[w].todo \subseteq tx[w].rows
      /\ ClaimSound(w)
  BY DEF TxInv, TxTypeOK, ClaimSound, RowsHeld
<1>2. RowsHeld(w)'
  <2>1. \A id \in tx[w].rows : task[id].type \in TaskType
    BY <1>1, AcceptsAssumption DEF ClaimSound, RowsHeld, Due, AcceptsAssumption
  <2> QED
    BY <1>1, <2>1 DEF ClaimSound, RowsHeld, Due
<1>3. TypesHeld(w)'
  BY <1>1 DEF ClaimSound, TypesHeld, HasLimit
<1>4. Counted(w)'
  <2>1. /\ \A type : Mine(w, type)' = Mine(w, type)
        /\ \A type, k : MineKey(w, type, k)' = MineKey(w, type, k)
    BY <1>1 DEF Mine, MineKey
  <2>2. ASSUME NEW type \in DOMAIN tx[w].known \cap tx[w].update
        PROVE  LET known == tx[w].known[type]
               IN  /\ Cardinality(Running(type)') + Cardinality(Mine(w, type)) <= known.count
                   /\ known.limit # 0 /\ Mine(w, type) # {} => known.count <= known.limit
                   /\ \A k \in CKey : known.keyLimit # 0 /\ MineKey(w, type, k) # {} =>
                        Cardinality(RunningKey(type, k)') + Cardinality(MineKey(w, type, k))
                          <= known.keyLimit
    <3>1. LET known == tx[w].known[type]
          IN  /\ Cardinality(Running(type)) + Cardinality(Mine(w, type)) <= known.count
              /\ known.limit # 0 /\ Mine(w, type) # {} => known.count <= known.limit
              /\ \A k \in CKey : known.keyLimit # 0 /\ MineKey(w, type, k) # {} =>
                   Cardinality(RunningKey(type, k)) + Cardinality(MineKey(w, type, k))
                     <= known.keyLimit
      BY <1>1 DEF ClaimSound, Counted
    <3>2. tx[w].known[type] \in Known
      BY <1>1 DEF TxRow, KnownTypes
    <3>3. /\ Cardinality(Running(type)) \in Nat /\ Cardinality(Running(type)') \in Nat
          /\ Cardinality(Running(type)') <= Cardinality(Running(type))
          /\ Cardinality(Mine(w, type)) \in Nat
      BY SubsetCard, CountedSets DEF TxInv
    <3>4. \A k : /\ Cardinality(RunningKey(type, k)) \in Nat
                 /\ Cardinality(RunningKey(type, k)') \in Nat
                 /\ Cardinality(RunningKey(type, k)') <= Cardinality(RunningKey(type, k))
                 /\ Cardinality(MineKey(w, type, k)) \in Nat
      BY SubsetCard, CountedSets DEF TxInv
    <3> QED
      BY <3>1, <3>2, <3>3, <3>4 DEF Known
  <2> QED
    BY <1>1, <2>1, <2>2 DEF ClaimSound, Counted
<1> QED
  BY <1>2, <1>3, <1>4 DEF ClaimSound

-----------------------------------------------------------------------------
(* The statements of one claim, up to the commit.                          *)

\* A statement that admits no row: what it newly knows of a type is what it
\* has just read under the type's lock.
LEMMA SoundKept ==
    ASSUME TxInv, NEW w \in Worker, UNCHANGED storeVars, tx'[w] \in TxRow,
           tx'[w].ids = tx[w].ids, RowsHeld(w)',
           tx[w].share \subseteq tx'[w].share, tx[w].update \subseteq tx'[w].update,
           \A x \in DOMAIN tx[w].known :
             /\ x \in DOMAIN tx'[w].known /\ tx'[w].known[x] = tx[w].known[x]
             /\ x \in tx'[w].update => x \in tx[w].update,
           \A x \in DOMAIN tx'[w].known \ DOMAIN tx[w].known :
             /\ x \in tx'[w].share \cup tx'[w].update /\ ~types[x].paused
             /\ HasLimit(x) => x \in tx'[w].update
             /\ tx'[w].known[x].limit = types[x].max_concurrency
             /\ tx'[w].known[x].keyLimit = types[x].max_concurrency_per_key
             /\ tx'[w].known[x].count = Cardinality(Running(x))
    PROVE  ClaimSound(w)'
<1>1. ClaimSound(w) /\ task' = task /\ types' = types
  BY DEF TxInv, storeVars
<1>2. TypesHeld(w)'
  BY <1>1 DEF ClaimSound, TypesHeld, HasLimit
<1>3. /\ \A type : Mine(w, type)' = Mine(w, type) /\ Running(type)' = Running(type)
      /\ \A type, k : /\ MineKey(w, type, k)' = MineKey(w, type, k)
                      /\ RunningKey(type, k)' = RunningKey(type, k)
  BY <1>1 DEF Mine, MineKey, Running, RunningKey
<1>4. Counted(w)'
  <2>1. ASSUME NEW type \in DOMAIN tx'[w].known \cap tx'[w].update
        PROVE  LET known == tx'[w].known[type]
               IN  /\ Cardinality(Running(type)) + Cardinality(Mine(w, type)) <= known.count
                   /\ known.limit # 0 /\ Mine(w, type) # {} => known.count <= known.limit
                   /\ \A k \in CKey : known.keyLimit # 0 /\ MineKey(w, type, k) # {} =>
                        Cardinality(RunningKey(type, k)) + Cardinality(MineKey(w, type, k))
                          <= known.keyLimit
    <3>1. CASE type \in DOMAIN tx[w].known
      BY <1>1, <2>1, <3>1 DEF ClaimSound, Counted
    <3>2. CASE type \notin DOMAIN tx[w].known
      <4>1. Mine(w, type) = {} /\ \A k : MineKey(w, type, k) = {}
        BY <1>1, <3>2 DEF ClaimSound, TypesHeld, Mine, MineKey
      <4>2. Cardinality(Running(type)) \in Nat
        BY SubsetCard, CountedSets DEF TxInv
      <4> QED
        BY <2>1, <3>2, <4>1, <4>2, EmptyCard
    <3> QED
      BY <3>1, <3>2
  <2> QED
    BY <1>1, <1>3, <2>1 DEF ClaimSound, Counted
<1> QED
  BY <1>2, <1>4 DEF ClaimSound

\* A step of one claim that leaves the store alone.
LEMMA OwnStep ==
    ASSUME TxInv, NEW w \in Worker, tx' = [tx EXCEPT ![w] = tx'[w]],
           UNCHANGED <<storeVars, pub, enq>>, tx'[w] \in TxRow, ClaimSound(w)',
           \A v \in Worker \ {w} :
             /\ tx[v].rows \cap tx'[w].rows = {}
             /\ tx[v].update \cap (tx'[w].share \cup tx'[w].update) = {}
             /\ tx'[w].update \cap (tx[v].share \cup tx[v].update) = {},
           \A p \in Starter : pub[p] \cap (tx'[w].share \cup tx'[w].update) = {}
    PROVE  TxInv'
<1>1. /\ task' = task /\ types' = types /\ subs' = subs /\ events' = events /\ now' = now
      /\ pub' = pub /\ enq' = enq
  BY DEF storeVars
<1>2. StoreInv' /\ AttemptsBounded'
  BY <1>1 DEF TxInv, StoreInv, TypeOK, AttemptsBounded
<1>3. tx \in [Worker -> TxRow]
  BY DEF TxInv, TxTypeOK
<1>4. \A v \in Worker \ {w} : tx'[v] = tx[v]
  BY <1>3
<1>5. TxTypeOK'
  BY <1>1, <1>3 DEF TxInv, TxTypeOK
<1>6. Exclusive'
  BY <1>1, <1>4 DEF TxInv, Exclusive
<1>7. \A v \in Worker : ClaimSound(v)'
  <2>1. ASSUME NEW v \in Worker \ {w} PROVE ClaimSound(v)'
    <3>1. \A type, k : /\ Running(type)' = Running(type)
                       /\ RunningKey(type, k)' = RunningKey(type, k)
      BY <1>1 DEF Running, RunningKey
    <3> QED
      BY <1>1, <1>2, <1>4, <3>1, SoundStable
  <2> QED
    BY <2>1
<1> QED
  BY <1>2, <1>5, <1>6, <1>7 DEF TxInv

\* Rows a claim may lock or has locked are of a type of the schema.
LEMMA DueType == ASSUME NEW w \in Worker, NEW id, Due(w, id) PROVE task[id].type \in TaskType
BY AcceptsAssumption DEF Due, AcceptsAssumption

\* What every lemma below starts from.
LEMMA TxFacts ==
    ASSUME TxInv, NEW w \in Worker
    PROVE  /\ tx \in [Worker -> TxRow] /\ tx[w] \in TxRow /\ ClaimSound(w)
           /\ RowsHeld(w) /\ TypesHeld(w)
           /\ \A v \in Worker \ {w} :
                /\ tx[v].rows \cap tx[w].rows = {}
                /\ tx[v].update \cap (tx[w].share \cup tx[w].update) = {}
                /\ tx[w].update \cap (tx[v].share \cup tx[v].update) = {}
           /\ \A p \in Starter : pub[p] \cap (tx[w].share \cup tx[w].update) = {}
<1>1. /\ tx \in [Worker -> TxRow] /\ tx[w] \in TxRow /\ ClaimSound(w)
      /\ RowsHeld(w) /\ TypesHeld(w)
  BY DEF TxInv, TxTypeOK, ClaimSound
<1>2. Exclusive
  BY DEF TxInv
<1> QED
  BY <1>1, <1>2 DEF Exclusive

LEMMA ChooseInv ==
    ASSUME TxInv, NEW w \in Worker, NEW C \in SUBSET Id, ClaimChoose(w, C)
    PROVE  TxInv'
<1> DEFINE seen == {type \in {task[id].type : id \in C} : HasLimit(type)}
<1>1. /\ tx' = [tx EXCEPT ![w] = [tx[w] EXCEPT !.open = TRUE, !.rows = @ \cup C, !.todo = C,
                                               !.limited = seen]]
      /\ UNCHANGED <<storeVars, pub, enq>>
      /\ \A id \in C : /\ Due(w, id) /\ task[id].attempt < MaxAttempt /\ RowFree(id)
                        /\ Eligible(w, task[id].type)
  BY DEF ClaimChoose, Become, Inside
<1>2. seen \in SUBSET TaskType
  BY <1>1, DueType
<1> HIDE DEF seen
<1>3. /\ tx'[w].rows = tx[w].rows \cup C /\ tx'[w].todo = C /\ tx'[w].ids = tx[w].ids
      /\ tx'[w].share = tx[w].share /\ tx'[w].update = tx[w].update
      /\ tx'[w].known = tx[w].known /\ tx' = [tx EXCEPT ![w] = tx'[w]]
  BY <1>1, TxFacts DEF TxRow
<1>4. tx'[w] \in TxRow
  BY <1>1, <1>2, TxFacts DEF TxRow
<1>5. RowsHeld(w)'
  <2>1. task' = task /\ types' = types /\ now' = now
    BY <1>1 DEF storeVars
  <2>2. \A id \in tx'[w].rows : /\ Due(w, id) /\ task[id].attempt < MaxAttempt
                                /\ types[task[id].type].published
    BY <1>1, <1>3, TxFacts DEF RowsHeld, Eligible
  <2>3. tx'[w].ids \subseteq tx'[w].rows /\ tx'[w].todo \subseteq tx'[w].rows
    BY <1>3, TxFacts DEF RowsHeld
  <2> QED
    BY <2>1, <2>2, <2>3 DEF RowsHeld, Due
<1>6. ClaimSound(w)'
  BY <1>1, <1>3, <1>4, <1>5, SoundKept, TxFacts
<1>7. \A v \in Worker \ {w} : tx[v].rows \cap tx'[w].rows = {}
  BY <1>1, <1>3, TxFacts DEF RowFree
<1> QED
  BY <1>1, <1>3, <1>4, <1>6, <1>7, OwnStep, TxFacts

\* The type of a candidate the claim has not decided yet.
LEMMA UndecidedType ==
    ASSUME TxInv, NEW w \in Worker, NEW type \in Undecided(w)
    PROVE  type \in TaskType \ DOMAIN tx[w].known
<1>1. PICK id \in Pending(w) : task[id].type = type
  BY DEF Undecided
<1>2. id \in tx[w].rows
  BY TxFacts DEF Pending, RowsHeld
<1>3. Due(w, id)
  BY <1>2, TxFacts DEF RowsHeld
<1> QED
  BY <1>1, <1>3, DueType DEF Undecided

\* A step that changes the locks, the knowledge or the candidates still to admit,
\* and neither the rows locked nor the rows admitted.
LEMMA LockStep ==
    ASSUME TxInv, NEW w \in Worker, tx' = [tx EXCEPT ![w] = tx'[w]],
           UNCHANGED <<storeVars, pub, enq>>, tx'[w] \in TxRow,
           tx'[w].rows = tx[w].rows, tx'[w].ids = tx[w].ids,
           tx'[w].todo \subseteq tx[w].todo,
           tx[w].share \subseteq tx'[w].share, tx[w].update \subseteq tx'[w].update,
           \A x \in tx'[w].update \ tx[w].update : ~Locked(x, w) /\ x \notin DOMAIN tx[w].known,
           \A x \in tx'[w].share \ tx[w].share : ~UpdateLocked(x, w),
           \A x \in DOMAIN tx[w].known :
             x \in DOMAIN tx'[w].known /\ tx'[w].known[x] = tx[w].known[x],
           \A x \in DOMAIN tx'[w].known \ DOMAIN tx[w].known :
             /\ x \in tx'[w].share \cup tx'[w].update /\ ~types[x].paused
             /\ HasLimit(x) => x \in tx'[w].update
             /\ tx'[w].known[x].limit = types[x].max_concurrency
             /\ tx'[w].known[x].keyLimit = types[x].max_concurrency_per_key
             /\ tx'[w].known[x].count = Cardinality(Running(x))
    PROVE  TxInv'
<1>1. RowsHeld(w)'
  <2>1. task' = task /\ types' = types /\ now' = now
    BY DEF storeVars
  <2> QED
    BY <2>1, TxFacts DEF RowsHeld, Due
<1>2. ClaimSound(w)'
  BY <1>1, SoundKept
<1>3. ASSUME NEW v \in Worker \ {w}
      PROVE  /\ tx[v].rows \cap tx'[w].rows = {}
             /\ tx[v].update \cap (tx'[w].share \cup tx'[w].update) = {}
             /\ tx'[w].update \cap (tx[v].share \cup tx[v].update) = {}
  BY TxFacts DEF Locked, UpdateLocked
<1>4. \A p \in Starter : pub[p] \cap (tx'[w].share \cup tx'[w].update) = {}
  BY TxFacts DEF Locked, UpdateLocked
<1> QED
  BY <1>2, <1>3, <1>4, OwnStep

\* A type is skipped.
LEMMA SkipInv ==
    ASSUME TxInv, NEW w \in Worker, NEW type \in TaskType, Become(w, Skip(w, type)), Inside
    PROVE  TxInv'
<1>1. /\ tx' = [tx EXCEPT ![w] = [tx[w] EXCEPT !.skip = @ \cup {type}]]
      /\ UNCHANGED <<storeVars, pub, enq>>
  BY DEF Become, Skip, Inside
<1>2. /\ tx'[w] \in TxRow /\ tx' = [tx EXCEPT ![w] = tx'[w]]
      /\ tx'[w].rows = tx[w].rows /\ tx'[w].ids = tx[w].ids /\ tx'[w].todo = tx[w].todo
      /\ tx'[w].share = tx[w].share /\ tx'[w].update = tx[w].update
      /\ tx'[w].known = tx[w].known
  BY <1>1, TxFacts DEF TxRow
<1> QED
  BY <1>1, <1>2, LockStep

\* A decision adds at most the type, with what the type's row says now.
Decided(t, d, type) ==
    /\ d \in TxRow /\ d.rows = t.rows /\ d.ids = t.ids /\ d.todo = t.todo
    /\ d.share = t.share /\ d.update = t.update
    /\ \A x \in DOMAIN t.known : x \in DOMAIN d.known /\ d.known[x] = t.known[x]
    /\ \A x \in DOMAIN d.known \ DOMAIN t.known :
         /\ x = type /\ ~types[x].paused
         /\ d.known[x].limit = types[x].max_concurrency
         /\ d.known[x].keyLimit = types[x].max_concurrency_per_key
         /\ d.known[x].count = Cardinality(Running(x))

LEMMA DecideRow ==
    ASSUME StoreInv, NEW w, NEW t \in TxRow, NEW type \in TaskType \ DOMAIN t.known
    PROVE  Decided(t, Decide(w, type, t), type)
<1> DEFINE d == Decide(w, type, t)
           new == [limit |-> types[type].max_concurrency,
                   keyLimit |-> types[type].max_concurrency_per_key,
                   count |-> Cardinality(Running(type))]
           more == [x \in DOMAIN t.known \cup {type} |-> IF x = type THEN new ELSE t.known[x]]
<1>1. CASE types[type].paused
  <2>1. d = [t EXCEPT !.skip = @ \cup {type}]
    BY <1>1 DEF Decide
  <2> QED
    BY <2>1 DEF TxRow, Decided
<1>2. CASE ~types[type].paused
  <2>1. d = [t EXCEPT !.known = more]
    BY <1>2 DEF Decide
  <2>2. new \in Known
    <3>1. types[type] \in TypeRow
      BY DEF StoreInv, TypeOK
    <3>2. Running(type) \in SUBSET Id
      BY DEF Running
    <3>3. Cardinality(Running(type)) \in Nat
      BY <3>2, SubsetCard
    <3> QED
      BY <3>1, <3>3 DEF TypeRow, Known
  <2>3. PICK D \in SUBSET TaskType : t.known \in [D -> Known]
    BY DEF TxRow, KnownTypes
  <2>4. more \in [D \cup {type} -> Known]
    BY <2>2, <2>3
  <2>5. more \in KnownTypes
    BY <2>4 DEF KnownTypes
  <2>6. /\ \A x \in DOMAIN t.known : x \in DOMAIN more /\ more[x] = t.known[x]
        /\ \A x \in DOMAIN more \ DOMAIN t.known : x = type /\ more[x] = new
    OBVIOUS
  <2> HIDE DEF more
  <2>7. /\ d \in TxRow /\ d.rows = t.rows /\ d.ids = t.ids /\ d.todo = t.todo
        /\ d.share = t.share /\ d.update = t.update /\ d.known = more
    BY <2>1, <2>5 DEF TxRow
  <2> HIDE DEF d
  <2>8. Decided(t, d, type)
    BY <1>2, <2>6, <2>7 DEF Decided
  <2> QED
    BY <2>8 DEF d
<1> QED
  BY <1>1, <1>2

\* A claim locks the row of a type and decides.
LEMMA DecideInv ==
    ASSUME TxInv, NEW w \in Worker, NEW t \in TxRow, NEW type \in TaskType \ DOMAIN t.known,
           NEW d, tx' = [tx EXCEPT ![w] = d], UNCHANGED <<storeVars, pub, enq>>,
           Decided(t, d, type),
           t.rows = tx[w].rows, t.ids = tx[w].ids, t.todo = tx[w].todo, t.known = tx[w].known,
           \/ /\ t.share = tx[w].share \cup {type} /\ t.update = tx[w].update
              /\ ~UpdateLocked(type, w)
              /\ HasLimit(type) => d.known = tx[w].known
           \/ /\ t.share = tx[w].share /\ t.update = tx[w].update \cup {type}
              /\ ~Locked(type, w)
    PROVE  TxInv'
<1>1. tx'[w] = d /\ tx' = [tx EXCEPT ![w] = tx'[w]]
  BY TxFacts
<1>2. /\ \A x \in tx'[w].update \ tx[w].update : ~Locked(x, w) /\ x \notin DOMAIN tx[w].known
      /\ \A x \in tx'[w].share \ tx[w].share : ~UpdateLocked(x, w)
      /\ tx[w].share \subseteq tx'[w].share /\ tx[w].update \subseteq tx'[w].update
  BY <1>1 DEF Decided
<1>3. /\ \A x \in DOMAIN tx[w].known :
           x \in DOMAIN tx'[w].known /\ tx'[w].known[x] = tx[w].known[x]
      /\ \A x \in DOMAIN tx'[w].known \ DOMAIN tx[w].known :
           /\ x \in tx'[w].share \cup tx'[w].update /\ ~types[x].paused
           /\ HasLimit(x) => x \in tx'[w].update
           /\ tx'[w].known[x].limit = types[x].max_concurrency
           /\ tx'[w].known[x].keyLimit = types[x].max_concurrency_per_key
           /\ tx'[w].known[x].count = Cardinality(Running(x))
  BY <1>1 DEF Decided
<1>4. /\ tx'[w] \in TxRow /\ tx'[w].rows = tx[w].rows /\ tx'[w].ids = tx[w].ids
      /\ tx'[w].todo \subseteq tx[w].todo
  BY <1>1 DEF Decided
<1> QED
  BY <1>1, <1>2, <1>3, <1>4, LockStep

LEMMA ShareInv ==
    ASSUME TxInv, NEW w \in Worker, NEW type \in TaskType, ClaimShare(w, type)
    PROVE  TxInv'
<1>1. type \in TaskType \ DOMAIN tx[w].known
  BY UndecidedType DEF ClaimShare
<1>2. CASE UpdateLocked(type, w)
  BY <1>2, SkipInv DEF ClaimShare
<1>3. CASE ~UpdateLocked(type, w)
  <2> DEFINE t == [tx[w] EXCEPT !.share = @ \cup {type}]
             l == [t EXCEPT !.limited = @ \cup {type}]
             d == IF HasLimit(type) THEN l ELSE Decide(w, type, t)
  <2>1. t \in TxRow /\ t.rows = tx[w].rows /\ t.ids = tx[w].ids /\ t.todo = tx[w].todo
        /\ t.share = tx[w].share \cup {type} /\ t.update = tx[w].update
        /\ t.known = tx[w].known
    BY TxFacts DEF TxRow
  <2>2. UNCHANGED <<storeVars, pub, enq>> /\ tx' = [tx EXCEPT ![w] = d]
    BY <1>3 DEF ClaimShare, Become, Inside
  <2>3. StoreInv /\ type \in TaskType \ DOMAIN t.known
    BY <1>1, <2>1 DEF TxInv
  <2> HIDE DEF t
  <2>4. Decided(t, l, type) /\ l.known = t.known
    BY <2>1 DEF TxRow, Decided
  <2>5. Decided(t, Decide(w, type, t), type)
    BY <2>1, <2>3, DecideRow, Zenon
  <2>6. Decided(t, d, type) /\ (HasLimit(type) => d.known = tx[w].known)
    <3> HIDE DEF l
    <3> QED
      BY <2>1, <2>4, <2>5
  <2> HIDE DEF d
  <2> QED
    BY <1>3, <2>1, <2>2, <2>3, <2>6, DecideInv
<1> QED
  BY <1>2, <1>3

LEMMA UpdateInv ==
    ASSUME TxInv, NEW w \in Worker, NEW type \in TaskType, ClaimUpdate(w, type)
    PROVE  TxInv'
<1>1. type \in TaskType \ DOMAIN tx[w].known
  BY UndecidedType DEF ClaimUpdate
<1>2. CASE Locked(type, w)
  BY <1>2, SkipInv DEF ClaimUpdate
<1>3. CASE ~Locked(type, w)
  <2> DEFINE t == [tx[w] EXCEPT !.update = @ \cup {type}]
             d == Decide(w, type, t)
  <2>1. t \in TxRow /\ t.rows = tx[w].rows /\ t.ids = tx[w].ids /\ t.todo = tx[w].todo
        /\ t.share = tx[w].share /\ t.update = tx[w].update \cup {type}
        /\ t.known = tx[w].known
    BY TxFacts DEF TxRow
  <2>2. UNCHANGED <<storeVars, pub, enq>> /\ tx' = [tx EXCEPT ![w] = d]
    BY <1>3 DEF ClaimUpdate, Become, Inside
  <2>3. StoreInv /\ type \in TaskType \ DOMAIN t.known
    BY <1>1, <2>1 DEF TxInv
  <2> HIDE DEF t
  <2>4. Decided(t, d, type)
    BY <2>1, <2>3, DecideRow, Zenon
  <2> HIDE DEF d
  <2> QED
    BY <1>3, <2>1, <2>2, <2>3, <2>4, DecideInv
<1> QED
  BY <1>2, <1>3

\* One more row counted for type y.
CountOne(f, y) == [f EXCEPT ![y].count = @ + 1]

LEMMA CountOneMore ==
    ASSUME NEW D, NEW f \in [D -> Known], NEW y \in D
    PROVE  /\ CountOne(f, y) \in [D -> Known]
           /\ \A x \in D : /\ CountOne(f, y)[x].limit = f[x].limit
                           /\ CountOne(f, y)[x].keyLimit = f[x].keyLimit
                           /\ x = y => CountOne(f, y)[x].count = f[x].count + 1
                           /\ x # y => CountOne(f, y)[x].count = f[x].count
BY DEF Known, CountOne

\* The candidate passed both limits: the counts that admit it stay within them.
LEMMA AdmittedSound ==
    ASSUME TxInv, NEW w \in Worker, NEW id \in tx[w].rows, UNCHANGED storeVars,
           NEW type \in DOMAIN tx[w].known, type = task[id].type,
           NEW k0, k0 = task[id].concurrency_key, Cardinality(tx[w].ids) < BatchLimit,
           \/ tx[w].known[type].limit = 0
           \/ tx[w].known[type].count < tx[w].known[type].limit,
           ~KeyFull(w, id),
           tx'[w].rows = tx[w].rows, tx'[w].todo \subseteq tx[w].todo,
           tx'[w].ids = tx[w].ids \cup {id},
           tx'[w].share = tx[w].share, tx'[w].update = tx[w].update,
           tx'[w].known = CountOne(tx[w].known, type)
    PROVE  ClaimSound(w)'
<1>1. /\ ClaimSound(w) /\ RowsHeld(w) /\ TypesHeld(w) /\ Counted(w)
      /\ task' = task /\ types' = types /\ now' = now
  BY TxFacts DEF storeVars, ClaimSound
<1>2. id \in Id
  BY TxFacts DEF TxRow
<1>3. tx[w].known \in [DOMAIN tx[w].known -> Known]
  BY TxFacts DEF TxRow, KnownTypes
<1>4. /\ DOMAIN tx'[w].known = DOMAIN tx[w].known
      /\ \A x \in DOMAIN tx[w].known :
           /\ tx'[w].known[x].limit = tx[w].known[x].limit
           /\ tx'[w].known[x].keyLimit = tx[w].known[x].keyLimit
           /\ x = type => tx'[w].known[x].count = tx[w].known[x].count + 1
           /\ x # type => tx'[w].known[x].count = tx[w].known[x].count
  BY <1>3, CountOneMore
<1>5. RowsHeld(w)'
  BY <1>1 DEF RowsHeld, Due
<1>6. TypesHeld(w)'
  BY <1>1, <1>4 DEF TypesHeld, HasLimit
<1>7. /\ Mine(w, type)' = Mine(w, type) \cup {id}
      /\ MineKey(w, type, k0)' = MineKey(w, type, k0) \cup {id}
      /\ \A x : x # type => Mine(w, x)' = Mine(w, x)
      /\ \A x, k : x # type \/ k # k0 => MineKey(w, x, k)' = MineKey(w, x, k)
      /\ \A x, k : Running(x)' = Running(x) /\ RunningKey(x, k)' = RunningKey(x, k)
  BY <1>1 DEF Mine, MineKey, Running, RunningKey
<1>8. Cardinality(tx'[w].ids) <= BatchLimit
  <2>1. tx[w].ids \in SUBSET Id
    BY TxFacts DEF TxRow
  <2> QED
    BY <1>2, <2>1, AddCard, BoundAssumption DEF BoundAssumption
<1>9. ASSUME NEW x \in DOMAIN tx[w].known \cap tx[w].update
      PROVE  LET known == tx'[w].known[x]
             IN  /\ Cardinality(Running(x)) + Cardinality(Mine(w, x)') <= known.count
                 /\ known.limit # 0 /\ Mine(w, x)' # {} => known.count <= known.limit
                 /\ \A k \in CKey : known.keyLimit # 0 /\ MineKey(w, x, k)' # {} =>
                      Cardinality(RunningKey(x, k)) + Cardinality(MineKey(w, x, k)')
                        <= known.keyLimit
  <2>1. LET known == tx[w].known[x]
        IN  /\ Cardinality(Running(x)) + Cardinality(Mine(w, x)) <= known.count
            /\ known.limit # 0 /\ Mine(w, x) # {} => known.count <= known.limit
            /\ \A k \in CKey : known.keyLimit # 0 /\ MineKey(w, x, k) # {} =>
                 Cardinality(RunningKey(x, k)) + Cardinality(MineKey(w, x, k))
                   <= known.keyLimit
    BY <1>1 DEF Counted
  <2>2. CASE x # type
    BY <1>4, <1>7, <2>1, <2>2
  <2>3. CASE x = type
    <3>1. /\ Mine(w, x) \in SUBSET Id /\ Running(x) \in SUBSET Id
          /\ \A k : MineKey(w, x, k) \in SUBSET Id /\ RunningKey(x, k) \in SUBSET Id
      BY CountedSets DEF TxInv
    <3>2. /\ Cardinality(Running(x)) \in Nat /\ Cardinality(Mine(w, x)) \in Nat
          /\ Cardinality(Mine(w, x)') \in Nat
          /\ Cardinality(Mine(w, x)') <= Cardinality(Mine(w, x)) + 1
      BY <1>2, <1>7, <2>3, <3>1, AddCard, SubsetCard
    <3>3. tx[w].known[x].count \in Nat /\ tx[w].known[x].limit \in Nat
          /\ tx[w].known[x].keyLimit \in Nat
      BY <1>3 DEF Known
    <3>4. Cardinality(Running(x)) + Cardinality(Mine(w, x)') <= tx'[w].known[x].count
      BY <1>4, <2>1, <2>3, <3>2, <3>3
    <3>5. tx'[w].known[x].limit # 0 => tx'[w].known[x].count <= tx'[w].known[x].limit
      BY <1>4, <2>3, <3>3
    <3>6. ASSUME NEW k \in CKey, tx'[w].known[x].keyLimit # 0, MineKey(w, x, k)' # {}
          PROVE  Cardinality(RunningKey(x, k)) + Cardinality(MineKey(w, x, k)')
                   <= tx'[w].known[x].keyLimit
      <4>1. CASE k # k0
        BY <1>4, <1>7, <2>1, <3>6, <4>1
      <4>2. CASE k = k0
        <5>1. /\ Cardinality(MineKey(w, x, k)) \in Nat /\ Cardinality(RunningKey(x, k)) \in Nat
              /\ Cardinality(MineKey(w, x, k)') \in Nat
              /\ Cardinality(MineKey(w, x, k)') <= Cardinality(MineKey(w, x, k)) + 1
          BY <1>2, <1>7, <2>3, <3>1, <4>2, AddCard, SubsetCard
        <5>2. MineKey(w, x, k) = {i \in tx[w].ids : task[i].type = task[id].type
                                      /\ task[i].concurrency_key = task[id].concurrency_key}
          BY <2>3, <4>2 DEF MineKey, Mine
        <5>3. k # None
          BY NoneAssumption DEF NoneAssumption
        <5>4. tx[w].known[x].keyLimit # 0
          BY <1>4, <3>6
        <5>5. ~(Cardinality(RunningKey(x, k)) + Cardinality(MineKey(w, x, k))
                  >= tx[w].known[x].keyLimit)
          BY <2>3, <4>2, <5>2, <5>3, <5>4 DEF KeyFull
        <5>6. tx'[w].known[x].keyLimit = tx[w].known[x].keyLimit
          BY <1>4
        <5> QED
          BY <3>3, <5>1, <5>5, <5>6
      <4> QED
        BY <4>1, <4>2
    <3> QED
      BY <3>4, <3>5, <3>6
  <2> QED
    BY <2>2, <2>3
<1>10. Counted(w)'
  BY <1>4, <1>7, <1>8, <1>9 DEF Counted
<1> QED
  BY <1>5, <1>6, <1>10 DEF ClaimSound

LEMMA AdmitInv ==
    ASSUME TxInv, NEW w \in Worker, NEW id \in Id, ClaimAdmit(w, id)
    PROVE  TxInv'
<1> DEFINE type == task[id].type
           full == tx[w].known[type].limit # 0
                   /\ tx[w].known[type].count >= tx[w].known[type].limit
           t == [tx[w] EXCEPT !.todo = @ \ {id}]
           skipped == [t EXCEPT !.skip = @ \cup {type}]
           admitted == [t EXCEPT !.ids = @ \cup {id}, !.known[type].count = @ + 1]
<1>1. /\ UNCHANGED <<storeVars, pub, enq>> /\ UNCHANGED storeVars
      /\ id \in tx[w].rows /\ type \in DOMAIN tx[w].known
      /\ Cardinality(tx[w].ids) < BatchLimit
      /\ tx' = [tx EXCEPT ![w] = IF full THEN skipped ELSE IF KeyFull(w, id) THEN t
                                 ELSE admitted]
  BY TxFacts DEF ClaimAdmit, Become, Inside, Pending, RowsHeld
<1>2. type \in TaskType
  BY <1>1, TxFacts, DueType DEF RowsHeld
<1>3. /\ t \in TxRow /\ t.rows = tx[w].rows /\ t.ids = tx[w].ids
      /\ t.todo = tx[w].todo \ {id} /\ t.share = tx[w].share /\ t.update = tx[w].update
      /\ t.known = tx[w].known
  BY TxFacts DEF TxRow
<1> HIDE DEF t
<1>4. CASE full
  <2>1. /\ skipped \in TxRow /\ skipped.rows = t.rows /\ skipped.ids = t.ids
        /\ skipped.todo = t.todo /\ skipped.share = t.share /\ skipped.update = t.update
        /\ skipped.known = t.known
    BY <1>2, <1>3 DEF TxRow
  <2> HIDE DEF skipped, full
  <2>2. tx'[w] = skipped /\ tx' = [tx EXCEPT ![w] = tx'[w]]
    BY <1>1, <1>4, TxFacts
  <2> QED
    BY <1>1, <1>3, <2>1, <2>2, LockStep
<1>5. CASE ~full /\ KeyFull(w, id)
  <2> HIDE DEF full
  <2>1. tx'[w] = t /\ tx' = [tx EXCEPT ![w] = tx'[w]]
    BY <1>1, <1>5, TxFacts
  <2> QED
    BY <1>1, <1>3, <2>1, LockStep
<1>6. CASE ~full /\ ~KeyFull(w, id)
  <2>1. tx[w].known \in [DOMAIN tx[w].known -> Known] /\ DOMAIN tx[w].known \in SUBSET TaskType
    BY TxFacts DEF TxRow, KnownTypes
  <2> DEFINE more == CountOne(tx[w].known, type)
  <2>2. more \in [DOMAIN tx[w].known -> Known]
    BY <1>1, <2>1, CountOneMore
  <2>3. more \in KnownTypes
    BY <2>1, <2>2 DEF KnownTypes
  <2>4. admitted = [t EXCEPT !.ids = @ \cup {id}, !.known = more]
    BY <1>3 DEF TxRow, CountOne
  <2> HIDE DEF more
  <2>5. /\ admitted \in TxRow /\ admitted.rows = t.rows /\ admitted.ids = t.ids \cup {id}
        /\ admitted.todo = t.todo /\ admitted.share = t.share /\ admitted.update = t.update
        /\ admitted.known = more
    <3> HIDE DEF admitted
    <3> QED
      BY <1>3, <2>3, <2>4 DEF TxRow
  <2> HIDE DEF admitted
  <2>6. tx'[w] = admitted /\ tx' = [tx EXCEPT ![w] = tx'[w]]
    BY <1>1, <1>6, TxFacts
  <2>7. \/ tx[w].known[type].limit = 0
        \/ tx[w].known[type].count < tx[w].known[type].limit
    BY <1>1, <1>6, <2>1 DEF Known
  <2>8. /\ tx'[w] \in TxRow /\ tx'[w].rows = tx[w].rows /\ tx'[w].todo \subseteq tx[w].todo
        /\ tx'[w].ids = tx[w].ids \cup {id}
        /\ tx'[w].share = tx[w].share /\ tx'[w].update = tx[w].update
        /\ tx'[w].known = more
    BY <1>3, <2>5, <2>6
  <2>9. ClaimSound(w)'
    <3>1. ~KeyFull(w, id)
      BY <1>6
    <3>2. type = task[id].type
      OBVIOUS
    <3> HIDE DEF type
    <3> QED
      BY <1>1, <2>7, <2>8, <3>1, <3>2, AdmittedSound DEF more
  <2> QED
    <3> HIDE DEF type
    <3> QED
      BY <1>1, <2>6, <2>8, <2>9, OwnStep, TxFacts
<1> QED
  BY <1>4, <1>5, <1>6

\* An ended transaction has no locks and relies on nothing.
LEMMA NoTxRow ==
    /\ NoTx \in TxRow /\ NoTx.rows = {} /\ NoTx.todo = {} /\ NoTx.ids = {}
    /\ NoTx.share = {} /\ NoTx.update = {} /\ DOMAIN NoTx.known = {}
<1>1. [type \in {} |-> 0] \in [{} -> Known]
  OBVIOUS
<1>2. [type \in {} |-> 0] \in KnownTypes
  BY <1>1 DEF KnownTypes
<1> QED
  BY <1>2 DEF NoTx, TxRow

LEMMA NoTxSound == ASSUME NEW w \in Worker, tx'[w] = NoTx PROVE ClaimSound(w)'
<1>1. 0 <= BatchLimit
  BY BoundAssumption DEF BoundAssumption
<1> QED
  BY <1>1, NoTxRow, EmptyCard DEF ClaimSound, RowsHeld, TypesHeld, Counted

LEMMA RollbackInv ==
    ASSUME TxInv, NEW w \in Worker, ClaimRollback(w) PROVE TxInv'
<1>1. /\ tx' = [tx EXCEPT ![w] = NoTx] /\ UNCHANGED <<storeVars, pub, enq>>
  BY DEF ClaimRollback, Become, Inside
<1>2. tx'[w] = NoTx /\ tx' = [tx EXCEPT ![w] = tx'[w]]
  BY <1>1, TxFacts
<1>3. ClaimSound(w)'
  BY <1>2, NoTxSound
<1> QED
  BY <1>1, <1>2, <1>3, NoTxRow, OwnStep

-----------------------------------------------------------------------------
(* Every step is a step of the store, or leaves it alone.                  *)

\* A statement that touches no row appends no event.
LEMMA PublishNothing ==
    ASSUME StoreInv, NEW S, S = {}, Publish(S) PROVE events' = events
<1>1. events \in [Sub -> [Id -> Seq(Event)]]
  BY DEF StoreInv, TypeOK
<1>2. events' = [s \in Sub |-> [id \in Id |-> events[s][id]]]
  BY DEF Publish
<1> QED
  BY <1>1, <1>2

\* The rows a claim has admitted may be claimed in the state it commits in.
LEMMA AdmittedAdmits ==
    ASSUME TxInv, NEW w \in Worker, NEW type \in TaskType PROVE Admits(type, tx[w].ids)
<1> DEFINE mine == {id \in tx[w].ids : task[id].type = type}
           ofKey(k) == {id \in mine : task[id].concurrency_key = k}
<1> SUFFICES ASSUME mine # {}
             PROVE  /\ types[type].published /\ ~types[type].paused
                    /\ Fits(types[type].max_concurrency, Running(type), mine)
                    /\ \A k \in CKey : Fits(types[type].max_concurrency_per_key,
                                            RunningKey(type, k), ofKey(k))
  BY DEF Admits
<1>1. mine = Mine(w, type) /\ \A k : ofKey(k) = MineKey(w, type, k)
  BY DEF Mine, MineKey
<1>2. /\ type \in DOMAIN tx[w].known /\ types[type].published /\ ~types[type].paused
      /\ tx[w].known[type].limit = types[type].max_concurrency
      /\ tx[w].known[type].keyLimit = types[type].max_concurrency_per_key
      /\ HasLimit(type) => type \in tx[w].update
  BY TxFacts DEF RowsHeld, TypesHeld
<1> HIDE DEF mine, ofKey
<1>3. CASE ~HasLimit(type)
  BY <1>2, <1>3 DEF HasLimit, Fits
<1>4. CASE HasLimit(type)
  <2>1. LET known == tx[w].known[type]
        IN  /\ Cardinality(Running(type)) + Cardinality(Mine(w, type)) <= known.count
            /\ known.limit # 0 /\ Mine(w, type) # {} => known.count <= known.limit
            /\ \A k \in CKey : known.keyLimit # 0 /\ MineKey(w, type, k) # {} =>
                 Cardinality(RunningKey(type, k)) + Cardinality(MineKey(w, type, k))
                   <= known.keyLimit
    BY <1>2, <1>4, TxFacts DEF ClaimSound, Counted
  <2>2. /\ tx[w].known[type] \in Known
        /\ Cardinality(Running(type)) \in Nat /\ Cardinality(Mine(w, type)) \in Nat
    <3>1. Running(type) \in SUBSET Id /\ Mine(w, type) \in SUBSET Id
      BY CountedSets DEF TxInv
    <3>2. tx[w].known \in KnownTypes
      BY TxFacts DEF TxRow
    <3> QED
      BY <1>2, <3>1, <3>2, SubsetCard DEF KnownTypes
  <2>3. Fits(types[type].max_concurrency, Running(type), mine)
    BY <1>1, <1>2, <2>1, <2>2 DEF Fits, Known
  <2>4. \A k \in CKey : Fits(types[type].max_concurrency_per_key, RunningKey(type, k), ofKey(k))
    BY <1>1, <1>2, <2>1 DEF Fits
  <2> QED
    BY <1>2, <2>3, <2>4
<1> QED
  BY <1>3, <1>4

LEMMA CommitIsClaim ==
    ASSUME TxInv, NEW w \in Worker, ClaimCommit(w)
    PROVE  \/ tx[w].ids = {} /\ UNCHANGED storeVars
           \/ tx[w].ids \in SUBSET Id /\ Claim(w, tx[w].ids)
<1>1. /\ tx[w].ids \in SUBSET Id /\ Cardinality(tx[w].ids) <= BatchLimit
      /\ \A id \in tx[w].ids : Due(w, id) /\ task[id].attempt < MaxAttempt
  BY TxFacts DEF TxRow, RowsHeld, ClaimSound, Counted
<1>2. \A id \in tx[w].ids : task[id].state = "queued"
  BY <1>1 DEF Due
<1>3. {id \in tx[w].ids : task[id].state = "queued"} = tx[w].ids
  BY <1>2
<1>4. /\ Publish(tx[w].ids) /\ UNCHANGED <<types, subs, now>>
  BY <1>3 DEF ClaimCommit
<1>5. task' = [id \in Id |-> IF id \in tx[w].ids THEN Claimed(task[id], w) ELSE task[id]]
  BY <1>2 DEF ClaimCommit
<1>6. CASE tx[w].ids = {}
  <2>1. StoreInv /\ task = [id \in Id |-> task[id]]
    BY DEF TxInv, StoreInv, TypeOK
  <2>2. task' = task /\ events' = events
    BY <1>4, <1>5, <1>6, <2>1, PublishNothing
  <2> QED
    BY <1>4, <1>6, <2>2 DEF storeVars
<1>7. CASE tx[w].ids # {}
  <2>1. \A type \in TaskType : Admits(type, tx[w].ids)
    BY AdmittedAdmits
  <2> QED
    BY <1>1, <1>4, <1>5, <1>7, <2>1 DEF Claim
<1> QED
  BY <1>6, <1>7

\* A completion of one row by the attempt that holds it.
LEMMA CompleteOne ==
    ASSUME TxInv, NEW id \in Id, NEW kind \in Kinds,
           Complete([i \in {id} |-> [token |-> task[id].token, kind |-> kind]])
    PROVE  Next \/ UNCHANGED storeVars
<1> DEFINE c == [i \in {id} |-> [token |-> task[id].token, kind |-> kind]]
<1>1. task[id] \in Row /\ RowSafe(task[id]) /\ task[id].attempt <= MaxAttempt
      /\ task = [i \in Id |-> task[i]]
  BY DEF TxInv, StoreInv, TypeOK, AttemptsBounded
<1>2. CASE task[id].state = "running"
  <2>1. task[id].token \in 1..MaxAttempt
    <3>1. task[id].token \in Nat /\ task[id].attempt \in Nat
      BY <1>1 DEF Row
    <3>2. task[id].token # 0 /\ task[id].token = task[id].attempt
      BY <1>1, <1>2 DEF RowSafe, RowLeaseFence
    <3> QED
      BY <1>1, <3>1, <3>2, BoundAssumption DEF BoundAssumption
  <2> DEFINE tok == [i \in {id} |-> task[id].token]
             knd == [i \in {id} |-> kind]
  <2>2. tok \in [{id} -> 1..MaxAttempt] /\ knd \in [{id} -> Kinds] /\ {id} \in SUBSET Id
    BY <2>1
  <2>3. c = [i \in {id} |-> [token |-> tok[i], kind |-> knd[i]]]
    OBVIOUS
  <2>4. Complete([i \in {id} |-> [token |-> tok[i], kind |-> knd[i]]])
    BY <2>3
  <2> HIDE DEF tok, knd
  <2>5. AttemptWrite
    BY <2>2, <2>4 DEF AttemptWrite
  <2> QED
    BY <2>5 DEF Next
<1>3. CASE task[id].state # "running"
  <2>1. \A i \in Id : ~Applies(c, i)
    BY <1>3 DEF Applies, Holds
  <2>2. {i \in Id : Applies(c, i)} = {}
    BY <2>1
  <2>3. Publish({i \in Id : Applies(c, i)}) /\ UNCHANGED <<types, subs, now>>
    BY DEF Complete
  <2>4. task' = task
    BY <1>1, <2>1 DEF Complete
  <2>5. events' = events
    BY <2>2, <2>3, PublishNothing DEF TxInv
  <2> QED
    BY <2>3, <2>4, <2>5 DEF storeVars
<1> QED
  BY <1>2, <1>3

LEMMA StoreStep == ASSUME TxInv, [TxNext]_vars PROVE [Next]_storeVars
<1>1. ASSUME NEW w \in Worker, ClaimCommit(w) PROVE [Next]_storeVars
  BY <1>1, CommitIsClaim DEF Next
<1>2. ASSUME NEW w \in Worker,
             \/ \E C \in SUBSET Id : ClaimChoose(w, C)
             \/ \E type \in TaskType : ClaimShare(w, type) \/ ClaimUpdate(w, type)
             \/ \E id \in Id : ClaimAdmit(w, id)
             \/ ClaimRollback(w)
      PROVE  UNCHANGED storeVars
  BY <1>2 DEF ClaimChoose, ClaimShare, ClaimUpdate, ClaimAdmit, ClaimRollback, Inside
<1>3. ASSUME NEW p \in Starter, PublishCommit(p) PROVE Next
  <2>1. pub[p] \in SUBSET TaskType
    BY DEF TxInv, TxTypeOK
  <2> QED
    BY <1>3, <2>1, Zenon DEF PublishCommit, Next, Control
<1>4. ASSUME NEW p \in Starter, (\E type \in TaskType : Upsert(p, type)) \/ PublishRollback(p)
      PROVE  UNCHANGED storeVars
  BY <1>4 DEF Upsert, PublishRollback
<1>5. ASSUME NEW c \in Client, EnqueueInsert(c) PROVE [Next]_storeVars
  <2>1. enq[c].type \in TaskType /\ enq[c].key \in Key \cup {None}
    BY <1>5 DEF EnqueueInsert, TxInv, TxTypeOK, Call
  <2>2. \/ UNCHANGED storeVars
        \/ \E id \in Id, ckey \in CKey \cup {None}, max_attempts \in Budgets, delay \in RunDelays :
             Enqueue(id, enq[c].type, enq[c].key, ckey, max_attempts, delay)
    BY <1>5, Zenon DEF EnqueueInsert
  <2>3. UNCHANGED storeVars \/ Control
    BY <2>1, <2>2, Zenon DEF Control
  <2> QED
    BY <2>3 DEF Next
<1>6. ASSUME NEW c \in Client,
             \/ \E type \in TaskType, key \in Key \cup {None} : EnqueueCall(c, type, key)
             \/ EnqueueFind(c) \/ EnqueueTimeout(c)
      PROVE  UNCHANGED storeVars
  BY <1>6 DEF EnqueueCall, EnqueueFind, EnqueueTimeout
<1>7. CASE Others
  <2>1. ASSUME NEW id \in Id, NEW kind \in {"succeed", "fail"},
               Complete([i \in {id} |-> [token |-> task[id].token, kind |-> kind]])
        PROVE  [Next]_storeVars
    <3>1. kind \in Kinds
      BY DEF Kinds
    <3> QED
      BY <2>1, <3>1, CompleteOne
  <2>2. CASE \E id \in Id : RowFree(id) /\ (RequestCancel(id) \/ Requeue(id))
    BY <2>2, Zenon DEF Next, Control
  <2>3. CASE \E type \in TaskType, paused \in BOOLEAN : TypeFree(type) /\ SetPaused(type, paused)
    BY <2>3, Zenon DEF Next, Control
  <2> QED
    BY <1>7, <2>1, <2>2, <2>3, Zenon DEF Others
<1>8. CASE UNCHANGED vars
  BY <1>8 DEF vars
<1> QED
  BY <1>1, <1>2, <1>3, <1>4, <1>5, <1>6, <1>7, <1>8, Zenon DEF TxNext, ClaimStep

-----------------------------------------------------------------------------
(* The other transactions, and the commit of a claim.                      *)

\* A step of the store that starts nothing and respects the claims' locks.
LEMMA ClaimsStay ==
    ASSUME TxInv, [TxNext]_vars, tx' = tx, now' = now, Calm, TxTypeOK', Exclusive',
           \A w \in Worker : \A id \in tx[w].rows : task'[id] = task[id],
           \A type \in TaskType : types[type].published => types'[type].published,
           \A w \in Worker : \A type \in tx[w].share \cup tx[w].update :
             types'[type] = types[type]
    PROVE  TxInv'
<1>1. StoreInv /\ AttemptsBounded /\ [Next]_storeVars
  BY StoreStep DEF TxInv
<1>2. StoreInv' /\ AttemptsBounded'
  BY <1>1, StoreInvNext, BoundNext
<1>3. \A type, k : /\ Running(type)' \subseteq Running(type)
                   /\ RunningKey(type, k)' \subseteq RunningKey(type, k)
  BY <1>1, Shrinks
<1>4. \A w \in Worker : ClaimSound(w)'
  BY <1>2, <1>3, SoundStable
<1> QED
  BY <1>2, <1>4 DEF TxInv

LEMMA UnchangedCalm == ASSUME task' = task PROVE Calm
BY DEF Calm

\* An upsert locks a type that nobody has locked.
LEMMA UpsertInv ==
    ASSUME TxInv, [TxNext]_vars, NEW p \in Starter, NEW type \in TaskType, Upsert(p, type)
    PROVE  TxInv'
<1>1. /\ TypeFree(type) /\ pub' = [pub EXCEPT ![p] = @ \cup {type}]
      /\ task' = task /\ types' = types /\ now' = now /\ tx' = tx /\ enq' = enq
  BY DEF Upsert, storeVars
<1>2. pub \in [Starter -> SUBSET TaskType]
  BY DEF TxInv, TxTypeOK
<1>3. TxTypeOK'
  BY <1>1, <1>2 DEF TxInv, TxTypeOK
<1>4. \A w \in Worker : type \notin tx[w].share \cup tx[w].update
  BY <1>1, NoneAssumption DEF TypeFree, Locked, UpdateLocked, NoneAssumption
<1>5. \A q \in Starter : pub'[q] \subseteq pub[q] \cup {type}
  BY <1>1, <1>2
<1>6. Exclusive'
  BY <1>1, <1>4, <1>5 DEF TxInv, Exclusive
<1> QED
  BY <1>1, <1>3, <1>6, ClaimsStay, UnchangedCalm

\* A publication ends: it changed only types that no claim has locked.
LEMMA PublishInv ==
    ASSUME TxInv, [TxNext]_vars, NEW p \in Starter, PublishCommit(p) \/ PublishRollback(p)
    PROVE  TxInv'
<1>1. /\ pub' = [pub EXCEPT ![p] = {}] /\ tx' = tx /\ enq' = enq
      /\ task' = task /\ now' = now
  BY DEF PublishCommit, PublishRollback, PublishTaskTypes, storeVars
<1>2. pub \in [Starter -> SUBSET TaskType] /\ types \in [TaskType -> TypeRow]
  BY DEF TxInv, TxTypeOK, StoreInv, TypeOK
<1>3. TxTypeOK'
  BY <1>1, <1>2 DEF TxInv, TxTypeOK
<1>4. \A q \in Starter : pub'[q] \subseteq pub[q]
  BY <1>1, <1>2
<1>5. Exclusive'
  BY <1>1, <1>4 DEF TxInv, Exclusive
<1>6. \A type \in TaskType : /\ type \notin pub[p] => types'[type] = types[type]
                             /\ types[type].published => types'[type].published
  <2>1. CASE PublishRollback(p)
    BY <2>1 DEF PublishRollback, storeVars
  <2>2. CASE PublishCommit(p)
    <3>1. PICK limit \in [pub[p] -> Limits], keyLimit \in [pub[p] -> Limits] :
            PublishTaskTypes(limit, keyLimit)
      BY <2>2, Zenon DEF PublishCommit
    <3>2. types' = [type \in TaskType |->
                     IF type \in pub[p]
                     THEN [types[type] EXCEPT !.published = TRUE,
                                              !.max_concurrency = limit[type],
                                              !.max_concurrency_per_key = keyLimit[type]]
                     ELSE types[type]]
      BY <3>1 DEF PublishTaskTypes
    <3> QED
      BY <1>2, <3>2 DEF TypeRow
  <2> QED
    BY <2>1, <2>2
<1>7. \A w \in Worker : \A type \in tx[w].share \cup tx[w].update : types'[type] = types[type]
  <2> SUFFICES ASSUME NEW w \in Worker, NEW type \in tx[w].share \cup tx[w].update
               PROVE  types'[type] = types[type]
    OBVIOUS
  <2>1. type \in TaskType /\ type \notin pub[p]
    BY TxFacts DEF TxRow
  <2> QED
    BY <1>6, <2>1
<1> QED
  BY <1>1, <1>3, <1>5, <1>6, <1>7, ClaimsStay, UnchangedCalm

\* The calls of enqueue: a new row is a row no claim has locked.
LEMMA EnqueueInv ==
    ASSUME TxInv, [TxNext]_vars, NEW c \in Client,
           \/ \E type \in TaskType, key \in Key \cup {None} : EnqueueCall(c, type, key)
           \/ EnqueueInsert(c) \/ EnqueueFind(c) \/ EnqueueTimeout(c)
    PROVE  TxInv'
<1>1. enq \in [Client -> Call] /\ \A d \in Client : enq[d].pc # "idle" => enq[d].type \in TaskType
  BY DEF TxInv, TxTypeOK
<1>2. tx' = tx /\ pub' = pub
  BY DEF EnqueueCall, EnqueueInsert, EnqueueFind, EnqueueTimeout
<1>3. /\ enq' \in [Client -> Call]
      /\ \A d \in Client : enq'[d].pc # "idle" => enq'[d].type \in TaskType
  <2>1. CASE \E type \in TaskType, key \in Key \cup {None} : EnqueueCall(c, type, key)
    BY <1>1, <2>1 DEF EnqueueCall, Call
  <2>2. CASE Returns(c)
    <3>1. NoCall \in Call /\ NoCall.pc = "idle"
      BY DEF NoCall, Call
    <3> QED
      BY <1>1, <2>2, <3>1 DEF Returns
  <2>3. CASE \E pc \in {"insert", "find"} : enq[c].pc # "idle" /\ Goes(c, pc)
    <3>1. PICK pc \in {"insert", "find"} : enq[c].pc # "idle" /\ enq' = [enq EXCEPT ![c].pc = pc]
      BY <2>3 DEF Goes
    <3>2. enq'[c] \in Call /\ enq'[c].type = enq[c].type
      BY <1>1, <3>1 DEF Call
    <3>3. enq' = [enq EXCEPT ![c] = enq'[c]]
      BY <1>1, <3>1
    <3> QED
      BY <1>1, <3>1, <3>2, <3>3
  <2>4. \/ \E type \in TaskType, key \in Key \cup {None} : EnqueueCall(c, type, key)
        \/ Returns(c) \/ \E pc \in {"insert", "find"} : enq[c].pc # "idle" /\ Goes(c, pc)
    BY DEF EnqueueInsert, EnqueueFind, EnqueueTimeout
  <2> QED
    BY <2>1, <2>2, <2>3, <2>4
<1>4. TxTypeOK'
  BY <1>2, <1>3 DEF TxInv, TxTypeOK
<1>5. Exclusive'
  BY <1>2 DEF TxInv, Exclusive
<1>6. CASE UNCHANGED storeVars
  <2>1. task' = task /\ types' = types /\ now' = now
    BY <1>6 DEF storeVars
  <2> QED
    BY <1>2, <1>4, <1>5, <2>1, ClaimsStay, UnchangedCalm
<1>7. CASE EnqueueInsert(c) /\ ~UNCHANGED storeVars
  <2>1. PICK id \in Id, ckey \in CKey \cup {None}, max_attempts \in Budgets, delay \in RunDelays :
          Enqueue(id, enq[c].type, enq[c].key, ckey, max_attempts, delay)
    BY <1>7, Zenon DEF EnqueueInsert
  <2>2. /\ task[id].state = "absent" /\ types' = types /\ now' = now
        /\ \A i \in Id \ {id} : task'[i] = task[i]
    BY <2>1 DEF Enqueue, TxInv, StoreInv, TypeOK
  <2>3. \A w \in Worker : \A i \in tx[w].rows : task'[i] = task[i]
    <3> SUFFICES ASSUME NEW w \in Worker, NEW i \in tx[w].rows PROVE task'[i] = task[i]
      OBVIOUS
    <3>1. i \in Id /\ task[i].state = "queued"
      BY TxFacts DEF TxRow, RowsHeld, Due
    <3> QED
      BY <2>2, <3>1
  <2>4. Calm
    BY <2>1, EnqueueCalm DEF TxInv
  <2> QED
    BY <1>2, <1>4, <1>5, <2>2, <2>3, <2>4, ClaimsStay
<1> QED
  BY <1>6, <1>7 DEF EnqueueCall, EnqueueFind, EnqueueTimeout

LEMMA OthersInv == ASSUME TxInv, [TxNext]_vars, Others PROVE TxInv'
<1>1. tx' = tx /\ pub' = pub /\ enq' = enq
  BY DEF Others, txVars
<1>2. TxTypeOK' /\ Exclusive'
  BY <1>1 DEF TxInv, TxTypeOK, Exclusive
<1>3. StoreInv /\ task = [i \in Id |-> task[i]] /\ types \in [TaskType -> TypeRow]
  BY DEF TxInv, StoreInv, TypeOK
<1>4. \A w \in Worker : \A i \in tx[w].rows : i \in Id /\ task[i].state = "queued"
  BY TxFacts DEF TxRow, RowsHeld, Due
<1>5. ASSUME NEW id \in Id, RowFree(id), RequestCancel(id) \/ Requeue(id) PROVE TxInv'
  <2>1. types' = types /\ now' = now /\ \A i \in Id \ {id} : task'[i] = task[i]
    BY <1>3, <1>5 DEF RequestCancel, Requeue
  <2>2. \A w \in Worker : \A i \in tx[w].rows : task'[i] = task[i]
    BY <1>4, <1>5, <2>1 DEF RowFree
  <2>3. Calm
    BY <1>3, <1>5, OperatorCalm
  <2> QED
    BY <1>1, <1>2, <2>1, <2>2, <2>3, ClaimsStay
<1>6. ASSUME NEW c, Complete(c) PROVE TxInv'
  <2>1. types' = types /\ now' = now /\ \A i \in Id : task[i].state # "running" => task'[i] = task[i]
    BY <1>6 DEF Complete, Applies, Holds
  <2>2. \A w \in Worker : \A i \in tx[w].rows : task'[i] = task[i]
    BY <1>4, <2>1
  <2>3. Calm
    BY <1>6, CompleteCalm
  <2> QED
    BY <1>1, <1>2, <2>1, <2>2, <2>3, ClaimsStay
<1>7. ASSUME NEW type \in TaskType, NEW paused, TypeFree(type), SetPaused(type, paused)
      PROVE  TxInv'
  <2>1. /\ task' = task /\ now' = now
        /\ types' = [types EXCEPT ![type].paused = paused]
    BY <1>7 DEF SetPaused
  <2>2. /\ \A x \in TaskType : x # type => types'[x] = types[x]
        /\ \A x \in TaskType : types[x].published => types'[x].published
    BY <1>3, <2>1 DEF TypeRow
  <2>3. \A w \in Worker : type \notin tx[w].share \cup tx[w].update
    BY <1>7, NoneAssumption DEF TypeFree, Locked, UpdateLocked, NoneAssumption
  <2>4. \A w \in Worker : \A x \in tx[w].share \cup tx[w].update : types'[x] = types[x]
    BY <2>2, <2>3, TxFacts DEF TxRow
  <2> QED
    BY <1>1, <1>2, <2>1, <2>2, <2>4, ClaimsStay, UnchangedCalm
<1> QED
  BY <1>5, <1>6, <1>7, Zenon DEF Others

\* A commit starts the rows it has locked; of a type with a limit it is alone.
LEMMA CommitInv ==
    ASSUME TxInv, [TxNext]_vars, NEW w \in Worker, ClaimCommit(w) PROVE TxInv'
<1>1. /\ tx' = [tx EXCEPT ![w] = NoTx] /\ types' = types /\ now' = now
      /\ pub' = pub /\ enq' = enq
      /\ \A id \in Id : id \notin tx[w].ids => task'[id] = task[id]
  BY DEF ClaimCommit, Become
<1>2. tx'[w] = NoTx /\ \A v \in Worker \ {w} : tx'[v] = tx[v]
  BY <1>1, TxFacts
<1>3. StoreInv' /\ AttemptsBounded'
  BY StoreStep, StoreInvNext, BoundNext DEF TxInv
<1>4. TxTypeOK'
  <2>1. tx' \in [Worker -> TxRow]
    BY <1>1, NoTxRow, TxFacts
  <2> QED
    BY <1>1, <2>1 DEF TxInv, TxTypeOK
<1>5. Exclusive'
  <2>1. \A v \in Worker : /\ tx'[v].rows \subseteq tx[v].rows
                          /\ tx'[v].share \subseteq tx[v].share
                          /\ tx'[v].update \subseteq tx[v].update
    BY <1>2, NoTxRow
  <2> QED
    BY <1>1, <2>1 DEF TxInv, Exclusive
<1>6. ASSUME NEW v \in Worker \ {w} PROVE ClaimSound(v)'
  <2>1. \A id \in tx[v].rows : task'[id] = task[id]
    <3> SUFFICES ASSUME NEW id \in tx[v].rows PROVE task'[id] = task[id]
      OBVIOUS
    <3>1. id \in Id
      BY TxFacts DEF TxRow
    <3>2. id \notin tx[w].ids
      BY TxFacts DEF RowsHeld
    <3> QED
      BY <1>1, <3>1, <3>2
  <2>2. ASSUME NEW type \in tx[v].update, NEW k
        PROVE  /\ Running(type)' \subseteq Running(type)
               /\ RunningKey(type, k)' \subseteq RunningKey(type, k)
    <3>1. {id \in tx[w].ids : task[id].type = type} = {}
      BY TxFacts DEF TypesHeld
    <3>2. CASE Claim(w, tx[w].ids)
      <4>1. StoreInv /\ tx[w].ids \in SUBSET Id
        BY TxFacts DEF TxInv, TxRow
      <4>2. task' = [id \in Id |-> IF id \in tx[w].ids THEN Claimed(task[id], w) ELSE task[id]]
        BY <3>2 DEF Claim
      <4>3. \A id \in Id : Claimed(task[id], w).type = task[id].type
        BY <4>1 DEF StoreInv, TypeOK, Row, Claimed
      <4>4. \A id \in Id : task'[id].type = type => task'[id] = task[id]
        BY <3>1, <4>2, <4>3
      <4> QED
        BY <4>4 DEF Running, RunningKey
    <3>3. CASE UNCHANGED storeVars
      BY <3>3 DEF storeVars, Running, RunningKey
    <3> QED
      BY <3>2, <3>3, CommitIsClaim
  <2> QED
    BY <1>1, <1>2, <1>3, <2>1, <2>2, SoundStable
<1>7. ClaimSound(w)'
  BY <1>2, NoTxSound
<1>8. \A v \in Worker : ClaimSound(v)'
  BY <1>6, <1>7
<1> QED
  BY <1>3, <1>4, <1>5, <1>8 DEF TxInv

LEMMA TxInvInit == TxInit => TxInv
<1> SUFFICES ASSUME TxInit PROVE TxInv
  OBVIOUS
<1>1. StoreInv
  BY StoreInvInit DEF TxInit
<1>2. AttemptsBounded
  BY BoundAssumption DEF TxInit, StoreInit, AttemptsBounded, NoRow, BoundAssumption
<1>3. /\ \A w \in Worker : tx[w] = NoTx /\ \A p \in Starter : pub[p] = {}
      /\ \A c \in Client : enq[c] = NoCall
  BY DEF TxInit
<1>4. TxTypeOK
  BY NoTxRow DEF TxInit, TxTypeOK, NoCall, Call
<1>5. Exclusive
  BY <1>3, NoTxRow DEF Exclusive
<1>6. \A w \in Worker : ClaimSound(w)
  <2>1. 0 <= BatchLimit
    BY BoundAssumption DEF BoundAssumption
  <2> QED
    BY <1>3, <2>1, NoTxRow, EmptyCard DEF ClaimSound, RowsHeld, TypesHeld, Counted
<1> QED
  BY <1>1, <1>2, <1>4, <1>5, <1>6 DEF TxInv

LEMMA TxInvNext == ASSUME TxInv, [TxNext]_vars PROVE TxInv'
<1>1. CASE UNCHANGED vars
  <2>1. /\ UNCHANGED storeVars /\ task' = task /\ types' = types /\ now' = now
        /\ tx' = tx /\ pub' = pub /\ enq' = enq
    BY <1>1 DEF vars, storeVars, txVars
  <2>2. TxTypeOK' /\ Exclusive'
    BY <2>1 DEF TxInv, TxTypeOK, Exclusive
  <2> QED
    BY <2>1, <2>2, ClaimsStay, UnchangedCalm
<1>2. ASSUME NEW w \in Worker,
             (\E C \in SUBSET Id : ClaimChoose(w, C)) \/ ClaimStep(w) \/ ClaimRollback(w)
      PROVE  TxInv'
  BY <1>2, ChooseInv, ShareInv, UpdateInv, AdmitInv, CommitInv, RollbackInv DEF ClaimStep
<1>3. ASSUME NEW p \in Starter,
             \/ \E type \in TaskType : Upsert(p, type)
             \/ PublishCommit(p) \/ PublishRollback(p)
      PROVE  TxInv'
  BY <1>3, UpsertInv, PublishInv
<1>4. CASE TxNext
  BY <1>2, <1>3, <1>4, EnqueueInv, OthersInv, Zenon DEF TxNext
<1> QED
  BY <1>1, <1>4

-----------------------------------------------------------------------------
\* The claim, publication and enqueue transactions, interleaved statement by
\* statement, do what the store's atomic statements do: a claim that commits is
\* one that Claim allows in the state it commits in.
THEOREM StoreRefinement == TxSpec => RefinesStore
<1>1. TxInit => StoreInit
  BY DEF TxInit
<1> QED
  BY <1>1, TxInvInit, TxInvNext, StoreStep, PTL DEF TxSpec, RefinesStore, Spec

\* No interleaving of claims with each other, with publications, pauses and
\* completions starts more tasks of a type or of a key than its limit.
THEOREM TxLimits == TxSpec => LimitsRespected
BY StoreRefinement, LimitsKept, PTL DEF RefinesStore

\* No interleaving of enqueues with requeues and completions makes two active
\* tasks of one type and key.
THEOREM TxUniqueness == TxSpec => []UniqueActiveKey
BY StoreRefinement, KeyUniqueness, PTL DEF RefinesStore
=============================================================================
