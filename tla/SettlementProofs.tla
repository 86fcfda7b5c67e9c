-------------------------- MODULE SettlementProofs --------------------------
(***************************************************************************)
(* What the completion batcher and the hint sender keep true, for any      *)
(* controllers, rows, sharing of rows and batch size.                      *)
(***************************************************************************)
EXTENDS Settlement, FiniteSetTheorems, WellFoundedInduction, TLAPS

\* No two completions of a set are for one row.
Apart(S) == \A c, d \in S : c # d => idOf[c] # idOf[d]

\* The batcher: rows of a batch are apart, so that an answer by row is one by
\* attempt, and the database never refuses a batch as illegal.
BatchSound ==
    /\ Apart(batch)
    /\ IF pc \in {"writing", "answered"} THEN Legal(active) ELSE active = {}
    /\ answer \subseteq applied

\* The sender: what is owed is held.  Nothing is given after close() began.
SenderSound ==
    /\ hpending \subseteq Notice /\ hbatch \subseteq Notice /\ howed \subseteq Notice
    /\ hagain \subseteq Notice
    /\ hcloser # "over" => hagain \subseteq hpending
    /\ hcloser # "over" /\ hpc # "sending" => hagain = {}
    /\ hcloser = "over" => hpc \in {"none", "done"}
    /\ hpc # "sending" => hbatch = {}
    /\ hpc \in {"none", "done"} => hpending = {}
    /\ hcloser \in {"no", "flushing", "over"}
    /\ hcloser # "no" => Settled

SettlementInv ==
    /\ TypeOK /\ BatchSound /\ AnswerOwn
    /\ SenderSound /\ HintKept /\ CloseFlushes

-----------------------------------------------------------------------------
(* The batch.                                                              *)

LEMMA GreatestBelow ==
    ASSUME NEW N \in Nat, NEW S \in SUBSET (0..N), S # {}
    PROVE  \E n \in S : \A m \in S : m <= n
<1> DEFINE T == {N - n : n \in S}
<1>0. \A n \in S : n \in Nat /\ n <= N /\ N - n \in Nat
  OBVIOUS
<1>1. T \in SUBSET Nat /\ T # {}
  BY <1>0
<1>2. IsWellFoundedOn(OpToRel(<, Nat), Nat)
  BY NatLessThanWellFounded
<1>3. PICK e \in T : \A f \in T : ~(<<f, e>> \in OpToRel(<, Nat))
  BY <1>1, <1>2, WFMin
<1>4. \A f \in T : ~(f < e)
  BY <1>1, <1>3 DEF OpToRel
<1>5. PICK n \in S : e = N - n
  BY <1>3
<1>6. ASSUME NEW m \in S PROVE m <= n
  <2>1. N - m \in T
    OBVIOUS
  <2>2. ~(N - m < N - n)
    BY <1>4, <1>5, <2>1
  <2>3. m \in Nat /\ n \in Nat
    BY <1>0
  <2> HIDE DEF T
  <2> QED
    BY <2>2, <2>3
<1> QED
  BY <1>6

\* A batch can always be cut, and what was cut is apart and fits.
LEMMA TakesFacts ==
    ASSUME NEW q \in Seq(Ctl), idOf \in [Ctl -> Id]
    PROVE  /\ Takes(q) \in 0..Len(q) /\ Takes(q) <= BatchCap
           /\ \A i, j \in 1..Takes(q) : i # j => idOf[q[i]] # idOf[q[j]]
<1> DEFINE Good(n) == n <= BatchCap /\ \A i, j \in 1..n : i # j => idOf[q[i]] # idOf[q[j]]
           Full(n) == n = Len(q) \/ n = BatchCap \/ \E i \in 1..n : idOf[q[i]] = idOf[q[n + 1]]
           S == {n \in 0..Len(q) : Good(n)}
<1>1. Len(q) \in Nat /\ BatchCap \in Nat
  BY CapAssumption DEF CapAssumption
<1>2. 0 \in S
  BY <1>1
<1>3. PICK n \in S : \A m \in S : m <= n
  <2>1. S \in SUBSET (0..Len(q)) /\ S # {}
    BY <1>2
  <2> HIDE DEF S
  <2> QED
    BY <1>1, <2>1, GreatestBelow
<1>4. Full(n)
  <2> SUFFICES ASSUME n # Len(q), n # BatchCap, \A i \in 1..n : idOf[q[i]] # idOf[q[n + 1]]
               PROVE  FALSE
    OBVIOUS
  <2>1. n + 1 \in 0..Len(q) /\ n + 1 <= BatchCap /\ n \in Nat
    BY <1>1, <1>3
  <2>2. ASSUME NEW i \in 1..n + 1, NEW j \in 1..n + 1, i # j PROVE idOf[q[i]] # idOf[q[j]]
    <3>1. (i \in 1..n \/ i = n + 1) /\ (j \in 1..n \/ j = n + 1)
      BY <2>1
    <3>2. \A a, b \in 1..n : a # b => idOf[q[a]] # idOf[q[b]]
      BY <1>3
    <3> QED
      BY <2>2, <3>1, <3>2
  <2>3. n + 1 \in S
    BY <2>1, <2>2
  <2> HIDE DEF S
  <2> QED
    BY <1>3, <2>1, <2>3
<1>5. n \in 0..Len(q) /\ Good(n) /\ Full(n)
  BY <1>3, <1>4
<1>6. Takes(q) = CHOOSE m \in 0..Len(q) : Good(m) /\ Full(m)
  BY DEF Takes
<1> HIDE DEF Good, Full
<1>7. Takes(q) \in 0..Len(q) /\ Good(Takes(q))
  BY <1>5, <1>6
<1> QED
  BY <1>7 DEF Good

LEMMA TakenFacts ==
    ASSUME NEW q \in Seq(Ctl), idOf \in [Ctl -> Id]
    PROVE  LET taken == {q[i] : i \in 1..Takes(q)}
           IN  /\ taken \subseteq Ctl /\ Apart(taken)
               /\ \A S \in SUBSET taken : Legal(S)
               /\ SubSeq(q, Takes(q) + 1, Len(q)) \in Seq(Ctl)
<1> DEFINE n == Takes(q)
           taken == {q[i] : i \in 1..n}
<1>1. /\ n \in 0..Len(q) /\ n <= BatchCap /\ Len(q) \in Nat /\ BatchCap \in Nat
      /\ \A i, j \in 1..n : i # j => idOf[q[i]] # idOf[q[j]]
  BY TakesFacts, CapAssumption DEF CapAssumption
<1> HIDE DEF n
<1>2. n \in Nat /\ \A i \in 1..n : q[i] \in Ctl
  BY <1>1
<1>3. taken \subseteq Ctl /\ Apart(taken)
  BY <1>1, <1>2 DEF Apart
<1>4. IsFiniteSet(taken) /\ Cardinality(taken) <= n /\ Cardinality(taken) \in Nat
  <2> DEFINE f == [i \in 1..n |-> q[i]]
  <2>1. IsFiniteSet(1..n) /\ Cardinality(1..n) = n
    BY <1>2, FS_Interval
  <2>2. f \in Surjection(1..n, taken)
    <3>1. f \in [1..n -> taken] /\ \A t \in taken : \E i \in 1..n : f[i] = t
      OBVIOUS
    <3> QED
      BY <3>1, Zenon DEF Surjection
  <2>3. IsFiniteSet(taken) /\ Cardinality(taken) <= Cardinality(1..n)
    <3> HIDE DEF f, taken
    <3> QED
      BY <2>1, <2>2, FS_Surjection, Zenon
  <2>4. Cardinality(taken) \in Nat
    BY <2>3, FS_CardinalityType
  <2> HIDE DEF taken
  <2> QED
    BY <2>1, <2>3, <2>4
<1> HIDE DEF taken
<1>5. ASSUME NEW S \in SUBSET taken PROVE Legal(S)
  <2>1. Cardinality(S) <= Cardinality(taken) /\ IsFiniteSet(S)
    BY <1>4, FS_Subset
  <2>2. Cardinality(S) \in Nat
    BY <2>1, FS_CardinalityType
  <2>3. Cardinality(S) <= BatchCap
    BY <1>1, <1>2, <1>4, <2>1, <2>2
  <2> QED
    BY <1>3, <2>3 DEF Legal, Apart
<1>6. SubSeq(q, n + 1, Len(q)) \in Seq(Ctl)
  BY <1>1, <1>2
<1> QED
  BY <1>3, <1>5, <1>6 DEF taken, n

-----------------------------------------------------------------------------
(* The batcher's part of the invariant, action by action.                  *)

BatcherInv == TypeOK /\ BatchSound /\ AnswerOwn

LEMMA CollectSound == ASSUME BatcherInv, Collect PROVE BatcherInv'
<1> DEFINE taken == {pending[i] : i \in 1..Takes(pending)}
           rest == SubSeq(pending, Takes(pending) + 1, Len(pending))
<1>1. TypeOK /\ BatchSound /\ AnswerOwn
  BY DEF BatcherInv
<1>2. taken \subseteq Ctl /\ Apart(taken) /\ (\A S \in SUBSET taken : Legal(S)) /\ rest \in Seq(Ctl)
  BY <1>1, TakenFacts DEF TypeOK
<1>3. /\ pending' = rest /\ active' = Waiting(taken)
      /\ batch' = IF Waiting(taken) = {} THEN {} ELSE taken
      /\ pc' = IF Waiting(taken) # {} THEN "writing" ELSE IF rest = <<>> THEN "done" ELSE "ready"
      /\ pc = "ready" /\ UNCHANGED <<answer, future, holds, applied, broken, idOf>>
  BY DEF Collect
<1> HIDE DEF taken, rest
<1>4. Waiting(taken) \subseteq taken
  BY DEF Waiting
<1>5. TypeOK'
  <2>1. answer = {}
    BY <1>1, <1>3 DEF TypeOK, BatchSound
  <2> QED
    BY <1>1, <1>2, <1>3, <1>4, <2>1 DEF TypeOK
<1>6. BatchSound'
  BY <1>1, <1>2, <1>3, <1>4 DEF BatchSound, Apart, Legal
<1> QED
  BY <1>1, <1>3, <1>5, <1>6 DEF BatcherInv, AnswerOwn

LEMMA WriteSound ==
    ASSUME BatcherInv, WriteApplies \/ AnswerLost \/ WriteRefused PROVE BatcherInv'
<1>1. TypeOK /\ BatchSound /\ AnswerOwn
  BY DEF BatcherInv
<1>2. TypeOK'
  BY <1>1 DEF TypeOK, WriteApplies, AnswerLost, WriteRefused
<1>3. BatchSound'
  BY <1>1 DEF BatchSound, Apart, Legal, WriteApplies, AnswerLost, WriteRefused
<1>4. AnswerOwn'
  BY <1>1 DEF AnswerOwn, WriteApplies, AnswerLost, WriteRefused
<1> QED
  BY <1>2, <1>3, <1>4 DEF BatcherInv

\* The answer by row is the answer of the attempt, since the batch has it once.
LEMMA AnswerSound == ASSUME BatcherInv, Answer PROVE BatcherInv'
<1>1. TypeOK /\ BatchSound /\ AnswerOwn
  BY DEF BatcherInv
<1>2. ASSUME NEW c \in batch, NEW d \in answer, idOf[d] = idOf[c] PROVE c \in applied
  <2>1. d \in batch
    BY <1>1 DEF TypeOK
  <2>2. c = d
    BY <1>1, <1>2, <2>1 DEF BatchSound, Apart
  <2> QED
    BY <1>1, <2>2 DEF BatchSound
<1>3. ASSUME NEW c \in Ctl
      PROVE  /\ future'[c] = IF c \in Waiting(batch) THEN AnsweredById(c) ELSE future[c]
             /\ AnsweredById(c) \in {"applied", "rejected"}
             /\ c \in batch /\ AnsweredById(c) = "applied" => c \in applied
  BY <1>2 DEF Answer, AnsweredById
<1>4. TypeOK'
  <2>1. future' = [c \in Ctl |-> future'[c]]
    BY DEF Answer
  <2>2. \A c \in Ctl : future'[c] \in {"unclaimed", "running", "waiting", "applied", "rejected",
                                       "cancelled", "failed"}
    BY <1>1, <1>3 DEF TypeOK
  <2>3. future' \in [Ctl -> {"unclaimed", "running", "waiting", "applied", "rejected",
                             "cancelled", "failed"}]
    BY <2>1, <2>2
  <2> QED
    BY <1>1, <2>3 DEF TypeOK, Answer
<1>5. AnswerOwn'
  BY <1>1, <1>3 DEF AnswerOwn, Answer, Waiting
<1>6. BatchSound'
  BY DEF BatchSound, Apart, Answer
<1> QED
  BY <1>4, <1>5, <1>6 DEF BatcherInv

LEMMA RaiseSound == ASSUME BatcherInv, WriteRaises PROVE BatcherInv'
<1>1. TypeOK /\ BatchSound /\ AnswerOwn
  BY DEF BatcherInv
<1>2. broken' = TRUE /\ UNCHANGED <<holds, applied, idOf>>
  BY <1>1 DEF WriteRaises, BatchSound, TypeOK
<1>3. \A c \in Ctl : future'[c] = future[c] \/ future'[c] = "failed"
  BY DEF WriteRaises
<1>4. future' \in [Ctl -> {"unclaimed", "running", "waiting", "applied", "rejected",
                           "cancelled", "failed"}]
  BY <1>1 DEF WriteRaises, TypeOK
<1>5. TypeOK'
  BY <1>1, <1>2, <1>4 DEF WriteRaises, TypeOK
<1>6. AnswerOwn' /\ BatchSound'
  BY <1>1, <1>2, <1>3 DEF AnswerOwn, BatchSound, Apart, WriteRaises
<1> QED
  BY <1>5, <1>6 DEF BatcherInv

LEMMA BatcherNext == ASSUME BatcherInv, [Next]_vars PROVE BatcherInv'
<1>1. TypeOK /\ BatchSound /\ AnswerOwn
  BY DEF BatcherInv
<1>2. ASSUME NEW c \in Ctl, Claim(c) \/ LoseToken(c) \/ Complete(c) \/ Cancel(c) PROVE BatcherInv'
  <2>1. TypeOK'
    <3>1. CASE Claim(c) \/ LoseToken(c) \/ Cancel(c)
      BY <1>1, <3>1 DEF TypeOK, Claim, LoseToken, Cancel
    <3>2. CASE Complete(c)
      <4>1. pending' \in Seq(Ctl)
        BY <1>1, <3>2 DEF TypeOK, Complete
      <4> QED
        BY <1>1, <3>2, <4>1 DEF TypeOK, Complete
    <3> QED
      BY <1>2, <3>1, <3>2
  <2>2. BatchSound'
    BY <1>1, <1>2 DEF BatchSound, Apart, Legal, Claim, LoseToken, Complete, Cancel
  <2>3. AnswerOwn'
    BY <1>1, <1>2 DEF TypeOK, AnswerOwn, Claim, LoseToken, Complete, Cancel
  <2> QED
    BY <2>1, <2>2, <2>3 DEF BatcherInv
<1>3. CASE Close
  BY <1>1, <1>3 DEF BatcherInv, TypeOK, BatchSound, Apart, AnswerOwn, Close
<1>4. CASE UNCHANGED vars
  BY <1>1, <1>4 DEF BatcherInv, TypeOK, BatchSound, Apart, Legal, AnswerOwn, vars
<1> QED
  BY <1>2, <1>3, <1>4, CollectSound, WriteSound, AnswerSound, RaiseSound DEF Next, Unanswered

-----------------------------------------------------------------------------
(* The sender's part.                                                      *)

\* Once the batcher is closed, it stays so: close() comes after every answer.
LEMMA SettledStays == ASSUME Settled, [Next]_vars PROVE Settled' /\ ~Answer
BY DEF Settled, Next, Unanswered, Claim, LoseToken, Complete, Cancel, Collect, WriteApplies,
       AnswerLost, WriteRefused, WriteRaises, Close, Answer, vars, Waiting

SenderInv == SenderSound /\ HintKept /\ CloseFlushes

LEMMA GiveSound ==
    ASSUME SenderInv, NEW S \in SUBSET Notice, H!Give(S), hcloser = "no" PROVE SenderInv'
BY DEF SenderInv, SenderSound, HintKept, CloseFlushes, H!HintKept, H!CloseFlushes, H!Give

LEMMA SendingSound ==
    ASSUME SenderInv, UNCHANGED vars, H!Sender \/ H!FlushTimesOut PROVE SenderInv'
<1>1. Settled' = Settled
  BY DEF Settled, vars
<1>2. CASE H!Take \/ H!Sent \/ H!Slept
  BY <1>1, <1>2 DEF SenderInv, SenderSound, HintKept, CloseFlushes, H!HintKept, H!CloseFlushes,
                    H!Take, H!Sent, H!Slept, H!Undelivered
<1>3. ASSUME NEW delivered \in BOOLEAN, H!SendFailed(delivered) PROVE SenderInv'
  BY <1>1, <1>3 DEF SenderInv, SenderSound, HintKept, CloseFlushes, H!HintKept, H!CloseFlushes,
                    H!SendFailed, H!Undelivered
<1>4. CASE H!Flushed \/ H!FlushTimesOut
  BY <1>1, <1>4 DEF SenderInv, SenderSound, HintKept, CloseFlushes, H!HintKept, H!CloseFlushes,
                    H!Flushed, H!FlushTimesOut, H!Over
<1> QED
  BY <1>2, <1>3, <1>4 DEF H!Sender

LEMMA CloseSound == ASSUME SenderInv, CloseHints PROVE SenderInv'
<1>1. PICK immediate \in BOOLEAN : H!Close(immediate)
  BY DEF CloseHints
<1>2. Settled' /\ Settled
  BY DEF CloseHints, Settled, vars
<1> QED
  BY <1>1, <1>2 DEF SenderInv, SenderSound, HintKept, CloseFlushes, H!HintKept, H!CloseFlushes,
                    H!Close, H!Over

LEMMA SettlementInvNext ==
    ASSUME SettlementInv, [SettlementNext]_allVars PROVE SettlementInv'
<1>1. BatcherInv /\ SenderInv
  BY DEF SettlementInv, BatcherInv, SenderInv
<1>2. [Next]_vars
  BY DEF SettlementNext, AnswerAndHint, CloseHints, Next, allVars
<1>3. BatcherInv'
  BY <1>1, <1>2, BatcherNext
<1>4. hcloser # "no" => Settled' /\ ~Answer
  BY <1>1, <1>2, SettledStays DEF SenderInv, SenderSound
<1>5. ASSUME UNCHANGED hvars PROVE SenderInv'
  <2>1. UNCHANGED <<hpending, hbatch, hpc, hcloser, hcut, howed, hagain>>
    BY <1>5 DEF hvars
  <2> QED
    BY <1>1, <1>4, <2>1 DEF SenderInv, SenderSound, HintKept, CloseFlushes, H!HintKept,
                            H!CloseFlushes
<1>6. ASSUME AnswerAndHint, answer # {} PROVE SenderInv'
  <2>1. Answer /\ \E S \in SUBSET Notice : H!Give(S)
    BY <1>6 DEF AnswerAndHint
  <2>2. hcloser \in {"no", "flushing", "over"} /\ hcloser = "no"
    BY <1>1, <1>4, <2>1 DEF SenderInv, SenderSound
  <2> QED
    BY <1>1, <2>1, <2>2, GiveSound
<1>7. ASSUME NEW S \in SUBSET Notice, H!Add(S), UNCHANGED vars PROVE SenderInv'
  BY <1>1, <1>7, GiveSound DEF H!Add
<1>8. ASSUME UNCHANGED vars, H!Sender \/ H!FlushTimesOut PROVE SenderInv'
  BY <1>1, <1>8, SendingSound
<1>9. ASSUME CloseHints PROVE SenderInv'
  BY <1>1, <1>9, CloseSound
<1>10. ASSUME AnswerAndHint PROVE SenderInv'
  BY <1>5, <1>6, <1>10 DEF AnswerAndHint
<1>11. UNCHANGED allVars => UNCHANGED hvars
  BY DEF allVars
<1>12. SenderInv'
  BY <1>5, <1>7, <1>8, <1>9, <1>10, <1>11 DEF SettlementNext
<1> QED
  BY <1>3, <1>12 DEF SettlementInv, BatcherInv, SenderInv

LEMMA SettlementInvInit == SettlementInit => SettlementInv
<1> SUFFICES ASSUME SettlementInit PROVE SettlementInv
  OBVIOUS
<1>1. TypeOK
  <2>1. idOf \in [Ctl -> Id]
    BY IdMapsAssumption DEF IdMapsAssumption, SettlementInit, Init
  <2>2. pending \in Seq(Ctl)
    BY DEF SettlementInit, Init
  <2> QED
    BY <2>1, <2>2 DEF SettlementInit, Init, TypeOK
<1>2. BatchSound /\ AnswerOwn
  BY DEF SettlementInit, Init, BatchSound, Apart, AnswerOwn
<1>3. SenderInv
  BY DEF SettlementInit, H!Init, SenderInv, SenderSound, HintKept, CloseFlushes, H!HintKept,
         H!CloseFlushes
<1> QED
  BY <1>1, <1>2, <1>3 DEF SettlementInv, SenderInv

LEMMA SettlementAlways == SettlementSpec => []SettlementInv
BY SettlementInvInit, SettlementInvNext, PTL DEF SettlementSpec

\* The batcher's attributes keep their types.
THEOREM CompletionTypes == SettlementSpec => []TypeOK
<1>1. SettlementInv => TypeOK
  BY DEF SettlementInv
<1> QED
  BY <1>1, SettlementAlways, PTL

\* A controller is told "applied" only of its own completion, and of a failure
\* only when a legal write failed: the batch never has a row twice.
THEOREM AnswersOwn == SettlementSpec => []AnswerOwn
<1>1. SettlementInv => AnswerOwn
  BY DEF SettlementInv
<1> QED
  BY <1>1, SettlementAlways, PTL

\* Hints survive failed sends and sends they overtake, until close() ends.
THEOREM HintsKept == SettlementSpec => []HintKept
<1>1. SettlementInv => HintKept
  BY DEF SettlementInv
<1> QED
  BY <1>1, SettlementAlways, PTL

\* A close that was not cut short delivered every hint, those of the last
\* completions included: the batcher is closed first.
THEOREM ClosesFlush == SettlementSpec => []CloseFlushes
<1>1. SettlementInv => CloseFlushes
  BY DEF SettlementInv
<1> QED
  BY <1>1, SettlementAlways, PTL
=============================================================================
