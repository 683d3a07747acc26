-------------------------- MODULE SuggestionProofs ---------------------------
(***************************************************************************)
(* Theorems about the suggestion queue and the retries of feedback, for    *)
(* every number of suggestions, every size of the queues and lists and     *)
(* every number of attempts and restarts.                                  *)
(***************************************************************************)
EXTENDS SuggestionQueue, FeedbackRetry, FilterProofs, FiniteSetTheorems

-----------------------------------------------------------------------------
(***************************************************************************)
(* The suggestion queue.  Its operations are functions of a queue, so what *)
(* they preserve is said of a queue q, and the actions follow.             *)
(***************************************************************************)
SqRoom == IF SqMaxSize = 0 THEN 1 ELSE SqMaxSize

SqQueueOK(q) ==
  /\ q.items \subseteq SqSuggestions
  /\ q.prints = {SqContent[s] : s \in q.items}
  /\ \A s, t \in q.items : SqContent[s] = SqContent[t] => s = t
  /\ Cardinality(q.items) <= SqRoom

(* Some of the suggestions are finitely many. *)
LEMMA SqFinite ==
  ASSUME NEW S, S \subseteq SqSuggestions
  PROVE  IsFiniteSet(S) /\ Cardinality(S) \in Nat
<1>1. IsFiniteSet(1..SqRanks)
  BY SqAssumption, FS_Interval
<1>2. IsFiniteSet(S)
  BY <1>1, FS_Subset DEF SqSuggestions
<1> QED
  BY <1>2, FS_CardinalityType

(* A queue that is not empty has a worst item. *)
LEMMA SqWorstThere ==
  ASSUME NEW S, S \subseteq SqSuggestions, S # {}
  PROVE  SqWorst(S) \in S
<1> DEFINE T == {SqRanks - s : s \in S}
<1>1. T \subseteq Nat /\ T # {}
  BY SqAssumption DEF SqSuggestions
<1>2. PICK x \in T : \A y \in T : x <= y
  BY <1>1, LeastNat
<1>3. PICK s \in S : x = SqRanks - s
  BY <1>2
<1>4. \A t \in S : SqRanks - s <= SqRanks - t
  BY <1>2, <1>3
<1>5. \A t \in S : t <= s
  BY <1>4, SqAssumption DEF SqSuggestions
<1> QED
  BY <1>5 DEF SqWorst

(* Taking items out with their fingerprints. *)
LEMMA SqTakeOut ==
  ASSUME NEW q, SqQueueOK(q), NEW out, out \subseteq q.items
  PROVE  SqQueueOK([items |-> q.items \ out, prints |-> q.prints \ {SqContent[s] : s \in out}])
<1>1. q.items \ out \subseteq SqSuggestions
  BY DEF SqQueueOK
<1>2. q.prints \ {SqContent[s] : s \in out} = {SqContent[s] : s \in q.items \ out}
  BY DEF SqQueueOK
<1>3. Cardinality(q.items \ out) <= Cardinality(q.items)
  <2>1. IsFiniteSet(q.items)
    BY SqFinite DEF SqQueueOK
  <2> QED
    BY <2>1, FS_Subset
<1>4. Cardinality(q.items \ out) <= SqRoom
  <2>1. Cardinality(q.items) \in Nat /\ Cardinality(q.items \ out) \in Nat /\ SqRoom \in Nat
    BY <1>1, SqFinite, SqAssumption DEF SqQueueOK, SqRoom
  <2> QED
    BY <1>3, <2>1 DEF SqQueueOK
<1> QED
  BY <1>1, <1>2, <1>4 DEF SqQueueOK

(* One item out. *)
LEMMA SqRemoveOK ==
  ASSUME NEW q, SqQueueOK(q), NEW s \in q.items
  PROVE  /\ SqQueueOK(SqRemove(q, s))
         /\ Cardinality(SqRemove(q, s).items) = Cardinality(q.items) - 1
<1>1. {SqContent[t] : t \in {s}} = {SqContent[s]}
  OBVIOUS
<1>2. SqQueueOK([items |-> q.items \ {s}, prints |-> q.prints \ {SqContent[t] : t \in {s}}])
  BY SqTakeOut
<1>3. SqQueueOK(SqRemove(q, s))
  BY <1>1, <1>2 DEF SqRemove
<1>4. Cardinality(q.items \ {s}) = Cardinality(q.items) - 1
  <2>1. IsFiniteSet(q.items)
    BY SqFinite DEF SqQueueOK
  <2> QED
    BY <2>1, FS_RemoveElement
<1> QED
  BY <1>3, <1>4 DEF SqRemove

(* One item with a new fingerprint in, where there is room. *)
LEMMA SqInsertOK ==
  ASSUME NEW q, SqQueueOK(q), NEW s \in SqSuggestions, SqContent[s] \notin q.prints,
         Cardinality(q.items) + 1 <= SqRoom
  PROVE  SqQueueOK(SqInsert(q, s))
<1>1. s \notin q.items
  BY DEF SqQueueOK
<1>2. Cardinality(q.items \cup {s}) = Cardinality(q.items) + 1
  <2>1. IsFiniteSet(q.items)
    BY SqFinite DEF SqQueueOK
  <2> QED
    BY <1>1, <2>1, FS_AddElement
<1>3. q.prints \cup {SqContent[s]} = {SqContent[t] : t \in q.items \cup {s}}
  BY DEF SqQueueOK
<1>4. \A t, u \in q.items \cup {s} : SqContent[t] = SqContent[u] => t = u
  BY DEF SqQueueOK
<1>5. q.items \cup {s} \subseteq SqSuggestions
  BY DEF SqQueueOK
<1> DEFINE r == SqInsert(q, s)
<1>6. r.items = q.items \cup {s} /\ r.prints = q.prints \cup {SqContent[s]}
  BY DEF SqInsert
<1> HIDE DEF r
<1>7. SqQueueOK(r)
  BY <1>2, <1>3, <1>4, <1>5, <1>6 DEF SqQueueOK
<1> QED
  BY <1>7 DEF r

(* push keeps fingerprints and items together, whichever branch it takes. *)
LEMMA SqPushOK ==
  ASSUME NEW q, SqQueueOK(q), NEW s \in SqSuggestions
  PROVE  SqQueueOK(SqPush(q, s))
<1>1. Cardinality(q.items) \in Nat /\ SqMaxSize \in Nat /\ q.items \subseteq SqSuggestions
  BY SqFinite, SqAssumption DEF SqQueueOK
<1>2. CASE SqContent[s] \in q.prints
  BY <1>2 DEF SqPush
<1>3. CASE SqContent[s] \notin q.prints /\ Cardinality(q.items) >= SqMaxSize /\ q.items # {}
  <2> DEFINE w == SqWorst(q.items)
             r == SqRemove(q, w)
  <2>1. w \in q.items
    BY <1>1, <1>3, SqWorstThere
  <2> HIDE DEF w
  <2>2. SqQueueOK(r) /\ Cardinality(r.items) = Cardinality(q.items) - 1
    BY <2>1, SqRemoveOK
  <2>3. r.prints = q.prints \ {SqContent[w]}
    BY DEF SqRemove
  <2> HIDE DEF r
  <2>4. Cardinality(r.items) + 1 <= SqRoom
    BY <1>1, <2>2 DEF SqQueueOK
  <2>5. SqQueueOK(SqInsert(r, s))
    BY <1>3, <2>2, <2>3, <2>4, SqInsertOK
  <2>6. SqPush(q, s) = IF s < w THEN SqInsert(r, s) ELSE q
    BY <1>3 DEF SqPush, w, r
  <2> QED
    BY <2>5, <2>6
<1>4. CASE SqContent[s] \notin q.prints /\ ~(Cardinality(q.items) >= SqMaxSize /\ q.items # {})
  <2>1. SqPush(q, s) = SqInsert(q, s)
    BY <1>4 DEF SqPush
  <2>2. Cardinality(q.items) + 1 <= SqRoom
    <3>1. CASE q.items = {}
      <4>1. Cardinality(q.items) = 0
        BY <3>1, FS_EmptySet
      <4> QED
        BY <1>1, <4>1 DEF SqRoom
    <3>2. CASE q.items # {}
      BY <1>1, <1>4, <3>2 DEF SqRoom
    <3> QED
      BY <3>1, <3>2
  <2> QED
    BY <1>4, <2>1, <2>2, SqInsertOK
<1> QED
  BY <1>2, <1>3, <1>4

-----------------------------------------------------------------------------
(* The function that SqPushAll defines on the prefixes up to n. *)
SqPushedStep(f, q, seq, i) == IF i = 0 THEN q ELSE SqPush(f[i - 1], seq[i])
SqPushedBy(f, q, seq, n) == f = [i \in 0..n |-> SqPushedStep(f, q, seq, i)]

(* The recursion has a solution for every prefix. *)
LEMMA SqPushedExists ==
  ASSUME NEW q, NEW seq, NEW len \in Nat
  PROVE  \E f : SqPushedBy(f, q, seq, len)
<1> DEFINE G == {n \in Nat : \E f : SqPushedBy(f, q, seq, n)}
<1>1. 0 \in G
  <2>1. SqPushedBy([i \in 0..0 |-> q], q, seq, 0)
    BY DEF SqPushedBy, SqPushedStep
  <2> QED
    BY <2>1
<1>2. ASSUME NEW n \in 0..(len - 1), n \in G PROVE n + 1 \in G
  <2>1. PICK f : SqPushedBy(f, q, seq, n)
    BY <1>2
  <2> DEFINE g == [i \in 0..(n + 1) |-> IF i = n + 1 THEN SqPushedStep(f, q, seq, i) ELSE f[i]]
  <2>2. \A i \in 0..n : f[i] = SqPushedStep(f, q, seq, i)
    BY <2>1, Zenon DEF SqPushedBy
  <2>3. ASSUME NEW i \in 0..(n + 1) PROVE g[i] = SqPushedStep(g, q, seq, i)
    <3>1. i # 0 => i - 1 \in 0..n /\ g[i - 1] = f[i - 1]
      OBVIOUS
    <3>2. g[i] = SqPushedStep(f, q, seq, i)
      BY <2>2
    <3> HIDE DEF g
    <3> QED
      BY <3>1, <3>2 DEF SqPushedStep
  <2>4. SqPushedBy(g, q, seq, n + 1)
    <3>1. g = [i \in 0..(n + 1) |-> g[i]]
      OBVIOUS
    <3> HIDE DEF g
    <3> QED
      BY <2>3, <3>1, Zenon DEF SqPushedBy
  <2>5. n + 1 \in Nat
    OBVIOUS
  <2> QED
    BY <2>4, <2>5
<1>3. \A n \in 0..(len - 1) : n \in G => n + 1 \in G
  BY <1>2
<1> HIDE DEF G
<1>4. 0..len \subseteq G
  BY <1>1, <1>3, UpTo
<1>5. len \in G
  BY <1>4
<1> QED
  BY <1>5 DEF G

(* Pushing one suggestion after the other keeps the queue in order. *)
LEMMA SqPushAllOK ==
  ASSUME NEW q, SqQueueOK(q), NEW seq \in Seq(SqSuggestions)
  PROVE  SqQueueOK(SqPushAll(q, seq))
<1> DEFINE f == CHOOSE g : SqPushedBy(g, q, seq, Len(seq))
<1>1. Len(seq) \in Nat
  OBVIOUS
<1>2. SqPushedBy(f, q, seq, Len(seq))
  BY <1>1, SqPushedExists, Zenon
<1>3. SqPushAll(q, seq) = f[Len(seq)]
  BY Zenon DEF SqPushAll, SqPushedBy, SqPushedStep
<1> HIDE DEF f
<1>4. \A i \in 0..Len(seq) : f[i] = SqPushedStep(f, q, seq, i)
  BY <1>2, Zenon DEF SqPushedBy
<1> DEFINE G == {i \in 0..Len(seq) : SqQueueOK(f[i])}
<1>5. 0 \in G
  <2>1. f[0] = q
    BY <1>1, <1>4 DEF SqPushedStep
  <2> QED
    BY <1>1, <2>1
<1>6. ASSUME NEW i \in 0..(Len(seq) - 1), i \in G PROVE i + 1 \in G
  <2>1. i + 1 \in 1..Len(seq) /\ i + 1 \in 0..Len(seq) /\ (i + 1) - 1 = i
    BY <1>1
  <2>2. f[i + 1] = SqPush(f[i], seq[i + 1])
    BY <1>4, <2>1 DEF SqPushedStep
  <2>3. seq[i + 1] \in SqSuggestions /\ SqQueueOK(f[i])
    BY <1>6, <2>1
  <2>4. SqQueueOK(f[i + 1])
    BY <2>2, <2>3, SqPushOK
  <2> QED
    BY <2>1, <2>4
<1>7. 0..Len(seq) \subseteq G
  <2> HIDE DEF G
  <2> QED
    BY <1>1, <1>5, <1>6, UpTo
<1>8. SqQueueOK(f[Len(seq)])
  BY <1>1, <1>7
<1> QED
  BY <1>3, <1>8
-----------------------------------------------------------------------------
(* What surrounds the queue. *)
SqListsOK ==
  /\ sqDeferred \in Seq(SqSuggestions) /\ Len(sqDeferred) <= SqMaxDeferred
  /\ sqHand \subseteq SqSuggestions /\ sqDue \in Seq(SqSuggestions)
  /\ sqRow \in [SqSuggestions -> {"none", "pending", "deferred"}]

SqInv == SqQueueOK(SqQueue) /\ SqListsOK

(* The queue of the next state is the one an operation returned. *)
LEMMA SqBecomesOK ==
  ASSUME NEW q, SqQueueOK(q), SqBecomes(q)
  PROVE  SqQueueOK(SqQueue)'
<1>1. sqItems' = q.items /\ sqPrints' = q.prints
  BY DEF SqBecomes
<1> QED
  BY <1>1 DEF SqQueueOK, SqQueue, SqRoom

(* The order of creation is a sequence of suggestions. *)
LEMMA SqNewestSeq == SqNewest \in Seq(SqSuggestions)
<1>1. Cardinality(SqSuggestions) \in Nat
  BY SqFinite
<1>2. SqNewest \in [1..Cardinality(SqSuggestions) -> SqSuggestions]
  BY SqAssumption DEF SetToSeqs
<1> QED
  BY <1>1, <1>2

(* The rows that a restart reads. *)
LEMMA SqRowsTyped ==
  ASSUME NEW state
  PROVE  SqRowsIn(state) \in Seq(SqSuggestions)
<1> DEFINE rows == Keeping(SqNewest, {s \in SqSuggestions : sqRow[s] = state})
           n == Min({SqLimit, Len(rows)})
<1>1. rows \in Seq(SqSuggestions)
  BY SqNewestSeq, ToSetKeeping
<1>2. SqRowsIn(state) = SubSeq(rows, 1, n)
  BY DEF SqRowsIn
<1> HIDE DEF rows
<1>3. n \in Nat /\ n <= Len(rows)
  BY <1>1, MinOfTwo, SqAssumption
<1> HIDE DEF n
<1>4. SubSeq(rows, 1, n) \in Seq(SqSuggestions)
  BY <1>1, <1>3, ToSetPrefix
<1> QED
  BY <1>2, <1>4

(* Pushes and removals. *)
LEMMA SqMovesKeepInv ==
  ASSUME SqInv, NEW s \in SqSuggestions,
         SqReceive(s) \/ SqExtract(s) \/ SqAnswer(s) \/ SqDeferTakes(s)
  PROVE  SqInv'
<1>1. SqQueueOK(SqQueue) /\ SqQueue.items = sqItems
  BY DEF SqInv, SqQueue
<1>2. SqListsOK'
  BY DEF SqInv, SqListsOK, SqReceive, SqExtract, SqAnswer, SqDeferTakes
<1>3. CASE SqReceive(s)
  <2>1. PICK expired \in SUBSET sqItems : SqBecomes(SqPush(SqRemoveExpired(SqQueue, expired), s))
    BY <1>3 DEF SqReceive
  <2> DEFINE r == SqRemoveExpired(SqQueue, expired)
  <2>2. SqQueueOK(r)
    BY <1>1, <2>1, SqTakeOut DEF SqRemoveExpired
  <2> HIDE DEF r
  <2>3. SqQueueOK(SqPush(r, s))
    BY <2>2, SqPushOK
  <2>4. SqBecomes(SqPush(r, s))
    BY <2>1 DEF r
  <2> QED
    BY <1>2, <2>3, <2>4, SqBecomesOK DEF SqInv
<1>4. CASE SqExtract(s)
  <2>1. SqQueueOK(SqPush(SqQueue, s)) /\ SqBecomes(SqPush(SqQueue, s))
    BY <1>1, <1>4, SqPushOK DEF SqExtract
  <2> QED
    BY <1>2, <2>1, SqBecomesOK DEF SqInv
<1>5. CASE SqAnswer(s) \/ SqDeferTakes(s)
  <2>1. s \in SqQueue.items /\ SqBecomes(SqRemove(SqQueue, s))
    BY <1>1, <1>5 DEF SqAnswer, SqDeferTakes, SqRemoveById
  <2>2. SqQueueOK(SqRemove(SqQueue, s))
    BY <1>1, <2>1, SqRemoveOK
  <2> QED
    BY <1>2, <2>1, <2>2, SqBecomesOK DEF SqInv
<1> QED
  BY <1>3, <1>4, <1>5

(* The deferral list takes one in, dropping its oldest when it is full. *)
LEMMA SqDeferKeepsInv ==
  ASSUME SqInv, NEW s \in SqSuggestions, SqDeferAdds(s)
  PROVE  SqInv'
<1>1. /\ sqDeferred \in Seq(SqSuggestions) /\ Len(sqDeferred) <= SqMaxDeferred
      /\ SqMaxDeferred \in Nat \ {0}
  BY SqAssumption DEF SqInv, SqListsOK
<1> DEFINE t == IF Len(sqDeferred) >= SqMaxDeferred THEN Tail(sqDeferred) ELSE sqDeferred
<1>2. t \in Seq(SqSuggestions) /\ Len(t) + 1 <= SqMaxDeferred
  <2>1. CASE Len(sqDeferred) >= SqMaxDeferred
    <3>1. sqDeferred # <<>>
      BY <1>1, <2>1
    <3>2. Tail(sqDeferred) \in Seq(SqSuggestions) /\ Len(Tail(sqDeferred)) = Len(sqDeferred) - 1
      BY <1>1, <3>1
    <3> QED
      BY <1>1, <2>1, <3>2
  <2>2. CASE ~(Len(sqDeferred) >= SqMaxDeferred)
    BY <1>1, <2>2
  <2> QED
    BY <2>1, <2>2
<1>3. sqDeferred' = Append(t, s)
  BY DEF SqDeferAdds
<1> HIDE DEF t
<1>4. sqDeferred' \in Seq(SqSuggestions) /\ Len(sqDeferred') <= SqMaxDeferred
  BY <1>2, <1>3, AppendElements
<1>5. SqListsOK'
  BY <1>4 DEF SqInv, SqListsOK, SqDeferAdds
<1> QED
  BY <1>5 DEF SqInv, SqDeferAdds, SqQueueOK, SqQueue, SqRoom

(* The maintenance loop. *)
LEMMA SqLoopKeepsInv ==
  ASSUME SqInv, (\E due \in SUBSET ToSet(sqDeferred) : SqCollect(due)) \/ SqResurface
  PROVE  SqInv'
<1>1. CASE \E due \in SUBSET ToSet(sqDeferred) : SqCollect(due)
  <2>1. PICK due : SqCollect(due)
    BY <1>1
  <2>2. sqDeferred \in Seq(SqSuggestions)
    BY DEF SqInv, SqListsOK
  <2>3. /\ Keeping(sqDeferred, due) \in Seq(SqSuggestions)
        /\ Keeping(sqDeferred, SqSuggestions \ due) \in Seq(SqSuggestions)
        /\ Len(Keeping(sqDeferred, SqSuggestions \ due)) <= Len(sqDeferred)
    BY <2>2, ToSetKeeping
  <2>4. Len(Keeping(sqDeferred, SqSuggestions \ due)) <= SqMaxDeferred
    <3>1. Len(Keeping(sqDeferred, SqSuggestions \ due)) \in Nat /\ Len(sqDeferred) \in Nat
      BY <2>2, <2>3
    <3> QED
      BY <2>3, <3>1, SqAssumption DEF SqInv, SqListsOK
  <2>5. SqListsOK'
    BY <2>1, <2>3, <2>4 DEF SqCollect, SqInv, SqListsOK
  <2> QED
    BY <2>1, <2>5 DEF SqInv, SqCollect, SqQueueOK, SqQueue, SqRoom
<1>2. CASE SqResurface
  <2>1. SqQueueOK(SqPushAll(SqQueue, sqDue))
    BY SqPushAllOK DEF SqInv, SqListsOK
  <2>2. SqQueueOK(SqQueue)'
    BY <1>2, <2>1, SqBecomesOK DEF SqResurface
  <2>3. SqListsOK'
    BY <1>2 DEF SqResurface, SqInv, SqListsOK
  <2> QED
    BY <2>2, <2>3 DEF SqInv
<1> QED
  BY <1>1, <1>2

(* Saving writes rows only. *)
LEMMA SqSaveKeepsInv ==
  ASSUME SqInv, SqSaveQueue \/ SqSaveDeferred
  PROVE  SqInv'
<1>1. sqRow' \in [SqSuggestions -> {"none", "pending", "deferred"}]
  BY DEF SqInv, SqListsOK, SqSaveQueue, SqSaveDeferred
<1>2. UNCHANGED <<sqItems, sqPrints, sqDeferred, sqHand, sqDue>>
  BY DEF SqSaveQueue, SqSaveDeferred
<1> QED
  BY <1>1, <1>2 DEF SqInv, SqListsOK, SqQueueOK, SqQueue, SqRoom

(* A restart builds queue and list from the rows. *)
LEMMA SqRestartKeepsInv ==
  ASSUME SqInv, NEW due, SqRestart(due)
  PROVE  SqInv'
<1> DEFINE pend  == SqRowsIn("pending")
           def   == SqRowsIn("deferred")
           later == Keeping(def, SqSuggestions \ due)
           now   == Keeping(def, due)
           q0    == [items |-> {}, prints |-> {}]
           n     == Min({Len(later), SqMaxDeferred})
<1>1. /\ SqBecomes(SqPushAll(q0, pend \o now))
      /\ sqDeferred' = SubSeq(later, 1, n)
      /\ sqHand' = {} /\ sqDue' = <<>> /\ sqRow' = sqRow
  BY DEF SqRestart
<1>2. pend \in Seq(SqSuggestions) /\ def \in Seq(SqSuggestions)
  BY SqRowsTyped
<1> HIDE DEF pend, def
<1>3. later \in Seq(SqSuggestions) /\ now \in Seq(SqSuggestions)
  BY <1>2, ToSetKeeping
<1> HIDE DEF later, now
<1>4. SqQueueOK(q0)
  <2>1. Cardinality({}) = 0
    BY FS_EmptySet
  <2> QED
    BY <2>1, SqAssumption DEF SqQueueOK, SqRoom
<1> HIDE DEF q0
<1>5. pend \o now \in Seq(SqSuggestions)
  BY <1>2, <1>3
<1>6. SqQueueOK(SqPushAll(q0, pend \o now))
  BY <1>4, <1>5, SqPushAllOK
<1>7. SqQueueOK(SqQueue)'
  BY <1>1, <1>6, SqBecomesOK
<1>8. n \in Nat /\ n <= Len(later) /\ n <= SqMaxDeferred
  BY <1>3, MinOfTwo, SqAssumption
<1> HIDE DEF n
<1>9. SubSeq(later, 1, n) \in Seq(SqSuggestions) /\ Len(SubSeq(later, 1, n)) = n
  BY <1>3, <1>8
<1>10. SqListsOK'
  BY <1>1, <1>8, <1>9 DEF SqInv, SqListsOK
<1> QED
  BY <1>7, <1>10 DEF SqInv

(* Every step keeps the queue and the lists in order. *)
LEMMA SqNextInv == SqInv /\ [SqNext]_sqVars => SqInv'
<1> SUFFICES ASSUME SqInv, [SqNext]_sqVars PROVE SqInv'
  OBVIOUS
<1>1. CASE UNCHANGED sqVars
  BY <1>1 DEF sqVars, SqInv, SqListsOK, SqQueueOK, SqQueue, SqRoom
<1> QED
  BY <1>1, SqMovesKeepInv, SqDeferKeepsInv, SqLoopKeepsInv, SqSaveKeepsInv, SqRestartKeepsInv
     DEF SqNext

(* An empty queue without rows is in order. *)
LEMMA SqInitInv == SqInit => SqInv
<1>1. Cardinality({}) = 0
  BY FS_EmptySet
<1> QED
  BY <1>1, SqAssumption DEF SqInit, SqInv, SqListsOK, SqQueueOK, SqQueue, SqRoom

(* The fingerprints are exactly those of the queued items, no two items    *)
(* share one and the queue keeps to its size, through every eviction,      *)
(* expiry, answer, deferral and restore.                                   *)
THEOREM PrintsExact == SqSpec => []SqPrintsExact
<1>1. SqInv => SqPrintsExact
  BY DEF SqInv, SqQueueOK, SqQueue, SqRoom, SqPrintsExact
<1> QED
  BY <1>1, SqInitInv, SqNextInv, PTL DEF SqSpec

(* Queue, deferral list and rows are well typed, and the list keeps to its *)
(* size.                                                                   *)
THEOREM SqTypeCorrect == SqSpec => []SqTypeOK
<1>1. SqInv => SqTypeOK
  BY DEF SqInv, SqListsOK, SqQueueOK, SqQueue, SqTypeOK
<1> QED
  BY <1>1, SqInitInv, SqNextInv, PTL DEF SqSpec

-----------------------------------------------------------------------------
(***************************************************************************)
(* Feedback and its retries.  Again the queue's operations are functions   *)
(* of a queue q; here what matters is which feedback q holds, and that it  *)
(* holds none twice.                                                       *)
(***************************************************************************)
FbEntries(n) == [fb : 1..n, attempts : 0..FbMaxAttempts]
FbHeld(q) == {q[i].fb : i \in 1..Len(q)}
FbSingle(q) == \A i, j \in 1..Len(q) : q[i].fb = q[j].fb => i = j

(* Keeping some entries holds no more, none twice, ... *)
LEMMA FbKept ==
  ASSUME NEW D, NEW q \in Seq(D), FbSingle(q), NEW S
  PROVE  /\ Keeping(q, S) \in Seq(D) /\ Len(Keeping(q, S)) <= Len(q)
         /\ FbSingle(Keeping(q, S))
         /\ \A k \in FbHeld(Keeping(q, S)) : \E i \in 1..Len(q) : q[i].fb = k /\ q[i] \in S
<1> DEFINE t == Keeping(q, S)
<1>1. KeptOf(t, D, q, S, Len(q))
  BY KeepingElements
<1> HIDE DEF t
<1>2. t \in Seq(D) /\ Len(t) <= Len(q)
  BY <1>1 DEF KeptOf
<1>3. \A k \in 1..Len(t) : t[k] \in S /\ \E j \in 1..Len(q) : t[k] = q[j]
  BY <1>1, Zenon DEF KeptOf
<1>4. \A k, l \in 1..Len(t) : t[k] = t[l] => k = l
  <2>1. \A i, j \in 1..Len(q) : q[i] = q[j] => i = j
    BY Zenon DEF FbSingle
  <2> QED
    BY <1>1, <2>1, Zenon DEF KeptOf
<1>5. FbSingle(t)
  <2> SUFFICES ASSUME NEW k \in 1..Len(t), NEW l \in 1..Len(t), t[k].fb = t[l].fb
               PROVE  k = l
    BY DEF FbSingle
  <2>1. PICK i \in 1..Len(q) : t[k] = q[i]
    BY <1>3, Zenon
  <2>2. PICK j \in 1..Len(q) : t[l] = q[j]
    BY <1>3, Zenon
  <2>3. q[i].fb = q[j].fb
    BY <2>1, <2>2, Zenon
  <2>4. i = j
    BY <2>3, Zenon DEF FbSingle
  <2> QED
    BY <1>4, <2>1, <2>2, <2>4, Zenon
<1>6. ASSUME NEW k \in FbHeld(t) PROVE \E i \in 1..Len(q) : q[i].fb = k /\ q[i] \in S
  <2>1. PICK l \in 1..Len(t) : t[l].fb = k
    BY <1>6, Zenon DEF FbHeld
  <2>2. PICK i \in 1..Len(q) : t[l] = q[i]
    BY <1>3, Zenon
  <2>3. t[l] \in S
    BY <1>3, Zenon
  <2> QED
    BY <2>1, <2>2, <2>3, Zenon
<1> QED
  BY <1>2, <1>5, <1>6 DEF t

(* ... and what is kept apart is apart. *)
LEMMA FbApart ==
  ASSUME NEW D, NEW q \in Seq(D), FbSingle(q), NEW S, NEW T, S \cap T = {}
  PROVE  /\ FbHeld(Keeping(q, S)) \subseteq FbHeld(q)
         /\ FbHeld(Keeping(q, S)) \cap FbHeld(Keeping(q, T)) = {}
<1>1. \A k \in FbHeld(Keeping(q, S)) : \E i \in 1..Len(q) : q[i].fb = k /\ q[i] \in S
  BY FbKept, Zenon
<1>2. \A k \in FbHeld(Keeping(q, T)) : \E i \in 1..Len(q) : q[i].fb = k /\ q[i] \in T
  BY FbKept, Zenon
<1>3. FbHeld(Keeping(q, S)) \subseteq FbHeld(q)
  <2> SUFFICES ASSUME NEW k \in FbHeld(Keeping(q, S)) PROVE k \in FbHeld(q)
    BY Zenon
  <2>1. PICK i \in 1..Len(q) : q[i].fb = k
    BY <1>1, Zenon
  <2> QED
    BY <2>1, Zenon DEF FbHeld
<1>4. ASSUME NEW k \in FbHeld(Keeping(q, S)), k \in FbHeld(Keeping(q, T)) PROVE FALSE
  <2>1. PICK i \in 1..Len(q) : q[i].fb = k /\ q[i] \in S
    BY <1>1, Zenon
  <2>2. PICK j \in 1..Len(q) : q[j].fb = k /\ q[j] \in T
    BY <1>2, <1>4, Zenon
  <2>3. i = j
    BY <2>1, <2>2, Zenon DEF FbSingle
  <2> QED
    BY <2>1, <2>2, <2>3, Zenon
<1> QED
  BY <1>3, <1>4, Zenon

(* The first entry taken off. *)
LEMMA FbTail ==
  ASSUME NEW D, NEW q \in Seq(D), FbSingle(q), q # <<>>
  PROVE  /\ Tail(q) \in Seq(D) /\ Len(Tail(q)) = Len(q) - 1 /\ FbSingle(Tail(q))
         /\ Head(q) \in D /\ Head(q).fb \in FbHeld(q)
         /\ FbHeld(Tail(q)) \subseteq FbHeld(q) \ {Head(q).fb}
<1> DEFINE t == Tail(q)
<1>1. /\ t \in Seq(D) /\ Len(t) = Len(q) - 1 /\ Head(q) = q[1] /\ Head(q) \in D
      /\ Len(q) \in Nat /\ 1 \in 1..Len(q)
      /\ \A i \in 1..Len(t) : t[i] = q[i + 1]
  OBVIOUS
<1> HIDE DEF t
<1>2. \A i \in 1..Len(t) : i + 1 \in 1..Len(q) /\ i + 1 # 1
  BY <1>1
<1>3. FbSingle(t)
  <2> SUFFICES ASSUME NEW i \in 1..Len(t), NEW j \in 1..Len(t), t[i].fb = t[j].fb
               PROVE  i = j
    BY DEF FbSingle
  <2>1. q[i + 1].fb = q[j + 1].fb
    BY <1>1, Zenon
  <2>2. i + 1 = j + 1
    BY <1>2, <2>1, Zenon DEF FbSingle
  <2> QED
    BY <1>1, <2>2
<1>4. Head(q).fb \in FbHeld(q)
  BY <1>1, Zenon DEF FbHeld
<1>5. ASSUME NEW k \in FbHeld(t) PROVE k \in FbHeld(q) \ {Head(q).fb}
  <2>1. PICK i \in 1..Len(t) : t[i].fb = k
    BY <1>5, Zenon DEF FbHeld
  <2>2. q[i + 1].fb = k
    BY <1>1, <2>1, Zenon
  <2>3. k \in FbHeld(q)
    BY <1>2, <2>2, Zenon DEF FbHeld
  <2>4. k # q[1].fb
    BY <1>1, <1>2, <2>2, Zenon DEF FbSingle
  <2> QED
    BY <1>1, <2>3, <2>4, Zenon
<1> QED
  BY <1>1, <1>3, <1>4, <1>5 DEF t

(* One more entry, for feedback that the queue does not hold. *)
LEMMA FbAppended ==
  ASSUME NEW D, NEW q \in Seq(D), FbSingle(q), NEW e \in D, e.fb \notin FbHeld(q)
  PROVE  /\ Append(q, e) \in Seq(D) /\ Len(Append(q, e)) = Len(q) + 1
         /\ FbSingle(Append(q, e)) /\ FbHeld(Append(q, e)) = FbHeld(q) \cup {e.fb}
<1> DEFINE t == Append(q, e)
<1>1. /\ t \in Seq(D) /\ Len(t) = Len(q) + 1 /\ Len(q) \in Nat
      /\ \A k \in 1..Len(q) : t[k] = q[k]
      /\ t[Len(q) + 1] = e
  BY AppendElements
<1> HIDE DEF t
<1>2. \A k \in 1..Len(t) : k \in 1..Len(q) \/ k = Len(q) + 1
  BY <1>1
<1>3. Len(q) + 1 \in 1..Len(t) /\ \A k \in 1..Len(q) : k \in 1..Len(t)
  BY <1>1
<1>4. \A k \in 1..Len(q) : q[k].fb # e.fb
  BY Zenon DEF FbHeld
<1>5. FbSingle(t)
  BY <1>1, <1>2, <1>4, Zenon DEF FbSingle
<1>6. \A k : k \in FbHeld(t) <=> k \in FbHeld(q) \/ k = e.fb
  <2> SUFFICES ASSUME NEW k PROVE k \in FbHeld(t) <=> k \in FbHeld(q) \/ k = e.fb
    OBVIOUS
  <2>1. ASSUME k \in FbHeld(t) PROVE k \in FbHeld(q) \/ k = e.fb
    BY <1>1, <1>2, <2>1, Zenon DEF FbHeld
  <2>2. ASSUME k \in FbHeld(q) PROVE k \in FbHeld(t)
    BY <1>1, <1>3, <2>2, Zenon DEF FbHeld
  <2>3. e.fb \in FbHeld(t)
    BY <1>1, <1>3, Zenon DEF FbHeld
  <2> QED
    BY <2>1, <2>2, <2>3, Zenon
<1>7. FbHeld(t) = FbHeld(q) \cup {e.fb}
  BY <1>6, Zenon
<1> QED
  BY <1>1, <1>5, <1>7 DEF t

(* A queue of bounded size that holds no feedback twice. *)
FbQueueOK(q, n) == q \in Seq(FbEntries(n)) /\ Len(q) <= FbMaxSize /\ FbSingle(q)

(* enqueue keeps it so, dropping the oldest where it must. *)
LEMMA FbPushOK ==
  ASSUME NEW n \in Nat, NEW q, FbQueueOK(q, n), NEW e \in FbEntries(n), e.fb \notin FbHeld(q)
  PROVE  FbQueueOK(FbPush(q, e), n) /\ FbHeld(FbPush(q, e)) \subseteq FbHeld(q) \cup {e.fb}
<1> DEFINE t == IF Len(q) >= FbMaxSize THEN Tail(q) ELSE q
<1>1. q \in Seq(FbEntries(n)) /\ Len(q) <= FbMaxSize /\ FbSingle(q)
      /\ FbMaxSize \in Nat \ {0} /\ Len(q) \in Nat
  BY FbAssumption DEF FbQueueOK
<1>2. /\ t \in Seq(FbEntries(n)) /\ FbSingle(t) /\ FbHeld(t) \subseteq FbHeld(q)
      /\ Len(t) + 1 <= FbMaxSize
  <2>1. CASE Len(q) >= FbMaxSize
    <3>1. q # <<>>
      BY <1>1, <2>1
    <3>2. /\ Tail(q) \in Seq(FbEntries(n)) /\ Len(Tail(q)) = Len(q) - 1 /\ FbSingle(Tail(q))
          /\ FbHeld(Tail(q)) \subseteq FbHeld(q) \ {Head(q).fb}
      BY <1>1, <3>1, FbTail
    <3>3. FbHeld(Tail(q)) \subseteq FbHeld(q)
      BY <3>2, Zenon
    <3>4. Len(Tail(q)) + 1 <= FbMaxSize
      BY <1>1, <3>2
    <3>5. t = Tail(q)
      BY <2>1
    <3> HIDE DEF t
    <3> QED
      BY <3>2, <3>3, <3>4, <3>5, Zenon
  <2>2. CASE ~(Len(q) >= FbMaxSize)
    <3>1. t = q /\ Len(q) + 1 <= FbMaxSize
      BY <1>1, <2>2
    <3> HIDE DEF t
    <3> QED
      BY <1>1, <3>1, Zenon
  <2> QED
    BY <2>1, <2>2
<1>3. FbPush(q, e) = Append(t, e)
  BY DEF FbPush
<1> HIDE DEF t
<1>4. e.fb \notin FbHeld(t)
  BY <1>2, Zenon
<1>5. /\ Append(t, e) \in Seq(FbEntries(n)) /\ Len(Append(t, e)) = Len(t) + 1
      /\ FbSingle(Append(t, e)) /\ FbHeld(Append(t, e)) = FbHeld(t) \cup {e.fb}
  BY <1>2, <1>4, FbAppended
<1>6. Len(Append(t, e)) <= FbMaxSize
  BY <1>2, <1>5
<1>7. FbHeld(Append(t, e)) \subseteq FbHeld(q) \cup {e.fb}
  BY <1>2, <1>5, Zenon
<1> QED
  BY <1>3, <1>5, <1>6, <1>7, Zenon DEF FbQueueOK

(* The function that FbEnqueueAll defines on the prefixes up to n. *)
FbQueuedStep(f, seq, i) == IF i = 0 THEN <<>> ELSE FbPush(f[i - 1], FbEntry(seq[i], 0))
FbQueuedBy(f, seq, n) == f = [i \in 0..n |-> FbQueuedStep(f, seq, i)]

(* The recursion has a solution for every prefix. *)
LEMMA FbQueuedExists ==
  ASSUME NEW seq, NEW len \in Nat
  PROVE  \E f : FbQueuedBy(f, seq, len)
<1> DEFINE G == {n \in Nat : \E f : FbQueuedBy(f, seq, n)}
<1>1. 0 \in G
  <2>1. FbQueuedBy([i \in 0..0 |-> <<>>], seq, 0)
    BY DEF FbQueuedBy, FbQueuedStep
  <2> QED
    BY <2>1
<1>2. ASSUME NEW n \in 0..(len - 1), n \in G PROVE n + 1 \in G
  <2>1. PICK f : FbQueuedBy(f, seq, n)
    BY <1>2
  <2> DEFINE g == [i \in 0..(n + 1) |-> IF i = n + 1 THEN FbQueuedStep(f, seq, i) ELSE f[i]]
  <2>2. \A i \in 0..n : f[i] = FbQueuedStep(f, seq, i)
    BY <2>1, Zenon DEF FbQueuedBy
  <2>3. ASSUME NEW i \in 0..(n + 1) PROVE g[i] = FbQueuedStep(g, seq, i)
    <3>1. i # 0 => i - 1 \in 0..n /\ g[i - 1] = f[i - 1]
      OBVIOUS
    <3>2. g[i] = FbQueuedStep(f, seq, i)
      BY <2>2
    <3> HIDE DEF g
    <3> QED
      BY <3>1, <3>2 DEF FbQueuedStep
  <2>4. FbQueuedBy(g, seq, n + 1)
    <3>1. g = [i \in 0..(n + 1) |-> g[i]]
      OBVIOUS
    <3> HIDE DEF g
    <3> QED
      BY <2>3, <3>1, Zenon DEF FbQueuedBy
  <2>5. n + 1 \in Nat
    OBVIOUS
  <2> QED
    BY <2>4, <2>5
<1>3. \A n \in 0..(len - 1) : n \in G => n + 1 \in G
  BY <1>2
<1> HIDE DEF G
<1>4. 0..len \subseteq G
  BY <1>1, <1>3, UpTo
<1>5. len \in G
  BY <1>4
<1> QED
  BY <1>5 DEF G

(* The queue after the first i rows, which are for different feedback. *)
LEMMA FbEnqueueAllOK ==
  ASSUME NEW n \in Nat, NEW seq \in Seq(1..n),
         \A i, j \in 1..Len(seq) : seq[i] = seq[j] => i = j
  PROVE  FbQueueOK(FbEnqueueAll(seq), n)
<1> DEFINE f == CHOOSE g : FbQueuedBy(g, seq, Len(seq))
<1>1. Len(seq) \in Nat
  OBVIOUS
<1>2. FbQueuedBy(f, seq, Len(seq))
  BY <1>1, FbQueuedExists, Zenon
<1>3. FbEnqueueAll(seq) = f[Len(seq)]
  BY Zenon DEF FbEnqueueAll, FbQueuedBy, FbQueuedStep
<1> HIDE DEF f
<1>4. \A i \in 0..Len(seq) : f[i] = FbQueuedStep(f, seq, i)
  BY <1>2, Zenon DEF FbQueuedBy
<1> DEFINE H(i) == \A k \in FbHeld(f[i]) : \E j \in 1..i : seq[j] = k
           G == {i \in 0..Len(seq) : FbQueueOK(f[i], n) /\ H(i)}
<1>5. 0 \in G
  <2>1. f[0] = <<>>
    BY <1>1, <1>4 DEF FbQueuedStep
  <2>2. FbQueueOK(<<>>, n) /\ FbHeld(<<>>) = {}
    BY FbAssumption DEF FbQueueOK, FbHeld, FbSingle
  <2>3. 0 \in 0..Len(seq)
    BY <1>1
  <2> QED
    BY <2>1, <2>2, <2>3, Zenon
<1>6. ASSUME NEW i \in 0..(Len(seq) - 1), i \in G PROVE i + 1 \in G
  <2>1. i + 1 \in 1..Len(seq) /\ i + 1 \in 0..Len(seq) /\ (i + 1) - 1 = i /\ i + 1 \in 1..(i + 1)
    BY <1>1
  <2>2. \A j \in 1..i : j \in 1..Len(seq) /\ j # i + 1 /\ j \in 1..(i + 1)
    BY <1>1
  <2> DEFINE e == FbEntry(seq[i + 1], 0)
  <2>3. f[i + 1] = FbPush(f[i], e)
    BY <1>4, <2>1 DEF FbQueuedStep
  <2>4. e \in FbEntries(n) /\ e.fb = seq[i + 1]
    BY <2>1, FbAssumption DEF FbEntry, FbEntries
  <2> HIDE DEF e
  <2>5. FbQueueOK(f[i], n) /\ H(i)
    BY <1>6, Zenon
  <2>6. e.fb \notin FbHeld(f[i])
    <3> SUFFICES ASSUME e.fb \in FbHeld(f[i]) PROVE FALSE
      OBVIOUS
    <3>1. PICK j \in 1..i : seq[j] = e.fb
      BY <2>5, Zenon
    <3> QED
      BY <2>1, <2>2, <2>4, <3>1, Zenon
  <2>7. FbQueueOK(f[i + 1], n) /\ FbHeld(f[i + 1]) \subseteq FbHeld(f[i]) \cup {e.fb}
    BY <2>3, <2>4, <2>5, <2>6, FbPushOK
  <2>8. H(i + 1)
    <3> SUFFICES ASSUME NEW k \in FbHeld(f[i + 1]) PROVE \E j \in 1..(i + 1) : seq[j] = k
      BY Zenon
    <3>1. CASE k \in FbHeld(f[i])
      <4>1. PICK j \in 1..i : seq[j] = k
        BY <2>5, <3>1, Zenon
      <4> QED
        BY <2>2, <4>1, Zenon
    <3>2. CASE k = e.fb
      BY <2>1, <2>4, <3>2, Zenon
    <3> QED
      BY <2>7, <3>1, <3>2, Zenon
  <2> QED
    BY <2>1, <2>7, <2>8, Zenon
<1>7. 0..Len(seq) \subseteq G
  <2> HIDE DEF G
  <2> QED
    BY <1>1, <1>5, <1>6, UpTo
<1>8. FbQueueOK(f[Len(seq)], n)
  <2>1. Len(seq) \in 0..Len(seq)
    BY <1>1
  <2> QED
    BY <1>7, <2>1, Zenon
<1> QED
  BY <1>3, <1>8

-----------------------------------------------------------------------------
FbRowsOK ==
  /\ fbGiven \in Seq(FbSuggestions) /\ Len(fbGiven) <= FbMaxGiven
  /\ fbRow \in [FbSuggestions -> {0} \cup FbFeedback]
  /\ fbDone \subseteq FbFeedback /\ fbGaveUp \subseteq FbFeedback

FbEntriesOK ==
  /\ FbQueueOK(fbQueue, Len(fbGiven))
  /\ fbReady \in Seq(FbEntries(Len(fbGiven))) /\ FbSingle(fbReady)
  /\ fbCalls \subseteq FbFeedback /\ fbSpawned \subseteq FbFeedback

(* Command, task, queue and loop hold different feedback. *)
FbDisjoint ==
  /\ FbHeld(fbQueue) \cap FbHeld(fbReady) = {}
  /\ FbHeld(fbQueue) \cap (fbCalls \cup fbSpawned) = {}
  /\ FbHeld(fbReady) \cap (fbCalls \cup fbSpawned) = {}
  /\ fbCalls \cap fbSpawned = {}

(* An outcome is that of the first collected entry. *)
FbOutcomeOK ==
  /\ fbSent \in {"none", "ok", "err"}
  /\ fbSent # "none" => fbReady # <<>>
  /\ fbSent = "ok" => Head(fbReady).fb \in fbDone

FbInv == FbRowsOK /\ FbEntriesOK /\ FbDisjoint /\ FbOutcomeOK

(* Entries for earlier feedback stay entries, and hold only that. *)
LEMMA FbEntriesGrow ==
  ASSUME NEW n \in Nat, NEW q \in Seq(FbEntries(n))
  PROVE  q \in Seq(FbEntries(n + 1)) /\ FbHeld(q) \subseteq 1..n /\ n + 1 \notin FbHeld(q)
<1>1. FbEntries(n) \subseteq FbEntries(n + 1)
  BY DEF FbEntries
<1>2. q \in Seq(FbEntries(n + 1))
  BY <1>1
<1>3. \A i \in 1..Len(q) : q[i] \in FbEntries(n)
  OBVIOUS
<1>4. \A i \in 1..Len(q) : q[i].fb \in 1..n
  BY <1>3 DEF FbEntries
<1>5. FbHeld(q) \subseteq 1..n
  BY <1>4, Zenon DEF FbHeld
<1> QED
  BY <1>2, <1>5

(* The user gives feedback. *)
LEMMA FbSubmitKeepsInv ==
  ASSUME FbInv, NEW s \in FbSuggestions, FbSubmit(s)
  PROVE  FbInv'
<1> DEFINE n == Len(fbGiven)
<1>1. n \in Nat /\ Len(fbGiven') = n + 1 /\ fbGiven' \in Seq(FbSuggestions) /\ n + 1 <= FbMaxGiven
  BY FbAssumption DEF FbInv, FbRowsOK, FbSubmit
<1>2. /\ fbQueue' = fbQueue /\ fbReady' = fbReady /\ fbSent' = fbSent /\ fbSpawned' = fbSpawned
      /\ fbRow' = fbRow /\ fbDone' = fbDone /\ fbGaveUp' = fbGaveUp
      /\ fbCalls' = fbCalls \cup {n + 1}
  BY DEF FbSubmit, fbMemory, fbFate
<1>3. FbFeedback = 1..n /\ FbFeedback' = 1..(n + 1)
  BY <1>1 DEF FbFeedback
<1>4. /\ fbQueue \in Seq(FbEntries(n)) /\ Len(fbQueue) <= FbMaxSize /\ FbSingle(fbQueue)
      /\ fbReady \in Seq(FbEntries(n)) /\ FbSingle(fbReady)
      /\ fbCalls \subseteq 1..n /\ fbSpawned \subseteq 1..n
  BY <1>3 DEF FbInv, FbEntriesOK, FbQueueOK
<1>5. FbRowsOK'
  <2>1. 1..n \subseteq 1..(n + 1) /\ fbRow' \in [FbSuggestions -> {0} \cup FbFeedback']
    BY <1>1, <1>2, <1>3 DEF FbInv, FbRowsOK
  <2> QED
    BY <1>1, <1>2, <1>3, <2>1 DEF FbInv, FbRowsOK
<1>6. /\ fbQueue \in Seq(FbEntries(n + 1)) /\ n + 1 \notin FbHeld(fbQueue)
      /\ fbReady \in Seq(FbEntries(n + 1)) /\ n + 1 \notin FbHeld(fbReady)
      /\ n + 1 \notin fbSpawned
  BY <1>1, <1>4, FbEntriesGrow
<1>7. FbEntriesOK'
  <2>1. fbCalls' \subseteq 1..(n + 1) /\ fbSpawned' \subseteq 1..(n + 1)
    <3>1. 1..n \subseteq 1..(n + 1) /\ n + 1 \in 1..(n + 1)
      BY <1>1
    <3> QED
      BY <1>2, <1>4, <3>1, Zenon
  <2> QED
    BY <1>1, <1>2, <1>3, <1>4, <1>6, <2>1 DEF FbEntriesOK, FbQueueOK, FbSingle
<1>8. FbDisjoint'
  <2>1. FbHeld(fbQueue)' = FbHeld(fbQueue) /\ FbHeld(fbReady)' = FbHeld(fbReady)
    BY <1>2 DEF FbHeld
  <2> QED
    BY <1>2, <1>6, <2>1, Zenon DEF FbInv, FbDisjoint
<1>9. FbOutcomeOK'
  BY <1>2 DEF FbInv, FbOutcomeOK
<1> QED
  BY <1>5, <1>7, <1>8, <1>9 DEF FbInv

(* A command ends, or its task queues what it left. *)
LEMMA FbCommandsKeepInv ==
  ASSUME FbInv, NEW k \in FbFeedback, FbAccepted(k) \/ FbFailed(k) \/ FbEnqueue(k)
  PROVE  FbInv'
<1>1. fbGiven' = fbGiven /\ fbReady' = fbReady /\ fbSent' = fbSent /\ fbGaveUp' = fbGaveUp
      /\ fbDone \subseteq fbDone' /\ fbDone' \subseteq fbDone \cup {k}
  BY DEF FbAccepted, FbFailed, FbEnqueue, fbMemory, fbFate
<1> DEFINE n == Len(fbGiven)
<1>2. n \in Nat /\ FbFeedback = 1..n /\ FbFeedback' = 1..n
  BY <1>1 DEF FbInv, FbRowsOK, FbFeedback
<1>3. FbRowsOK'
  <2>1. k \in 1..n /\ fbGiven[k] \in FbSuggestions
    BY <1>2 DEF FbInv, FbRowsOK
  <2>2. fbRow' = fbRow \/ fbRow' = [fbRow EXCEPT ![fbGiven[k]] = k]
    BY DEF FbAccepted, FbFailed, FbEnqueue
  <2>3. fbRow' \in [FbSuggestions -> {0} \cup FbFeedback']
    BY <1>2, <2>1, <2>2 DEF FbInv, FbRowsOK
  <2>4. fbDone' \subseteq FbFeedback' /\ fbGaveUp' \subseteq FbFeedback'
    BY <1>1, <1>2, Zenon DEF FbInv, FbRowsOK
  <2> QED
    BY <1>1, <2>3, <2>4 DEF FbInv, FbRowsOK
<1>4. FbOutcomeOK'
  BY <1>1 DEF FbInv, FbOutcomeOK
<1>5. /\ FbQueueOK(fbQueue, n) /\ fbReady \in Seq(FbEntries(n)) /\ FbSingle(fbReady)
      /\ fbCalls \subseteq 1..n /\ fbSpawned \subseteq 1..n
  BY <1>2 DEF FbInv, FbEntriesOK
<1>6. FbHeld(fbReady)' = FbHeld(fbReady)
  BY <1>1 DEF FbHeld
<1>7. CASE FbAccepted(k) \/ FbFailed(k)
  <2>1. /\ fbQueue' = fbQueue /\ k \in fbCalls /\ fbCalls' = fbCalls \ {k}
        /\ fbSpawned' = fbSpawned \/ fbSpawned' = fbSpawned \cup {k}
    BY <1>7 DEF FbAccepted, FbFailed, fbMemory
  <2>2. FbHeld(fbQueue)' = FbHeld(fbQueue)
    BY <2>1 DEF FbHeld
  <2>3. fbCalls' \subseteq 1..n /\ fbSpawned' \subseteq 1..n
    BY <1>2, <1>5, <2>1, Zenon
  <2>4. FbEntriesOK'
    BY <1>1, <1>2, <1>5, <2>1, <2>3 DEF FbEntriesOK, FbQueueOK, FbSingle
  <2>5. FbDisjoint'
    BY <1>6, <2>1, <2>2, Zenon DEF FbInv, FbDisjoint
  <2> QED
    BY <1>3, <1>4, <2>4, <2>5 DEF FbInv
<1>8. CASE FbEnqueue(k)
  <2> DEFINE e == FbEntry(k, 0)
             q == FbPush(fbQueue, e)
  <2>1. /\ fbQueue' = q /\ k \in fbSpawned /\ fbSpawned' = fbSpawned \ {k} /\ fbCalls' = fbCalls
    BY <1>8 DEF FbEnqueue
  <2>2. e \in FbEntries(n) /\ e.fb = k
    BY <1>2, FbAssumption DEF FbEntry, FbEntries
  <2> HIDE DEF e
  <2>3. e.fb \notin FbHeld(fbQueue)
    BY <2>1, <2>2, Zenon DEF FbInv, FbDisjoint
  <2>4. FbQueueOK(q, n) /\ FbHeld(q) \subseteq FbHeld(fbQueue) \cup {e.fb}
    BY <1>2, <1>5, <2>2, <2>3, FbPushOK
  <2> HIDE DEF q
  <2>5. FbHeld(fbQueue)' = FbHeld(q) /\ FbQueueOK(fbQueue, Len(fbGiven))' = FbQueueOK(q, n)
    BY <1>1, <2>1 DEF FbHeld, FbQueueOK, FbSingle
  <2>6. fbCalls' \subseteq 1..n /\ fbSpawned' \subseteq 1..n
    BY <1>5, <2>1, Zenon
  <2>7. FbEntriesOK'
    BY <1>1, <1>2, <1>5, <2>4, <2>5, <2>6 DEF FbEntriesOK, FbSingle
  <2>8. FbDisjoint'
    BY <1>6, <2>1, <2>2, <2>4, <2>5, Zenon DEF FbInv, FbDisjoint
  <2> QED
    BY <1>3, <1>4, <2>7, <2>8 DEF FbInv
<1> QED
  BY <1>7, <1>8

(* The loop takes the entries that are due. *)
LEMMA FbCollectKeepsInv ==
  ASSUME FbInv, NEW due, FbCollect(due)
  PROVE  FbInv'
<1> DEFINE n == Len(fbGiven)
           S == FbOf(due)
           T == ToSet(fbQueue) \ FbOf(due)
           r == Keeping(fbQueue, S)
           q == Keeping(fbQueue, T)
<1>1. /\ fbReady = <<>> /\ fbReady' = r /\ fbQueue' = q
      /\ UNCHANGED <<fbGiven, fbCalls, fbSpawned, fbSent, fbRow, fbDone, fbGaveUp>>
  BY DEF FbCollect, fbFate
<1>2. S \cap T = {} /\ T \cap S = {}
  BY Zenon
<1> HIDE DEF S, T
<1>3. /\ fbQueue \in Seq(FbEntries(n)) /\ Len(fbQueue) <= FbMaxSize /\ FbSingle(fbQueue)
      /\ n \in Nat /\ FbMaxSize \in Nat
  BY FbAssumption DEF FbInv, FbEntriesOK, FbQueueOK, FbRowsOK
<1>4. /\ r \in Seq(FbEntries(n)) /\ FbSingle(r) /\ q \in Seq(FbEntries(n))
      /\ Len(q) <= Len(fbQueue) /\ FbSingle(q)
  BY <1>3, FbKept
<1>5. /\ FbHeld(r) \subseteq FbHeld(fbQueue) /\ FbHeld(q) \subseteq FbHeld(fbQueue)
      /\ FbHeld(q) \cap FbHeld(r) = {}
  BY <1>2, <1>3, FbApart
<1> HIDE DEF q, r
<1>6. FbQueueOK(q, n)
  <2>1. Len(q) \in Nat /\ Len(fbQueue) \in Nat
    BY <1>3, <1>4
  <2> QED
    BY <1>3, <1>4, <2>1 DEF FbQueueOK
<1>7. /\ FbHeld(fbQueue)' = FbHeld(q) /\ FbHeld(fbReady)' = FbHeld(r)
      /\ FbQueueOK(fbQueue, Len(fbGiven))' = FbQueueOK(q, n)
      /\ FbSingle(fbReady)' = FbSingle(r) /\ FbFeedback' = FbFeedback
  BY <1>1 DEF FbHeld, FbQueueOK, FbSingle, FbFeedback
<1>8. FbEntriesOK'
  BY <1>1, <1>4, <1>6, <1>7 DEF FbInv, FbEntriesOK
<1>9. FbDisjoint'
  BY <1>1, <1>5, <1>7, Zenon DEF FbInv, FbDisjoint
<1>10. FbRowsOK'
  BY <1>1, <1>7 DEF FbInv, FbRowsOK
<1>11. FbOutcomeOK'
  BY <1>1 DEF FbInv, FbOutcomeOK
<1> QED
  BY <1>8, <1>9, <1>10, <1>11 DEF FbInv

(* The first entry is sent, and leaves the loop. *)
LEMMA FbLoopKeepsInv ==
  ASSUME FbInv, FbResend \/ FbResent \/ FbRequeue \/ FbGiveUp
  PROVE  FbInv'
<1> DEFINE n == Len(fbGiven)
           h == Head(fbReady)
           t == Tail(fbReady)
<1>1. fbReady # <<>>
  BY DEF FbResend, FbResent, FbRequeue, FbGiveUp, FbInv, FbOutcomeOK
<1>2. /\ fbReady \in Seq(FbEntries(n)) /\ FbSingle(fbReady) /\ n \in Nat
      /\ FbQueueOK(fbQueue, n)
  BY DEF FbInv, FbEntriesOK, FbRowsOK
<1>3. /\ t \in Seq(FbEntries(n)) /\ FbSingle(t) /\ h \in FbEntries(n) /\ h.fb \in FbHeld(fbReady)
      /\ FbHeld(t) \subseteq FbHeld(fbReady) \ {h.fb}
  BY <1>1, <1>2, FbTail
<1>4. h.fb \in 1..n /\ h.attempts \in 0..FbMaxAttempts
  BY <1>3 DEF FbEntries
<1>5. fbGiven' = fbGiven /\ fbCalls' = fbCalls /\ fbSpawned' = fbSpawned /\ FbFeedback = 1..n
      /\ FbFeedback' = 1..n
  BY DEF FbResend, FbResent, FbRequeue, FbGiveUp, FbFeedback
<1>6. fbGiven[h.fb] \in FbSuggestions
  BY <1>4 DEF FbInv, FbRowsOK
<1>7. FbRowsOK'
  <2>1. fbRow' = fbRow \/ fbRow' = [fbRow EXCEPT ![fbGiven[h.fb]] = 0]
    BY DEF FbResend, FbResent, FbRequeue, FbGiveUp
  <2>2. fbRow' \in [FbSuggestions -> {0} \cup FbFeedback']
    BY <1>5, <1>6, <2>1 DEF FbInv, FbRowsOK
  <2>3. fbDone' \subseteq fbDone \cup {h.fb} /\ fbGaveUp' \subseteq fbGaveUp \cup {h.fb}
    BY DEF FbResend, FbResent, FbRequeue, FbGiveUp, fbFate
  <2>4. fbDone' \subseteq FbFeedback' /\ fbGaveUp' \subseteq FbFeedback'
    BY <1>4, <1>5, <2>3, Zenon DEF FbInv, FbRowsOK
  <2> QED
    BY <1>5, <2>2, <2>4 DEF FbInv, FbRowsOK
<1>8. CASE FbResend
  <2>1. fbQueue' = fbQueue /\ fbReady' = fbReady
    BY <1>8 DEF FbResend
  <2>2. FbEntriesOK'
    BY <1>5, <2>1 DEF FbInv, FbEntriesOK, FbQueueOK, FbSingle
  <2>3. FbDisjoint'
    <3>1. FbHeld(fbQueue)' = FbHeld(fbQueue) /\ FbHeld(fbReady)' = FbHeld(fbReady)
      BY <2>1 DEF FbHeld
    <3> QED
      BY <1>5, <3>1, Zenon DEF FbInv, FbDisjoint
  <2>4. FbOutcomeOK'
    BY <1>1, <1>8, <2>1 DEF FbResend, FbOutcomeOK
  <2> QED
    BY <1>7, <2>2, <2>3, <2>4 DEF FbInv
<1>9. ASSUME FbResent \/ FbRequeue \/ FbGiveUp,
             NEW q, fbQueue' = q, FbQueueOK(q, n), FbHeld(q) \subseteq FbHeld(fbQueue) \cup {h.fb}
      PROVE  FbInv'
  <2>1. fbReady' = t /\ fbSent' = "none"
    BY <1>9 DEF FbResent, FbRequeue, FbGiveUp, FbNextReady
  <2> HIDE DEF t, h
  <2>2. /\ FbHeld(fbQueue)' = FbHeld(q) /\ FbHeld(fbReady)' = FbHeld(t)
        /\ FbQueueOK(fbQueue, Len(fbGiven))' = FbQueueOK(q, n) /\ FbSingle(fbReady)' = FbSingle(t)
    BY <1>5, <1>9, <2>1 DEF FbHeld, FbQueueOK, FbSingle
  <2>3. FbEntriesOK'
    BY <1>3, <1>5, <1>9, <2>1, <2>2 DEF FbInv, FbEntriesOK
  <2>4. FbDisjoint'
    BY <1>3, <1>5, <1>9, <2>2, Zenon DEF FbInv, FbDisjoint
  <2>5. FbOutcomeOK'
    BY <2>1 DEF FbOutcomeOK
  <2> QED
    BY <1>7, <2>3, <2>4, <2>5 DEF FbInv
<1>10. CASE FbResent
  <2>1. fbQueue' = fbQueue
    BY <1>10 DEF FbResent
  <2> QED
    BY <1>2, <1>9, <1>10, <2>1, Zenon
<1>11. CASE FbRequeue
  <2> DEFINE e == FbEntry(h.fb, h.attempts + 1)
  <2>1. fbQueue' = FbPush(fbQueue, e) /\ ~(h.attempts >= FbMaxAttempts)
    BY <1>11 DEF FbRequeue, FbExhausted
  <2>2. e \in FbEntries(n) /\ e.fb = h.fb
    <3>1. h.attempts + 1 \in 0..FbMaxAttempts
      BY <1>4, <2>1, FbAssumption
    <3> HIDE DEF h
    <3> QED
      BY <1>4, <3>1 DEF FbEntry, FbEntries
  <2> HIDE DEF e
  <2>3. e.fb \notin FbHeld(fbQueue)
    BY <1>3, <2>2, Zenon DEF FbInv, FbDisjoint
  <2>4. FbQueueOK(FbPush(fbQueue, e), n) /\ FbHeld(FbPush(fbQueue, e)) \subseteq FbHeld(fbQueue) \cup {e.fb}
    BY <1>2, <2>2, <2>3, FbPushOK
  <2> QED
    BY <1>9, <1>11, <2>1, <2>2, <2>4, Zenon
<1>12. CASE FbGiveUp
  <2> DEFINE S == {e \in ToSet(fbQueue) : fbGiven[e.fb] # fbGiven[h.fb]}
             q == Keeping(fbQueue, S)
  <2>1. fbQueue' = q
    BY <1>12 DEF FbGiveUp
  <2> HIDE DEF S
  <2>2. /\ fbQueue \in Seq(FbEntries(n)) /\ Len(fbQueue) <= FbMaxSize /\ FbSingle(fbQueue)
        /\ FbMaxSize \in Nat
    BY <1>2, FbAssumption DEF FbQueueOK
  <2>3. q \in Seq(FbEntries(n)) /\ Len(q) <= Len(fbQueue) /\ FbSingle(q)
    BY <2>2, FbKept
  <2>4. S \cap {} = {}
    OBVIOUS
  <2>5. FbHeld(q) \subseteq FbHeld(fbQueue)
    BY <2>2, <2>4, FbApart
  <2> HIDE DEF q
  <2>6. FbQueueOK(q, n)
    <3>1. Len(q) \in Nat /\ Len(fbQueue) \in Nat
      BY <2>2, <2>3
    <3> QED
      BY <2>2, <2>3, <3>1 DEF FbQueueOK
  <2>7. FbHeld(q) \subseteq FbHeld(fbQueue) \cup {h.fb}
    BY <2>5, Zenon
  <2> QED
    BY <1>9, <1>12, <2>1, <2>6, <2>7, Zenon
<1> QED
  BY <1>8, <1>10, <1>11, <1>12

(* A row that is too old goes. *)
LEMMA FbCleanupKeepsInv ==
  ASSUME FbInv, NEW s \in FbSuggestions, FbCleanup(s)
  PROVE  FbInv'
<1>1. /\ fbGiven' = fbGiven /\ fbCalls' = fbCalls /\ fbSpawned' = fbSpawned /\ fbQueue' = fbQueue
      /\ fbReady' = fbReady /\ fbSent' = fbSent /\ fbDone' = fbDone /\ fbGaveUp' = fbGaveUp
      /\ fbRow' = [fbRow EXCEPT ![s] = 0]
  BY DEF FbCleanup, fbMemory
<1>2. FbHeld(fbQueue)' = FbHeld(fbQueue) /\ FbHeld(fbReady)' = FbHeld(fbReady) /\ FbFeedback' = FbFeedback
  BY <1>1 DEF FbHeld, FbFeedback
<1>3. fbRow' \in [FbSuggestions -> {0} \cup FbFeedback']
  BY <1>1, <1>2 DEF FbInv, FbRowsOK
<1>4. FbRowsOK'
  BY <1>1, <1>2, <1>3 DEF FbInv, FbRowsOK
<1>5. FbEntriesOK'
  BY <1>1, <1>2 DEF FbInv, FbEntriesOK, FbQueueOK, FbSingle
<1>6. FbDisjoint'
  BY <1>1, <1>2, Zenon DEF FbInv, FbDisjoint
<1>7. FbOutcomeOK'
  BY <1>1 DEF FbInv, FbOutcomeOK
<1> QED
  BY <1>4, <1>5, <1>6, <1>7 DEF FbInv

(* A restart queues one entry for each row that it keeps. *)
LEMMA FbRestartKeepsInv ==
  ASSUME FbInv, NEW old, FbRestart(old)
  PROVE  FbInv'
<1> DEFINE n == Len(fbGiven)
           R == {fbRow[s] : s \in FbSuggestions \ old} \ {0}
<1>1. /\ fbGiven' = fbGiven /\ fbDone' = fbDone /\ fbGaveUp' = fbGaveUp
      /\ fbCalls' = {} /\ fbSpawned' = {} /\ fbReady' = <<>> /\ fbSent' = "none"
      /\ fbRow' = [s \in FbSuggestions |-> IF s \in old THEN 0 ELSE fbRow[s]]
  BY DEF FbRestart
<1>2. n \in Nat /\ FbFeedback = 1..n /\ FbFeedback' = 1..n
  BY <1>1 DEF FbInv, FbRowsOK, FbFeedback
<1>3. PICK rows \in SetToSeqs(R) : /\ \A i, j \in DOMAIN rows : i < j => rows[i] < rows[j]
                                   /\ fbQueue' = FbEnqueueAll(rows)
  BY DEF FbRestart
<1>4. R \subseteq 1..n
  BY <1>2 DEF FbInv, FbRowsOK
<1> HIDE DEF R
<1>5. Cardinality(R) \in Nat
  <2>1. IsFiniteSet(1..n)
    BY <1>2, FS_Interval
  <2>2. IsFiniteSet(R)
    BY <1>4, <2>1, FS_Subset
  <2> QED
    BY <2>2, FS_CardinalityType
<1>6. rows \in [1..Cardinality(R) -> R]
  BY <1>3 DEF SetToSeqs
<1>7. rows \in Seq(1..n) /\ DOMAIN rows = 1..Len(rows)
  <2> DEFINE c == Cardinality(R)
  <2>1. c \in Nat /\ rows \in [1..c -> 1..n]
    BY <1>4, <1>5, <1>6
  <2> HIDE DEF c
  <2>2. rows \in Seq(1..n)
    BY <2>1
  <2> QED
    BY <2>2
<1>8. \A i, j \in 1..Len(rows) : rows[i] = rows[j] => i = j
  <2> SUFFICES ASSUME NEW i \in 1..Len(rows), NEW j \in 1..Len(rows), rows[i] = rows[j], i # j
               PROVE  FALSE
    OBVIOUS
  <2>1. rows[i] \in Int /\ rows[j] \in Int /\ (i < j \/ j < i)
    BY <1>2, <1>7
  <2>2. i < j => rows[i] < rows[j]
    BY <1>3, <1>7, Zenon
  <2>3. j < i => rows[j] < rows[i]
    BY <1>3, <1>7, Zenon
  <2> QED
    BY <2>1, <2>2, <2>3
<1> DEFINE q == FbEnqueueAll(rows)
<1>9. FbQueueOK(q, n)
  BY <1>2, <1>7, <1>8, FbEnqueueAllOK
<1>10. fbQueue' = q
  BY <1>3
<1> HIDE DEF q
<1>11. FbQueueOK(fbQueue, Len(fbGiven))' = FbQueueOK(q, n) /\ FbHeld(fbReady)' = {}
  BY <1>1, <1>10 DEF FbQueueOK, FbSingle, FbHeld
<1>12. FbEntriesOK'
  <2>1. fbReady' \in Seq(FbEntries(Len(fbGiven)))' /\ FbSingle(fbReady)'
    BY <1>1 DEF FbSingle
  <2> QED
    BY <1>1, <1>9, <1>11, <2>1 DEF FbEntriesOK
<1>13. FbDisjoint'
  BY <1>1, <1>11, Zenon DEF FbDisjoint
<1>14. FbRowsOK'
  <2>1. fbRow' \in [FbSuggestions -> {0} \cup FbFeedback']
    BY <1>1, <1>2 DEF FbInv, FbRowsOK
  <2> QED
    BY <1>1, <1>2, <2>1 DEF FbInv, FbRowsOK
<1>15. FbOutcomeOK'
  BY <1>1 DEF FbOutcomeOK
<1> QED
  BY <1>12, <1>13, <1>14, <1>15 DEF FbInv

(* Every step keeps the feedback in order. *)
LEMMA FbNextInv == FbInv /\ [FbNext]_fbVars => FbInv'
<1> SUFFICES ASSUME FbInv, [FbNext]_fbVars PROVE FbInv'
  OBVIOUS
<1>1. CASE UNCHANGED fbVars
  <2>1. UNCHANGED <<fbGiven, fbCalls, fbSpawned, fbQueue, fbReady, fbSent, fbRow, fbDone, fbGaveUp>>
    BY <1>1 DEF fbVars
  <2>2. FbRowsOK' /\ FbEntriesOK' /\ FbOutcomeOK'
    BY <2>1 DEF FbInv, FbRowsOK, FbEntriesOK, FbOutcomeOK, FbQueueOK, FbSingle, FbFeedback
  <2>3. FbHeld(fbQueue)' = FbHeld(fbQueue) /\ FbHeld(fbReady)' = FbHeld(fbReady)
    BY <2>1 DEF FbHeld
  <2>4. FbDisjoint'
    BY <2>1, <2>3, Zenon DEF FbInv, FbDisjoint
  <2> QED
    BY <2>2, <2>4 DEF FbInv
<1> QED
  BY <1>1, FbSubmitKeepsInv, FbCleanupKeepsInv, FbCommandsKeepInv, FbCollectKeepsInv,
     FbLoopKeepsInv, FbRestartKeepsInv DEF FbNext

(* Nothing given and no rows is in order. *)
LEMMA FbInitInv == FbInit => FbInv
  BY FbAssumption DEF FbInit, FbInv, FbRowsOK, FbEntriesOK, FbDisjoint, FbOutcomeOK, FbQueueOK,
                      FbSingle, FbHeld, FbFeedback

(* Feedback, queue, collected entries and rows are well typed, the queue   *)
(* keeps to its size and no entry goes past the last attempt.              *)
THEOREM FbTypeCorrect == FbSpec => []FbTypeOK
<1>1. FbInv => FbTypeOK
  <2> SUFFICES ASSUME FbInv PROVE FbTypeOK
    OBVIOUS
  <2>1. ASSUME NEW e \in ToSet(fbQueue) \cup ToSet(fbReady)
        PROVE  e.fb \in FbFeedback /\ e.attempts \in 0..FbMaxAttempts
    <3>1. fbQueue \in Seq(FbEntries(Len(fbGiven))) /\ fbReady \in Seq(FbEntries(Len(fbGiven)))
      BY DEF FbInv, FbEntriesOK, FbQueueOK
    <3>2. e \in FbEntries(Len(fbGiven))
      BY <3>1, ToSetElements
    <3> QED
      BY <3>2 DEF FbEntries, FbFeedback
  <2> QED
    BY <2>1 DEF FbInv, FbRowsOK, FbEntriesOK, FbQueueOK, FbOutcomeOK, FbTypeOK
<1> QED
  BY <1>1, FbInitInv, FbNextInv, PTL DEF FbSpec

(* No feedback is in the process twice, through failures, retries, full    *)
(* queues and restarts: the retry queue, the collected entries, the tasks  *)
(* and the commands never share one (FbOneCopy).                           *)
THEOREM OneCopy == FbSpec => []FbOneCopy
<1>1. FbInv => FbOneCopy
  <2> SUFFICES ASSUME FbInv PROVE FbOneCopy
    OBVIOUS
  <2> DEFINE m == Len(fbQueue)
             l == Len(fbReady)
             c == fbQueue \o fbReady
             entries == [i \in 1..(m + l) |-> c[i].fb]
  <2>1. /\ fbQueue \in Seq(FbEntries(Len(fbGiven))) /\ FbSingle(fbQueue)
        /\ fbReady \in Seq(FbEntries(Len(fbGiven))) /\ FbSingle(fbReady)
    BY DEF FbInv, FbEntriesOK, FbQueueOK
  <2>2. /\ m \in Nat /\ l \in Nat
        /\ \A i \in 1..m : c[i] = fbQueue[i]
        /\ \A i \in 1..(m + l) : i \notin 1..m => i - m \in 1..l /\ c[i] = fbReady[i - m]
    BY <2>1
  <2>3. ASSUME NEW i \in 1..(m + l)
        PROVE  \/ i \in 1..m /\ entries[i] = fbQueue[i].fb /\ entries[i] \in FbHeld(fbQueue)
               \/ i \notin 1..m /\ i - m \in 1..l /\ entries[i] = fbReady[i - m].fb
                  /\ entries[i] \in FbHeld(fbReady)
    <3>1. entries[i] = c[i].fb
      OBVIOUS
    <3> HIDE DEF entries, c
    <3> QED
      BY <2>2, <3>1, Zenon DEF FbHeld
  <2>4. DOMAIN entries = 1..(m + l)
    OBVIOUS
  <2> HIDE DEF entries, c
  <2>5. ASSUME NEW i \in 1..(m + l), NEW j \in 1..(m + l), entries[i] = entries[j]
        PROVE  i = j
    <3>1. CASE i \in 1..m /\ j \in 1..m
      BY <2>1, <2>3, <2>5, <3>1, Zenon DEF FbSingle
    <3>2. CASE i \notin 1..m /\ j \notin 1..m
      <4>1. i - m \in 1..l /\ j - m \in 1..l /\ fbReady[i - m].fb = fbReady[j - m].fb
        BY <2>3, <2>5, <3>2, Zenon
      <4>2. i - m = j - m
        BY <2>1, <4>1, Zenon DEF FbSingle
      <4> QED
        BY <2>2, <4>2
    <3>3. CASE (i \in 1..m /\ j \notin 1..m) \/ (i \notin 1..m /\ j \in 1..m)
      <4>1. entries[i] \in FbHeld(fbQueue) /\ entries[i] \in FbHeld(fbReady)
        <5>1. CASE i \in 1..m /\ j \notin 1..m
          BY <2>3, <2>5, <5>1, Zenon
        <5>2. CASE i \notin 1..m /\ j \in 1..m
          BY <2>3, <2>5, <5>2, Zenon
        <5> QED
          BY <3>3, <5>1, <5>2, Zenon
      <4> QED
        BY <4>1, Zenon DEF FbInv, FbDisjoint
    <3> QED
      BY <3>1, <3>2, <3>3, Zenon
  <2>6. IsInjective(entries)
    BY <2>4, <2>5, Zenon DEF IsInjective
  <2>7. ToSet(entries) \cap (fbCalls \cup fbSpawned) = {}
    <3>1. ASSUME NEW k \in ToSet(entries) PROVE k \in FbHeld(fbQueue) \cup FbHeld(fbReady)
      <4>1. PICK i \in 1..(m + l) : k = entries[i]
        BY <2>4, <3>1, Zenon DEF ToSet
      <4> QED
        BY <2>3, <4>1, Zenon
    <3> QED
      BY <3>1, Zenon DEF FbInv, FbDisjoint
  <2>8. fbCalls \cap fbSpawned = {}
    BY Zenon DEF FbInv, FbDisjoint
  <2> QED
    BY <2>6, <2>7, <2>8 DEF FbOneCopy, entries, c
<1> QED
  BY <1>1, FbInitInv, FbNextInv, PTL DEF FbSpec

(* A row of feedback goes only for its age, at a restart that finds it too *)
(* old, or with feedback for its suggestion that was acknowledged on a     *)
(* retry or given up (FbRowOutlivesFailure).                               *)
THEOREM RowOutlivesFailure == FbSpec => FbRowOutlivesFailure
<1> DEFINE A == \A s \in FbSuggestions :
        fbRow[s] # 0 /\ fbRow'[s] = 0 =>
          \/ FbCleanup(s)
          \/ \E old \in SUBSET FbSuggestions : s \in old /\ FbRestart(old)
          \/ /\ fbReady # <<>> /\ fbGiven[Head(fbReady).fb] = s
             /\ Head(fbReady).fb \in fbDone \cup fbGaveUp'
<1>1. FbInv /\ [FbNext]_fbVars => [A]_fbVars
  <2> SUFFICES ASSUME FbInv, FbNext, NEW s \in FbSuggestions, fbRow[s] # 0, fbRow'[s] = 0
               PROVE  \/ FbCleanup(s)
                      \/ \E old \in SUBSET FbSuggestions : s \in old /\ FbRestart(old)
                      \/ /\ fbReady # <<>> /\ fbGiven[Head(fbReady).fb] = s
                         /\ Head(fbReady).fb \in fbDone \cup fbGaveUp'
    OBVIOUS
  <2>1. fbRow \in [FbSuggestions -> {0} \cup FbFeedback]
    BY DEF FbInv, FbRowsOK
  <2>2. CASE \E u \in FbSuggestions : FbSubmit(u) \/ FbCleanup(u)
    BY <2>1, <2>2 DEF FbSubmit, FbCleanup
  <2>3. CASE \E k \in FbFeedback : FbAccepted(k) \/ FbFailed(k) \/ FbEnqueue(k)
    <3>1. PICK k \in FbFeedback : FbAccepted(k) \/ FbFailed(k) \/ FbEnqueue(k)
      BY <2>3
    <3>2. k # 0 /\ fbGiven[k] \in FbSuggestions
      BY DEF FbFeedback, FbInv, FbRowsOK
    <3>3. fbRow' = fbRow \/ fbRow' = [fbRow EXCEPT ![fbGiven[k]] = k]
      BY <3>1 DEF FbAccepted, FbFailed, FbEnqueue
    <3> QED
      BY <2>1, <3>2, <3>3
  <2>4. CASE (\E due \in SUBSET {fbQueue[i].fb : i \in DOMAIN fbQueue} : FbCollect(due))
             \/ FbResend \/ FbRequeue
    BY <2>4 DEF FbCollect, FbResend, FbRequeue
  <2>5. CASE FbResent \/ FbGiveUp
    <3>1. /\ fbReady # <<>>
          /\ fbRow' = fbRow \/ fbRow' = [fbRow EXCEPT ![fbGiven[Head(fbReady).fb]] = 0]
          /\ Head(fbReady).fb \in fbDone \cup fbGaveUp'
      BY <2>5 DEF FbResent, FbGiveUp, FbInv, FbOutcomeOK
    <3>2. fbGiven[Head(fbReady).fb] = s
      BY <2>1, <3>1
    <3> QED
      BY <3>1, <3>2
  <2>6. CASE \E old \in SUBSET {u \in FbSuggestions : fbRow[u] # 0} : FbRestart(old)
    <3>1. PICK old \in SUBSET {u \in FbSuggestions : fbRow[u] # 0} : FbRestart(old)
      BY <2>6
    <3>2. fbRow' = [u \in FbSuggestions |-> IF u \in old THEN 0 ELSE fbRow[u]]
      BY <3>1 DEF FbRestart
    <3>3. s \in old /\ old \in SUBSET FbSuggestions
      BY <3>2
    <3> QED
      BY <3>1, <3>3
  <2> QED
    BY <2>2, <2>3, <2>4, <2>5, <2>6 DEF FbNext
<1> QED
  BY <1>1, FbInitInv, FbNextInv, PTL DEF FbSpec, FbRowOutlivesFailure
=============================================================================
