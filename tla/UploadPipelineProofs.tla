------------------------ MODULE UploadPipelineProofs ------------------------
(***************************************************************************)
(* Theorems about the upload path for any number of producers, any queue   *)
(* and batch size and any number of events.                                *)
(***************************************************************************)
EXTENDS UploadPipeline, FiniteSetTheorems, SequenceTheorems, TLAPS

(* The operators on the breaker's state keep it a breaker state. *)
LEMMA BreakerTypes ==
  /\ NewBreaker \in BreakerState
  /\ \A b \in BreakerState :
       /\ Check(b) \in BreakerState
       /\ RecordSuccess(b) \in BreakerState
       /\ RecordFailure(b) \in BreakerState
       /\ b.wait > 0 => Elapse(b) \in BreakerState
<1>1. NewBreaker \in BreakerState
  BY BreakerAssumption DEF NewBreaker, BreakerState
<1>2. ASSUME NEW b \in BreakerState
      PROVE  Check(b) \in BreakerState /\ RecordSuccess(b) \in BreakerState
  BY <1>1 DEF Check, RecordSuccess, BreakerState
<1>3. ASSUME NEW b \in BreakerState
      PROVE  RecordFailure(b) \in BreakerState
  <2>1. CountFailure(b) \in 0..MaxFailures
    BY BreakerAssumption DEF CountFailure, BreakerState
  <2>2. Doubled(b) \in InitialCooldown..MaxCooldown
    BY BreakerAssumption DEF Doubled, BreakerState
  <2>3. /\ b.cooldown \in 0..MaxCooldown /\ Doubled(b) \in 0..MaxCooldown
        /\ b.cooldown \in InitialCooldown..MaxCooldown
    BY <2>2, BreakerAssumption DEF BreakerState
  <2> QED
    BY <2>1, <2>2, <2>3 DEF RecordFailure, BreakerState
<1>4. ASSUME NEW b \in BreakerState, b.wait > 0
      PROVE  Elapse(b) \in BreakerState
  <2>1. b.wait \in 0..MaxCooldown /\ b.wait - 1 \in 0..MaxCooldown
    BY <1>4, BreakerAssumption DEF BreakerState
  <2> QED
    BY <2>1 DEF Elapse, BreakerState
<1> QED
  BY <1>1, <1>2, <1>3, <1>4

(* Where the sync loop goes on from a flush is a place of the loop. *)
LEMMA ReturnedType ==
  ASSUME NEW r \in {"ok", "none", "err"}, shutting \in BOOLEAN
  PROVE  Returned(r) \in {"flush", "ended", "mark", "house"}
BY DEF Returned

(* A drain asks for a natural number of pops, whatever a load returns. *)
LEMMA DrainCountType ==
  ASSUME NEW n \in Nat
  PROVE  DrainCount(n) \in Nat
BY PipelineAssumption DEF DrainCount, ComputeBatchSize

(* A load of the counter is a natural number. *)
LEMMA LoadedType ==
  ASSUME size \in Int
  PROVE  Loaded \in Nat
BY PipelineAssumption DEF Loaded

(* The facts about sequences that pushing to and popping from them needs. *)
LEMMA SeqFacts ==
  ASSUME NEW S, NEW q \in Seq(S)
  PROVE  /\ Len(q) \in Nat
         /\ q # <<>> => /\ Head(q) \in S /\ Tail(q) \in Seq(S)
                        /\ Len(Tail(q)) = Len(q) - 1
         /\ \A x \in S : Append(q, x) \in Seq(S) /\ Len(Append(q, x)) = Len(q) + 1
         /\ \A i \in DOMAIN q : q[i] \in S
<1>1. Len(q) \in Nat /\ \A i \in DOMAIN q : q[i] \in S
  BY LenProperties, ElementOfSeq
<1>2. ASSUME q # <<>>
      PROVE  /\ Head(q) \in S /\ Tail(q) \in Seq(S)
             /\ Len(Tail(q)) = Len(q) - 1
  BY <1>2, HeadTailProperties
<1>3. ASSUME NEW x \in S
      PROVE  Append(q, x) \in Seq(S) /\ Len(Append(q, x)) = Len(q) + 1
  BY AppendProperties
<1> QED
  BY <1>1, <1>2, <1>3

-----------------------------------------------------------------------------
(***************************************************************************)
(* Type correctness.                                                       *)
(***************************************************************************)

(* A producer's steps keep the type invariant. *)
LEMMA ProducerKeepsTypes ==
  ASSUME TypeOK, NEW p \in Producers,
         Capture(p) \/ EnqueueStep(p) \/ ProducerEnds(p)
  PROVE  TypeOK'
<1> USE PipelineAssumption DEF TypeOK, Events, NoEvent, queueVars, flushVars, dropVars,
                               fateVars, captureVars, envVars
<1>1. CASE Capture(p)
  <2>0. next \in Events /\ next' \in 1..(NumEvents + 1)
    BY <1>1 DEF Capture, EventType
  <2>1. ProducerType'
    BY <1>1, <2>0 DEF Capture, ProducerType
  <2>2. FlusherType'
    BY <1>1 DEF Capture, FlusherType
  <2>3. EventType'
    BY <1>1, <2>0 DEF Capture, EventType
  <2>4. CounterType'
    BY <1>1, <2>0 DEF Capture, CounterType
  <2>5. FlagType'
    BY <1>1 DEF Capture, FlagType
  <2> QED
    BY <2>1, <2>2, <2>3, <2>4, <2>5
<1>2. CASE LoadSize(p)
  <2>1. ProducerType'
    BY <1>2 DEF LoadSize, ProducerType
  <2>2. FlusherType'
    BY <1>2 DEF LoadSize, FlusherType
  <2>3. EventType'
    BY <1>2 DEF LoadSize, EventType
  <2>4. CounterType'
    BY <1>2 DEF LoadSize, CounterType
  <2>5. FlagType'
    BY <1>2 DEF LoadSize, FlagType
  <2> QED
    BY <2>1, <2>2, <2>3, <2>4, <2>5
<1>3. CASE DropOldest(p)
  <2>0. queue # <<>> => Head(queue) \in Events /\ Tail(queue) \in Seq(Events)
    BY SeqFacts DEF CounterType
  <2>1. ProducerType'
    BY <1>3, <2>0 DEF DropOldest, ProducerType
  <2>2. FlusherType'
    BY <1>3 DEF DropOldest, FlusherType
  <2>3. EventType'
    BY <1>3, <2>0 DEF DropOldest, EventType
  <2>4. CounterType'
    BY <1>3, <2>0 DEF DropOldest, CounterType
  <2>5. FlagType'
    BY <1>3 DEF DropOldest, FlagType
  <2> QED
    BY <2>1, <2>2, <2>3, <2>4, <2>5
<1>4. CASE SubtractDrop(p)
  <2>1. ProducerType'
    BY <1>4 DEF SubtractDrop, ProducerType
  <2>2. FlusherType'
    BY <1>4 DEF SubtractDrop, FlusherType
  <2>3. EventType'
    BY <1>4 DEF SubtractDrop, EventType
  <2>4. CounterType'
    BY <1>4 DEF SubtractDrop, CounterType
  <2>5. FlagType'
    BY <1>4 DEF SubtractDrop, FlagType
  <2> QED
    BY <2>1, <2>2, <2>3, <2>4, <2>5
<1>5. CASE Push(p)
  <2>1. ProducerType'
    BY <1>5 DEF Push, ProducerType
  <2>2. FlusherType'
    BY <1>5 DEF Push, FlusherType
  <2>3. EventType'
    BY <1>5 DEF Push, EventType
  <2>4. CounterType'
    BY <1>5, SeqFacts DEF Push, CounterType, ProducerType
  <2>5. FlagType'
    BY <1>5 DEF Push, FlagType
  <2> QED
    BY <2>1, <2>2, <2>3, <2>4, <2>5
<1>6. CASE CountPush(p)
  <2>1. ProducerType'
    BY <1>6 DEF CountPush, ProducerType
  <2>2. FlusherType'
    BY <1>6 DEF CountPush, FlusherType
  <2>3. EventType'
    BY <1>6 DEF CountPush, EventType
  <2>4. CounterType'
    BY <1>6 DEF CountPush, CounterType
  <2>5. FlagType'
    BY <1>6 DEF CountPush, FlagType
  <2> QED
    BY <2>1, <2>2, <2>3, <2>4, <2>5
<1>7. CASE ProducerEnds(p)
  <2>1. ProducerType'
    BY <1>7 DEF ProducerEnds, ProducerType
  <2>2. FlusherType'
    BY <1>7 DEF ProducerEnds, FlusherType
  <2>3. EventType'
    BY <1>7 DEF ProducerEnds, EventType
  <2>4. CounterType'
    BY <1>7 DEF ProducerEnds, CounterType
  <2>5. FlagType'
    BY <1>7 DEF ProducerEnds, FlagType
  <2> QED
    BY <2>1, <2>2, <2>3, <2>4, <2>5
<1> QED
  BY <1>1, <1>2, <1>3, <1>4, <1>5, <1>6, <1>7 DEF EnqueueStep

(* The flusher's steps keep the type invariant. *)
LEMMA FlusherKeepsTypes ==
  ASSUME TypeOK, FlusherStep
  PROVE  TypeOK'
<1> USE PipelineAssumption DEF TypeOK, Events, NoEvent, queueVars, flushVars, dropVars,
                               fateVars, captureVars, envVars
<1>1. CASE Tick
  <2>1. ProducerType'
    BY <1>1 DEF Tick, ProducerType
  <2>2. FlusherType'
    BY <1>1 DEF Tick, FlusherType
  <2>3. EventType'
    BY <1>1 DEF Tick, EventType
  <2>4. CounterType'
    BY <1>1 DEF Tick, CounterType
  <2>5. FlagType'
    BY <1>1 DEF Tick, FlagType
  <2> QED
    BY <2>1, <2>2, <2>3, <2>4, <2>5
<1>2. CASE FlushStart
  <2>0. /\ Returned("none") \in {"flush", "ended", "mark", "house"}
        /\ Returned("err") \in {"flush", "ended", "mark", "house"}
        /\ DrainCount(Loaded) \in Nat
        /\ Check(breaker) \in BreakerState
    BY ReturnedType, LoadedType, DrainCountType, BreakerTypes DEF FlagType, CounterType, FlusherType
  <2>1. ProducerType'
    BY <1>2 DEF FlushStart, ProducerType
  <2>2. FlusherType'
    BY <1>2, <2>0 DEF FlushStart, FlusherType
  <2>3. EventType'
    BY <1>2 DEF FlushStart, EventType
  <2>4. CounterType'
    BY <1>2 DEF FlushStart, CounterType
  <2>5. FlagType'
    BY <1>2 DEF FlushStart, FlagType
  <2> QED
    BY <2>1, <2>2, <2>3, <2>4, <2>5
<1>3. CASE DrainPop
  <2>0. Head(queue) \in Events /\ Tail(queue) \in Seq(Events)
    BY <1>3, SeqFacts DEF DrainPop, CounterType
  <2>6. batch' \in Seq(Events) /\ want' \in Nat
    BY <1>3, <2>0, SeqFacts DEF DrainPop, FlusherType
  <2>1. ProducerType'
    BY <1>3 DEF DrainPop, ProducerType
  <2>2. FlusherType'
    BY <1>3, <2>6 DEF DrainPop, FlusherType
  <2>3. EventType'
    BY <1>3 DEF DrainPop, EventType
  <2>4. CounterType'
    BY <1>3, <2>0 DEF DrainPop, CounterType
  <2>5. FlagType'
    BY <1>3 DEF DrainPop, FlagType
  <2> QED
    BY <2>1, <2>2, <2>3, <2>4, <2>5
<1>4. CASE DrainEnd
  <2>0. Returned("none") \in {"flush", "ended", "mark", "house"} /\ Len(batch) \in Nat
    BY ReturnedType, SeqFacts DEF FlagType, FlusherType
  <2>1. ProducerType'
    BY <1>4 DEF DrainEnd, ProducerType
  <2>2. FlusherType'
    BY <1>4, <2>0 DEF DrainEnd, FlusherType
  <2>3. EventType'
    BY <1>4 DEF DrainEnd, EventType
  <2>4. CounterType'
    BY <1>4, <2>0 DEF DrainEnd, CounterType
  <2>5. FlagType'
    BY <1>4 DEF DrainEnd, FlagType
  <2> QED
    BY <2>1, <2>2, <2>3, <2>4, <2>5
<1>5. CASE SendOk
  <2>0. Returned("ok") \in {"flush", "ended", "mark", "house"}
        /\ RecordSuccess(breaker) \in BreakerState /\ <<>> \in Seq(Events)
    BY ReturnedType, BreakerTypes, EmptySeq DEF FlagType, FlusherType
  <2>6. InBatch \subseteq Events
    BY SeqFacts DEF InBatch, FlusherType
  <2>7. attempt' \in 0..MaxRetries
    BY <1>5 DEF SendOk
  <2>1. ProducerType'
    BY <1>5 DEF SendOk, ProducerType
  <2>2. FlusherType'
    BY <1>5, <2>0, <2>7 DEF SendOk, FlusherType
  <2>3. EventType'
    BY <1>5, <2>6 DEF SendOk, EventType
  <2>4. CounterType'
    BY <1>5 DEF SendOk, CounterType
  <2>5. FlagType'
    BY <1>5 DEF SendOk, FlagType
  <2> QED
    BY <2>1, <2>2, <2>3, <2>4, <2>5
<1>6. CASE SendFails
  <2>0. RecordFailure(breaker) \in BreakerState
    BY BreakerTypes DEF FlusherType
  <2>6. attempt' \in 0..MaxRetries
    BY <1>6 DEF SendFails, FlusherType
  <2>1. ProducerType'
    BY <1>6 DEF SendFails, ProducerType
  <2>2. FlusherType'
    BY <1>6, <2>0, <2>6 DEF SendFails, FlusherType
  <2>3. EventType'
    BY <1>6 DEF SendFails, EventType
  <2>4. CounterType'
    BY <1>6 DEF SendFails, CounterType
  <2>5. FlagType'
    BY <1>6 DEF SendFails, FlagType
  <2> QED
    BY <2>1, <2>2, <2>3, <2>4, <2>5
<1>7. CASE RequeueLoad
  <2>0. (Loaded + Len(batch)) % Width \in Nat
    <3>1. Loaded \in Nat /\ Len(batch) \in Nat
      BY LoadedType, SeqFacts DEF CounterType, FlusherType
    <3> QED
      BY <3>1
  <2>6. want' \in Nat /\ fpc' \in {"requeueDrop", "requeuePush"}
    BY <1>7, <2>0 DEF RequeueLoad, FlusherType
  <2>1. ProducerType'
    BY <1>7 DEF RequeueLoad, ProducerType
  <2>2. FlusherType'
    BY <1>7, <2>6 DEF RequeueLoad, FlusherType
  <2>3. EventType'
    BY <1>7 DEF RequeueLoad, EventType
  <2>4. CounterType'
    BY <1>7 DEF RequeueLoad, CounterType
  <2>5. FlagType'
    BY <1>7 DEF RequeueLoad, FlagType
  <2> QED
    BY <2>1, <2>2, <2>3, <2>4, <2>5
<1>8. CASE RequeueDrop
  <2>0. Head(queue) \in Events /\ Tail(queue) \in Seq(Events)
    BY <1>8, SeqFacts DEF RequeueDrop, CounterType
  <2>6. want' \in Nat /\ popped' \in Nat
    BY <1>8 DEF RequeueDrop, FlusherType
  <2>1. ProducerType'
    BY <1>8 DEF RequeueDrop, ProducerType
  <2>2. FlusherType'
    BY <1>8, <2>6 DEF RequeueDrop, FlusherType
  <2>3. EventType'
    BY <1>8, <2>0 DEF RequeueDrop, EventType
  <2>4. CounterType'
    BY <1>8, <2>0 DEF RequeueDrop, CounterType
  <2>5. FlagType'
    BY <1>8 DEF RequeueDrop, FlagType
  <2> QED
    BY <2>1, <2>2, <2>3, <2>4, <2>5
<1>9. CASE RequeueDropEnd
  <2>0. popped \in Nat
    BY DEF FlusherType
  <2>1. ProducerType'
    BY <1>9 DEF RequeueDropEnd, ProducerType
  <2>2. FlusherType'
    BY <1>9 DEF RequeueDropEnd, FlusherType
  <2>3. EventType'
    BY <1>9 DEF RequeueDropEnd, EventType
  <2>4. CounterType'
    BY <1>9, <2>0 DEF RequeueDropEnd, CounterType
  <2>5. FlagType'
    BY <1>9 DEF RequeueDropEnd, FlagType
  <2> QED
    BY <2>1, <2>2, <2>3, <2>4, <2>5
<1>10. CASE RequeuePush
  <2>0. Head(batch) \in Events /\ Tail(batch) \in Seq(Events)
    BY <1>10, SeqFacts DEF RequeuePush, FlusherType
  <2>6. queue' \in Seq(Events)
    BY <1>10, <2>0, SeqFacts DEF RequeuePush, CounterType
  <2>7. pushed' \in Nat
    BY <1>10 DEF RequeuePush, FlusherType
  <2>1. ProducerType'
    BY <1>10 DEF RequeuePush, ProducerType
  <2>2. FlusherType'
    BY <1>10, <2>0, <2>7 DEF RequeuePush, FlusherType
  <2>3. EventType'
    BY <1>10 DEF RequeuePush, EventType
  <2>4. CounterType'
    BY <1>10, <2>6 DEF RequeuePush, CounterType
  <2>5. FlagType'
    BY <1>10 DEF RequeuePush, FlagType
  <2> QED
    BY <2>1, <2>2, <2>3, <2>4, <2>5
<1>11. CASE RequeueEnd
  <2>0. Returned("err") \in {"flush", "ended", "mark", "house"}
    BY ReturnedType DEF FlagType
  <2>6. pushed \in Nat
    BY DEF FlusherType
  <2>1. ProducerType'
    BY <1>11 DEF RequeueEnd, ProducerType
  <2>2. FlusherType'
    BY <1>11, <2>0 DEF RequeueEnd, FlusherType
  <2>3. EventType'
    BY <1>11 DEF RequeueEnd, EventType
  <2>4. CounterType'
    BY <1>11, <2>6 DEF RequeueEnd, CounterType
  <2>5. FlagType'
    BY <1>11 DEF RequeueEnd, FlagType
  <2> QED
    BY <2>1, <2>2, <2>3, <2>4, <2>5
<1>12. CASE MarkSent
  <2>1. ProducerType'
    BY <1>12 DEF MarkSent, ProducerType
  <2>2. FlusherType'
    BY <1>12 DEF MarkSent, FlusherType
  <2>3. EventType'
    BY <1>12 DEF MarkSent, EventType
  <2>4. CounterType'
    BY <1>12 DEF MarkSent, CounterType
  <2>5. FlagType'
    BY <1>12 DEF MarkSent, FlagType
  <2> QED
    BY <2>1, <2>2, <2>3, <2>4, <2>5
<1>13. CASE Housekeep
  <2>1. ProducerType'
    BY <1>13 DEF Housekeep, ProducerType
  <2>2. FlusherType'
    BY <1>13 DEF Housekeep, FlusherType
  <2>3. EventType'
    BY <1>13 DEF Housekeep, EventType
  <2>4. CounterType'
    BY <1>13 DEF Housekeep, CounterType
  <2>5. FlagType'
    BY <1>13 DEF Housekeep, FlagType
  <2> QED
    BY <2>1, <2>2, <2>3, <2>4, <2>5
<1> QED
  BY <1>1, <1>2, <1>3, <1>4, <1>5, <1>6, <1>7, <1>8, <1>9, <1>10, <1>11, <1>12, <1>13 DEF FlusherStep

(* Time, the server, the schedule and restarts keep the type invariant. *)
LEMMA EnvironmentKeepsTypes ==
  ASSUME TypeOK, CooldownElapses \/ ServerChanges \/ ScheduleChanges \/ Shutdown \/ Restart
  PROVE  TypeOK'
<1> USE PipelineAssumption DEF TypeOK, Events, NoEvent, queueVars, flushVars, dropVars,
                               fateVars, captureVars, envVars
<1>1. CASE CooldownElapses
  <2>0. Elapse(breaker) \in BreakerState
    BY <1>1, BreakerTypes DEF CooldownElapses, FlusherType
  <2>1. ProducerType'
    BY <1>1 DEF CooldownElapses, ProducerType
  <2>2. FlusherType'
    BY <1>1, <2>0 DEF CooldownElapses, FlusherType
  <2>3. EventType'
    BY <1>1 DEF CooldownElapses, EventType
  <2>4. CounterType'
    BY <1>1 DEF CooldownElapses, CounterType
  <2>5. FlagType'
    BY <1>1 DEF CooldownElapses, FlagType
  <2> QED
    BY <2>1, <2>2, <2>3, <2>4, <2>5
<1>2. CASE ServerChanges
  <2>1. ProducerType'
    BY <1>2 DEF ServerChanges, ProducerType
  <2>2. FlusherType'
    BY <1>2 DEF ServerChanges, FlusherType
  <2>3. EventType'
    BY <1>2 DEF ServerChanges, EventType
  <2>4. CounterType'
    BY <1>2 DEF ServerChanges, CounterType
  <2>5. FlagType'
    BY <1>2 DEF ServerChanges, FlagType
  <2> QED
    BY <2>1, <2>2, <2>3, <2>4, <2>5
<1>3. CASE ScheduleChanges
  <2>1. ProducerType'
    BY <1>3 DEF ScheduleChanges, ProducerType
  <2>2. FlusherType'
    BY <1>3 DEF ScheduleChanges, FlusherType
  <2>3. EventType'
    BY <1>3 DEF ScheduleChanges, EventType
  <2>4. CounterType'
    BY <1>3 DEF ScheduleChanges, CounterType
  <2>5. FlagType'
    BY <1>3 DEF ScheduleChanges, FlagType
  <2> QED
    BY <2>1, <2>2, <2>3, <2>4, <2>5
<1>4. CASE Shutdown
  <2>1. ProducerType'
    BY <1>4 DEF Shutdown, ProducerType
  <2>2. FlusherType'
    BY <1>4 DEF Shutdown, FlusherType
  <2>3. EventType'
    BY <1>4 DEF Shutdown, EventType
  <2>4. CounterType'
    BY <1>4 DEF Shutdown, CounterType
  <2>5. FlagType'
    BY <1>4 DEF Shutdown, FlagType
  <2> QED
    BY <2>1, <2>2, <2>3, <2>4, <2>5
<1>5. CASE Restart
  <2>0. NewBreaker \in BreakerState /\ <<>> \in Seq(Events)
    BY BreakerTypes, EmptySeq
  <2>6. InHands \subseteq Events /\ InQueue \subseteq Events /\ InBatch \subseteq Events
    <3>1. InHands \subseteq Events
      BY DEF InHands, ProducerType
    <3>2. InQueue \subseteq Events
      BY SeqFacts DEF InQueue, CounterType
    <3>3. InBatch \subseteq Events
      BY SeqFacts DEF InBatch, FlusherType
    <3> QED
      BY <3>1, <3>2, <3>3
  <2>7. attempt' \in 0..MaxRetries
    BY <1>5 DEF Restart
  <2>1. ProducerType'
    BY <1>5 DEF Restart, ProducerType
  <2>2. FlusherType'
    BY <1>5, <2>0, <2>7 DEF Restart, FlusherType
  <2>3. EventType'
    BY <1>5, <2>6 DEF Restart, EventType
  <2>4. CounterType'
    BY <1>5, <2>0 DEF Restart, CounterType
  <2>5. FlagType'
    BY <1>5 DEF Restart, FlagType
  <2> QED
    BY <2>1, <2>2, <2>3, <2>4, <2>5
<1> QED
  BY <1>1, <1>2, <1>3, <1>4, <1>5

(* Every variable of the upload path keeps its type, and a producer holds   *)
(* an event exactly while it is in enqueue(), for any number of producers,  *)
(* events, retries and any capacities.                                      *)
THEOREM TypeCorrect == Spec => []TypeOK
<1>1. Init => TypeOK
  <2> SUFFICES ASSUME Init PROVE TypeOK
    OBVIOUS
  <2> USE PipelineAssumption DEF Init, Events, NoEvent
  <2>1. ProducerType
    BY DEF ProducerType
  <2>2. FlusherType
    BY BreakerTypes, EmptySeq DEF FlusherType
  <2>3. EventType
    BY DEF EventType
  <2>4. CounterType
    BY EmptySeq DEF CounterType
  <2>5. FlagType
    BY DEF FlagType
  <2> QED
    BY <2>1, <2>2, <2>3, <2>4, <2>5 DEF TypeOK
<1>2. TypeOK /\ [Next]_vars => TypeOK'
  <2> SUFFICES ASSUME TypeOK, [Next]_vars PROVE TypeOK'
    OBVIOUS
  <2>1. CASE UNCHANGED vars
    BY <2>1 DEF TypeOK, ProducerType, FlusherType, EventType, CounterType, FlagType, vars,
                queueVars, flushVars, dropVars, fateVars, captureVars, envVars
  <2>2. CASE Next
    BY <2>2, ProducerKeepsTypes, FlusherKeepsTypes, EnvironmentKeepsTypes DEF Next
  <2> QED
    BY <2>1, <2>2
<1> QED
  BY <1>1, <1>2, PTL DEF Spec

-----------------------------------------------------------------------------
(***************************************************************************)
(* The length counter.  CounterAccounting alone is not inductive: entering *)
(* the drain loop with events left in the batch would make the counter owe *)
(* them twice.  BatchOnlyInFlush excludes that.                            *)
(***************************************************************************)
BatchOnlyInFlush ==
  fpc \in {"idle", "flush", "mark", "house", "ended"} => batch = <<>>

AtStep(pcs, c) == {q \in Producers : pcs[q] = c}

(* When only producer p moves, the producers at step c change by p.         *)
LEMMA ProducerMoves ==
  ASSUME NEW pcs, NEW new, NEW p \in Producers, NEW c,
         \A q \in Producers \ {p} : new[q] = pcs[q]
  PROVE  /\ Cardinality(AtStep(pcs, c)) \in Nat
         /\ new[p] = c /\ pcs[p] # c =>
              Cardinality(AtStep(new, c)) = Cardinality(AtStep(pcs, c)) + 1
         /\ new[p] # c /\ pcs[p] = c =>
              Cardinality(AtStep(new, c)) = Cardinality(AtStep(pcs, c)) - 1
         /\ (new[p] = c <=> pcs[p] = c) =>
              Cardinality(AtStep(new, c)) = Cardinality(AtStep(pcs, c))
<1> DEFINE A == AtStep(pcs, c)
           B == AtStep(new, c)
<1>1. IsFiniteSet(A) /\ IsFiniteSet(B)
  <2>1. A \subseteq Producers /\ B \subseteq Producers
    BY DEF AtStep
  <2> QED
    BY <2>1, PipelineAssumption, FS_Subset
<1>2. Cardinality(A) \in Nat
  BY <1>1, FS_CardinalityType
<1>3. ASSUME new[p] = c, pcs[p] # c PROVE Cardinality(B) = Cardinality(A) + 1
  <2>1. B = A \cup {p} /\ p \notin A
    BY <1>3 DEF AtStep
  <2> QED
    BY <1>1, <2>1, FS_AddElement
<1>4. ASSUME new[p] # c, pcs[p] = c PROVE Cardinality(B) = Cardinality(A) - 1
  <2>1. B = A \ {p} /\ p \in A
    BY <1>4 DEF AtStep
  <2> QED
    BY <1>1, <2>1, FS_RemoveElement
<1>5. ASSUME new[p] = c <=> pcs[p] = c PROVE Cardinality(B) = Cardinality(A)
  <2>1. B = A
    BY <1>5 DEF AtStep
  <2> QED
    BY <2>1
<1> QED
  BY <1>2, <1>3, <1>4, <1>5

(* The same for the two steps that CounterAccounting counts. *)
LEMMA CountsAfterMove ==
  ASSUME NEW p \in Producers, \A q \in Producers \ {p} : ppc'[q] = ppc[q]
  PROVE  LET U == Cardinality(Uncounted)
             D == Cardinality(Unsubtracted)
         IN  /\ U \in Nat /\ D \in Nat
             /\ ppc'[p] = "count" /\ ppc[p] # "count" => U' = U + 1
             /\ ppc'[p] # "count" /\ ppc[p] = "count" => U' = U - 1
             /\ (ppc'[p] = "count" <=> ppc[p] = "count") => U' = U
             /\ ppc'[p] = "subtract" /\ ppc[p] # "subtract" => D' = D + 1
             /\ ppc'[p] # "subtract" /\ ppc[p] = "subtract" => D' = D - 1
             /\ (ppc'[p] = "subtract" <=> ppc[p] = "subtract") => D' = D
<1>1. /\ Uncounted = AtStep(ppc, "count") /\ Unsubtracted = AtStep(ppc, "subtract")
      /\ Uncounted' = AtStep(ppc', "count") /\ Unsubtracted' = AtStep(ppc', "subtract")
  BY DEF Uncounted, Unsubtracted, AtStep
<1> DEFINE C(pcs, c) == Cardinality(AtStep(pcs, c))
<1>2. ASSUME NEW c
      PROVE  /\ C(ppc, c) \in Nat
             /\ ppc'[p] = c /\ ppc[p] # c => C(ppc', c) = C(ppc, c) + 1
             /\ ppc'[p] # c /\ ppc[p] = c => C(ppc', c) = C(ppc, c) - 1
             /\ (ppc'[p] = c <=> ppc[p] = c) => C(ppc', c) = C(ppc, c)
  BY ProducerMoves
<1>3. /\ Cardinality(Uncounted) = C(ppc, "count")
      /\ Cardinality(Uncounted)' = C(ppc', "count")
      /\ Cardinality(Unsubtracted) = C(ppc, "subtract")
      /\ Cardinality(Unsubtracted)' = C(ppc', "subtract")
  BY <1>1
<1> HIDE DEF C
<1> QED
  BY <1>2, <1>3

CounterInv == BatchOnlyInFlush /\ CounterAccounting

(* Every step of a producer keeps the counter's equation. *)
LEMMA ProducerKeepsCounter ==
  ASSUME TypeOK, CounterInv, NEW p \in Producers,
         Capture(p) \/ EnqueueStep(p) \/ ProducerEnds(p)
  PROVE  CounterInv'
<1> DEFINE U == Cardinality(Uncounted)
           D == Cardinality(Unsubtracted)
           R == popped - pushed + (IF fpc = "drain" THEN Len(batch) ELSE 0)
<1> USE DEF queueVars, flushVars, dropVars, fateVars, captureVars, envVars
<1>0. DOMAIN ppc = Producers /\ \A q \in Producers \ {p} : ppc'[q] = ppc[q]
  BY DEF TypeOK, ProducerType, Capture, EnqueueStep, LoadSize, DropOldest,
         SubtractDrop, Push, CountPush, ProducerEnds
<1>1. /\ ppc'[p] = "count" /\ ppc[p] # "count" => U' = U + 1
      /\ ppc'[p] # "count" /\ ppc[p] = "count" => U' = U - 1
      /\ (ppc'[p] = "count" <=> ppc[p] = "count") => U' = U
      /\ ppc'[p] = "subtract" /\ ppc[p] # "subtract" => D' = D + 1
      /\ ppc'[p] # "subtract" /\ ppc[p] = "subtract" => D' = D - 1
      /\ (ppc'[p] = "subtract" <=> ppc[p] = "subtract") => D' = D
  BY <1>0, CountsAfterMove
<1>12. U \in Nat /\ D \in Nat
  BY <1>0, CountsAfterMove
<1>13. Len(queue') \in Nat
  BY ProducerKeepsTypes, SeqFacts DEF TypeOK, CounterType
<1>2. /\ Len(queue) \in Nat /\ Len(batch) \in Nat /\ size \in Int
      /\ popped \in Nat /\ pushed \in Nat
      /\ queue # <<>> => Len(Tail(queue)) = Len(queue) - 1
      /\ \A x \in Events : Len(Append(queue, x)) = Len(queue) + 1
  BY SeqFacts DEF TypeOK, CounterType, FlusherType
<1>3. BatchOnlyInFlush' /\ UNCHANGED <<fpc, batch, popped, pushed>>
  BY DEF CounterInv, BatchOnlyInFlush, Capture, EnqueueStep, LoadSize, DropOldest,
         SubtractDrop, Push, CountPush, ProducerEnds
<1>4. /\ size = Len(queue) - U + D + R
      /\ CounterAccounting' <=> size' = Len(queue') - U' + D' + R
      /\ R \in Int
  <2>1. CounterAccounting' <=> size' = Len(queue') - U' + D' + R
    <3>1. Len(queue') \in Int /\ U' \in Int /\ D' \in Int
      BY <1>0, <1>1, <1>12, <1>13
    <3>2. QED
      BY <1>2, <1>3, <3>1 DEF CounterAccounting
  <2>2. QED
    BY <1>12, <1>2, <1>3, <2>1 DEF CounterInv, CounterAccounting
<1> HIDE DEF U, D, R
<1>5. CASE Capture(p)
  <2>1. UNCHANGED <<queue, size>>
    BY <1>5 DEF Capture
  <2>0. ppc'[p] \in {"idle", "load"} /\ ppc[p] = "idle"
    BY <1>0, <1>5 DEF Capture
  <2>2. U' = U /\ D' = D
    BY <1>1, <2>0
  <2> QED
    BY <1>3, <1>4, <2>1, <2>2 DEF CounterInv
<1>6. CASE LoadSize(p)
  <2>1. U' = U /\ D' = D
    <3>1. ppc'[p] \in {"drop", "push"} /\ ppc[p] = "load"
      BY <1>0, <1>6 DEF LoadSize
    <3> QED
      BY <1>1, <3>1
  <2> QED
    BY <1>3, <1>4, <1>6, <2>1 DEF CounterInv, LoadSize
<1>7. CASE DropOldest(p)
  <2>1. CASE queue = <<>>
    <3>0. ppc'[p] = "push" /\ ppc[p] = "drop"
      BY <1>0, <1>7, <2>1 DEF DropOldest
    <3>1. U' = U /\ D' = D
      BY <1>1, <3>0
    <3> QED
      BY <1>3, <1>4, <1>7, <2>1, <3>1 DEF CounterInv, DropOldest
  <2>2. CASE queue # <<>>
    <3>0. ppc'[p] = "subtract" /\ ppc[p] = "drop"
      BY <1>0, <1>7, <2>2 DEF DropOldest
    <3>1. U' = U /\ D' = D + 1
      BY <1>1, <3>0
    <3>2. size' = size /\ Len(queue') = Len(queue) - 1
      BY <1>2, <1>7, <2>2 DEF DropOldest
    <3> QED
      BY <1>12, <1>2, <1>3, <1>4, <3>1, <3>2 DEF CounterInv
  <2> QED
    BY <2>1, <2>2
<1>8. CASE SubtractDrop(p)
  <2>0. ppc'[p] = "push" /\ ppc[p] = "subtract"
    BY <1>0, <1>8 DEF SubtractDrop
  <2>1. U' = U /\ D' = D - 1
    BY <1>1, <2>0
  <2>2. size' = size - 1 /\ queue' = queue
    BY <1>8 DEF SubtractDrop
  <2> QED
    BY <1>12, <1>2, <1>3, <1>4, <2>1, <2>2 DEF CounterInv
<1>9. CASE Push(p)
  <2>0. ppc'[p] = "count" /\ ppc[p] = "push"
    BY <1>0, <1>9 DEF Push
  <2>1. U' = U + 1 /\ D' = D
    BY <1>1, <2>0
  <2>2. hand[p] \in Events
    BY <1>9 DEF Push, TypeOK, ProducerType
  <2>3. Len(queue') = Len(queue) + 1 /\ size' = size
    BY <1>2, <1>9, <2>2 DEF Push
  <2> QED
    BY <1>12, <1>2, <1>3, <1>4, <2>1, <2>3 DEF CounterInv
<1>10. CASE CountPush(p)
  <2>0. ppc'[p] = "idle" /\ ppc[p] = "count"
    BY <1>0, <1>10 DEF CountPush
  <2>1. U' = U - 1 /\ D' = D
    BY <1>1, <2>0
  <2>2. size' = size + 1 /\ queue' = queue
    BY <1>10 DEF CountPush
  <2> QED
    BY <1>12, <1>2, <1>3, <1>4, <2>1, <2>2 DEF CounterInv
<1>11. CASE ProducerEnds(p)
  <2>0. ppc'[p] = "ended" /\ ppc[p] = "idle"
    BY <1>0, <1>11 DEF ProducerEnds
  <2>1. U' = U /\ D' = D
    BY <1>1, <2>0
  <2>2. size' = size /\ queue' = queue
    BY <1>11 DEF ProducerEnds
  <2> QED
    BY <1>3, <1>4, <2>1, <2>2 DEF CounterInv
<1> QED
  BY <1>5, <1>6, <1>7, <1>8, <1>9, <1>10, <1>11 DEF EnqueueStep

(* Every step of the flusher keeps the counter's equation. *)
LEMMA FlusherKeepsCounter ==
  ASSUME TypeOK, CounterInv, FlusherStep
  PROVE  CounterInv'
<1> DEFINE U == Cardinality(Uncounted)
           D == Cardinality(Unsubtracted)
<1> USE DEF queueVars, flushVars, dropVars, fateVars, captureVars, envVars
<1>1. U' = U /\ D' = D
  <2>1. UNCHANGED ppc
    BY DEF FlusherStep, Tick, FlushStart, DrainPop, DrainEnd, SendOk, SendFails,
           RequeueLoad, RequeueDrop, RequeueDropEnd, RequeuePush, RequeueEnd, MarkSent, Housekeep
  <2> QED
    BY <2>1 DEF Uncounted, Unsubtracted
<1>2. U \in Nat /\ D \in Nat
  <2>1. Uncounted \subseteq Producers /\ Unsubtracted \subseteq Producers
    BY DEF Uncounted, Unsubtracted
  <2> QED
    BY <2>1, PipelineAssumption, FS_Subset, FS_CardinalityType
<1>3. /\ Len(queue) \in Nat /\ Len(batch) \in Nat /\ size \in Int
      /\ popped \in Nat /\ pushed \in Nat
      /\ queue # <<>> => Len(Tail(queue)) = Len(queue) - 1 /\ Head(queue) \in Events
      /\ batch # <<>> => Len(Tail(batch)) = Len(batch) - 1 /\ Head(batch) \in Events
      /\ \A x \in Events : /\ Len(Append(queue, x)) = Len(queue) + 1
                           /\ Len(Append(batch, x)) = Len(batch) + 1
      /\ Len(<<>>) = 0
  BY SeqFacts DEF TypeOK, CounterType, FlusherType
<1>4. /\ size = Len(queue) - U - pushed + D + popped
                  + (IF fpc = "drain" THEN Len(batch) ELSE 0)
      /\ CounterAccounting' <=>
           size' = Len(queue') - U' - pushed' + D' + popped'
                    + (IF fpc' = "drain" THEN Len(batch') ELSE 0)
      /\ BatchOnlyInFlush
  BY DEF CounterInv, CounterAccounting
<1>5. \A r \in {"ok", "none", "err"} : Returned(r) \in {"flush", "ended", "mark", "house"}
  BY ReturnedType DEF TypeOK, FlagType
<1> HIDE DEF U, D
<1>6. CASE Tick
  <2>1. /\ fpc = "idle" /\ fpc' = "flush" /\ UNCHANGED <<batch, queue, size, popped, pushed>>
    BY <1>6 DEF Tick
  <2>2. BatchOnlyInFlush'
    BY <1>4, <2>1 DEF BatchOnlyInFlush
  <2>3. CounterAccounting'
    BY <1>1, <1>2, <1>3, <1>4, <2>1
  <2> QED
    BY <2>2, <2>3 DEF CounterInv
<1>7. CASE FlushStart
  <2>1. /\ fpc = "flush" /\ fpc' \in {"drain", "flush", "ended", "mark", "house"}
        /\ UNCHANGED <<batch, queue, size, popped, pushed>>
    BY <1>7, <1>5 DEF FlushStart
  <2>2. BatchOnlyInFlush'
    BY <1>4, <2>1 DEF BatchOnlyInFlush
  <2>4. Len(batch) = 0 /\ Len(batch') = 0
    BY <1>3, <1>4, <2>1 DEF BatchOnlyInFlush
  <2>3. CounterAccounting'
    BY <1>1, <1>2, <1>3, <1>4, <2>1, <2>4
  <2> QED
    BY <2>2, <2>3 DEF CounterInv
<1>8. CASE DrainPop
  <2>1. /\ fpc = "drain" /\ fpc' = "drain" /\ UNCHANGED <<size, popped, pushed>>
        /\ Len(queue') = Len(queue) - 1 /\ Len(batch') = Len(batch) + 1
    BY <1>8, <1>3 DEF DrainPop
  <2>2. BatchOnlyInFlush'
    BY <1>4, <2>1 DEF BatchOnlyInFlush
  <2>3. CounterAccounting'
    BY <1>1, <1>2, <1>3, <1>4, <2>1
  <2> QED
    BY <2>2, <2>3 DEF CounterInv
<1>9. CASE DrainEnd
  <2>1. /\ fpc = "drain" /\ fpc' \in {"send", "flush", "ended", "mark", "house"}
        /\ fpc' = "send" \/ batch = <<>>
        /\ UNCHANGED <<batch, queue, popped, pushed>> /\ size' = size - Len(batch)
    BY <1>9, <1>5 DEF DrainEnd
  <2>2. BatchOnlyInFlush'
    BY <1>4, <2>1 DEF BatchOnlyInFlush
  <2>4. fpc' # "drain"
    BY <2>1
  <2>3. CounterAccounting'
    BY <1>1, <1>2, <1>3, <1>4, <2>1, <2>4
  <2> QED
    BY <2>2, <2>3 DEF CounterInv
<1>10. CASE SendOk
  <2>1. /\ fpc = "send" /\ fpc' \in {"flush", "ended", "mark", "house"} /\ batch' = <<>>
        /\ UNCHANGED <<queue, size, popped, pushed>>
    BY <1>10, <1>5 DEF SendOk
  <2>2. BatchOnlyInFlush'
    BY <1>4, <2>1 DEF BatchOnlyInFlush
  <2>4. fpc' # "drain" /\ fpc # "drain"
    BY <2>1
  <2>3. CounterAccounting'
    BY <1>1, <1>2, <1>3, <1>4, <2>1, <2>4
  <2> QED
    BY <2>2, <2>3 DEF CounterInv
<1>11. CASE SendFails
  <2>1. /\ fpc = "send" /\ fpc' \in {"send", "requeue"}
        /\ UNCHANGED <<batch, queue, size, popped, pushed>>
    BY <1>11 DEF SendFails
  <2>2. BatchOnlyInFlush'
    BY <1>4, <2>1 DEF BatchOnlyInFlush
  <2>4. fpc' # "drain" /\ fpc # "drain"
    BY <2>1
  <2>3. CounterAccounting'
    BY <1>1, <1>2, <1>3, <1>4, <2>1, <2>4
  <2> QED
    BY <2>2, <2>3 DEF CounterInv
<1>12. CASE RequeueLoad
  <2>1. /\ fpc = "requeue" /\ fpc' \in {"requeueDrop", "requeuePush"}
        /\ UNCHANGED <<batch, queue, size, popped, pushed>>
    BY <1>12 DEF RequeueLoad
  <2>2. BatchOnlyInFlush'
    BY <1>4, <2>1 DEF BatchOnlyInFlush
  <2>4. fpc' # "drain" /\ fpc # "drain"
    BY <2>1
  <2>3. CounterAccounting'
    BY <1>1, <1>2, <1>3, <1>4, <2>1, <2>4
  <2> QED
    BY <2>2, <2>3 DEF CounterInv
<1>13. CASE RequeueDrop
  <2>1. /\ fpc = "requeueDrop" /\ fpc' = "requeueDrop" /\ UNCHANGED <<batch, size, pushed>>
        /\ Len(queue') = Len(queue) - 1 /\ popped' = popped + 1
    BY <1>13, <1>3 DEF RequeueDrop
  <2>2. BatchOnlyInFlush'
    BY <1>4, <2>1 DEF BatchOnlyInFlush
  <2>3. CounterAccounting'
    BY <1>1, <1>2, <1>3, <1>4, <2>1
  <2> QED
    BY <2>2, <2>3 DEF CounterInv
<1>14. CASE RequeueDropEnd
  <2>1. /\ fpc = "requeueDrop" /\ fpc' = "requeuePush" /\ UNCHANGED <<batch, queue, pushed>>
        /\ size' = size - popped /\ popped' = 0
    BY <1>14 DEF RequeueDropEnd
  <2>2. BatchOnlyInFlush'
    BY <1>4, <2>1 DEF BatchOnlyInFlush
  <2>3. CounterAccounting'
    BY <1>1, <1>2, <1>3, <1>4, <2>1
  <2> QED
    BY <2>2, <2>3 DEF CounterInv
<1>15. CASE RequeuePush
  <2>1. /\ fpc = "requeuePush" /\ fpc' = "requeuePush" /\ UNCHANGED <<size, popped>>
        /\ Len(queue') = Len(queue) + 1 /\ pushed' = pushed + 1
    BY <1>15, <1>3 DEF RequeuePush
  <2>2. BatchOnlyInFlush'
    BY <1>4, <2>1 DEF BatchOnlyInFlush
  <2>3. CounterAccounting'
    BY <1>1, <1>2, <1>3, <1>4, <2>1
  <2> QED
    BY <2>2, <2>3 DEF CounterInv
<1>16. CASE RequeueEnd
  <2>1. /\ fpc = "requeuePush" /\ fpc' \in {"flush", "ended", "mark", "house"}
        /\ batch = <<>> /\ UNCHANGED <<batch, queue, popped>>
        /\ size' = size + pushed /\ pushed' = 0
    BY <1>16, <1>5 DEF RequeueEnd
  <2>2. BatchOnlyInFlush'
    BY <1>4, <2>1 DEF BatchOnlyInFlush
  <2>3. CounterAccounting'
    BY <1>1, <1>2, <1>3, <1>4, <2>1
  <2> QED
    BY <2>2, <2>3 DEF CounterInv
<1>17. CASE MarkSent
  <2>1. /\ fpc = "mark" /\ fpc' = "house" /\ UNCHANGED <<batch, queue, size, popped, pushed>>
    BY <1>17 DEF MarkSent
  <2>2. BatchOnlyInFlush'
    BY <1>4, <2>1 DEF BatchOnlyInFlush
  <2>3. CounterAccounting'
    BY <1>1, <1>2, <1>3, <1>4, <2>1
  <2> QED
    BY <2>2, <2>3 DEF CounterInv
<1>18. CASE Housekeep
  <2>1. /\ fpc = "house" /\ fpc' = "idle" /\ UNCHANGED <<batch, queue, size, popped, pushed>>
    BY <1>18 DEF Housekeep
  <2>2. BatchOnlyInFlush'
    BY <1>4, <2>1 DEF BatchOnlyInFlush
  <2>3. CounterAccounting'
    BY <1>1, <1>2, <1>3, <1>4, <2>1
  <2> QED
    BY <2>2, <2>3 DEF CounterInv
<1> QED
  BY <1>6, <1>7, <1>8, <1>9, <1>10, <1>11, <1>12, <1>13, <1>14, <1>15, <1>16, <1>17, <1>18 DEF FlusherStep

(* So the counter's equation always holds. *)
LEMMA CounterInvariant == Spec => []CounterInv
<1>1. Init => CounterInv
  <2> SUFFICES ASSUME Init PROVE CounterInv
    OBVIOUS
  <2>1. Uncounted = {} /\ Unsubtracted = {}
    BY DEF Init, Uncounted, Unsubtracted
  <2>2. Cardinality(Uncounted) = 0 /\ Cardinality(Unsubtracted) = 0 /\ Len(queue) = 0
    BY <2>1, FS_EmptySet, EmptySeq DEF Init
  <2> QED
    BY <2>2 DEF Init, CounterInv, BatchOnlyInFlush, CounterAccounting
<1>2. TypeOK /\ CounterInv /\ [Next]_vars => CounterInv'
  <2> SUFFICES ASSUME TypeOK, CounterInv, [Next]_vars PROVE CounterInv'
    OBVIOUS
  <2> USE DEF queueVars, flushVars, dropVars, fateVars, captureVars, envVars
  <2>1. ASSUME UNCHANGED <<ppc, queue, size, fpc, batch, popped, pushed>>
        PROVE  CounterInv'
    BY <2>1 DEF CounterInv, BatchOnlyInFlush, CounterAccounting, Uncounted, Unsubtracted
  <2>2. CASE UNCHANGED vars
    BY <2>1, <2>2 DEF vars
  <2>3. CASE \E p \in Producers : Capture(p) \/ EnqueueStep(p) \/ ProducerEnds(p)
    BY <2>3, ProducerKeepsCounter
  <2>4. CASE FlusherStep
    BY <2>4, FlusherKeepsCounter
  <2>5. CASE CooldownElapses \/ ServerChanges \/ ScheduleChanges \/ Shutdown
    BY <2>1, <2>5 DEF CooldownElapses, ServerChanges, ScheduleChanges, Shutdown
  <2>6. CASE Restart
    <3>1. Uncounted' = {} /\ Unsubtracted' = {}
      BY <2>6 DEF Restart, Uncounted, Unsubtracted
    <3>2. Cardinality(Uncounted') = 0 /\ Cardinality(Unsubtracted') = 0 /\ Len(queue') = 0
      BY <2>6, <3>1, FS_EmptySet, EmptySeq DEF Restart
    <3> QED
      BY <2>6, <3>2 DEF Restart, CounterInv, BatchOnlyInFlush, CounterAccounting
  <2> QED
    BY <2>2, <2>3, <2>4, <2>5, <2>6 DEF Next
<1> QED
  BY <1>1, <1>2, TypeCorrect, PTL DEF Spec

(* The counter never drifts, for any number of producers and any sizes: at  *)
(* every moment it differs from the queue's length by exactly the pushes    *)
(* and pops in progress.                                                    *)
THEOREM CounterNeverDrifts == Spec => []CounterAccounting
<1>1. CounterInv => CounterAccounting
  BY DEF CounterInv
<1> QED
  BY <1>1, CounterInvariant, PTL

-----------------------------------------------------------------------------
(***************************************************************************)
(* Where the events are.  Of all that a step changes, Moves keeps only     *)
(* what happens to the events; the invariant is that the seven places an   *)
(* event can be in are disjoint and hold exactly what has been captured,   *)
(* and that none holds an event twice.                                     *)
(***************************************************************************)
Elems(s)    == {s[i] : i \in DOMAIN s}
OnceEach(s) == \A i, j \in DOMAIN s : s[i] = s[j] => i = j

CaptureMove ==
  /\ next <= NumEvents /\ next' = next + 1
  /\ \/ /\ \E p \in Producers : hand[p] = NoEvent /\ hand' = [hand EXCEPT ![p] = next]
        /\ UNCHANGED withheld
     \/ UNCHANGED hand /\ withheld' = withheld \cup {next}
  /\ UNCHANGED <<queue, batch, acked, dropped, lost>>
DropMove ==
  /\ queue # <<>> /\ queue' = Tail(queue) /\ dropped' = dropped \cup {Head(queue)}
  /\ UNCHANGED <<hand, batch, next, withheld, acked, lost>>
PushMove ==
  /\ \E p \in Producers : /\ hand[p] # NoEvent /\ queue' = Append(queue, hand[p])
                          /\ hand' = [hand EXCEPT ![p] = NoEvent]
  /\ UNCHANGED <<batch, next, withheld, acked, dropped, lost>>
DrainMove ==
  /\ queue # <<>> /\ queue' = Tail(queue) /\ batch' = Append(batch, Head(queue))
  /\ UNCHANGED <<hand, next, withheld, acked, dropped, lost>>
SendMove ==
  /\ acked' = acked \cup Elems(batch) /\ batch' = <<>>
  /\ UNCHANGED <<hand, queue, next, withheld, dropped, lost>>
RequeueMove ==
  /\ batch # <<>> /\ queue' = Append(queue, Head(batch)) /\ batch' = Tail(batch)
  /\ UNCHANGED <<hand, next, withheld, acked, dropped, lost>>
RestartMove ==
  /\ lost' = lost \cup dropped \cup InHands \cup Elems(queue) \cup Elems(batch)
  /\ hand' = [p \in Producers |-> NoEvent]
  /\ queue' = <<>> /\ batch' = <<>> /\ dropped' = {}
  /\ UNCHANGED <<withheld, acked, next>>
NoMove == UNCHANGED <<hand, queue, batch, next, withheld, acked, dropped, lost>>

Moves ==
  \/ CaptureMove \/ DropMove \/ PushMove \/ DrainMove \/ SendMove \/ RequeueMove
  \/ RestartMove \/ NoMove

(* Every step moves events in one of these ways. *)
LEMMA StepsMove ==
  ASSUME TypeOK, [Next]_vars
  PROVE  Moves
<1> USE DEF queueVars, flushVars, dropVars, fateVars, captureVars, envVars
<1>1. CASE UNCHANGED vars
  BY <1>1 DEF vars, Moves, NoMove
<1>2. ASSUME NEW p \in Producers, Capture(p) PROVE Moves
  <2>1. hand[p] = NoEvent
    BY <1>2 DEF Capture, TypeOK, ProducerType
  <2> QED
    BY <1>2, <2>1 DEF Capture, Moves, CaptureMove
<1>3. ASSUME NEW p \in Producers, EnqueueStep(p) \/ ProducerEnds(p) PROVE Moves
  <2>1. CASE DropOldest(p)
    BY <2>1 DEF DropOldest, Moves, DropMove, NoMove
  <2>2. CASE Push(p)
    <3>1. hand[p] # NoEvent
      BY <2>2, PipelineAssumption DEF Push, TypeOK, ProducerType, Events, NoEvent
    <3> QED
      BY <2>2, <3>1 DEF Push, Moves, PushMove
  <2>3. CASE LoadSize(p) \/ SubtractDrop(p) \/ CountPush(p) \/ ProducerEnds(p)
    BY <2>3 DEF LoadSize, SubtractDrop, CountPush, ProducerEnds, Moves, NoMove
  <2> QED
    BY <1>3, <2>1, <2>2, <2>3 DEF EnqueueStep
<1>4. CASE FlusherStep
  <2>1. CASE DrainPop
    BY <2>1 DEF DrainPop, Moves, DrainMove
  <2>2. CASE SendOk
    BY <2>2 DEF SendOk, Moves, SendMove, Elems, InBatch
  <2>3. CASE RequeueDrop
    BY <2>3 DEF RequeueDrop, Moves, DropMove
  <2>4. CASE RequeuePush
    BY <2>4 DEF RequeuePush, Moves, RequeueMove
  <2>5. CASE \/ Tick \/ FlushStart \/ DrainEnd \/ SendFails \/ RequeueLoad \/ RequeueDropEnd
             \/ RequeueEnd \/ MarkSent \/ Housekeep
    BY <2>5 DEF Tick, FlushStart, DrainEnd, SendFails, RequeueLoad, RequeueDropEnd,
                RequeueEnd, MarkSent, Housekeep, Moves, NoMove
  <2> QED
    BY <1>4, <2>1, <2>2, <2>3, <2>4, <2>5 DEF FlusherStep
<1>5. CASE CooldownElapses \/ ServerChanges \/ ScheduleChanges \/ Shutdown
  BY <1>5 DEF CooldownElapses, ServerChanges, ScheduleChanges, Shutdown, Moves, NoMove
<1>6. CASE Restart
  BY <1>6 DEF Restart, Moves, RestartMove, Elems, InQueue, InBatch
<1> QED
  BY <1>1, <1>2, <1>3, <1>4, <1>5, <1>6 DEF Next

(* Popping takes the head away, ... *)
LEMMA PopElems ==
  ASSUME NEW S, NEW q \in Seq(S), q # <<>>, OnceEach(q)
  PROVE  /\ OnceEach(Tail(q)) /\ Head(q) \in Elems(q)
         /\ Elems(Tail(q)) = Elems(q) \ {Head(q)}
<1> DEFINE n == Len(q)
           t == Tail(q)
<1>1. /\ n \in Nat /\ n > 0 /\ DOMAIN q = 1..n /\ Head(q) = q[1]
      /\ t \in Seq(S) /\ Len(t) = n - 1 /\ DOMAIN t = 1..(n - 1)
      /\ \A i \in 1..(n - 1) : t[i] = q[i + 1]
  BY HeadTailProperties
<1> HIDE DEF n, t
<1>2. \A i \in 1..(n - 1) : i + 1 \in 1..n /\ i + 1 # 1
  BY <1>1
<1>3. OnceEach(t)
  <2> SUFFICES ASSUME NEW i \in 1..(n - 1), NEW j \in 1..(n - 1), t[i] = t[j] PROVE i = j
    BY <1>1 DEF OnceEach
  <2>1. i + 1 = j + 1
    BY <1>1, <1>2 DEF OnceEach
  <2> QED
    BY <2>1
<1>4. 1 \in DOMAIN q
  BY <1>1
<1>5. ASSUME NEW x PROVE x \in Elems(t) <=> x \in Elems(q) \ {q[1]}
  <2>1. ASSUME x \in Elems(t) PROVE x \in Elems(q) \ {q[1]}
    <3>1. PICK i \in 1..(n - 1) : x = t[i]
      BY <1>1, <2>1 DEF Elems
    <3>2. x = q[i + 1] /\ i + 1 \in DOMAIN q /\ i + 1 # 1
      BY <1>1, <1>2, <3>1
    <3> QED
      BY <1>4, <3>2 DEF Elems, OnceEach
  <2>2. ASSUME x \in Elems(q) \ {q[1]} PROVE x \in Elems(t)
    <3>1. PICK i \in 1..n : x = q[i]
      BY <1>1, <2>2 DEF Elems
    <3>2. i - 1 \in 1..(n - 1) /\ (i - 1) + 1 = i
      <4>1. i # 1
        BY <2>2, <3>1
      <4> QED
        BY <1>1, <4>1
    <3>3. t[i - 1] = x /\ i - 1 \in DOMAIN t
      BY <1>1, <3>1, <3>2
    <3> QED
      BY <3>3 DEF Elems
  <2> QED
    BY <2>1, <2>2
<1>6. Elems(t) = Elems(q) \ {q[1]}
  BY <1>5
<1> QED
  BY <1>1, <1>3, <1>4, <1>6 DEF Elems, t

(* ... and pushing adds one element. *)
LEMMA PushElems ==
  ASSUME NEW S, NEW q \in Seq(S), NEW x \in S, x \notin Elems(q), OnceEach(q)
  PROVE  OnceEach(Append(q, x)) /\ Elems(Append(q, x)) = Elems(q) \cup {x}
<1> DEFINE n == Len(q)
           t == Append(q, x)
<1>1. /\ n \in Nat /\ DOMAIN q = 1..n /\ DOMAIN t = 1..(n + 1)
      /\ \A i \in 1..n : t[i] = q[i]
      /\ t[n + 1] = x
  BY AppendProperties
<1> HIDE DEF n, t
<1>2. \A i \in 1..(n + 1) : i \in 1..n \/ i = n + 1
  BY <1>1
<1>3. \A i \in 1..n : t[i] # x
  BY <1>1 DEF Elems
<1>4. OnceEach(t)
  <2> SUFFICES ASSUME NEW i \in 1..(n + 1), NEW j \in 1..(n + 1), t[i] = t[j] PROVE i = j
    BY <1>1 DEF OnceEach
  <2>1. CASE i \in 1..n /\ j \in 1..n
    BY <1>1, <2>1 DEF OnceEach
  <2>2. CASE i = n + 1 \/ j = n + 1
    BY <1>1, <1>2, <1>3, <2>2
  <2> QED
    BY <1>2, <2>1, <2>2
<1>5. \A i \in 1..n : i \in 1..(n + 1)
  BY <1>1
<1>6. n + 1 \in 1..(n + 1)
  BY <1>1
<1>7. Elems(t) = Elems(q) \cup {x}
  BY <1>1, <1>2, <1>5, <1>6 DEF Elems
<1> QED
  BY <1>4, <1>7 DEF t

(* A producer takes the new event, ... *)
LEMMA HandTakes ==
  ASSUME TypeOK, NEW p \in Producers, hand[p] = NoEvent, hand' = [hand EXCEPT ![p] = next],
         next \in Events
  PROVE  InHands' = InHands \cup {next}
<1>1. \A q \in Producers : hand'[q] = IF q = p THEN next ELSE hand[q]
  BY DEF TypeOK, ProducerType
<1>2. next # NoEvent
  BY PipelineAssumption DEF Events, NoEvent
<1> QED
  BY <1>1, <1>2 DEF InHands

(* ... and puts down what no other holds. *)
LEMMA HandGives ==
  ASSUME TypeOK, NEW p \in Producers, hand' = [hand EXCEPT ![p] = NoEvent], hand[p] # NoEvent,
         \A q \in Producers : hand[q] = hand[p] => q = p
  PROVE  InHands' = InHands \ {hand[p]} /\ hand[p] \in InHands
<1>1. \A q \in Producers : hand'[q] = IF q = p THEN NoEvent ELSE hand[q]
  BY DEF TypeOK, ProducerType
<1> QED
  BY <1>1 DEF InHands

Parts(a, b, c, d, e, f, g, n) ==
  /\ a \cap (b \cup c \cup d \cup e \cup f \cup g) = {}
  /\ b \cap (c \cup d \cup e \cup f \cup g) = {}
  /\ c \cap (d \cup e \cup f \cup g) = {}
  /\ d \cap (e \cup f \cup g) = {}
  /\ e \cap (f \cup g) = {}
  /\ f \cap g = {}
  /\ a \cup b \cup c \cup d \cup e \cup f \cup g = 1..(n - 1)

HandsDiffer == \A p, q \in Producers : hand[p] = hand[q] /\ hand[p] # NoEvent => p = q

Placed ==
  /\ OnceEach(queue) /\ OnceEach(batch) /\ HandsDiffer
  /\ Parts(InHands, Elems(queue), Elems(batch), withheld, acked, dropped, lost, next)

(* No move puts an event into two places, or into none. *)
LEMMA MovesKeepPlaces ==
  ASSUME TypeOK, Placed, Moves
  PROVE  Placed'
<1> DEFINE H == InHands
           Q == Elems(queue)
           B == Elems(batch)
<1>1. /\ queue \in Seq(Events) /\ batch \in Seq(Events) /\ next \in 1..(NumEvents + 1)
      /\ hand \in [Producers -> Events \cup {NoEvent}]
      /\ OnceEach(queue) /\ OnceEach(batch) /\ HandsDiffer
      /\ Parts(H, Q, B, withheld, acked, dropped, lost, next)
  BY DEF TypeOK, CounterType, FlusherType, EventType, ProducerType, Placed
<1>2. OnceEach(<<>>) /\ Elems(<<>>) = {}
  BY DEF OnceEach, Elems
<1>3. CASE NoMove
  BY <1>1, <1>3 DEF NoMove, Placed, HandsDiffer, InHands
<1>4. CASE CaptureMove
  <2>1. next \in Events /\ next \notin 1..(next - 1) /\ 1..(next' - 1) = (1..(next - 1)) \cup {next}
    BY <1>1, <1>4, PipelineAssumption DEF CaptureMove, Events
  <2>2. UNCHANGED <<Q, B, acked, dropped, lost, queue, batch>>
    BY <1>4 DEF CaptureMove
  <2>3. CASE UNCHANGED hand /\ withheld' = withheld \cup {next}
    <3>1. H' = H /\ HandsDiffer'
      BY <1>1, <2>3 DEF InHands, HandsDiffer
    <3> HIDE DEF H, Q, B
    <3>2. Parts(H', Q', B', withheld', acked', dropped', lost', next')
      BY <1>1, <2>1, <2>2, <2>3, <3>1 DEF Parts
    <3> QED
      BY <1>1, <2>2, <3>1, <3>2 DEF Placed, H, Q, B
  <2>4. CASE /\ \E p \in Producers : hand[p] = NoEvent /\ hand' = [hand EXCEPT ![p] = next]
             /\ UNCHANGED withheld
    <3>1. PICK p \in Producers : hand[p] = NoEvent /\ hand' = [hand EXCEPT ![p] = next]
      BY <2>4
    <3>2. H' = H \cup {next}
      BY <2>1, <3>1, HandTakes
    <3>3. \A q \in Producers : hand'[q] = IF q = p THEN next ELSE hand[q]
      BY <1>1, <3>1
    <3>4. \A q \in Producers : hand[q] # next
      <4>1. \A q \in Producers : hand[q] # NoEvent => hand[q] \in H
        BY DEF InHands
      <4>2. H \subseteq 1..(next - 1)
        BY <1>1 DEF Parts
      <4>3. next # NoEvent
        BY <2>1 DEF NoEvent, Events
      <4> QED
        BY <2>1, <4>1, <4>2, <4>3
    <3>5. HandsDiffer'
      BY <1>1, <3>3, <3>4 DEF HandsDiffer
    <3> HIDE DEF H, Q, B
    <3>6. Parts(H', Q', B', withheld', acked', dropped', lost', next')
      BY <1>1, <2>1, <2>2, <2>4, <3>2 DEF Parts
    <3> QED
      BY <1>1, <2>2, <3>5, <3>6 DEF Placed, H, Q, B
  <2> QED
    BY <1>4, <2>3, <2>4 DEF CaptureMove
<1>5. CASE DropMove
  <2>1. /\ OnceEach(queue') /\ Head(queue) \in Q /\ Q' = Q \ {Head(queue)}
        /\ dropped' = dropped \cup {Head(queue)}
    BY <1>1, <1>5, PopElems DEF DropMove
  <2>2. UNCHANGED <<H, B, HandsDiffer, batch, withheld, acked, lost, next>>
    BY <1>5 DEF DropMove, InHands, HandsDiffer
  <2> HIDE DEF H, Q, B
  <2>3. Parts(H', Q', B', withheld', acked', dropped', lost', next')
    BY <1>1, <2>1, <2>2 DEF Parts
  <2> QED
    BY <1>1, <2>1, <2>2, <2>3 DEF Placed, H, Q, B
<1>6. CASE PushMove
  <2>1. PICK p \in Producers : /\ hand[p] # NoEvent /\ queue' = Append(queue, hand[p])
                               /\ hand' = [hand EXCEPT ![p] = NoEvent]
    BY <1>6 DEF PushMove
  <2>2. H' = H \ {hand[p]} /\ hand[p] \in H
    BY <1>1, <2>1, HandGives DEF HandsDiffer
  <2>3. hand[p] \in Events /\ hand[p] \notin Q
    BY <1>1, <2>1, <2>2 DEF Parts
  <2>4. OnceEach(queue') /\ Q' = Q \cup {hand[p]}
    BY <1>1, <2>1, <2>3, PushElems
  <2>5. UNCHANGED <<B, batch, withheld, acked, dropped, lost, next>>
    BY <1>6 DEF PushMove
  <2>6. HandsDiffer'
    <3>1. \A q \in Producers : hand'[q] = IF q = p THEN NoEvent ELSE hand[q]
      BY <1>1, <2>1
    <3> QED
      BY <1>1, <3>1 DEF HandsDiffer
  <2> HIDE DEF H, Q, B
  <2>7. Parts(H', Q', B', withheld', acked', dropped', lost', next')
    BY <1>1, <2>2, <2>4, <2>5 DEF Parts
  <2> QED
    BY <1>1, <2>4, <2>5, <2>6, <2>7 DEF Placed, H, Q, B
<1>7. CASE DrainMove
  <2>1. OnceEach(queue') /\ Head(queue) \in Q /\ Q' = Q \ {Head(queue)}
    BY <1>1, <1>7, PopElems DEF DrainMove
  <2>2. Head(queue) \in Events /\ Head(queue) \notin B
    BY <1>1, <1>7, <2>1, SeqFacts DEF DrainMove, Parts
  <2>3. OnceEach(batch') /\ B' = B \cup {Head(queue)}
    BY <1>1, <1>7, <2>2, PushElems DEF DrainMove
  <2>4. UNCHANGED <<H, HandsDiffer, withheld, acked, dropped, lost, next>>
    BY <1>7 DEF DrainMove, InHands, HandsDiffer
  <2> HIDE DEF H, Q, B
  <2>5. Parts(H', Q', B', withheld', acked', dropped', lost', next')
    BY <1>1, <2>1, <2>3, <2>4 DEF Parts
  <2> QED
    BY <1>1, <2>1, <2>3, <2>4, <2>5 DEF Placed, H, Q, B
<1>8. CASE SendMove
  <2>1. acked' = acked \cup B /\ B' = {} /\ OnceEach(batch')
    BY <1>2, <1>8 DEF SendMove
  <2>2. UNCHANGED <<H, Q, HandsDiffer, queue, withheld, dropped, lost, next>>
    BY <1>8 DEF SendMove, InHands, HandsDiffer
  <2> HIDE DEF H, Q, B
  <2>3. Parts(H', Q', B', withheld', acked', dropped', lost', next')
    BY <1>1, <2>1, <2>2 DEF Parts
  <2> QED
    BY <1>1, <2>1, <2>2, <2>3 DEF Placed, H, Q, B
<1>9. CASE RequeueMove
  <2>1. OnceEach(batch') /\ Head(batch) \in B /\ B' = B \ {Head(batch)}
    BY <1>1, <1>9, PopElems DEF RequeueMove
  <2>2. Head(batch) \in Events /\ Head(batch) \notin Q
    BY <1>1, <1>9, <2>1, SeqFacts DEF RequeueMove, Parts
  <2>3. OnceEach(queue') /\ Q' = Q \cup {Head(batch)}
    BY <1>1, <1>9, <2>2, PushElems DEF RequeueMove
  <2>4. UNCHANGED <<H, HandsDiffer, withheld, acked, dropped, lost, next>>
    BY <1>9 DEF RequeueMove, InHands, HandsDiffer
  <2> HIDE DEF H, Q, B
  <2>5. Parts(H', Q', B', withheld', acked', dropped', lost', next')
    BY <1>1, <2>1, <2>3, <2>4 DEF Parts
  <2> QED
    BY <1>1, <2>1, <2>3, <2>4, <2>5 DEF Placed, H, Q, B
<1>10. CASE RestartMove
  <2>1. /\ lost' = lost \cup dropped \cup H \cup Q \cup B /\ dropped' = {}
        /\ UNCHANGED <<withheld, acked, next>>
    BY <1>10 DEF RestartMove
  <2>2. OnceEach(queue') /\ OnceEach(batch') /\ Q' = {} /\ B' = {}
    BY <1>2, <1>10 DEF RestartMove
  <2>3. H' = {} /\ HandsDiffer'
    BY <1>10 DEF RestartMove, InHands, HandsDiffer
  <2> HIDE DEF H, Q, B
  <2>4. Parts(H', Q', B', withheld', acked', dropped', lost', next')
    BY <1>1, <2>1, <2>2, <2>3 DEF Parts
  <2> QED
    BY <2>2, <2>3, <2>4 DEF Placed, H, Q, B
<1> QED
  BY <1>3, <1>4, <1>5, <1>6, <1>7, <1>8, <1>9, <1>10 DEF Moves

(* So the places always partition what has been captured. *)
LEMMA PlacedAlways == Spec => []Placed
<1>1. Init => Placed
  <2> SUFFICES ASSUME Init PROVE Placed
    OBVIOUS
  <2>1. InHands = {} /\ HandsDiffer
    BY DEF Init, InHands, HandsDiffer
  <2>2. OnceEach(queue) /\ OnceEach(batch) /\ Elems(queue) = {} /\ Elems(batch) = {}
    BY DEF Init, OnceEach, Elems
  <2>3. withheld = {} /\ acked = {} /\ dropped = {} /\ lost = {} /\ 1..(next - 1) = {}
    BY DEF Init
  <2> QED
    BY <2>1, <2>2, <2>3 DEF Placed, Parts
<1>2. TypeOK /\ Placed /\ [Next]_vars => Placed'
  BY StepsMove, MovesKeepPlaces
<1> QED
  BY <1>1, <1>2, TypeCorrect, PTL DEF Spec

(* A set without two elements has one or none. *)
LEMMA AtMostOne ==
  ASSUME NEW S, \A x, y \in S : x = y
  PROVE  Cardinality(S) = IF S = {} THEN 0 ELSE 1
<1>1. CASE S = {}
  BY <1>1, FS_EmptySet
<1>2. CASE S # {}
  <2>1. PICK x \in S : TRUE
    BY <1>2
  <2>2. S = {x}
    BY <2>1
  <2> QED
    BY <1>2, <2>2, FS_Singleton
<1> QED
  BY <1>1, <1>2

(* No event vanishes or is duplicated on the client, for any number of      *)
(* capture loops and any interleaving of enqueue, drop, drain, retry,       *)
(* requeue and restart: each captured event is in exactly one place or has  *)
(* met exactly one fate (batch_uploader.rs:111-317).                        *)
THEOREM EachEventInOnePlace == Spec => []NoEventLostOrDuplicated
<1>1. TypeOK /\ Placed => NoEventLostOrDuplicated
  <2> SUFFICES ASSUME TypeOK, Placed, NEW e \in Events
               PROVE  Places(e) = (IF e < next THEN 1 ELSE 0)
    BY DEF NoEventLostOrDuplicated
  <2> DEFINE A == {p \in Producers : hand[p] = e}
             Q == {i \in DOMAIN queue : queue[i] = e}
             B == {i \in DOMAIN batch : batch[i] = e}
             F == {i \in 1..4 : e \in <<withheld, acked, dropped, lost>>[i]}
  <2>1. Parts(InHands, Elems(queue), Elems(batch), withheld, acked, dropped, lost, next)
    BY DEF Placed
  <2>2. e \in Nat /\ e # NoEvent /\ e >= 1 /\ next \in Nat
    BY PipelineAssumption DEF Events, NoEvent, TypeOK, EventType
  <2>3. Cardinality(A) = IF e \in InHands THEN 1 ELSE 0
    <3>1. \A p, q \in A : p = q
      BY <2>2 DEF Placed, HandsDiffer
    <3>2. A = {} <=> e \notin InHands
      BY <2>2 DEF InHands
    <3> QED
      BY <3>1, <3>2, AtMostOne
  <2>4. Cardinality(Q) = IF e \in Elems(queue) THEN 1 ELSE 0
    <3>1. \A i, j \in Q : i = j
      BY DEF Placed, OnceEach
    <3>2. Q = {} <=> e \notin Elems(queue)
      BY DEF Elems
    <3> QED
      BY <3>1, <3>2, AtMostOne
  <2>5. Cardinality(B) = IF e \in Elems(batch) THEN 1 ELSE 0
    <3>1. \A i, j \in B : i = j
      BY DEF Placed, OnceEach
    <3>2. B = {} <=> e \notin Elems(batch)
      BY DEF Elems
    <3> QED
      BY <3>1, <3>2, AtMostOne
  <2>6. Cardinality(F) = IF e \in withheld \cup acked \cup dropped \cup lost THEN 1 ELSE 0
    <3> DEFINE fates == <<withheld, acked, dropped, lost>>
    <3>0. /\ fates[1] = withheld /\ fates[2] = acked /\ fates[3] = dropped /\ fates[4] = lost
          /\ F = {i \in 1..4 : e \in fates[i]}
      OBVIOUS
    <3> HIDE DEF F, fates
    <3>4. \A i \in F : i \in {1, 2, 3, 4}
      BY <3>0
    <3>1. /\ 1 \in F <=> e \in withheld
          /\ 2 \in F <=> e \in acked
          /\ 3 \in F <=> e \in dropped
          /\ 4 \in F <=> e \in lost
      BY <3>0
    <3>2. \A i, j \in F : i = j
      BY <2>1, <3>1, <3>4 DEF Parts
    <3>3. F = {} <=> e \notin withheld \cup acked \cup dropped \cup lost
      BY <3>1, <3>4
    <3> QED
      BY <3>2, <3>3, AtMostOne
  <2>7. Places(e) = Cardinality(A) + Cardinality(Q) + Cardinality(B) + Cardinality(F)
    BY DEF Places
  <2> HIDE DEF A, Q, B, F
  <2>8. e < next <=> e \in 1..(next - 1)
    BY <2>2
  <2> QED
    BY <2>1, <2>3, <2>4, <2>5, <2>6, <2>7, <2>8 DEF Parts
<1> QED
  BY <1>1, TypeCorrect, PlacedAlways, PTL

(* The producers that have popped and not yet subtracted are finitely many. *)
LEMMA UnsubtractedFinite ==
  /\ Cardinality(Unsubtracted) \in Nat
  /\ UNCHANGED ppc => Cardinality(Unsubtracted)' = Cardinality(Unsubtracted)
<1>1. Unsubtracted \subseteq Producers
  BY DEF Unsubtracted
<1>2. IsFiniteSet(Unsubtracted)
  BY <1>1, PipelineAssumption, FS_Subset
<1>3. Cardinality(Unsubtracted) \in Nat
  BY <1>2, FS_CardinalityType
<1>4. UNCHANGED ppc => Unsubtracted' = Unsubtracted
  BY DEF Unsubtracted
<1> QED
  BY <1>3, <1>4

(* Every drop is counted once, through the requeue's deferred count and the *)
(* swap of take_dropped_since_last (batch_uploader.rs:111-171, 285-317).    *)
THEOREM EveryDropCounted == Spec => []DropsAccounted
<1>1. Init => DropsAccounted
  <2> SUFFICES ASSUME Init PROVE DropsAccounted
    OBVIOUS
  <2>1. Unsubtracted = {} /\ dropped = {} /\ reported = 0 /\ cycleDropped = 0 /\ popped = 0
    BY DEF Init, Unsubtracted
  <2>2. Cardinality({}) = 0
    BY FS_EmptySet
  <2> QED
    BY <2>1, <2>2 DEF DropsAccounted
<1>2. TypeOK /\ Placed /\ DropsAccounted /\ [Next]_vars => DropsAccounted'
  <2> SUFFICES ASSUME TypeOK, Placed, DropsAccounted, [Next]_vars PROVE DropsAccounted'
    OBVIOUS
  <2> USE DEF queueVars, flushVars, dropVars, fateVars, captureVars, envVars
  <2> DEFINE D == Cardinality(Unsubtracted)
             N == Cardinality(dropped)
  <2>1. /\ D \in Nat /\ reported \in Nat /\ cycleDropped \in Nat /\ popped \in Nat
        /\ N = reported + cycleDropped + popped + D
    BY UnsubtractedFinite DEF TypeOK, CounterType, FlusherType, DropsAccounted
  <2>2. IsFiniteSet(dropped)
    <3>1. IsFiniteSet(1..NumEvents)
      BY PipelineAssumption, FS_Interval
    <3> QED
      BY <3>1, FS_Subset DEF TypeOK, EventType, Events
  <2>3. ASSUME queue # <<>>, dropped' = dropped \cup {Head(queue)} PROVE N' = N + 1
    <3>1. Head(queue) \in Elems(queue)
      BY <2>3, PopElems DEF TypeOK, CounterType, Placed
    <3>2. Head(queue) \notin dropped
      BY <3>1 DEF Placed, Parts
    <3> QED
      BY <2>2, <2>3, <3>2, FS_AddElement
  <2>4. DropsAccounted' <=> N' = reported' + cycleDropped' + popped' + D'
    BY DEF DropsAccounted
  <2>5. ASSUME NEW p \in Producers, Capture(p) \/ EnqueueStep(p) \/ ProducerEnds(p)
        PROVE  DropsAccounted'
    <3>1. DOMAIN ppc = Producers /\ \A q \in Producers \ {p} : ppc'[q] = ppc[q]
      BY <2>5 DEF TypeOK, ProducerType, Capture, EnqueueStep, LoadSize, DropOldest,
             SubtractDrop, Push, CountPush, ProducerEnds
    <3>2. /\ ppc'[p] = "subtract" /\ ppc[p] # "subtract" => D' = D + 1
          /\ ppc'[p] # "subtract" /\ ppc[p] = "subtract" => D' = D - 1
          /\ (ppc'[p] = "subtract" <=> ppc[p] = "subtract") => D' = D
      BY <3>1, CountsAfterMove
    <3> HIDE DEF D, N
    <3>3. CASE DropOldest(p) /\ queue # <<>>
      <4>1. ppc'[p] = "subtract" /\ ppc[p] = "drop" /\ dropped' = dropped \cup {Head(queue)}
            /\ UNCHANGED <<reported, cycleDropped, popped>>
        BY <3>1, <3>3 DEF DropOldest
      <4>2. D' = D + 1 /\ N' = N + 1
        BY <2>3, <3>2, <3>3, <4>1
      <4> QED
        BY <2>1, <2>4, <4>1, <4>2
    <3>4. CASE SubtractDrop(p)
      <4>1. ppc'[p] = "push" /\ ppc[p] = "subtract" /\ cycleDropped' = cycleDropped + 1
            /\ UNCHANGED <<reported, popped, dropped>>
        BY <3>1, <3>4 DEF SubtractDrop
      <4>2. D' = D - 1 /\ N' = N
        BY <3>2, <4>1 DEF N
      <4> QED
        BY <2>1, <2>4, <4>1, <4>2
    <3>5. CASE \/ Capture(p) \/ LoadSize(p) \/ (DropOldest(p) /\ queue = <<>>) \/ Push(p)
               \/ CountPush(p) \/ ProducerEnds(p)
      <4>1. ppc[p] # "subtract" /\ ppc'[p] # "subtract"
            /\ UNCHANGED <<reported, cycleDropped, popped, dropped>>
        BY <3>1, <3>5 DEF Capture, LoadSize, DropOldest, Push, CountPush, ProducerEnds
      <4>2. D' = D /\ N' = N
        BY <3>2, <4>1 DEF N
      <4> QED
        BY <2>1, <2>4, <4>1, <4>2
    <3> QED
      BY <2>5, <3>3, <3>4, <3>5 DEF EnqueueStep
  <2>6. ASSUME UNCHANGED <<ppc, reported, cycleDropped, popped, dropped>> PROVE DropsAccounted'
    BY <2>1, <2>4, <2>6, UnsubtractedFinite
  <2>7. CASE FlusherStep
    <3>1. UNCHANGED ppc
      BY <2>7 DEF FlusherStep, Tick, FlushStart, DrainPop, DrainEnd, SendOk, SendFails, RequeueLoad,
             RequeueDrop, RequeueDropEnd, RequeuePush, RequeueEnd, MarkSent, Housekeep
    <3>2. D' = D
      BY <3>1, UnsubtractedFinite
    <3> HIDE DEF D, N
    <3>3. CASE RequeueDrop
      <4>1. popped' = popped + 1 /\ UNCHANGED <<reported, cycleDropped>>
        BY <3>3 DEF RequeueDrop
      <4>2. N' = N + 1
        BY <2>3, <3>3 DEF RequeueDrop
      <4> QED
        BY <2>1, <2>4, <3>2, <4>1, <4>2
    <3>4. CASE RequeueDropEnd
      <4>1. cycleDropped' = cycleDropped + popped /\ popped' = 0 /\ UNCHANGED <<reported, dropped>>
        BY <3>4 DEF RequeueDropEnd
      <4>2. N' = N
        BY <4>1 DEF N
      <4> QED
        BY <2>1, <2>4, <3>2, <4>1, <4>2
    <3>5. CASE Housekeep
      <4>1. reported' = reported + cycleDropped /\ cycleDropped' = 0 /\ UNCHANGED <<popped, dropped>>
        BY <3>5 DEF Housekeep
      <4>2. N' = N
        BY <4>1 DEF N
      <4> QED
        BY <2>1, <2>4, <3>2, <4>1, <4>2
    <3>6. CASE \/ Tick \/ FlushStart \/ DrainPop \/ DrainEnd \/ SendOk \/ SendFails \/ RequeueLoad
               \/ RequeuePush \/ RequeueEnd \/ MarkSent
      <4>1. UNCHANGED <<reported, cycleDropped, popped, dropped>>
        BY <3>6 DEF Tick, FlushStart, DrainPop, DrainEnd, SendOk, SendFails, RequeueLoad,
               RequeuePush, RequeueEnd, MarkSent
      <4> QED
        BY <2>6, <3>1, <4>1
    <3> QED
      BY <2>7, <3>3, <3>4, <3>5, <3>6 DEF FlusherStep
  <2>8. CASE Restart
    <3>1. Unsubtracted' = {} /\ dropped' = {} /\ reported' = 0 /\ cycleDropped' = 0 /\ popped' = 0
      BY <2>8 DEF Restart, Unsubtracted
    <3>2. Cardinality({}) = 0
      BY FS_EmptySet
    <3> QED
      BY <3>1, <3>2 DEF DropsAccounted
  <2>9. CASE CooldownElapses \/ ServerChanges \/ ScheduleChanges \/ Shutdown
    BY <2>6, <2>9 DEF CooldownElapses, ServerChanges, ScheduleChanges, Shutdown
  <2>10. CASE UNCHANGED vars
    BY <2>6, <2>10 DEF vars
  <2> QED
    BY <2>5, <2>7, <2>8, <2>9, <2>10 DEF Next
<1> QED
  BY <1>1, <1>2, TypeCorrect, PlacedAlways, PTL DEF Spec

-----------------------------------------------------------------------------
(***************************************************************************)
(* The refinement: the upload path implements the ledger of fates.         *)
(***************************************************************************)
Held == InHands \cup Elems(queue) \cup Elems(batch)

(* An event's fate says which places may hold it: *)
FateOK ==
  /\ Fate \in [Events -> Ledger!Fates]
  /\ \A e \in Events :
       /\ Fate[e] = "gone" <=> e \in lost \cup dropped
       /\ Fate[e] = "acked" <=> e \in acked
       /\ Fate[e] = "withheld" <=> e \in withheld
       /\ Fate[e] = "held" <=> e \in Held
       /\ Fate[e] = "future" <=> e >= next

(* this follows from the partition. *)
LEMMA FateSays ==
  ASSUME TypeOK, Placed
  PROVE  FateOK
<1>1. Parts(InHands, Elems(queue), Elems(batch), withheld, acked, dropped, lost, next)
  BY DEF Placed
<1>2. Held = InHands \cup InQueue \cup InBatch
  BY DEF Held, InQueue, InBatch, Elems
<1>3. \A e \in Events : e \in Nat /\ e >= 1 /\ (e >= next <=> e \notin 1..(next - 1))
  BY PipelineAssumption DEF Events, TypeOK, EventType
<1> DEFINE F(e) == IF e \in lost \cup dropped THEN "gone"
                   ELSE IF e \in acked THEN "acked"
                   ELSE IF e \in withheld THEN "withheld"
                   ELSE IF e \in Held THEN "held"
                   ELSE IF e >= next THEN "future" ELSE "missing"
<1>4. Fate = [e \in Events |-> F(e)]
  BY <1>2 DEF Fate
<1>5. ASSUME NEW e \in Events
      PROVE  /\ F(e) \in {"future", "held", "withheld", "acked", "gone"}
             /\ F(e) = "gone" <=> e \in lost \cup dropped
             /\ F(e) = "acked" <=> e \in acked
             /\ F(e) = "withheld" <=> e \in withheld
             /\ F(e) = "held" <=> e \in Held
             /\ F(e) = "future" <=> e >= next
  BY <1>1, <1>3 DEF Parts, Held
<1> HIDE DEF F
<1> QED
  BY <1>4, <1>5 DEF FateOK, Ledger!Fates

(* Two fates that agree on every event are the same. *)
LEMMA SameFates ==
  ASSUME NEW f, NEW g, NEW S, f \in [Events -> S], g \in [Events -> S],
         \A e \in Events : f[e] = g[e]
  PROVE  f = g
  OBVIOUS

(* A step that captures, drops, sends or restarts changes fates the way     *)
(* the ledger does; any other step changes none.                            *)
LEMMA MovesAreLedgerSteps ==
  ASSUME TypeOK, Placed, FateOK, FateOK', Moves
  PROVE  [Ledger!Next]_Fate
<1> DEFINE f == Fate
           g == Fate'
           S == Ledger!Fates
<1>1. /\ f \in [Events -> S]
      /\ \A e \in Events :
           /\ f[e] = "gone" <=> e \in lost \cup dropped
           /\ f[e] = "acked" <=> e \in acked
           /\ f[e] = "withheld" <=> e \in withheld
           /\ f[e] = "held" <=> e \in Held
           /\ f[e] = "future" <=> e >= next
  BY DEF FateOK
<1>2. /\ g \in [Events -> S]
      /\ \A e \in Events :
           /\ g[e] = "gone" <=> e \in lost' \cup dropped'
           /\ g[e] = "acked" <=> e \in acked'
           /\ g[e] = "withheld" <=> e \in withheld'
           /\ g[e] = "held" <=> e \in Held'
           /\ g[e] = "future" <=> e >= next'
  BY DEF FateOK, Ledger!Fates
<1>3. S = {"future", "held", "withheld", "acked", "gone"}
  BY DEF Ledger!Fates
<1>4. ASSUME lost' \cup dropped' = lost \cup dropped, acked' = acked, withheld' = withheld,
             Held' = Held, next' = next
      PROVE  UNCHANGED Fate
  <2>1. \A e \in Events : f[e] = g[e]
    BY <1>1, <1>2, <1>3, <1>4
  <2> QED
    BY <1>1, <1>2, <2>1, SameFates
<1>5. ASSUME NEW end \in {"acked", "gone"},
             \A e \in Events : g[e] # f[e] => f[e] = "held" /\ g[e] = end
      PROVE  Ledger!Next
  BY <1>2, <1>5 DEF Ledger!Next, Ledger!Acknowledge, Ledger!GiveUp, Ledger!Resolve
<1> HIDE DEF f, g, S
<1>6. CASE NoMove
  BY <1>4, <1>6 DEF NoMove, Held, InHands
<1>7. CASE PushMove
  <2>1. PICK p \in Producers : /\ hand[p] # NoEvent /\ queue' = Append(queue, hand[p])
                               /\ hand' = [hand EXCEPT ![p] = NoEvent]
    BY <1>7 DEF PushMove
  <2>2. InHands' = InHands \ {hand[p]} /\ hand[p] \in InHands
    BY <2>1, HandGives DEF Placed, HandsDiffer
  <2>3. Elems(queue') = Elems(queue) \cup {hand[p]}
    <3>1. hand[p] \in Events /\ hand[p] \notin Elems(queue)
      BY <2>1, <2>2 DEF Placed, Parts, TypeOK, ProducerType
    <3> QED
      BY <2>1, <3>1, PushElems DEF Placed, TypeOK, CounterType
  <2>4. Held' = Held
    BY <1>7, <2>2, <2>3 DEF Held, PushMove
  <2> QED
    BY <1>4, <1>7, <2>4 DEF PushMove
<1>8. CASE DrainMove
  <2>1. Head(queue) \in Elems(queue) /\ Elems(queue') = Elems(queue) \ {Head(queue)}
    BY <1>8, PopElems DEF DrainMove, Placed, TypeOK, CounterType
  <2>2. Head(queue) \in Events /\ Head(queue) \notin Elems(batch)
    BY <1>8, <2>1, SeqFacts DEF DrainMove, Placed, Parts, TypeOK, CounterType
  <2>3. Elems(batch') = Elems(batch) \cup {Head(queue)}
    BY <1>8, <2>2, PushElems DEF DrainMove, Placed, TypeOK, FlusherType
  <2>4. InHands' = InHands
    BY <1>8 DEF DrainMove, InHands
  <2>5. Held' = Held
    BY <2>1, <2>3, <2>4 DEF Held
  <2> QED
    BY <1>4, <1>8, <2>5 DEF DrainMove
<1>9. CASE RequeueMove
  <2>1. Head(batch) \in Elems(batch) /\ Elems(batch') = Elems(batch) \ {Head(batch)}
    BY <1>9, PopElems DEF RequeueMove, Placed, TypeOK, FlusherType
  <2>2. Head(batch) \in Events /\ Head(batch) \notin Elems(queue)
    BY <1>9, <2>1, SeqFacts DEF RequeueMove, Placed, Parts, TypeOK, FlusherType
  <2>3. Elems(queue') = Elems(queue) \cup {Head(batch)}
    BY <1>9, <2>2, PushElems DEF RequeueMove, Placed, TypeOK, CounterType
  <2>4. InHands' = InHands
    BY <1>9 DEF RequeueMove, InHands
  <2>5. Held' = Held
    BY <2>1, <2>3, <2>4 DEF Held
  <2> QED
    BY <1>4, <1>9, <2>5 DEF RequeueMove
<1>10. CASE DropMove
  <2>1. /\ Head(queue) \in Held /\ lost' \cup dropped' = (lost \cup dropped) \cup {Head(queue)}
        /\ UNCHANGED <<acked, withheld, next>>
    BY <1>10, PopElems DEF DropMove, Placed, TypeOK, CounterType, Held
  <2>2. \A e \in Events : e = Head(queue) => f[e] = "held" /\ g[e] = "gone"
    BY <1>1, <1>2, <2>1
  <2>3. \A e \in Events : e # Head(queue) => (e \in Held' <=> e \in Held)
    <3>1. Elems(queue') = Elems(queue) \ {Head(queue)}
      BY <1>10, PopElems DEF DropMove, Placed, TypeOK, CounterType
    <3>2. InHands' = InHands /\ batch' = batch
      BY <1>10 DEF DropMove, InHands
    <3> QED
      BY <3>1, <3>2 DEF Held
  <2>4. \A e \in Events : e # Head(queue) => g[e] = f[e]
    BY <1>1, <1>2, <1>3, <2>1, <2>3
  <2> QED
    BY <1>5, <2>2, <2>4
<1>11. CASE SendMove
  <2>1. /\ Elems(batch) \subseteq Held /\ acked' = acked \cup Elems(batch)
        /\ UNCHANGED <<lost, dropped, withheld, next>>
    BY <1>11 DEF SendMove, Held
  <2>2. \A e \in Events : e \in Elems(batch) => f[e] = "held" /\ g[e] = "acked"
    BY <1>1, <1>2, <2>1
  <2>3. \A e \in Events : e \notin Elems(batch) => (e \in Held' <=> e \in Held)
    <3>1. InHands' = InHands /\ queue' = queue /\ Elems(batch') = {}
      BY <1>11 DEF SendMove, InHands, Elems
    <3> QED
      BY <3>1 DEF Held
  <2>4. \A e \in Events : e \notin Elems(batch) => g[e] = f[e]
    BY <1>1, <1>2, <1>3, <2>1, <2>3
  <2> QED
    BY <1>5, <2>2, <2>4
<1>12. CASE RestartMove
  <2>1. /\ lost' \cup dropped' = (lost \cup dropped) \cup Held
        /\ UNCHANGED <<acked, withheld, next>>
    BY <1>12 DEF RestartMove, Held
  <2>2. Held' = {}
    BY <1>12 DEF RestartMove, Held, InHands, Elems
  <2>3. \A e \in Events : e \in Held => f[e] = "held" /\ g[e] = "gone"
    BY <1>1, <1>2, <2>1
  <2>4. \A e \in Events : e \notin Held => g[e] = f[e]
    BY <1>1, <1>2, <1>3, <2>1, <2>2
  <2> QED
    BY <1>5, <2>3, <2>4
<1>13. CASE CaptureMove
  <2>1. /\ next \in Events /\ next' = next + 1 /\ next \in Nat
        /\ UNCHANGED <<queue, batch, acked, dropped, lost>>
    BY <1>13, PipelineAssumption DEF CaptureMove, TypeOK, EventType, Events
  <2>2. \A e \in Events : /\ e \in Nat /\ (e < next => ~(e >= next))
                          /\ e # next => (e >= next' <=> e >= next)
    BY <2>1, PipelineAssumption DEF Events
  <2>3. \E end \in {"held", "withheld"} :
          g[next] = end /\ \A e \in Events : e # next => g[e] = f[e]
    <3>1. CASE UNCHANGED hand /\ withheld' = withheld \cup {next}
      <4>1. Held' = Held
        BY <2>1, <3>1 DEF Held, InHands
      <4> QED
        BY <1>1, <1>2, <1>3, <2>1, <2>2, <3>1, <4>1
    <3>2. CASE /\ \E p \in Producers : hand[p] = NoEvent /\ hand' = [hand EXCEPT ![p] = next]
               /\ UNCHANGED withheld
      <4>1. Held' = Held \cup {next}
        BY <2>1, <3>2, HandTakes DEF Held
      <4> QED
        BY <1>1, <1>2, <1>3, <2>1, <2>2, <3>2, <4>1
    <3> QED
      BY <1>13, <3>1, <3>2 DEF CaptureMove
  <2>4. PICK end \in {"held", "withheld"} :
          g[next] = end /\ \A e \in Events : e # next => g[e] = f[e]
    BY <2>3
  <2>5. g = [f EXCEPT ![next] = end]
    <3>1. [f EXCEPT ![next] = end] \in [Events -> S]
      BY <1>1, <1>3, <2>1
    <3>2. \A e \in Events : g[e] = [f EXCEPT ![next] = end][e]
      BY <1>1, <2>1, <2>4
    <3> QED
      BY <1>2, <3>1, <3>2, SameFates
  <2>6. f[next] = "future" /\ \A e \in Events : e < next => f[e] # "future"
    BY <1>1, <2>1, <2>2
  <2> QED
    BY <2>1, <2>5, <2>6 DEF Ledger!Next, Ledger!Capture, f, g
<1> QED
  BY <1>6, <1>7, <1>8, <1>9, <1>10, <1>11, <1>12, <1>13 DEF Moves

(* The upload path implements the ledger: every event that is captured is   *)
(* held until it is acknowledged or given up, and its fate is final,        *)
(* whatever the interleaving and wherever a process ends                    *)
(* (batch_uploader.rs:111-317).                                             *)
THEOREM PipelineImplementsLedger == Spec => ImplementsLedger
<1>1. Init => Ledger!Init
  <2> SUFFICES ASSUME Init PROVE Ledger!Init
    OBVIOUS
  <2>1. lost = {} /\ dropped = {} /\ acked = {} /\ withheld = {} /\ next = 1
    BY DEF Init
  <2>2. InHands = {} /\ InQueue = {} /\ InBatch = {}
    BY DEF Init, InHands, InQueue, InBatch
  <2>3. \A e \in Events : e >= next
    BY <2>1, PipelineAssumption DEF Events
  <2> QED
    BY <2>1, <2>2, <2>3 DEF Ledger!Init, Fate
<1>2. TypeOK /\ Placed /\ FateOK /\ FateOK' /\ [Next]_vars => [Ledger!Next]_Fate
  BY StepsMove, MovesAreLedgerSteps
<1>3. TypeOK /\ Placed => FateOK
  BY FateSays
<1> QED
  BY <1>1, <1>2, <1>3, TypeCorrect, PlacedAlways, PTL DEF Spec, ImplementsLedger, Ledger!Spec

-----------------------------------------------------------------------------
(***************************************************************************)
(* The bound on the queue.  What is bounded is not the queue alone but     *)
(* the queue, the flusher's batch and the producers that will still push,  *)
(* together: a drain, a requeue and an enqueue past its capacity test only *)
(* move events between these, and the test admits a producer only while    *)
(* the sum leaves room for it.                                             *)
(***************************************************************************)
Owed == Cardinality(AtStep(ppc, "push")) + Cardinality(AtStep(ppc, "subtract"))

RoomInv   == Len(queue) + Len(batch) + Owed <= MaxQueue + Cardinality(Producers) - 1 + MaxDrain
BatchInv  == Len(batch) + pushed <= MaxDrain /\ (fpc # "requeuePush" => pushed = 0)
DrainInv  == fpc = "drain" => want + Len(batch) \in 1..MaxDrain
QueueInv  == RoomInv /\ BatchInv /\ DrainInv

(* Taking a remainder leaves a number below the divisor alone, ... *)
LEMMA ModSmall ==
  ASSUME NEW n \in Int, NEW w \in Nat \ {0}, 0 <= n, n < w
  PROVE  n % w = n
  BY SMTT(30)

(* ... and is zero only for zero between the divisor and its negative. *)
LEMMA ModZero ==
  ASSUME NEW n \in Int, NEW w \in Nat \ {0}, -w < n, n < w, n % w = 0
  PROVE  n = 0
<1>1. CASE n >= 0
  BY <1>1, ModSmall
<1>2. CASE n < 0
  BY <1>2, SMTT(30)
<1> QED
  BY <1>1, <1>2

(* The numbers of this section, and that a producer is at one step at a time. *)
LEMMA StepCounts ==
  /\ Cardinality(Producers) \in Nat /\ MaxDrain \in Nat
  /\ Cardinality(Uncounted) \in Nat /\ Cardinality(Unsubtracted) \in Nat /\ Owed \in Nat
  /\ Cardinality(AtStep(ppc, "push")) \in Nat
  /\ Cardinality(Uncounted) = Cardinality(AtStep(ppc, "count"))
  /\ Cardinality(Unsubtracted) = Cardinality(AtStep(ppc, "subtract"))
  /\ Cardinality(Uncounted) + Owed <= Cardinality(Producers)
  /\ \A p \in Producers : ppc[p] \notin {"count", "push", "subtract"} =>
       Cardinality(Uncounted) + Owed + 1 <= Cardinality(Producers)
<1> DEFINE A == AtStep(ppc, "count")
           B == AtStep(ppc, "push")
           C == AtStep(ppc, "subtract")
           X == A \cup (B \cup C)
<1>1. /\ Uncounted = A /\ Unsubtracted = C
      /\ A \cap (B \cup C) = {} /\ B \cap C = {} /\ X \subseteq Producers
      /\ A \subseteq Producers /\ B \subseteq Producers /\ C \subseteq Producers
      /\ \A p \in Producers : ppc[p] \notin {"count", "push", "subtract"} => p \notin X
  BY DEF Uncounted, Unsubtracted, AtStep
<1> HIDE DEF A, B, C
<1>2. IsFiniteSet(Producers) /\ IsFiniteSet(A) /\ IsFiniteSet(B) /\ IsFiniteSet(C)
  BY <1>1, PipelineAssumption, FS_Subset
<1>3. /\ Cardinality(Producers) \in Nat /\ Cardinality(A) \in Nat /\ Cardinality(B) \in Nat
      /\ Cardinality(C) \in Nat
  BY <1>2, FS_CardinalityType
<1>4. Cardinality({}) = 0
  BY FS_EmptySet
<1>5. IsFiniteSet(B \cup C) /\ Cardinality(B \cup C) = Cardinality(B) + Cardinality(C)
  <2>1. /\ IsFiniteSet(B \cup C)
        /\ Cardinality(B \cup C) = Cardinality(B) + Cardinality(C) - Cardinality(B \cap C)
    BY <1>2, FS_Union, Zenon
  <2>2. Cardinality(B \cap C) = 0
    BY <1>1, <1>4
  <2> QED
    BY <1>3, <2>1, <2>2
<1>6. IsFiniteSet(X) /\ Cardinality(X) = Cardinality(A) + Cardinality(B) + Cardinality(C)
  <2> DEFINE Y == B \cup C
  <2>0. A \cap Y = {} /\ IsFiniteSet(Y) /\ X = A \cup Y
        /\ Cardinality(Y) = Cardinality(B) + Cardinality(C)
    BY <1>1, <1>5
  <2> HIDE DEF Y, X
  <2>1. /\ IsFiniteSet(A \cup Y)
        /\ Cardinality(A \cup Y) = Cardinality(A) + Cardinality(Y) - Cardinality(A \cap Y)
    BY <1>2, <2>0, FS_Union, Zenon
  <2>2. Cardinality(A \cap Y) = 0
    BY <2>0, <1>4
  <2> QED
    BY <1>3, <2>0, <2>1, <2>2
<1> HIDE DEF X
<1>7. Cardinality(X) <= Cardinality(Producers)
  BY <1>1, <1>2, FS_Subset
<1>8. ASSUME NEW p \in Producers, p \notin X PROVE Cardinality(X) + 1 <= Cardinality(Producers)
  <2>1. X \cup {p} \subseteq Producers
    BY <1>1, <1>8
  <2>2. Cardinality(X \cup {p}) = Cardinality(X) + 1
    BY <1>6, <1>8, FS_AddElement
  <2> QED
    BY <1>2, <2>1, <2>2, FS_Subset
<1>9. MaxDrain \in Nat
  BY PipelineAssumption DEF MaxDrain
<1>10. Owed = Cardinality(B) + Cardinality(C)
  BY DEF Owed, B, C
<1> QED
  BY <1>1, <1>3, <1>6, <1>7, <1>8, <1>9, <1>10 DEF A, B, C

(* The counter stays within the width of a usize, so a load tells whether  *)
(* it is zero or below the capacity.                                       *)
LEMMA LoadsTell ==
  ASSUME TypeOK, CounterAccounting, DropsAccounted, QueueInv
  PROVE  /\ Loaded < MaxQueue => size < MaxQueue
         /\ Loaded = 0 => size = 0
<1> DEFINE U == Cardinality(Uncounted)
           D == Cardinality(Unsubtracted)
           P == Cardinality(Producers)
           N == Cardinality(dropped)
           R == IF fpc = "drain" THEN Len(batch) ELSE 0
<1>1. /\ Len(queue) \in Nat /\ Len(batch) \in Nat /\ size \in Int
      /\ popped \in Nat /\ pushed \in Nat /\ reported \in Nat /\ cycleDropped \in Nat
  BY SeqFacts DEF TypeOK, CounterType, FlusherType
<1>2. U \in Nat /\ D \in Nat /\ P \in Nat /\ MaxDrain \in Nat /\ Owed \in Nat /\ U + Owed <= P
  BY StepCounts
<1>3. N <= NumEvents /\ N \in Nat
  <2>1. IsFiniteSet(1..NumEvents) /\ Cardinality(1..NumEvents) = NumEvents
    <3>1. 1 \in Int /\ NumEvents \in Int /\ NumEvents >= 0
      BY PipelineAssumption
    <3>2. /\ IsFiniteSet(1..NumEvents)
          /\ Cardinality(1..NumEvents) = IF 1 > NumEvents THEN 0 ELSE NumEvents - 1 + 1
      BY <3>1, FS_Interval, Zenon
    <3> QED
      BY <3>1, <3>2
  <2>2. dropped \subseteq 1..NumEvents
    BY DEF TypeOK, EventType, Events
  <2> QED
    BY <2>1, <2>2, FS_Subset, FS_CardinalityType
<1>4. /\ size = Len(queue) - U - pushed + D + popped + R
      /\ N = reported + cycleDropped + popped + D
      /\ Len(queue) + Len(batch) + Owed <= MaxQueue + P - 1 + MaxDrain
      /\ pushed + Len(batch) <= MaxDrain
  <2>1. size = Len(queue) - U - pushed + D + popped + R
    BY DEF CounterAccounting
  <2>2. N = reported + cycleDropped + popped + D
    BY DEF DropsAccounted
  <2>3. Len(queue) + Len(batch) + Owed <= MaxQueue + P - 1 + MaxDrain
    BY DEF QueueInv, RoomInv
  <2>4. Len(batch) + pushed <= MaxDrain
    BY DEF QueueInv, BatchInv
  <2> QED
    BY <1>1, <1>2, <2>1, <2>2, <2>3, <2>4
<1>5. R \in 0..Len(batch)
  BY <1>1
<1>6. /\ NumEvents + MaxQueue + P + MaxDrain <= Width
      /\ NumEvents \in Nat /\ MaxQueue \in Nat \ {0} /\ Width \in Nat \ {0}
  BY WidthAssumption, PipelineAssumption
<1> HIDE DEF U, D, P, N, R
<1>7. size < Width /\ -Width < size
  BY <1>1, <1>2, <1>3, <1>4, <1>5, <1>6
<1>8. Loaded = size % Width
  BY DEF Loaded
<1>9. ASSUME Loaded < MaxQueue PROVE size < MaxQueue
  <2>1. CASE size < 0
    BY <1>1, <1>6, <2>1
  <2>2. CASE size >= 0
    <3>1. Loaded = size
      BY <1>1, <1>6, <1>7, <1>8, <2>2, ModSmall
    <3> QED
      BY <1>9, <3>1
  <2> QED
    BY <1>1, <2>1, <2>2
<1>10. ASSUME Loaded = 0 PROVE size = 0
  BY <1>1, <1>6, <1>7, <1>8, <1>10, ModZero
<1> QED
  BY <1>9, <1>10

(* A drain asks for something, and never for more than MaxDrain. *)
LEMMA DrainCountBounds ==
  ASSUME NEW n \in Nat \ {0}
  PROVE  DrainCount(n) \in 1..MaxDrain
BY PipelineAssumption DEF DrainCount, ComputeBatchSize, MaxDrain

(* A producer's steps keep the sum of queue, batch and owed pushes bounded: *)
(* only the capacity test and a drop from an empty queue add to it, and     *)
(* both find room.                                                          *)
LEMMA ProducerKeepsRoom ==
  ASSUME TypeOK, CounterAccounting, DropsAccounted, QueueInv, NEW p \in Producers,
         Capture(p) \/ EnqueueStep(p) \/ ProducerEnds(p)
  PROVE  QueueInv'
<1> DEFINE B == Cardinality(AtStep(ppc, "push"))
           C == Cardinality(AtStep(ppc, "subtract"))
           U == Cardinality(Uncounted)
           P == Cardinality(Producers)
           R == IF fpc = "drain" THEN Len(batch) ELSE 0
           K == MaxQueue + P - 1 + MaxDrain
<1> USE DEF queueVars, flushVars, dropVars, fateVars, captureVars, envVars
<1>0. DOMAIN ppc = Producers /\ \A q \in Producers \ {p} : ppc'[q] = ppc[q]
  BY DEF TypeOK, ProducerType, Capture, EnqueueStep, LoadSize, DropOldest,
         SubtractDrop, Push, CountPush, ProducerEnds
<1>1. /\ ppc'[p] = "push" /\ ppc[p] # "push" => B' = B + 1
      /\ ppc'[p] # "push" /\ ppc[p] = "push" => B' = B - 1
      /\ (ppc'[p] = "push" <=> ppc[p] = "push") => B' = B
  <2> DEFINE N(pcs, c) == Cardinality(AtStep(pcs, c))
  <2>1. ASSUME NEW c
        PROVE  /\ ppc'[p] = c /\ ppc[p] # c => N(ppc', c) = N(ppc, c) + 1
               /\ ppc'[p] # c /\ ppc[p] = c => N(ppc', c) = N(ppc, c) - 1
               /\ (ppc'[p] = c <=> ppc[p] = c) => N(ppc', c) = N(ppc, c)
    BY <1>0, ProducerMoves
  <2>2. B = N(ppc, "push") /\ B' = N(ppc', "push")
    BY DEF AtStep
  <2> HIDE DEF B, N
  <2> QED
    BY <2>1, <2>2
<1>2. /\ ppc'[p] = "subtract" /\ ppc[p] # "subtract" => C' = C + 1
      /\ ppc'[p] # "subtract" /\ ppc[p] = "subtract" => C' = C - 1
      /\ (ppc'[p] = "subtract" <=> ppc[p] = "subtract") => C' = C
  BY <1>0, ProducerMoves
<1>3. /\ B \in Nat /\ C \in Nat /\ U \in Nat /\ P \in Nat /\ MaxDrain \in Nat
      /\ Owed = B + C /\ U + Owed <= P
      /\ ppc[p] \notin {"count", "push", "subtract"} => U + Owed + 1 <= P
      /\ Cardinality(Unsubtracted) = C
  <2>1. Owed = B + C
    BY DEF Owed
  <2>2. B \in Nat /\ C \in Nat
    BY <1>0, ProducerMoves
  <2> QED
    BY <2>1, <2>2, StepCounts
<1>4. /\ Len(queue) \in Nat /\ Len(batch) \in Nat /\ size \in Int
      /\ popped \in Nat /\ pushed \in Nat
      /\ queue # <<>> => Len(Tail(queue)) = Len(queue) - 1
      /\ \A x \in Events : Len(Append(queue, x)) = Len(queue) + 1
      /\ Len(<<>>) = 0
  BY SeqFacts DEF TypeOK, CounterType, FlusherType
<1>5. UNCHANGED <<fpc, batch, want, popped, pushed>>
  BY DEF Capture, EnqueueStep, LoadSize, DropOldest, SubtractDrop, Push, CountPush, ProducerEnds
<1>6. BatchInv' /\ DrainInv'
  BY <1>5 DEF QueueInv, BatchInv, DrainInv
<1>7. /\ RoomInv' <=> Len(queue') + Len(batch) + (B' + C') <= K
      /\ Len(queue) + Len(batch) + (B + C) <= K
  BY <1>3, <1>5 DEF QueueInv, RoomInv, Owed
<1>8. size = Len(queue) - U - pushed + C + popped + R
  BY <1>3 DEF CounterAccounting
<1>9. R \in Nat /\ Len(batch) + pushed <= MaxDrain /\ MaxQueue \in Nat \ {0}
  BY <1>4, PipelineAssumption DEF QueueInv, BatchInv
<1>10. Loaded < MaxQueue => size < MaxQueue
  BY LoadsTell
<1>11. Loaded \in Nat
  BY LoadedType DEF TypeOK, CounterType
<1>12. K = MaxQueue + P - 1 + MaxDrain
  OBVIOUS
<1> HIDE DEF B, C, U, P, R, K
<1>13. CASE \/ Capture(p) \/ CountPush(p) \/ ProducerEnds(p)
            \/ (LoadSize(p) /\ ppc'[p] = "drop")
  <2>1. /\ ppc[p] \notin {"push", "subtract"} /\ ppc'[p] \notin {"push", "subtract"}
        /\ queue' = queue
    BY <1>0, <1>13 DEF Capture, CountPush, ProducerEnds, LoadSize
  <2> QED
    BY <1>1, <1>2, <1>6, <1>7, <2>1 DEF QueueInv
<1>14. CASE LoadSize(p) /\ ppc'[p] # "drop"
  <2>1. ppc[p] = "load" /\ ppc'[p] = "push" /\ queue' = queue /\ Loaded < MaxQueue
    BY <1>0, <1>9, <1>11, <1>14 DEF LoadSize
  <2>2. B' = B + 1 /\ C' = C
    BY <1>1, <1>2, <2>1
  <2>3. U + (B + C) + 1 <= P
    BY <1>3, <2>1
  <2>4. Len(queue) <= MaxQueue - 1 + U + pushed
    <3>1. size <= MaxQueue - 1
      BY <1>4, <1>9, <1>10, <2>1
    <3>2. Len(queue) = size + U + pushed - C - popped - R
      BY <1>3, <1>4, <1>8, <1>9
    <3> QED
      BY <1>3, <1>4, <1>9, <3>1, <3>2
  <2>5. Len(queue) + Len(batch) + (B + C + 1) <= K
    BY <1>3, <1>4, <1>9, <1>12, <2>3, <2>4
  <2> QED
    BY <1>3, <1>6, <1>7, <2>1, <2>2, <2>5 DEF QueueInv
<1>15. CASE DropOldest(p) /\ queue = <<>>
  <2>1. ppc[p] = "drop" /\ ppc'[p] = "push" /\ queue' = queue
    BY <1>0, <1>15 DEF DropOldest
  <2>2. B' = B + 1 /\ C' = C
    BY <1>1, <1>2, <2>1
  <2>3. U + (B + C) + 1 <= P
    BY <1>3, <2>1
  <2>4. Len(queue) + Len(batch) + (B + C + 1) <= K
    BY <1>3, <1>4, <1>9, <1>12, <1>15, <2>3
  <2> QED
    BY <1>3, <1>6, <1>7, <2>1, <2>2, <2>4 DEF QueueInv
<1>16. CASE DropOldest(p) /\ queue # <<>>
  <2>1. ppc[p] = "drop" /\ ppc'[p] = "subtract" /\ Len(queue') = Len(queue) - 1
    BY <1>0, <1>4, <1>16 DEF DropOldest
  <2>2. B' = B /\ C' = C + 1
    BY <1>1, <1>2, <2>1
  <2> QED
    BY <1>3, <1>4, <1>6, <1>7, <2>1, <2>2 DEF QueueInv
<1>17. CASE SubtractDrop(p)
  <2>1. ppc[p] = "subtract" /\ ppc'[p] = "push" /\ queue' = queue
    BY <1>0, <1>17 DEF SubtractDrop
  <2>2. B' = B + 1 /\ C' = C - 1
    BY <1>1, <1>2, <2>1
  <2> QED
    BY <1>3, <1>4, <1>6, <1>7, <2>1, <2>2 DEF QueueInv
<1>18. CASE Push(p)
  <2>1. ppc[p] = "push" /\ ppc'[p] = "count" /\ hand[p] \in Events
    BY <1>0, <1>18 DEF Push, TypeOK, ProducerType
  <2>2. B' = B - 1 /\ C' = C
    BY <1>1, <1>2, <2>1
  <2>3. Len(queue') = Len(queue) + 1
    BY <1>4, <1>18, <2>1 DEF Push
  <2> QED
    BY <1>3, <1>4, <1>6, <1>7, <2>2, <2>3 DEF QueueInv
<1> QED
  BY <1>13, <1>14, <1>15, <1>16, <1>17, <1>18 DEF EnqueueStep

(* The flusher's steps only move events between queue and batch, or take    *)
(* them out; a drain takes no more than it asked for.                       *)
LEMMA FlusherKeepsRoom ==
  ASSUME TypeOK, BatchOnlyInFlush, QueueInv, FlusherStep
  PROVE  QueueInv'
<1> DEFINE K == MaxQueue + Cardinality(Producers) - 1 + MaxDrain
<1> USE DEF queueVars, flushVars, dropVars, fateVars, captureVars, envVars
<1>1. Owed' = Owed
  <2>1. UNCHANGED ppc
    BY DEF FlusherStep, Tick, FlushStart, DrainPop, DrainEnd, SendOk, SendFails, RequeueLoad,
           RequeueDrop, RequeueDropEnd, RequeuePush, RequeueEnd, MarkSent, Housekeep
  <2> QED
    BY <2>1 DEF Owed, AtStep
<1>2. Owed \in Nat /\ MaxDrain \in Nat /\ K \in Int
  <2>1. Owed \in Nat /\ MaxDrain \in Nat /\ Cardinality(Producers) \in Nat
    BY StepCounts
  <2> QED
    BY <2>1, PipelineAssumption
<1>3. /\ Len(queue) \in Nat /\ Len(batch) \in Nat /\ want \in Nat /\ pushed \in Nat
      /\ queue # <<>> => Len(Tail(queue)) = Len(queue) - 1 /\ Head(queue) \in Events
      /\ batch # <<>> => Len(Tail(batch)) = Len(batch) - 1 /\ Head(batch) \in Events
      /\ \A x \in Events : /\ Len(Append(queue, x)) = Len(queue) + 1
                           /\ Len(Append(batch, x)) = Len(batch) + 1
      /\ Len(<<>>) = 0
  BY SeqFacts DEF TypeOK, CounterType, FlusherType
<1>4. /\ Len(queue) + Len(batch) + Owed <= K
      /\ RoomInv' <=> Len(queue') + Len(batch') + Owed <= K
  BY <1>1 DEF QueueInv, RoomInv
<1>5. /\ Len(batch) + pushed <= MaxDrain /\ (fpc # "requeuePush" => pushed = 0)
      /\ fpc = "drain" => want + Len(batch) \in 1..MaxDrain
  BY DEF QueueInv, BatchInv, DrainInv
<1>6. /\ BatchInv' <=> Len(batch') + pushed' <= MaxDrain /\ (fpc' # "requeuePush" => pushed' = 0)
      /\ DrainInv' <=> (fpc' = "drain" => want' + Len(batch') \in 1..MaxDrain)
  BY DEF BatchInv, DrainInv
<1>7. ASSUME NEW r \in {"ok", "none", "err"}
      PROVE  Returned(r) \notin {"drain", "requeuePush"}
  BY ReturnedType DEF TypeOK, FlagType
<1> HIDE DEF K
<1>8. CASE Tick \/ MarkSent \/ Housekeep \/ SendFails
  <2>1. /\ UNCHANGED <<queue, batch, pushed>> /\ fpc' \notin {"drain", "requeuePush"}
        /\ fpc # "requeuePush"
    BY <1>8 DEF Tick, MarkSent, Housekeep, SendFails
  <2> QED
    BY <1>4, <1>5, <1>6, <2>1 DEF QueueInv
<1>9. CASE FlushStart
  <2>1. UNCHANGED <<queue, batch, pushed>> /\ fpc = "flush"
    BY <1>9 DEF FlushStart
  <2>2. fpc' # "requeuePush" /\ (fpc' = "drain" => want' = DrainCount(Loaded) /\ Loaded # 0)
    BY <1>7, <1>9 DEF FlushStart
  <2>3. fpc' = "drain" => want' \in 1..MaxDrain
    <3>1. Loaded \in Nat
      BY LoadedType DEF TypeOK, CounterType
    <3> QED
      BY <2>2, <3>1, DrainCountBounds
  <2>4. Len(batch') = 0
    BY <1>3, <2>1 DEF BatchOnlyInFlush
  <2>5. fpc' = "drain" => want' + Len(batch') \in 1..MaxDrain
    BY <1>2, <2>3, <2>4
  <2> QED
    BY <1>4, <1>5, <1>6, <2>1, <2>2, <2>5 DEF QueueInv
<1>10. CASE DrainPop
  <2>1. /\ Len(queue') = Len(queue) - 1 /\ Len(batch') = Len(batch) + 1
        /\ want' = want - 1 /\ want > 0 /\ UNCHANGED <<fpc, pushed>> /\ fpc = "drain"
    BY <1>3, <1>10 DEF DrainPop
  <2>2. want' + Len(batch') = want + Len(batch) /\ Len(batch') + pushed' <= MaxDrain
    BY <1>2, <1>3, <1>5, <2>1
  <2>3. Len(queue') + Len(batch') + Owed <= K
    BY <1>2, <1>3, <1>4, <2>1
  <2> QED
    BY <1>4, <1>5, <1>6, <2>1, <2>2, <2>3 DEF QueueInv
<1>11. CASE DrainEnd
  <2>1. UNCHANGED <<queue, batch, pushed>> /\ fpc' \notin {"drain", "requeuePush"} /\ fpc = "drain"
    BY <1>7, <1>11 DEF DrainEnd
  <2> QED
    BY <1>4, <1>5, <1>6, <2>1 DEF QueueInv
<1>12. CASE SendOk
  <2>1. /\ UNCHANGED <<queue, pushed>> /\ Len(batch') = 0 /\ fpc = "send"
        /\ fpc' \notin {"drain", "requeuePush"}
    BY <1>3, <1>7, <1>12 DEF SendOk
  <2> QED
    BY <1>2, <1>3, <1>4, <1>5, <1>6, <2>1 DEF QueueInv
<1>13. CASE RequeueLoad \/ RequeueDropEnd
  <2>1. /\ UNCHANGED <<queue, batch, pushed>> /\ fpc' # "drain" /\ fpc # "requeuePush"
    BY <1>13 DEF RequeueLoad, RequeueDropEnd
  <2> QED
    BY <1>4, <1>5, <1>6, <2>1 DEF QueueInv
<1>14. CASE RequeueDrop
  <2>1. /\ Len(queue') = Len(queue) - 1 /\ UNCHANGED <<batch, pushed, fpc>>
        /\ fpc = "requeueDrop"
    BY <1>3, <1>14 DEF RequeueDrop
  <2> QED
    BY <1>2, <1>3, <1>4, <1>5, <1>6, <2>1 DEF QueueInv
<1>15. CASE RequeuePush
  <2>1. /\ Len(queue') = Len(queue) + 1 /\ Len(batch') = Len(batch) - 1
        /\ pushed' = pushed + 1 /\ fpc' = "requeuePush"
    BY <1>3, <1>15 DEF RequeuePush
  <2> QED
    BY <1>2, <1>3, <1>4, <1>5, <1>6, <2>1 DEF QueueInv
<1>16. CASE RequeueEnd
  <2>1. UNCHANGED <<queue, batch>> /\ pushed' = 0 /\ fpc' # "drain"
    BY <1>7, <1>16 DEF RequeueEnd
  <2> QED
    BY <1>2, <1>3, <1>4, <1>5, <1>6, <2>1 DEF QueueInv
<1> QED
  BY <1>8, <1>9, <1>10, <1>11, <1>12, <1>13, <1>14, <1>15, <1>16 DEF FlusherStep

(* So the sum is always bounded. *)
LEMMA QueueInvariant == Spec => []QueueInv
<1>1. ASSUME queue = <<>>, batch = <<>>, pushed = 0, fpc = "idle",
             \A p \in Producers : ppc[p] = "idle"
      PROVE  QueueInv
  <2>1. AtStep(ppc, "push") = {} /\ AtStep(ppc, "subtract") = {}
    BY <1>1 DEF AtStep
  <2>2. Owed = 0 /\ Len(queue) = 0 /\ Len(batch) = 0
    <3>1. Cardinality({}) = 0 /\ Len(<<>>) = 0
      BY FS_EmptySet
    <3>2. Cardinality(AtStep(ppc, "push")) = 0 /\ Cardinality(AtStep(ppc, "subtract")) = 0
      BY <2>1, <3>1, Zenon
    <3>3. Owed = 0
      BY <3>2 DEF Owed
    <3> QED
      BY <1>1, <3>1, <3>3
  <2>3. Cardinality(Producers) \in Nat /\ MaxDrain \in Nat /\ MaxQueue \in Nat \ {0}
    BY StepCounts, PipelineAssumption
  <2> QED
    BY <1>1, <2>2, <2>3 DEF QueueInv, RoomInv, BatchInv, DrainInv
<1>2. Init => QueueInv
  BY <1>1 DEF Init
<1>3. TypeOK /\ CounterInv /\ DropsAccounted /\ QueueInv /\ [Next]_vars => QueueInv'
  <2> SUFFICES ASSUME TypeOK, CounterInv, DropsAccounted, QueueInv, [Next]_vars PROVE QueueInv'
    OBVIOUS
  <2> USE DEF queueVars, flushVars, dropVars, fateVars, captureVars, envVars
  <2>1. ASSUME UNCHANGED <<ppc, queue, fpc, batch, want, pushed>> PROVE QueueInv'
    BY <2>1 DEF QueueInv, RoomInv, BatchInv, DrainInv, Owed, AtStep
  <2>2. CASE UNCHANGED vars
    BY <2>1, <2>2 DEF vars
  <2>3. CASE \E p \in Producers : Capture(p) \/ EnqueueStep(p) \/ ProducerEnds(p)
    BY <2>3, ProducerKeepsRoom DEF CounterInv
  <2>4. CASE FlusherStep
    BY <2>4, FlusherKeepsRoom DEF CounterInv
  <2>5. CASE CooldownElapses \/ ServerChanges \/ ScheduleChanges \/ Shutdown
    BY <2>1, <2>5 DEF CooldownElapses, ServerChanges, ScheduleChanges, Shutdown
  <2>6. CASE Restart
    <3>1. /\ AtStep(ppc', "push") = {} /\ AtStep(ppc', "subtract") = {}
          /\ queue' = <<>> /\ batch' = <<>> /\ pushed' = 0 /\ fpc' = "idle"
      BY <2>6 DEF Restart, AtStep
    <3>2. Owed' = 0 /\ Len(queue') = 0 /\ Len(batch') = 0
      BY <3>1, FS_EmptySet, EmptySeq DEF Owed
    <3>3. Cardinality(Producers) \in Nat /\ MaxDrain \in Nat /\ MaxQueue \in Nat \ {0}
      BY StepCounts, PipelineAssumption
    <3> QED
      BY <3>1, <3>2, <3>3 DEF QueueInv, RoomInv, BatchInv, DrainInv
  <2> QED
    BY <2>2, <2>3, <2>4, <2>5, <2>6 DEF Next
<1> QED
  BY <1>2, <1>3, TypeCorrect, CounterInvariant, EveryDropCounted, PTL DEF Spec

(* The queue passes max_queue_size by less than one event per concurrent    *)
(* enqueue and one requeued batch, though the capacity test reads a counter *)
(* that lags behind the queue (batch_uploader.rs:111-171, 285-317).         *)
THEOREM QueueBounded == Spec => []BoundedOvershoot
<1>1. TypeOK /\ QueueInv => BoundedOvershoot
  <2> SUFFICES ASSUME TypeOK, QueueInv PROVE BoundedOvershoot
    OBVIOUS
  <2>1. Len(queue) \in Nat /\ Len(batch) \in Nat
    BY SeqFacts DEF TypeOK, CounterType, FlusherType
  <2>2. Owed \in Nat /\ MaxDrain \in Nat /\ Cardinality(Producers) \in Nat /\ MaxQueue \in Nat
    BY StepCounts, PipelineAssumption
  <2>3. Len(queue) + Len(batch) + Owed <= MaxQueue + Cardinality(Producers) - 1 + MaxDrain
    BY DEF QueueInv, RoomInv
  <2> QED
    BY <2>1, <2>2, <2>3 DEF BoundedOvershoot
<1> QED
  BY <1>1, TypeCorrect, QueueInvariant, PTL

(* A shutdown flush that ends for want of events leaves only events whose   *)
(* push is not yet counted (app_runtime's shutdown branch: flush until      *)
(* Ok(0); batch_uploader.rs:214-283).                                       *)
THEOREM ShutdownLeavesUncounted == Spec => ShutdownDrains
<1> DEFINE Inv == TypeOK /\ CounterInv /\ DropsAccounted /\ QueueInv
           A == (fpc' = "ended" /\ fpc # "ended" /\ fpc # "requeuePush" /\ ~suppressed
                   /\ Check(breaker).status # "Open")
                  => Len(queue) <= Cardinality(Uncounted)
<1>1. Inv /\ [Next]_vars => [A]_vars
  <2> SUFFICES ASSUME TypeOK, CounterInv, DropsAccounted, QueueInv, Next,
                      fpc' = "ended", fpc # "ended", fpc # "requeuePush", ~suppressed,
                      Check(breaker).status # "Open"
               PROVE  Len(queue) <= Cardinality(Uncounted)
    OBVIOUS
  <2> USE DEF queueVars, flushVars, dropVars, fateVars, captureVars, envVars
  <2>1. /\ Len(queue) \in Nat /\ Len(batch) \in Nat /\ Len(<<>>) = 0 /\ size \in Int
        /\ popped \in Nat
    BY SeqFacts DEF TypeOK, CounterType, FlusherType
  <2>2. Cardinality(Uncounted) \in Nat /\ Cardinality(Unsubtracted) \in Nat
    BY StepCounts
  <2>3. Returned("ok") # "ended"
    BY DEF Returned, TypeOK, FlagType
  <2>4. (FlushStart /\ Loaded = 0) \/ (DrainEnd /\ batch = <<>>)
    <3>1. \A p \in Producers : ~ (Capture(p) \/ EnqueueStep(p) \/ ProducerEnds(p))
      BY DEF Capture, EnqueueStep, LoadSize, DropOldest, SubtractDrop, Push, CountPush, ProducerEnds
    <3>2. ~ (CooldownElapses \/ ServerChanges \/ ScheduleChanges \/ Shutdown \/ Restart)
      BY DEF CooldownElapses, ServerChanges, ScheduleChanges, Shutdown, Restart
    <3>3. ~ (\/ Tick \/ DrainPop \/ SendOk \/ SendFails \/ RequeueLoad \/ RequeueDrop
             \/ RequeueDropEnd \/ RequeuePush \/ RequeueEnd \/ MarkSent \/ Housekeep)
      BY <2>3 DEF Tick, DrainPop, SendOk, SendFails, RequeueLoad, RequeueDrop,
             RequeueDropEnd, RequeuePush, RequeueEnd, MarkSent, Housekeep
    <3>4. FlushStart \/ DrainEnd
      BY <3>1, <3>2, <3>3 DEF Next, FlusherStep
    <3>5. FlushStart => Loaded = 0
      BY DEF FlushStart
    <3>6. DrainEnd => batch = <<>>
      BY DEF DrainEnd
    <3> QED
      BY <3>4, <3>5, <3>6
  <2>5. CASE FlushStart /\ Loaded = 0
    <3>1. size = 0
      BY <2>5, LoadsTell DEF CounterInv
    <3>2. fpc = "flush"
      BY <2>5 DEF FlushStart
    <3>3. pushed = 0
      BY <3>2 DEF QueueInv, BatchInv
    <3>4. size = Len(queue) - Cardinality(Uncounted) - pushed + Cardinality(Unsubtracted) + popped + 0
      BY <3>2 DEF CounterInv, CounterAccounting
    <3> QED
      BY <2>1, <2>2, <3>1, <3>3, <3>4
  <2>6. CASE DrainEnd /\ batch = <<>>
    <3>1. fpc = "drain" /\ (want = 0 \/ queue = <<>>)
      BY <2>6 DEF DrainEnd
    <3>2. want + Len(batch) \in 1..MaxDrain /\ Len(batch) = 0
      BY <2>1, <2>6, <3>1 DEF QueueInv, DrainInv
    <3>3. MaxDrain \in Nat
      BY StepCounts
    <3>4. queue = <<>>
      BY <3>1, <3>2, <3>3
    <3> QED
      BY <2>1, <2>2, <3>4
  <2> QED
    BY <2>4, <2>5, <2>6
<1>2. Spec => []Inv
  BY TypeCorrect, CounterInvariant, EveryDropCounted, QueueInvariant, PTL
<1> QED
  BY <1>1, <1>2, PTL DEF Spec, ShutdownDrains
=============================================================================
