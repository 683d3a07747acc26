--------------------------- MODULE UploadPipeline ---------------------------
(***************************************************************************)
(* The event upload path: the capture loops that save an event and hand it *)
(* to the BatchUploader, the uploader's lock-free queue with its separate  *)
(* length counter, flush() with its retries and circuit breaker, and the   *)
(* scheduler's sync loop that marks rows as sent, applies retention and    *)
(* drains the queue at shutdown.                                           *)
(*                                                                         *)
(* The capture loops ("producers") run concurrently with the one flusher.  *)
(* Each access to the queue or to its counter is one step: SegQueue makes  *)
(* push and pop atomic, AtomicUsize each load and fetch_*, and nothing     *)
(* makes two of them atomic together.                                      *)
(*                                                                         *)
(* Events are 1..NumEvents in the order of their timestamps.  Uploading is *)
(* enabled (PlatformEgressPolicy.enabled); a disabled one enqueues and     *)
(* flushes nothing.                                                        *)
(***************************************************************************)
EXTENDS CircuitBreaker, Integers, Sequences, FiniteSets

CONSTANTS
  Producers,    \* the capture loops that call enqueue
  NumEvents,    \* bound: events captured in a behaviour
  Withholdable, \* events the egress policy may keep from upload
  Unsaveable,   \* events whose save_event may fail
  MaxQueue,     \* max_queue_size (10 000)
  MaxBatch,     \* max_batch_size (100)
  SmallQueue,   \* below it a flush takes everything (10)
  LargeQueue,   \* above it a flush takes up to two batches (50)
  MaxRetries,   \* max_retries (3)
  Width,        \* usize wraps modulo Width (2^64)
  MaxRestarts   \* bound: crashes or restarts in a behaviour

ASSUME PipelineAssumption ==
  /\ IsFiniteSet(Producers)
  /\ Withholdable \subseteq Nat /\ Unsaveable \subseteq Nat
  /\ NumEvents \in Nat /\ MaxRetries \in Nat /\ MaxRestarts \in Nat
  /\ SmallQueue \in Nat /\ LargeQueue \in Nat
  /\ MaxQueue \in Nat \ {0} /\ MaxBatch \in Nat \ {0} /\ Width \in Nat \ {0}

VARIABLES
  ppc,         \* where each producer is in enqueue()
  hand,        \* the event each producer is enqueueing
  queue,       \* the SegQueue
  size,        \* queue_size before wrapping: a load returns size % Width
  fpc,         \* where the flusher is
  shutting,    \* the flusher is in the shutdown branch of its select!
  batch,       \* the events flush() has popped
  want,        \* pops left in the drain loop, or in a requeue's drop_oldest
  popped,      \* pops of that drop_oldest not yet subtracted
  pushed,      \* batch events already pushed back and not yet counted
  attempt,     \* upload attempts of this batch that failed
  breaker,     \* the uploader's CircuitBreaker
  cycleDropped,\* cycle_dropped
  reported,    \* drops that take_dropped_since_last has reported
  stored,      \* each event's row in the events table
  next,        \* the next event to be captured
  withheld,    \* events that prepare_event_for_upload kept from upload
  acked,       \* events in a batch that upload_batch returned Ok for
  dropped,     \* events that drop_oldest removed in this process
  lost,        \* events a restart took from memory, or dropped before it
  serverUp,    \* environment: uploads succeed
  suppressed,  \* environment: the tracking schedule's window is open
  stopping,    \* environment: the shutdown signal was sent
  restarts

queueVars   == <<queue, size>>
flushVars   == <<fpc, shutting, batch, want, popped, pushed, attempt, breaker>>
dropVars    == <<cycleDropped, reported, dropped>>
fateVars    == <<withheld, acked, lost>>
captureVars == <<stored, next>>
envVars     == <<serverUp, suppressed, stopping, restarts>>
vars == <<ppc, hand, queueVars, flushVars, dropVars, fateVars, captureVars, envVars>>

Events  == 1..NumEvents
NoEvent == 0
Loaded  == size % Width

Init ==
  /\ ppc = [p \in Producers |-> "idle"]
  /\ hand = [p \in Producers |-> NoEvent]
  /\ queue = <<>> /\ size = 0
  /\ fpc = "idle" /\ shutting = FALSE /\ batch = <<>>
  /\ want = 0 /\ popped = 0 /\ pushed = 0 /\ attempt = 0
  /\ breaker = NewBreaker
  /\ cycleDropped = 0 /\ reported = 0 /\ dropped = {}
  /\ stored = [e \in Events |-> "none"] /\ next = 1
  /\ withheld = {} /\ acked = {} /\ lost = {}
  /\ serverUp \in BOOLEAN /\ suppressed = FALSE /\ stopping = FALSE
  /\ restarts = 0

-----------------------------------------------------------------------------
(***************************************************************************)
(* Producers: one tick of a capture loop.                                  *)
(***************************************************************************)

(* The capture gate is open, the event is saved (or the save fails and is  *)
(* only logged), and it is enqueued unless the egress policy withholds it. *)
Capture(p) ==
  /\ ppc[p] = "idle" /\ ~suppressed /\ next <= NumEvents
  /\ \/ stored' = [stored EXCEPT ![next] = "unsent"]
     \/ next \in Unsaveable /\ UNCHANGED stored
  /\ next' = next + 1
  /\ \/ /\ hand' = [hand EXCEPT ![p] = next]
        /\ ppc' = [ppc EXCEPT ![p] = "load"]
        /\ UNCHANGED withheld
     \/ /\ next \in Withholdable
        /\ withheld' = withheld \cup {next}
        /\ UNCHANGED <<hand, ppc>>
  /\ UNCHANGED <<queueVars, flushVars, dropVars, acked, lost, envVars>>

(* Mutant of LoadSize: the capacity test is off by one. *)
LoadSizeOffByOne(p) ==
  /\ ppc[p] = "load"
  /\ ppc' = [ppc EXCEPT ![p] = IF Loaded > MaxQueue THEN "drop" ELSE "push"]
  /\ UNCHANGED <<hand, queueVars, flushVars, dropVars, fateVars, captureVars, envVars>>

LoadSize(p) ==
  /\ ppc[p] = "load"
  /\ ppc' = [ppc EXCEPT ![p] = IF Loaded >= MaxQueue THEN "drop" ELSE "push"]
  /\ UNCHANGED <<hand, queueVars, flushVars, dropVars, fateVars, captureVars, envVars>>

DropOldest(p) ==
  /\ ppc[p] = "drop"
  /\ IF queue = <<>>
     THEN /\ ppc' = [ppc EXCEPT ![p] = "push"]
          /\ UNCHANGED <<queue, dropped>>
     ELSE /\ ppc' = [ppc EXCEPT ![p] = "subtract"]
          /\ queue' = Tail(queue)
          /\ dropped' = dropped \cup {Head(queue)}
  /\ UNCHANGED <<hand, size, flushVars, cycleDropped, reported, fateVars, captureVars, envVars>>

(* The fetch_sub of queue_size and the fetch_adds of the two drop counters: *)
(* nothing decides on a drop counter, so the three are one step.            *)
SubtractDrop(p) ==
  /\ ppc[p] = "subtract"
  /\ ppc' = [ppc EXCEPT ![p] = "push"]
  /\ size' = size - 1
  /\ cycleDropped' = cycleDropped + 1
  /\ UNCHANGED <<hand, queue, flushVars, reported, dropped, fateVars, captureVars, envVars>>

Push(p) ==
  /\ ppc[p] = "push"
  /\ ppc' = [ppc EXCEPT ![p] = "count"]
  /\ queue' = Append(queue, hand[p])
  /\ hand' = [hand EXCEPT ![p] = NoEvent]
  /\ UNCHANGED <<size, flushVars, dropVars, fateVars, captureVars, envVars>>

CountPush(p) ==
  /\ ppc[p] = "count"
  /\ ppc' = [ppc EXCEPT ![p] = "idle"]
  /\ size' = size + 1
  /\ UNCHANGED <<hand, queue, flushVars, dropVars, fateVars, captureVars, envVars>>

ProducerEnds(p) ==
  /\ ppc[p] = "idle" /\ stopping
  /\ ppc' = [ppc EXCEPT ![p] = "ended"]
  /\ UNCHANGED <<hand, queueVars, flushVars, dropVars, fateVars, captureVars, envVars>>

EnqueueStep(p) ==
  LoadSize(p) \/ DropOldest(p) \/ SubtractDrop(p) \/ Push(p) \/ CountPush(p)

-----------------------------------------------------------------------------
(***************************************************************************)
(* The flusher: the sync loop around BatchUploader::flush.                 *)
(***************************************************************************)

(* Mutant of Returned: the shutdown branch flushes only once. *)
ReturnedFlushesOnce(result) ==
  CASE shutting                   -> "ended"
    [] ~shutting /\ result = "ok" -> "mark"
    [] OTHER                      -> "house"

(* What the sync loop does with flush()'s result.  A tick marks the rows   *)
(* after Ok(n > 0) and goes on to the housekeeping; the shutdown branch    *)
(* flushes again after Ok(n > 0) and otherwise ends.                       *)
Returned(result) ==
  CASE shutting /\ result = "ok"  -> "flush"
    [] shutting /\ result # "ok"  -> "ended"
    [] ~shutting /\ result = "ok" -> "mark"
    [] OTHER                      -> "house"

(* The select!: an interval tick, or the shutdown signal. *)
Tick ==
  /\ fpc = "idle"
  /\ fpc' = "flush"
  /\ shutting' \in (IF stopping THEN BOOLEAN ELSE {FALSE})
  /\ UNCHANGED <<ppc, hand, queueVars, batch, want, popped, pushed, attempt, breaker,
                 dropVars, fateVars, captureVars, envVars>>

ComputeBatchSize(len) ==
  IF len < SmallQueue THEN len
  ELSE IF len > LargeQueue THEN (IF MaxBatch * 2 < len THEN MaxBatch * 2 ELSE len)
  ELSE MaxBatch

DrainCount(len) ==
  IF len < ComputeBatchSize(len) THEN len ELSE ComputeBatchSize(len)

(* Mutant of FlushStart: it reads the breaker's state without check(), so   *)
(* an open circuit never becomes half-open.                                 *)
FlushStartNoCheck ==
  /\ fpc = "flush"
  /\ \/ /\ suppressed \/ Loaded = 0 \/ breaker.status = "Open"
        /\ fpc' = Returned("none")
        /\ UNCHANGED want
     \/ /\ ~suppressed /\ Loaded # 0 /\ breaker.status # "Open"
        /\ fpc' = "drain" /\ want' = DrainCount(Loaded)
  /\ UNCHANGED <<ppc, hand, queueVars, shutting, batch, popped, pushed, attempt, breaker,
                 dropVars, fateVars, captureVars, envVars>>

(* flush() up to its drain loop, with its three early returns. *)
FlushStart ==
  /\ fpc = "flush"
  /\ \/ /\ suppressed \/ Loaded = 0
        /\ fpc' = Returned("none")
        /\ UNCHANGED <<breaker, want>>
     \/ /\ ~suppressed /\ Loaded # 0
        /\ breaker' = Check(breaker)
        /\ IF breaker'.status = "Open"
           THEN fpc' = Returned("err") /\ UNCHANGED want
           ELSE fpc' = "drain" /\ want' = DrainCount(Loaded)
  /\ UNCHANGED <<ppc, hand, queueVars, shutting, batch, popped, pushed, attempt,
                 dropVars, fateVars, captureVars, envVars>>

DrainPop ==
  /\ fpc = "drain" /\ want > 0 /\ queue # <<>>
  /\ batch' = Append(batch, Head(queue))
  /\ queue' = Tail(queue)
  /\ want' = want - 1
  /\ UNCHANGED <<ppc, hand, size, fpc, shutting, popped, pushed, attempt, breaker,
                 dropVars, fateVars, captureVars, envVars>>

(* Mutant of DrainEnd: drain_count is subtracted instead of actual_count. *)
DrainEndSubtractsWanted ==
  /\ fpc = "drain" /\ (want = 0 \/ queue = <<>>)
  /\ want' = 0
  /\ size' = size - (Len(batch) + want)
  /\ fpc' = IF batch = <<>> THEN Returned("none") ELSE "send"
  /\ UNCHANGED <<ppc, hand, queue, shutting, batch, popped, pushed, attempt, breaker,
                 dropVars, fateVars, captureVars, envVars>>

(* The drain loop ends: an empty batch returns Ok(0), any other is         *)
(* subtracted from queue_size and sent.                                    *)
DrainEnd ==
  /\ fpc = "drain" /\ (want = 0 \/ queue = <<>>)
  /\ want' = 0
  /\ size' = size - Len(batch)
  /\ fpc' = IF batch = <<>> THEN Returned("none") ELSE "send"
  /\ UNCHANGED <<ppc, hand, queue, shutting, batch, popped, pushed, attempt, breaker,
                 dropVars, fateVars, captureVars, envVars>>

InBatch == {batch[i] : i \in DOMAIN batch}

SendOk ==
  /\ fpc = "send" /\ serverUp
  /\ acked' = acked \cup InBatch
  /\ breaker' = RecordSuccess(breaker)
  /\ batch' = <<>> /\ attempt' = 0
  /\ fpc' = Returned("ok")
  /\ UNCHANGED <<ppc, hand, queueVars, shutting, want, popped, pushed, dropVars,
                 withheld, lost, captureVars, envVars>>

(* Mutant of SendFails: one retry too many. *)
SendFailsRetriesOnceMore ==
  /\ fpc = "send" /\ ~serverUp
  /\ IF attempt <= MaxRetries
     THEN attempt' = attempt + 1 /\ UNCHANGED <<fpc, breaker>>
     ELSE /\ attempt' = 0
          /\ breaker' = RecordFailure(breaker)
          /\ fpc' = "requeue"
  /\ UNCHANGED <<ppc, hand, queueVars, shutting, batch, want, popped, pushed,
                 dropVars, fateVars, captureVars, envVars>>

(* Mutant of SendFails: the failed batch is not requeued. *)
SendFailsDiscards ==
  /\ fpc = "send" /\ ~serverUp
  /\ IF attempt < MaxRetries
     THEN attempt' = attempt + 1 /\ UNCHANGED <<fpc, breaker, batch>>
     ELSE /\ attempt' = 0 /\ batch' = <<>>
          /\ breaker' = RecordFailure(breaker)
          /\ fpc' = Returned("err")
  /\ UNCHANGED <<ppc, hand, queueVars, shutting, want, popped, pushed,
                 dropVars, fateVars, captureVars, envVars>>

SendFails ==
  /\ fpc = "send" /\ ~serverUp
  /\ IF attempt < MaxRetries
     THEN attempt' = attempt + 1 /\ UNCHANGED <<fpc, breaker>>
     ELSE /\ attempt' = 0
          /\ breaker' = RecordFailure(breaker)
          /\ fpc' = "requeue"
  /\ UNCHANGED <<ppc, hand, queueVars, shutting, batch, want, popped, pushed,
                 dropVars, fateVars, captureVars, envVars>>

(* requeue_failed_events: how many entries the counter says must go. *)
RequeueLoad ==
  /\ fpc = "requeue"
  /\ LET total == (Loaded + Len(batch)) % Width
     IN  IF total > MaxQueue
         THEN fpc' = "requeueDrop" /\ want' = total - MaxQueue
         ELSE fpc' = "requeuePush" /\ UNCHANGED want
  /\ UNCHANGED <<ppc, hand, queueVars, shutting, batch, popped, pushed, attempt, breaker,
                 dropVars, fateVars, captureVars, envVars>>

RequeueDrop ==
  /\ fpc = "requeueDrop" /\ want > 0 /\ queue # <<>>
  /\ dropped' = dropped \cup {Head(queue)}
  /\ queue' = Tail(queue)
  /\ want' = want - 1 /\ popped' = popped + 1
  /\ UNCHANGED <<ppc, hand, size, fpc, shutting, batch, pushed, attempt, breaker,
                 cycleDropped, reported, fateVars, captureVars, envVars>>

(* Mutant of RequeueDropEnd: the drops of a requeue are not counted. *)
RequeueDropEndUncounted ==
  /\ fpc = "requeueDrop" /\ (want = 0 \/ queue = <<>>)
  /\ size' = size - popped
  /\ want' = 0 /\ popped' = 0
  /\ fpc' = "requeuePush"
  /\ UNCHANGED <<ppc, hand, queue, shutting, batch, pushed, attempt, breaker,
                 cycleDropped, reported, dropped, fateVars, captureVars, envVars>>

RequeueDropEnd ==
  /\ fpc = "requeueDrop" /\ (want = 0 \/ queue = <<>>)
  /\ size' = size - popped
  /\ cycleDropped' = cycleDropped + popped
  /\ want' = 0 /\ popped' = 0
  /\ fpc' = "requeuePush"
  /\ UNCHANGED <<ppc, hand, queue, shutting, batch, pushed, attempt, breaker,
                 reported, dropped, fateVars, captureVars, envVars>>

RequeuePush ==
  /\ fpc = "requeuePush" /\ batch # <<>>
  /\ queue' = Append(queue, Head(batch))
  /\ batch' = Tail(batch)
  /\ pushed' = pushed + 1
  /\ UNCHANGED <<ppc, hand, size, fpc, shutting, want, popped, attempt, breaker,
                 dropVars, fateVars, captureVars, envVars>>

RequeueEnd ==
  /\ fpc = "requeuePush" /\ batch = <<>>
  /\ size' = size + pushed
  /\ pushed' = 0
  /\ fpc' = Returned("err")
  /\ UNCHANGED <<ppc, hand, queue, shutting, batch, want, popped, attempt, breaker,
                 dropVars, fateVars, captureVars, envVars>>

(* mark_unsent_as_sent_before(now): every saved row is older than now; the *)
(* update may fail, which is only logged.                                  *)
MarkSent ==
  /\ fpc = "mark"
  /\ \/ stored' = [e \in Events |-> IF stored[e] = "unsent" THEN "sent" ELSE stored[e]]
     \/ UNCHANGED stored
  /\ fpc' = "house"
  /\ UNCHANGED <<ppc, hand, queueVars, shutting, batch, want, popped, pushed, attempt,
                 breaker, dropVars, fateVars, next, envVars>>

(* take_dropped_since_last and enforce_retention, whose cutoff is any point *)
(* of the past; the retention of frames is not modelled.                    *)
Housekeep ==
  /\ fpc = "house"
  /\ reported' = reported + cycleDropped
  /\ cycleDropped' = 0
  /\ \E cutoff \in 1..next :
       stored' = [e \in Events |-> IF e < cutoff /\ stored[e] = "sent"
                                   THEN "deleted" ELSE stored[e]]
  /\ fpc' = "idle"
  /\ UNCHANGED <<ppc, hand, queueVars, shutting, batch, want, popped, pushed, attempt,
                 breaker, dropped, fateVars, next, envVars>>

FlusherStep ==
  \/ Tick \/ FlushStart \/ DrainPop \/ DrainEnd \/ SendOk \/ SendFails
  \/ RequeueLoad \/ RequeueDrop \/ RequeueDropEnd \/ RequeuePush \/ RequeueEnd
  \/ MarkSent \/ Housekeep

-----------------------------------------------------------------------------
(***************************************************************************)
(* The environment.                                                        *)
(***************************************************************************)
CooldownElapses ==
  /\ breaker.wait > 0
  /\ breaker' = Elapse(breaker)
  /\ UNCHANGED <<ppc, hand, queueVars, fpc, shutting, batch, want, popped, pushed, attempt,
                 dropVars, fateVars, captureVars, envVars>>

ServerChanges ==
  /\ serverUp' = ~serverUp
  /\ UNCHANGED <<ppc, hand, queueVars, flushVars, dropVars, fateVars, captureVars,
                 suppressed, stopping, restarts>>

ScheduleChanges ==
  /\ suppressed' = ~suppressed
  /\ UNCHANGED <<ppc, hand, queueVars, flushVars, dropVars, fateVars, captureVars,
                 serverUp, stopping, restarts>>

Shutdown ==
  /\ ~stopping
  /\ stopping' = TRUE
  /\ UNCHANGED <<ppc, hand, queueVars, flushVars, dropVars, fateVars, captureVars,
                 serverUp, suppressed, restarts>>

InHands == {hand[p] : p \in Producers} \ {NoEvent}
InQueue == {queue[i] : i \in DOMAIN queue}

(* Mutant of Restart: the new process reads back an event that was dropped. *)
RestartReloadsDropped ==
  /\ restarts < MaxRestarts
  /\ restarts' = restarts + 1
  /\ queue' = IF dropped = {} THEN <<>> ELSE <<CHOOSE e \in dropped : TRUE>>
  /\ size' = Len(queue')
  /\ lost' = (lost \cup dropped \cup InHands \cup InQueue \cup InBatch)
               \ {queue'[i] : i \in DOMAIN queue'}
  /\ ppc' = [p \in Producers |-> "idle"]
  /\ hand' = [p \in Producers |-> NoEvent]
  /\ fpc' = "idle" /\ shutting' = FALSE /\ batch' = <<>>
  /\ want' = 0 /\ popped' = 0 /\ pushed' = 0 /\ attempt' = 0
  /\ breaker' = NewBreaker
  /\ cycleDropped' = 0 /\ reported' = 0 /\ dropped' = {}
  /\ stopping' = FALSE
  /\ UNCHANGED <<withheld, acked, captureVars, serverUp, suppressed>>

(* The process ends, by a crash anywhere or after its shutdown, and a new   *)
(* one starts: the database survives, the uploader starts empty, and        *)
(* nothing reads the unsent rows back (get_pending_events has no caller).   *)
Restart ==
  /\ restarts < MaxRestarts
  /\ restarts' = restarts + 1
  /\ lost' = lost \cup dropped \cup InHands \cup InQueue \cup InBatch
  /\ ppc' = [p \in Producers |-> "idle"]
  /\ hand' = [p \in Producers |-> NoEvent]
  /\ queue' = <<>> /\ size' = 0
  /\ fpc' = "idle" /\ shutting' = FALSE /\ batch' = <<>>
  /\ want' = 0 /\ popped' = 0 /\ pushed' = 0 /\ attempt' = 0
  /\ breaker' = NewBreaker
  /\ cycleDropped' = 0 /\ reported' = 0 /\ dropped' = {}
  /\ stopping' = FALSE
  /\ UNCHANGED <<withheld, acked, captureVars, serverUp, suppressed>>

Next ==
  \/ \E p \in Producers : Capture(p) \/ EnqueueStep(p) \/ ProducerEnds(p)
  \/ FlusherStep
  \/ CooldownElapses \/ ServerChanges \/ ScheduleChanges \/ Shutdown \/ Restart

Spec == Init /\ [][Next]_vars

(***************************************************************************)
(* Fairness: the tokio runtime keeps polling the tasks, so an enqueue that *)
(* began and the flusher's loop go on, and time passes.  Nothing is        *)
(* assumed of captures, of the server, the schedule, or restarts.          *)
(***************************************************************************)
Fairness ==
  /\ \A p \in Producers : WF_vars(EnqueueStep(p))
  /\ WF_vars(FlusherStep)
  /\ WF_vars(CooldownElapses)

FairSpec == Spec /\ Fairness

-----------------------------------------------------------------------------
(***************************************************************************)
(* Properties.                                                             *)
(***************************************************************************)

ProducerType ==
  /\ ppc \in [Producers -> {"idle", "load", "drop", "subtract", "push", "count", "ended"}]
  /\ hand \in [Producers -> Events \cup {NoEvent}]
  /\ \A p \in Producers :
       hand[p] \in Events <=> ppc[p] \in {"load", "drop", "subtract", "push"}

FlusherType ==
  /\ fpc \in {"idle", "flush", "drain", "send", "requeue", "requeueDrop",
              "requeuePush", "mark", "house", "ended"}
  /\ batch \in Seq(Events)
  /\ want \in Nat /\ popped \in Nat /\ pushed \in Nat
  /\ attempt \in 0..MaxRetries
  /\ breaker \in BreakerState

EventType ==
  /\ stored \in [Events -> {"none", "unsent", "sent", "deleted"}]
  /\ next \in 1..(NumEvents + 1)
  /\ withheld \subseteq Events /\ acked \subseteq Events
  /\ dropped \subseteq Events /\ lost \subseteq Events

CounterType ==
  /\ queue \in Seq(Events)
  /\ size \in Int /\ cycleDropped \in Nat /\ reported \in Nat
  /\ restarts \in 0..MaxRestarts

FlagType ==
  /\ shutting \in BOOLEAN /\ serverUp \in BOOLEAN
  /\ suppressed \in BOOLEAN /\ stopping \in BOOLEAN

(* Type invariant: every variable of the uploader and its loops has its     *)
(* type, and a producer holds an event exactly while it is enqueueing one.  *)
TypeOK == ProducerType /\ FlusherType /\ EventType /\ CounterType /\ FlagType

Uncounted    == {p \in Producers : ppc[p] = "count"}
Unsubtracted == {p \in Producers : ppc[p] = "subtract"}

(* The counter never drifts: at every step queue_size differs from the      *)
(* queue's length by exactly the pushes not yet added and the pops not yet  *)
(* subtracted of the enqueues, drains, drops and requeues in progress, so   *)
(* it is exact whenever none is (batch_uploader.rs:111-171, 214-317).       *)
CounterAccounting ==
  size = Len(queue) - Cardinality(Uncounted) - pushed
           + Cardinality(Unsubtracted) + popped
           + (IF fpc = "drain" THEN Len(batch) ELSE 0)

(* How many of the places an event can be in hold it. *)
Places(e) ==
    Cardinality({p \in Producers : hand[p] = e})
  + Cardinality({i \in DOMAIN queue : queue[i] = e})
  + Cardinality({i \in DOMAIN batch : batch[i] = e})
  + Cardinality({i \in 1..4 : e \in <<withheld, acked, dropped, lost>>[i]})

(* No event vanishes or is duplicated on the client: each captured event is *)
(* in exactly one place (a producer's hands, the queue, the flusher's       *)
(* batch) or has met exactly one fate (withheld, acknowledged, dropped,     *)
(* lost with the process), through every interleaving of enqueue, drop,     *)
(* drain, retry and requeue.                                                *)
NoEventLostOrDuplicated ==
  \A e \in Events : Places(e) = (IF e < next THEN 1 ELSE 0)

(* What has become of each event, as EventLedger sees it. *)
Fate ==
  LET held == InHands \cup InQueue \cup InBatch
  IN  [e \in Events |->
         IF e \in lost \cup dropped THEN "gone"
         ELSE IF e \in acked THEN "acked"
         ELSE IF e \in withheld THEN "withheld"
         ELSE IF e \in held THEN "held"
         ELSE IF e >= next THEN "future" ELSE "missing"]

Ledger == INSTANCE EventLedger WITH fate <- Fate

(* The uploader, its producers, the retries, the drops, the requeues and    *)
(* the restarts together implement the ledger: whatever the interleaving,   *)
(* every step captures the next event, acknowledges or gives up held ones,  *)
(* or changes no event's fate, so a fate once met is final                  *)
(* (batch_uploader.rs:111-317).                                             *)
ImplementsLedger == Ledger!Spec

(* Every event drop_oldest removed is counted once: reported by the sync    *)
(* loop, waiting in cycle_dropped, or popped and about to be counted        *)
(* (take_dropped_since_last's swap loses none).                             *)
DropsAccounted ==
  Cardinality(dropped) = reported + cycleDropped + popped + Cardinality(Unsubtracted)

MaxDrain == IF SmallQueue > 2 * MaxBatch THEN SmallQueue ELSE 2 * MaxBatch

(* A usize is wide enough for the events of a behaviour and a full queue. *)
ASSUME WidthAssumption ==
  NumEvents + MaxQueue + Cardinality(Producers) + MaxDrain <= Width

(* The queue is bounded: it passes max_queue_size by less than one event    *)
(* per concurrent enqueue and one requeued batch together.                  *)
BoundedOvershoot ==
  Len(queue) < MaxQueue + Cardinality(Producers) + MaxDrain

(* When the shutdown flush ends for want of events, rather than because of  *)
(* the schedule, an open circuit or a failed batch, all it leaves behind    *)
(* are events whose push a producer has not counted yet.                    *)
ShutdownDrains ==
  [][ (fpc' = "ended" /\ fpc # "ended" /\ fpc # "requeuePush" /\ ~suppressed
         /\ Check(breaker).status # "Open")
        => Len(queue) <= Cardinality(Uncounted) ]_vars

(* A row is only ever marked as sent if its event was uploaded: what        *)
(* docs/crates/oneshim-storage.md:247-263 describes (pending rows are the   *)
(* ones "not yet sent to the server", and are synced when the network is    *)
(* restored).                                                               *)
SentRowsWereUploaded ==
  \A e \in Events : stored[e] \in {"sent", "deleted"} => e \in acked

(* Progress: once the server stays reachable and the schedule stays out of  *)
(* its windows, and if no shutdown comes, the events that were handed to    *)
(* enqueue leave the client for good, acknowledged or dropped for capacity; *)
(* neither the breaker's cooldown nor a stale counter strands one.          *)
HandedEventsLeave ==
  ([]~stopping /\ <>[](serverUp /\ ~suppressed))
    => <>[](InHands \cup InQueue \cup InBatch = {})
=============================================================================
