------------------------ MODULE IntegrationExchange -------------------------
(***************************************************************************)
(* The integration runtime: the registry file that holds the outbox, the   *)
(* inbox and their cursors, and the tasks that share it: the runtime loop  *)
(* (connect, heartbeat, flush, refresh), the web API that may refresh at   *)
(* the same time, the producer of insights, and the user's receipts.       *)
(*                                                                         *)
(* A write changes the registry in memory and then saves all of it; a save *)
(* that fails is reported to the caller, but memory keeps the change and   *)
(* the next save that succeeds writes it.  The server offers prompts 1, 2, *)
(* ... in order; insights are numbered in the order of their source.  All  *)
(* requested scopes are granted and the policy allows every insight: a     *)
(* refusal changes nothing that is modelled here.                          *)
(***************************************************************************)
EXTENDS Integers, Sequences, SequencesExt, FiniteSetsExt, Filters

CONSTANTS
  IxRefreshers,  \* callers of refresh(): the runtime loop and the web API
  IxMaxPrompts,  \* bound: prompts the server offers
  IxInsights,    \* bound: insights the source has
  IxMaxMessages, \* bound: messages put into the outbox
  IxBatch,       \* max_batch_size (50)
  IxMaxStored,   \* max_stored_prompts (256)
  IxMaxFailures, \* bound: saves that fail
  IxMaxRestarts  \* bound: restarts

(* A batch fits into the inbox, as it does with the defaults. *)
ASSUME IxAssumption ==
  /\ IxMaxPrompts \in Nat /\ IxInsights \in Nat
  /\ IxMaxMessages \in Nat /\ IxMaxFailures \in Nat /\ IxMaxRestarts \in Nat
  /\ IxBatch \in Nat \ {0} /\ IxMaxStored \in Nat /\ IxBatch <= IxMaxStored

VARIABLES
  ixMem,       \* the registry in memory
  ixDisk,      \* the registry file
  ixLink,      \* the session: "down", "up", or "dead" (ready here, unusable)
  ixWay,       \* how prompts come: "poll", or the "live" channel
  ixPublished, \* prompts the server has offered
  ixLive,      \* prompts received on the live channel and not drained
  ixFlush,     \* where flush() is, with the queue ids it may delete
  ixRefresh,   \* where each refresh is, with the cursor and prompts it holds
  ixProducer,  \* "idle", or "enqueued" before the checkpoint is stored
  ixMessages,  \* messages put into the outbox so far
  ixTaken,     \* messages the server has received
  ixSeen,      \* prompts that have been in the file
  ixLost,      \* prompts pruned from memory before they had been in the file
  ixForgot,    \* prompts whose answer was pruned, or whose save failed
  ixFailures,  \* saves that have failed
  ixRestarts

ixVars == <<ixMem, ixDisk, ixLink, ixWay, ixPublished, ixLive, ixFlush, ixRefresh,
            ixProducer, ixMessages, ixTaken, ixSeen, ixLost, ixForgot, ixFailures,
            ixRestarts>>
ixStore  == <<ixMem, ixDisk, ixSeen, ixFailures>>
ixServer == <<ixPublished, ixTaken>>
ixTasks  == <<ixFlush, ixRefresh, ixProducer>>
ixFate   == <<ixLost, ixForgot>>

IxPrompts     == 1..IxMaxPrompts
IxNotFlushing == [at |-> "idle", acked |-> {}]
IxNoRefresh   == [at |-> "idle", cursor |-> 0, prompts |-> <<>>]

IxInit ==
  /\ ixMem = [outbox |-> <<>>, inbox |-> <<>>, cursor |-> 0,
              checkpoint |-> 0, session |-> FALSE]
  /\ ixDisk = ixMem
  /\ ixLink = "down" /\ ixWay \in {"poll", "live"}
  /\ ixPublished = 0 /\ ixLive = <<>>
  /\ ixFlush = IxNotFlushing
  /\ ixRefresh = [r \in IxRefreshers |-> IxNoRefresh]
  /\ ixProducer = "idle"
  /\ ixMessages = 0 /\ ixTaken = {} /\ ixSeen = {}
  /\ ixLost = {} /\ ixForgot = {}
  /\ ixFailures = 0 /\ ixRestarts = 0

IxIn(inbox) == {inbox[i].prompt : i \in DOMAIN inbox}
IxWith(inbox, status) ==
  {inbox[i].prompt : i \in {j \in DOMAIN inbox : inbox[j].status = status}}

(* save_registry after a change under the registry's lock. *)
IxSave(registry, ok) ==
  /\ ixMem' = registry
  /\ ixDisk' = IF ok THEN registry ELSE ixDisk
  /\ ixSeen' = IF ok THEN ixSeen \cup IxIn(registry.inbox) ELSE ixSeen
  /\ ixFailures' = IF ok THEN ixFailures ELSE ixFailures + 1
  /\ ixFailures' <= IxMaxFailures

IxMessage(of) == [id |-> ixMessages + 1, of |-> of]

-----------------------------------------------------------------------------
(***************************************************************************)
(* The session.  The loop treats Degraded as ready (session_satisfies_     *)
(* scopes), so a heartbeat's failure, which only sets that status, changes *)
(* nothing here.                                                           *)
(***************************************************************************)

(* Mutant of IxConnect: a Degraded session is not accepted as ready. *)
IxConnectUnlessUp(answered, ok) ==
  /\ ixLink # "up"
  /\ ixLink' = IF answered THEN "up" ELSE "down"
  /\ IxSave([ixMem EXCEPT !.session = answered], ok)
  /\ UNCHANGED <<ixWay, ixServer, ixLive, ixTasks, ixMessages, ixFate, ixRestarts>>

(* ensure_session_ready: connect() is called when no ready session exists. *)
IxConnect(answered, ok) ==
  /\ ixLink = "down"
  /\ ixLink' = IF answered THEN "up" ELSE "down"
  /\ IxSave([ixMem EXCEPT !.session = answered], ok)
  /\ UNCHANGED <<ixWay, ixServer, ixLive, ixTasks, ixMessages, ixFate, ixRestarts>>

(* A heartbeat that succeeds persists the session again, and with it the   *)
(* whole registry.                                                         *)
IxHeartbeat(ok) ==
  /\ ixLink = "up"
  /\ IxSave([ixMem EXCEPT !.session = TRUE], ok)
  /\ UNCHANGED <<ixLink, ixWay, ixServer, ixLive, ixTasks, ixMessages, ixFate,
                 ixRestarts>>

(* The server forgets the session, or its live channel breaks. *)
IxServerDrops ==
  /\ ixLink = "up"
  /\ ixLink' = "dead"
  /\ UNCHANGED <<ixStore, ixWay, ixServer, ixLive, ixTasks, ixMessages, ixFate,
                 ixRestarts>>

-----------------------------------------------------------------------------
(***************************************************************************)
(* Outbound: the producer's insights and the flush.                        *)
(***************************************************************************)

(* produce_pending: enqueue the next candidate, ... *)
IxProduce(ok) ==
  /\ ixProducer = "idle"
  /\ ixMem.checkpoint < IxInsights /\ ixMessages < IxMaxMessages
  /\ IxSave([ixMem EXCEPT !.outbox =
               Append(@, IxMessage(<<"insight", ixMem.checkpoint + 1>>))], ok)
  /\ ixMessages' = ixMessages + 1
  /\ ixProducer' = IF ok THEN "enqueued" ELSE "idle"
  /\ UNCHANGED <<ixLink, ixWay, ixServer, ixLive, ixFlush, ixRefresh, ixFate,
                 ixRestarts>>

(* ... then store the checkpoint. *)
IxCheckpoint(ok) ==
  /\ ixProducer = "enqueued"
  /\ IxSave([ixMem EXCEPT !.checkpoint = @ + 1], ok)
  /\ ixProducer' = "idle"
  /\ UNCHANGED <<ixLink, ixWay, ixServer, ixLive, ixFlush, ixRefresh, ixMessages,
                 ixFate, ixRestarts>>

(* flush() sends the oldest messages.  The server takes some of them and   *)
(* acknowledges some of those, on the live channel all or the wait ends in *)
(* a timeout; the answer may be lost.                                      *)
IxFlushSend(took, acked, answered) ==
  LET batch == ToSet(SubSeq(ixMem.outbox, 1, Min({IxBatch, Len(ixMem.outbox)})))
  IN  /\ ixFlush.at = "idle" /\ ixLink = "up" /\ ixMem.outbox # <<>>
      /\ took \subseteq batch /\ acked \subseteq took
      /\ answered /\ ixWay = "live" => acked = batch
      /\ ~answered => acked = {}
      /\ ixTaken' = ixTaken \cup took
      /\ ixFlush' = IF answered
                    THEN [at |-> "delete", acked |-> {m.id : m \in acked}]
                    ELSE IxNotFlushing
      /\ UNCHANGED <<ixStore, ixLink, ixWay, ixPublished, ixLive, ixRefresh,
                     ixProducer, ixMessages, ixFate, ixRestarts>>

(* Mutant of IxFlushDelete: everything that was listed is deleted. *)
IxFlushDeletesAll(ok) ==
  /\ ixFlush.at = "delete"
  /\ IxSave([ixMem EXCEPT !.outbox = <<>>], ok)
  /\ ixFlush' = IxNotFlushing
  /\ UNCHANGED <<ixLink, ixWay, ixServer, ixLive, ixRefresh, ixProducer, ixMessages,
                 ixFate, ixRestarts>>

(* The acknowledged messages leave the outbox; the cursors that are stored *)
(* after that are only ever displayed.                                     *)
IxFlushDelete(ok) ==
  /\ ixFlush.at = "delete"
  /\ IxSave([ixMem EXCEPT !.outbox = Keeping(@, {m \in ToSet(@) : m.id \notin ixFlush.acked})], ok)
  /\ ixFlush' = IxNotFlushing
  /\ UNCHANGED <<ixLink, ixWay, ixServer, ixLive, ixRefresh, ixProducer, ixMessages,
                 ixFate, ixRestarts>>

-----------------------------------------------------------------------------
(***************************************************************************)
(* Inbound: refresh and the user's answer.                                 *)
(***************************************************************************)

(* The server offers another prompt, and pushes it if the channel is open. *)
IxPublish ==
  /\ ixPublished < IxMaxPrompts
  /\ ixPublished' = ixPublished + 1
  /\ ixLive' = IF ixWay = "live" /\ ixLink = "up"
               THEN Append(ixLive, ixPublished + 1) ELSE ixLive
  /\ UNCHANGED <<ixStore, ixLink, ixWay, ixTasks, ixMessages, ixTaken, ixFate,
                 ixRestarts>>

IxMarked(inbox, which, status) ==
  [i \in DOMAIN inbox |->
     IF inbox[i].prompt \in which THEN [inbox[i] EXCEPT !.status = status] ELSE inbox[i]]

(* expire_stale, which list_pending calls as well. *)
IxExpire(old, ok) ==
  /\ old # {} /\ old \subseteq IxWith(ixMem.inbox, "pending")
  /\ IxSave([ixMem EXCEPT !.inbox = IxMarked(@, old, "expired")], ok)
  /\ UNCHANGED <<ixLink, ixWay, ixServer, ixLive, ixTasks, ixMessages, ixFate,
                 ixRestarts>>

(* refresh() expires what is stale, reads the cursor and asks the server;  *)
(* an expiry that cannot be saved ends it.                                 *)
IxRefreshAsk(r, old, ok) ==
  /\ ixRefresh[r].at = "idle" /\ ixLink = "up"
  /\ old \subseteq IxWith(ixMem.inbox, "pending")
  /\ IF old = {} THEN ok /\ UNCHANGED ixStore
                 ELSE IxSave([ixMem EXCEPT !.inbox = IxMarked(@, old, "expired")], ok)
  /\ ixRefresh' = IF ok
                  THEN [ixRefresh EXCEPT ![r] =
                          [at |-> "asked", cursor |-> ixMem.cursor, prompts |-> <<>>]]
                  ELSE ixRefresh
  /\ UNCHANGED <<ixLink, ixWay, ixServer, ixLive, ixFlush, ixProducer, ixMessages,
                 ixFate, ixRestarts>>

(* receive_prompts: what the server has after the cursor with the cursor   *)
(* of the last, or what the live channel holds with none.  A request that  *)
(* fails, or finds nothing, ends the refresh.                              *)
IxRefreshGot(r) ==
  LET asked == ixRefresh[r].cursor
      last  == Min({ixPublished, asked + IxBatch})
      count == Min({Len(ixLive), IxBatch})
  IN  /\ ixRefresh[r].at = "asked"
      /\ \/ /\ ixRefresh' = [ixRefresh EXCEPT ![r] = IxNoRefresh]
            /\ UNCHANGED ixLive
         \/ /\ ixLink = "up" /\ ixWay = "poll" /\ last > asked
            /\ ixRefresh' = [ixRefresh EXCEPT ![r] =
                               [at |-> "got", cursor |-> last,
                                prompts |-> [i \in 1..(last - asked) |-> asked + i]]]
            /\ UNCHANGED ixLive
         \/ /\ ixLink = "up" /\ ixWay = "live" /\ count > 0
            /\ ixRefresh' = [ixRefresh EXCEPT ![r] =
                               [at |-> "got", cursor |-> 0, prompts |-> SubSeq(ixLive, 1, count)]]
            /\ ixLive' = SubSeq(ixLive, count + 1, Len(ixLive))
      /\ UNCHANGED <<ixStore, ixLink, ixWay, ixServer, ixFlush, ixProducer, ixMessages,
                     ixFate, ixRestarts>>

IxPending(p) == [prompt |-> p, status |-> "pending"]

(* Mutant of IxMerge: a prompt that comes again starts over. *)
IxMergeResets(inbox, prompts) ==
  Keeping(inbox, {e \in ToSet(inbox) : ~Contains(prompts, e.prompt)})
    \o [i \in DOMAIN prompts |-> IxPending(prompts[i])]

(* A prompt that is already there keeps its status; a new one is pending.  *)
IxMerge(inbox, prompts) ==
  LET new == Keeping(prompts, ToSet(prompts) \ IxIn(inbox))
  IN  inbox \o [i \in DOMAIN new |-> IxPending(new[i])]

(* The order of prune_inbox_locked: answered or expired prompts come first,*)
(* then the oldest.  The inbox is in the order of arrival, and prompts of  *)
(* one batch in the order of their ids.                                    *)
IxBefore(inbox, i) ==
  {j \in DOMAIN inbox :
     LET early == inbox[j].status # "pending"
         late  == inbox[i].status = "pending"
     IN  (early /\ late) \/ ((early = ~late) /\ j < i)}

(* Mutant of IxPrune: the newest go first. *)
IxPruneNewest(inbox) == SubSeq(inbox, 1, Min({Len(inbox), IxMaxStored}))

(* prune_inbox_locked: over the limit, the first in that order go. *)
IxPrune(inbox) ==
  LET over == Len(inbox) - IxMaxStored
      gone == {i \in DOMAIN inbox : Cardinality(IxBefore(inbox, i)) < over}
  IN  Keeping(inbox, ToSet(inbox) \ {inbox[i] : i \in gone})

IxRefreshUpsert(r, ok) ==
  LET merged == IxMerge(ixMem.inbox, ixRefresh[r].prompts)
      pruned == IxPrune(merged)
  IN  /\ ixRefresh[r].at = "got"
      /\ IxSave([ixMem EXCEPT !.inbox = pruned], ok)
      /\ ixForgot' = ixForgot \cup (IxWith(merged, "answered") \ IxIn(pruned))
      /\ ixLost' = ixLost \cup (IxIn(ixMem.inbox) \ (IxIn(pruned) \cup ixSeen))
      /\ ixRefresh' = [ixRefresh EXCEPT ![r] =
                         IF ok /\ ixWay = "poll" THEN [@ EXCEPT !.at = "stored"]
                                                 ELSE IxNoRefresh]
      /\ UNCHANGED <<ixLink, ixWay, ixServer, ixLive, ixFlush, ixProducer, ixMessages,
                     ixRestarts>>

IxRefreshCursor(r, ok) ==
  /\ ixRefresh[r].at = "stored"
  /\ IxSave([ixMem EXCEPT !.cursor = ixRefresh[r].cursor], ok)
  /\ ixRefresh' = [ixRefresh EXCEPT ![r] = IxNoRefresh]
  /\ UNCHANGED <<ixLink, ixWay, ixServer, ixLive, ixFlush, ixProducer, ixMessages,
                 ixFate, ixRestarts>>

(* acknowledge and dismiss: record_prompt_receipt changes the status of a  *)
(* pending prompt and queues the receipt with one save.                    *)
IxReceipt(p, ok) ==
  /\ p \in IxWith(ixMem.inbox, "pending") /\ ixMessages < IxMaxMessages
  /\ IxSave([ixMem EXCEPT
               !.inbox = IxMarked(@, {p}, "answered"),
               !.outbox = Append(@, IxMessage(<<"receipt", p>>))], ok)
  /\ ixMessages' = ixMessages + 1
  /\ ixForgot' = IF ok THEN ixForgot ELSE ixForgot \cup {p}
  /\ UNCHANGED <<ixLost, ixLink, ixWay, ixServer, ixLive, ixTasks, ixRestarts>>

-----------------------------------------------------------------------------
(* The file is all a new process has: a session in it counts as ready, but *)
(* the transport's bindings, without which every request is refused, were  *)
(* in memory only.                                                         *)
IxRestart ==
  /\ ixRestarts < IxMaxRestarts
  /\ ixRestarts' = ixRestarts + 1
  /\ ixMem' = ixDisk
  /\ ixLink' = IF ixDisk.session THEN "dead" ELSE "down"
  /\ ixLive' = <<>> /\ ixFlush' = IxNotFlushing
  /\ ixRefresh' = [r \in IxRefreshers |-> IxNoRefresh]
  /\ ixProducer' = "idle"
  /\ UNCHANGED <<ixDisk, ixWay, ixServer, ixMessages, ixSeen, ixFate, ixFailures>>

IxBatchSubsets == SUBSET ToSet(SubSeq(ixMem.outbox, 1, Min({IxBatch, Len(ixMem.outbox)})))

IxRefreshStep(r, ok) ==
  \/ \E old \in SUBSET IxWith(ixMem.inbox, "pending") : IxRefreshAsk(r, old, ok)
  \/ IxRefreshGot(r)
  \/ IxRefreshUpsert(r, ok)
  \/ IxRefreshCursor(r, ok)

IxNext ==
  \/ \E ok \in BOOLEAN :
       \/ \E answered \in BOOLEAN : IxConnect(answered, ok)
       \/ IxHeartbeat(ok) \/ IxProduce(ok) \/ IxCheckpoint(ok) \/ IxFlushDelete(ok)
       \/ \E r \in IxRefreshers : IxRefreshStep(r, ok)
       \/ \E old \in SUBSET IxWith(ixMem.inbox, "pending") : IxExpire(old, ok)
       \/ \E p \in IxPrompts : IxReceipt(p, ok)
  \/ \E took, acked \in IxBatchSubsets, answered \in BOOLEAN :
       IxFlushSend(took, acked, answered)
  \/ IxServerDrops \/ IxPublish \/ IxRestart

IxSpec == IxInit /\ [][IxNext]_ixVars

-----------------------------------------------------------------------------
(***************************************************************************)
(* Properties.                                                             *)
(***************************************************************************)

IxRegistryType(registry) ==
  /\ \A m \in ToSet(registry.outbox) : m.id \in 1..ixMessages
  /\ Len(registry.inbox) <= IxMaxStored
  /\ \A e \in ToSet(registry.inbox) :
       /\ e.prompt \in IxPrompts
       /\ e.status \in {"pending", "answered", "expired"}
  /\ registry.cursor \in 0..ixPublished
  /\ registry.checkpoint \in 0..IxInsights
  /\ registry.session \in BOOLEAN

(* Type invariant of the integration runtime. *)
IxTypeOK ==
  /\ IxRegistryType(ixMem) /\ IxRegistryType(ixDisk)
  /\ ixLink \in {"down", "up", "dead"} /\ ixWay \in {"poll", "live"}
  /\ ToSet(ixLive) \cup ixSeen \cup ixLost \cup ixForgot \subseteq IxPrompts
  /\ ixFlush.at \in {"idle", "delete"}
  /\ \A r \in IxRefreshers : ixRefresh[r].at \in {"idle", "asked", "got", "stored"}
  /\ ixProducer \in {"idle", "enqueued"}
  /\ ixFailures \in 0..IxMaxFailures
  /\ ixMessages \in 0..IxMaxMessages /\ ixRestarts \in 0..IxMaxRestarts

(* Nothing the file counts as handed over is lost: the receipt of an       *)
(* answered prompt, and every insight the checkpoint has passed, is in the *)
(* outbox on disk until the server has it, whatever saves fail and         *)
(* wherever the process ends (inner.rs:238-288,                            *)
(* producer_coordinator.rs:35-55, egress_coordinator.rs:111-154).          *)
IxNothingForgotten ==
  LET safe == {m.of : m \in ToSet(ixDisk.outbox) \cup ixTaken}
  IN  /\ \A p \in IxWith(ixDisk.inbox, "answered") : <<"receipt", p>> \in safe
      /\ \A n \in 1..ixDisk.checkpoint : <<"insight", n>> \in safe

(* The inbox cursor on disk never covers a prompt that was never in the    *)
(* file, though two refreshes may store their cursors in either order: a   *)
(* prompt that is polled for is not skipped, unless its save failed and    *)
(* the inbox, by then too full, dropped it again before the next save      *)
(* (inbox_coordinator.rs:157-189, inner.rs:59-82).                         *)
IxCursorCoversSeen == \A p \in 1..ixDisk.cursor : p \in ixSeen \cup ixLost

(* The server gets a second receipt for a prompt, which may contradict the *)
(* first, only if the registry forgot the first: it was pruned and a       *)
(* refresh with an older cursor brought the prompt back, or its save had   *)
(* failed and the process ended (inner.rs:59-82, 159-176, 238-288).        *)
IxOneReceipt ==
  \A p \in IxPrompts :
    Cardinality({m \in ixTaken : m.of = <<"receipt", p>>}) > 1 => p \in ixForgot

(* A session that no longer works is never replaced once the file names    *)
(* it: the loop takes Connected and Degraded for ready, in this process    *)
(* and after every restart, so it opens no other and nothing is exchanged  *)
(* from then on (runtime_loop.rs:107-131, http_transport/mod.rs:50-68).    *)
IxDeadSessionStays ==
  [][ ixLink = "dead" /\ ixDisk.session =>
        /\ ixLink' = "dead" /\ ixDisk'.session
        /\ ixTaken' = ixTaken ]_ixVars
=============================================================================
