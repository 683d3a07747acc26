-------------------------- MODULE SuggestionQueue ---------------------------
(***************************************************************************)
(* The suggestion queue and everything that moves suggestions through it:  *)
(* the SSE receiver and the chat extraction that push, the feedback        *)
(* commands that take out, the deferral list with its maintenance loop,    *)
(* and the rows in SQLite that a restart reads back.                       *)
(*                                                                         *)
(* A suggestion is its rank in the queue's order (priority, then creation  *)
(* time, then id); the smallest is the best.  SqContent is what            *)
(* content_fingerprint tells apart, so a suggestion that is sent again has *)
(* the same content, and different suggestions may share one.  Each lock   *)
(* is one step: the queue's, the deferral list's and the database's are    *)
(* never held together, save for the queue or the list while it is saved.  *)
(***************************************************************************)
EXTENDS Filters, FiniteSets, SequencesExt

CONSTANTS
  SqRanks,        \* bound: suggestions 1..SqRanks
  SqContent,      \* the fingerprint of each suggestion
  SqNewest,       \* the suggestions, the last created first
  SqLimit,        \* rows a restart reads of each state (50)
  SqMaxSize,      \* max_size of the queue (config.analysis.max_suggestions)
  SqMaxDeferred,  \* max_size of the deferral list (50)
  SqMaxHand       \* bound: defers under way at the same time

SqSuggestions == 1..SqRanks

ASSUME SqAssumption ==
  /\ SqRanks \in Nat /\ SqMaxSize \in Nat /\ SqMaxDeferred \in Nat \ {0}
  /\ SqMaxHand \in Nat /\ SqLimit \in Nat
  /\ SqNewest \in SetToSeqs(SqSuggestions)
  /\ DOMAIN SqContent = SqSuggestions

VARIABLES
  sqItems,     \* the BTreeSet
  sqPrints,    \* fingerprints
  sqDeferred,  \* the deferral list, oldest first
  sqHand,      \* suggestions a defer has removed from the queue and not yet added
  sqDue,       \* suggestions the maintenance loop has collected and not yet pushed
  sqRow        \* each suggestion's state column in SQLite

sqVars == <<sqItems, sqPrints, sqDeferred, sqHand, sqDue, sqRow>>

SqInit ==
  /\ sqItems = {} /\ sqPrints = {} /\ sqDeferred = <<>>
  /\ sqHand = {} /\ sqDue = <<>>
  /\ sqRow = [s \in SqSuggestions |-> "none"]

-----------------------------------------------------------------------------
(***************************************************************************)
(* SuggestionQueue, as functions of its two fields.                        *)
(***************************************************************************)
SqQueue == [items |-> sqItems, prints |-> sqPrints]

SqWorst(items) == CHOOSE s \in items : \A t \in items : t <= s

SqInsert(q, s) == [items |-> q.items \cup {s}, prints |-> q.prints \cup {SqContent[s]}]
SqRemove(q, s) == [items |-> q.items \ {s}, prints |-> q.prints \ {SqContent[s]}]

(* Mutant of SqPush: the evicted item's fingerprint stays behind. *)
SqPushLeaksPrint(q, s) ==
  CASE SqContent[s] \in q.prints -> q
    [] SqContent[s] \notin q.prints /\ Cardinality(q.items) >= SqMaxSize /\ q.items # {} ->
         IF s < SqWorst(q.items)
         THEN SqInsert([q EXCEPT !.items = @ \ {SqWorst(q.items)}], s) ELSE q
    [] OTHER -> SqInsert(q, s)

(* push: a known fingerprint is refused; a full queue gives up its worst   *)
(* item for a better one and refuses any other.  An empty queue is never   *)
(* full, whatever its size.                                                *)
SqPush(q, s) ==
  CASE SqContent[s] \in q.prints -> q
    [] SqContent[s] \notin q.prints /\ Cardinality(q.items) >= SqMaxSize /\ q.items # {} ->
         IF s < SqWorst(q.items) THEN SqInsert(SqRemove(q, SqWorst(q.items)), s) ELSE q
    [] OTHER -> SqInsert(q, s)

(* One push after the other. *)
SqPushAll(q, seq) ==
  LET pushed[i \in 0..Len(seq)] == IF i = 0 THEN q ELSE SqPush(pushed[i - 1], seq[i])
  IN  pushed[Len(seq)]

(* remove_by_id, which does nothing for an id that is not queued. *)
SqRemoveById(q, s) == IF s \in q.items THEN SqRemove(q, s) ELSE q

(* remove_expired, where the clock says which items have expired. *)
SqRemoveExpired(q, expired) ==
  [items |-> q.items \ expired, prints |-> q.prints \ {SqContent[s] : s \in expired}]

SqBecomes(q) == sqItems' = q.items /\ sqPrints' = q.prints

-----------------------------------------------------------------------------
(***************************************************************************)
(* What moves suggestions.                                                 *)
(***************************************************************************)

(* handle_suggestion: one that the feedback scorer does not suppress goes  *)
(* to the queue, the expired ones having been removed.                     *)
SqReceive(s) ==
  /\ \E expired \in SUBSET sqItems : SqBecomes(SqPush(SqRemoveExpired(SqQueue, expired), s))
  /\ UNCHANGED <<sqDeferred, sqHand, sqDue, sqRow>>

(* A suggestion found in a chat answer is pushed without any of that. *)
SqExtract(s) ==
  /\ SqBecomes(SqPush(SqQueue, s))
  /\ UNCHANGED <<sqDeferred, sqHand, sqDue, sqRow>>

(* Accept or reject: the suggestion leaves the queue. *)
SqAnswer(s) ==
  /\ s \in sqItems
  /\ SqBecomes(SqRemoveById(SqQueue, s))
  /\ UNCHANGED <<sqDeferred, sqHand, sqDue, sqRow>>

(* A defer takes the suggestion out under the queue's lock, and adds it to *)
(* the list under the list's.                                              *)
SqDeferTakes(s) ==
  /\ s \in sqItems /\ Cardinality(sqHand) < SqMaxHand
  /\ SqBecomes(SqRemoveById(SqQueue, s))
  /\ sqHand' = sqHand \cup {s}
  /\ UNCHANGED <<sqDeferred, sqDue, sqRow>>

(* DeferredManager::defer, which drops the oldest entry of a full list. *)
SqDeferAdds(s) ==
  /\ s \in sqHand
  /\ sqHand' = sqHand \ {s}
  /\ sqDeferred' = Append(IF Len(sqDeferred) >= SqMaxDeferred
                          THEN Tail(sqDeferred) ELSE sqDeferred, s)
  /\ UNCHANGED <<sqItems, sqPrints, sqDue, sqRow>>

(* The maintenance loop collects the entries that are due, ... *)
SqCollect(due) ==
  /\ sqDue = <<>>
  /\ sqDue' = Keeping(sqDeferred, due)
  /\ sqDue' # <<>>
  /\ sqDeferred' = Keeping(sqDeferred, SqSuggestions \ due)
  /\ UNCHANGED <<sqItems, sqPrints, sqHand, sqRow>>

(* ... and pushes them; one that push refuses is gone. *)
SqResurface ==
  /\ sqDue # <<>>
  /\ SqBecomes(SqPushAll(SqQueue, sqDue))
  /\ sqDue' = <<>>
  /\ UNCHANGED <<sqDeferred, sqHand, sqRow>>

(* save_suggestion_state under the queue's lock, and under the list's.     *)
(* Nothing ever deletes a row or changes the state of one it does not save *)
(* again.                                                                  *)
SqSaveQueue ==
  /\ sqItems # {}
  /\ sqRow' = [s \in SqSuggestions |-> IF s \in sqItems THEN "pending" ELSE sqRow[s]]
  /\ UNCHANGED <<sqItems, sqPrints, sqDeferred, sqHand, sqDue>>

SqSaveDeferred ==
  /\ sqDeferred # <<>>
  /\ sqRow' = [s \in SqSuggestions |-> IF s \in ToSet(sqDeferred) THEN "deferred" ELSE sqRow[s]]
  /\ UNCHANGED <<sqItems, sqPrints, sqDeferred, sqHand, sqDue>>

(* list_suggestions_by_state: the newest rows in the state. *)
SqRowsIn(state) ==
  LET rows == Keeping(SqNewest, {s \in SqSuggestions : sqRow[s] = state})
  IN  SubSeq(rows, 1, Min({SqLimit, Len(rows)}))

(* A restart at any point: the pending rows are pushed, then the deferred  *)
(* rows are listed again as far as the list has room, or pushed if due.    *)
SqRestart(due) ==
  LET later == Keeping(SqRowsIn("deferred"), SqSuggestions \ due)
      now   == Keeping(SqRowsIn("deferred"), due)
  IN  /\ SqBecomes(SqPushAll([items |-> {}, prints |-> {}], SqRowsIn("pending") \o now))
      /\ sqDeferred' = SubSeq(later, 1, Min({Len(later), SqMaxDeferred}))
      /\ sqHand' = {} /\ sqDue' = <<>>
      /\ UNCHANGED sqRow

SqNext ==
  \/ \E s \in SqSuggestions :
       SqReceive(s) \/ SqExtract(s) \/ SqAnswer(s) \/ SqDeferTakes(s) \/ SqDeferAdds(s)
  \/ \E due \in SUBSET ToSet(sqDeferred) : SqCollect(due)
  \/ SqResurface \/ SqSaveQueue \/ SqSaveDeferred
  \/ \E due \in SUBSET ToSet(SqRowsIn("deferred")) : SqRestart(due)

SqSpec == SqInit /\ [][SqNext]_sqVars

-----------------------------------------------------------------------------
(***************************************************************************)
(* Properties.                                                             *)
(***************************************************************************)

(* Type invariant of the suggestion queue. *)
SqTypeOK ==
  /\ sqItems \subseteq SqSuggestions
  /\ sqPrints \subseteq {SqContent[s] : s \in SqSuggestions}
  /\ sqDeferred \in Seq(SqSuggestions) /\ Len(sqDeferred) <= SqMaxDeferred
  /\ sqHand \subseteq SqSuggestions /\ sqDue \in Seq(SqSuggestions)
  /\ sqRow \in [SqSuggestions -> {"none", "pending", "deferred"}]

(* The fingerprints are exactly those of the queued items, and no two      *)
(* items share one, through every eviction, expiry, answer, deferral and   *)
(* restore: a fingerprint left behind would refuse that content for ever,  *)
(* one missing would show it twice (queue.rs:71-173).                      *)
SqPrintsExact ==
  /\ sqPrints = {SqContent[s] : s \in sqItems}
  /\ \A s, t \in sqItems : SqContent[s] = SqContent[t] => s = t
  /\ Cardinality(sqItems) <= (IF SqMaxSize = 0 THEN 1 ELSE SqMaxSize)
=============================================================================
