--------------------------- MODULE FeedbackRetry ----------------------------
(***************************************************************************)
(* Feedback on suggestions and its retries: the commands that send it, the *)
(* in-memory FeedbackRetryQueue, the maintenance loop that works through   *)
(* the entries that are due, and the rows in SQLite that a restart puts    *)
(* back into the queue.                                                    *)
(*                                                                         *)
(* Feedback is numbered in the order the user gives it.  The table has one *)
(* row per suggestion, while the queue may hold several entries for one.   *)
(***************************************************************************)
EXTENDS Filters, SequencesExt

CONSTANTS
  FbSuggestions,  \* suggestions that get feedback
  FbMaxGiven,     \* bound: times the user gives feedback
  FbMaxSize,      \* max_size of the retry queue (100)
  FbMaxAttempts,  \* max_attempts (5)
  FbMaxRestarts   \* bound: restarts

ASSUME FbAssumption ==
  /\ FbMaxGiven \in Nat /\ FbMaxSize \in Nat \ {0}
  /\ FbMaxAttempts \in Nat /\ FbMaxRestarts \in Nat

VARIABLES
  fbGiven,     \* the suggestion each feedback is for, in the order given
  fbCalls,     \* feedback whose command awaits the server
  fbSpawned,   \* feedback whose enqueue task has not run yet
  fbQueue,     \* the retry queue's entries
  fbReady,     \* the entries the maintenance loop has collected
  fbSent,      \* the outcome of the first of them: "none" until it is known
  fbRow,       \* the feedback in each suggestion's row, or 0
  fbDone,      \* feedback the server has acknowledged
  fbGaveUp,    \* feedback dropped after its last attempt
  fbRestarts

fbVars == <<fbGiven, fbCalls, fbSpawned, fbQueue, fbReady, fbSent, fbRow, fbDone,
            fbGaveUp, fbRestarts>>
fbMemory == <<fbSpawned, fbQueue, fbReady, fbSent>>
fbFate   == <<fbDone, fbGaveUp>>

FbFeedback == 1..Len(fbGiven)
FbEntry(k, attempts) == [fb |-> k, attempts |-> attempts]

FbInit ==
  /\ fbGiven = <<>> /\ fbCalls = {} /\ fbSpawned = {}
  /\ fbQueue = <<>> /\ fbReady = <<>> /\ fbSent = "none"
  /\ fbRow = [s \in FbSuggestions |-> 0]
  /\ fbDone = {} /\ fbGaveUp = {} /\ fbRestarts = 0

(* Mutant of FbPush: a full queue grows. *)
FbPushUnbounded(queue, entry) == Append(queue, entry)

(* enqueue and retry_failed: a full queue drops its oldest entry. *)
FbPush(queue, entry) ==
  Append(IF Len(queue) >= FbMaxSize THEN Tail(queue) ELSE queue, entry)

(* One enqueue after the other into a new queue. *)
FbEnqueueAll(seq) ==
  LET queue[i \in 0..Len(seq)] ==
        IF i = 0 THEN <<>> ELSE FbPush(queue[i - 1], FbEntry(seq[i], 0))
  IN  queue[Len(seq)]

-----------------------------------------------------------------------------
(***************************************************************************)
(* The feedback commands.                                                  *)
(***************************************************************************)

(* submit_suggestion_feedback calls the server, ... *)
FbSubmit(s) ==
  /\ Len(fbGiven) < FbMaxGiven
  /\ fbGiven' = Append(fbGiven, s)
  /\ fbCalls' = fbCalls \cup {Len(fbGiven) + 1}
  /\ UNCHANGED <<fbMemory, fbRow, fbFate, fbRestarts>>

(* ... which acknowledges it, ... *)
FbAccepted(k) ==
  /\ k \in fbCalls
  /\ fbCalls' = fbCalls \ {k}
  /\ fbDone' = fbDone \cup {k}
  /\ UNCHANGED <<fbGiven, fbMemory, fbRow, fbGaveUp, fbRestarts>>

(* ... or not: enqueue_feedback_retry replaces the suggestion's row and    *)
(* leaves the queue to a task of its own.  A row that cannot be written is *)
(* only logged.                                                            *)
FbFailed(k) ==
  /\ k \in fbCalls
  /\ fbCalls' = fbCalls \ {k}
  /\ \/ fbRow' = [fbRow EXCEPT ![fbGiven[k]] = k]
     \/ UNCHANGED fbRow
  /\ fbSpawned' = fbSpawned \cup {k}
  /\ UNCHANGED <<fbGiven, fbQueue, fbReady, fbSent, fbFate, fbRestarts>>

FbEnqueue(k) ==
  /\ k \in fbSpawned
  /\ fbSpawned' = fbSpawned \ {k}
  /\ fbQueue' = FbPush(fbQueue, FbEntry(k, 0))
  /\ UNCHANGED <<fbGiven, fbCalls, fbReady, fbSent, fbRow, fbFate, fbRestarts>>

-----------------------------------------------------------------------------
(***************************************************************************)
(* The maintenance loop.                                                   *)
(***************************************************************************)

(* The entries of the queue for some feedback. *)
FbOf(which) == {e \in ToSet(fbQueue) : e.fb \in which}

(* Mutant of FbCollect: the entries are read and stay in the queue. *)
FbCollectCopies(due) ==
  /\ fbReady = <<>> /\ due # {}
  /\ fbReady' = Keeping(fbQueue, FbOf(due))
  /\ UNCHANGED <<fbGiven, fbCalls, fbSpawned, fbQueue, fbSent, fbRow, fbFate, fbRestarts>>

(* collect_ready takes the entries whose time has come out of the queue. *)
FbCollect(due) ==
  /\ fbReady = <<>> /\ due # {}
  /\ fbReady' = Keeping(fbQueue, FbOf(due))
  /\ fbQueue' = Keeping(fbQueue, ToSet(fbQueue) \ FbOf(due))
  /\ UNCHANGED <<fbGiven, fbCalls, fbSpawned, fbSent, fbRow, fbFate, fbRestarts>>

(* The first of them is sent again, ... *)
FbResend ==
  /\ fbReady # <<>> /\ fbSent = "none"
  /\ fbSent' \in {"ok", "err"}
  /\ fbDone' = IF fbSent' = "ok" THEN fbDone \cup {Head(fbReady).fb} ELSE fbDone
  /\ UNCHANGED <<fbGiven, fbCalls, fbSpawned, fbQueue, fbReady, fbRow, fbGaveUp, fbRestarts>>

FbNextReady == fbReady' = Tail(fbReady) /\ fbSent' = "none"

(* ... and on success the row of its suggestion is deleted, or cannot be. *)
FbResent ==
  /\ fbSent = "ok"
  /\ FbNextReady
  /\ \/ fbRow' = [fbRow EXCEPT ![fbGiven[Head(fbReady).fb]] = 0]
     \/ UNCHANGED fbRow
  /\ UNCHANGED <<fbGiven, fbCalls, fbSpawned, fbQueue, fbFate, fbRestarts>>

FbExhausted == Head(fbReady).attempts >= FbMaxAttempts

(* Mutant of FbRequeue: an entry that is tried again loses its row. *)
FbRequeueUnsaved ==
  /\ fbSent = "err" /\ ~FbExhausted
  /\ FbNextReady
  /\ fbQueue' = FbPush(fbQueue, FbEntry(Head(fbReady).fb, Head(fbReady).attempts + 1))
  /\ fbRow' = [fbRow EXCEPT ![fbGiven[Head(fbReady).fb]] = 0]
  /\ UNCHANGED <<fbGiven, fbCalls, fbSpawned, fbFate, fbRestarts>>

(* A failure goes back to the queue with one more attempt to its name;     *)
(* the count in the row stays 0.                                           *)
FbRequeue ==
  /\ fbSent = "err" /\ ~FbExhausted
  /\ FbNextReady
  /\ fbQueue' = FbPush(fbQueue, FbEntry(Head(fbReady).fb, Head(fbReady).attempts + 1))
  /\ UNCHANGED <<fbGiven, fbCalls, fbSpawned, fbRow, fbFate, fbRestarts>>

(* The last failure drops every entry of the suggestion that is queued,    *)
(* and its row.                                                            *)
FbGiveUp ==
  LET s == fbGiven[Head(fbReady).fb]
  IN  /\ fbSent = "err" /\ FbExhausted
      /\ FbNextReady
      /\ fbQueue' = Keeping(fbQueue, {e \in ToSet(fbQueue) : fbGiven[e.fb] # s})
      /\ fbGaveUp' = fbGaveUp \cup {Head(fbReady).fb}
      /\ fbRow' = [fbRow EXCEPT ![s] = 0]
      /\ UNCHANGED <<fbGiven, fbCalls, fbSpawned, fbDone, fbRestarts>>

(* cleanup_old_feedback_retries: a row older than seven days. *)
FbCleanup(s) ==
  /\ fbReady = <<>> /\ fbRow[s] # 0
  /\ fbRow' = [fbRow EXCEPT ![s] = 0]
  /\ UNCHANGED <<fbGiven, fbCalls, fbMemory, fbDone, fbGaveUp, fbRestarts>>

(* The process ends and starts again at any point: the rows, oldest first, *)
(* are all that the queue is rebuilt from, and the ones older than seven   *)
(* days are deleted instead.                                               *)
FbRestart(old) ==
  /\ fbRestarts < FbMaxRestarts
  /\ fbRestarts' = fbRestarts + 1
  /\ fbCalls' = {} /\ fbSpawned' = {} /\ fbReady' = <<>> /\ fbSent' = "none"
  /\ \E rows \in SetToSeqs({fbRow[s] : s \in FbSuggestions \ old} \ {0}) :
       /\ \A i, j \in DOMAIN rows : i < j => rows[i] < rows[j]
       /\ fbQueue' = FbEnqueueAll(rows)
  /\ fbRow' = [s \in FbSuggestions |-> IF s \in old THEN 0 ELSE fbRow[s]]
  /\ UNCHANGED <<fbGiven, fbDone, fbGaveUp>>

FbNext ==
  \/ \E s \in FbSuggestions : FbSubmit(s) \/ FbCleanup(s)
  \/ \E k \in FbFeedback : FbAccepted(k) \/ FbFailed(k) \/ FbEnqueue(k)
  \/ \E due \in SUBSET {fbQueue[i].fb : i \in DOMAIN fbQueue} : FbCollect(due)
  \/ FbResend \/ FbResent \/ FbRequeue \/ FbGiveUp
  \/ \E old \in SUBSET {s \in FbSuggestions : fbRow[s] # 0} : FbRestart(old)

FbSpec == FbInit /\ [][FbNext]_fbVars

-----------------------------------------------------------------------------
(***************************************************************************)
(* Properties.                                                             *)
(***************************************************************************)

(* Type invariant of the feedback path. *)
FbTypeOK ==
  /\ fbGiven \in Seq(FbSuggestions) /\ Len(fbGiven) <= FbMaxGiven
  /\ fbCalls \subseteq FbFeedback /\ fbSpawned \subseteq FbFeedback
  /\ Len(fbQueue) <= FbMaxSize
  /\ \A e \in ToSet(fbQueue) \cup ToSet(fbReady) :
       e.fb \in FbFeedback /\ e.attempts \in 0..FbMaxAttempts
  /\ fbSent \in {"none", "ok", "err"}
  /\ fbRow \in [FbSuggestions -> {0} \cup FbFeedback]
  /\ fbDone \cup fbGaveUp \subseteq FbFeedback

(* The row is the durability of feedback the server never acknowledged: it *)
(* is removed only for its age, between two rounds of the loop or at a     *)
(* start, or when its own feedback, or other feedback for the same         *)
(* suggestion that takes the row along, is acknowledged on a retry or      *)
(* given up (commands/suggestions.rs:26-29, loops/suggestions.rs:131-163). *)
FbRowOutlivesFailure ==
  [][ \A s \in FbSuggestions :
        fbRow[s] # 0 /\ fbRow'[s] = 0 =>
          \/ FbCleanup(s)
          \/ \E old \in SUBSET FbSuggestions : s \in old /\ FbRestart(old)
          \/ /\ fbReady # <<>> /\ fbGiven[Head(fbReady).fb] = s
             /\ Head(fbReady).fb \in fbDone \cup fbGaveUp' ]_fbVars

(* No feedback is in the process twice: an entry is queued, collected,     *)
(* waiting to be queued or with its command, never two of these, so one    *)
(* failure never makes two deliveries of its own.                          *)
FbOneCopy ==
  LET entries == [i \in 1..(Len(fbQueue) + Len(fbReady)) |-> (fbQueue \o fbReady)[i].fb]
  IN  /\ IsInjective(entries)
      /\ ToSet(entries) \cap (fbCalls \cup fbSpawned) = {}
      /\ fbCalls \cap fbSpawned = {}
=============================================================================
