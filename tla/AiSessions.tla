----------------------------- MODULE AiSessions -----------------------------
(***************************************************************************)
(* SessionManagerImpl: the AI conversation sessions, the commands that     *)
(* create them and send messages, and the reaper that ends idle ones.      *)
(* Every operation of the manager holds the lock of its map once; a        *)
(* message holds it up to four times, with the provider's stream in        *)
(* between, so the session may be gone or the budget spent by then.        *)
(*                                                                         *)
(* The desktop checks the token budget and counts what an answer used, the *)
(* web API does neither.  An id is used again only when nothing refers to  *)
(* the session that had it.                                                *)
(***************************************************************************)
EXTENDS Integers, FiniteSets

CONSTANTS
  AsIds,          \* session ids
  AsCallers,      \* commands that can be in progress at the same time
  AsMaxSessions,  \* max_concurrent_sessions
  AsMaxRetries,   \* max_retries
  AsBudget,       \* daily_token_budget, 0 for none
  AsUsage         \* bound: tokens one answer uses

ASSUME AsAssumption ==
  /\ IsFiniteSet(AsIds) /\ IsFiniteSet(AsCallers)
  /\ AsMaxSessions \in Nat /\ AsMaxRetries \in Nat
  /\ AsBudget \in Nat /\ AsUsage \in Nat

VARIABLES
  asSession, \* the map: what the manager knows of each session
  asCall,    \* where each command is, from where and for which session
  asReap     \* sessions the reaper has collected and not yet ended

asVars == <<asSession, asCall, asReap>>

AsAbsent == [state |-> "absent", retries |-> 0, tokens |-> 0]
AsNew    == [state |-> "Active", retries |-> 0, tokens |-> 0]
AsNobody == "nobody"
AsNoCall == [at |-> "idle", via |-> "app", id |-> AsNobody]

AsLive == {s \in AsIds : asSession[s] # AsAbsent}
AsInUse(s) == s \in AsLive \cup asReap \/ \E c \in AsCallers : asCall[c].id = s

AsAt(c, place) == asCall[c].at = place
AsGoes(c, place) == asCall' = [asCall EXCEPT ![c].at = place]
AsEnds(c) == asCall' = [asCall EXCEPT ![c] = AsNoCall]

AsInit ==
  /\ asSession = [s \in AsIds |-> AsAbsent]
  /\ asCall = [c \in AsCallers |-> AsNoCall]
  /\ asReap = {}

-----------------------------------------------------------------------------
(* create_session builds the session, ... *)
AsBuild(c) ==
  /\ AsAt(c, "idle")
  /\ AsGoes(c, "admit") /\ UNCHANGED <<asSession, asReap>>

(* ... and admit_session counts and inserts under one lock, or refuses.    *)
(* Nothing knows the new id before that.                                   *)
AsAdmit(c) ==
  /\ AsAt(c, "admit")
  /\ IF Cardinality(AsLive) < AsMaxSessions
     THEN \E s \in AsIds : ~AsInUse(s) /\ asSession' = [asSession EXCEPT ![s] = AsNew]
     ELSE UNCHANGED asSession
  /\ AsEnds(c) /\ UNCHANGED asReap

-----------------------------------------------------------------------------
(* The tokens the sessions have used, each named by its session and its    *)
(* number there, so that their sum is a cardinality.                       *)
AsTokensOf(session) == UNION {{s} \X (1..session[s].tokens) : s \in AsIds}
AsSpent == Cardinality(AsTokensOf(asSession))

(* Mutant of AsWithinBudget: each session has the budget for itself. *)
AsWithinOwnBudget(s) == AsBudget = 0 \/ asSession[s].tokens < AsBudget

(* check_token_budget: the sessions that are there have used less. *)
AsWithinBudget(s) == AsBudget = 0 \/ AsSpent < AsBudget

(* A message to a session: the desktop's passes the budget first.  (With   *)
(* an id that is not there it would be refused by the next step.)          *)
AsSend(c, s, via) ==
  /\ AsAt(c, "idle") /\ s \in AsLive
  /\ via = "app" => AsWithinBudget(s)
  /\ asCall' = [asCall EXCEPT ![c] = [at |-> "get", via |-> via, id |-> s]]
  /\ UNCHANGED <<asSession, asReap>>

(* get_session; the message ends if there is none. *)
AsGet(c) ==
  /\ AsAt(c, "get")
  /\ IF asCall[c].id \in AsLive THEN AsGoes(c, "touch") ELSE AsEnds(c)
  /\ UNCHANGED <<asSession, asReap>>

(* touch_session, whatever the state was, and the message goes out. *)
AsTouch(c) ==
  /\ AsAt(c, "touch")
  /\ asSession' = IF asCall[c].id \in AsLive
                  THEN [asSession EXCEPT ![asCall[c].id].state = "Active"]
                  ELSE asSession
  /\ AsGoes(c, "stream") /\ UNCHANGED asReap

(* The result of the stream, one for a message, reports its usage, which   *)
(* accumulate_tokens adds if the session is still there.                   *)
AsResult(c, usage) ==
  /\ AsAt(c, "stream")
  /\ asSession' = IF asCall[c].via = "app" /\ asCall[c].id \in AsLive
                  THEN [asSession EXCEPT ![asCall[c].id].tokens = @ + usage]
                  ELSE asSession
  /\ AsGoes(c, "rest") /\ UNCHANGED asReap

(* The stream ends, with or without a result. *)
AsStreamEnds(c) ==
  /\ AsAt(c, "stream") \/ AsAt(c, "rest")
  /\ AsEnds(c) /\ UNCHANGED <<asSession, asReap>>

(* report_failure: a transient error costs a retry, any other the session. *)
AsReported(session, transient) ==
  IF transient /\ session.retries < AsMaxRetries
  THEN [session EXCEPT !.retries = @ + 1, !.state = "Active"]
  ELSE [session EXCEPT !.state = "Failed"]

(* Sending or the stream fails.  The desktop stops at the first error, the *)
(* web API passes the stream on.                                           *)
AsStreamFails(c, transient) ==
  /\ AsAt(c, "stream") \/ AsAt(c, "rest")
  /\ asSession' = IF asCall[c].id \in AsLive
                  THEN [asSession EXCEPT ![asCall[c].id] = AsReported(@, transient)]
                  ELSE asSession
  /\ \/ asCall[c].via = "app" /\ AsEnds(c)
     \/ asCall[c].via = "web" /\ UNCHANGED asCall
  /\ UNCHANGED asReap

-----------------------------------------------------------------------------
AsRecovered(session) ==
  IF session.retries >= AsMaxRetries
  THEN [session EXCEPT !.state = "Failed"]
  ELSE [session EXCEPT !.retries = @ + 1, !.state = "Active"]

(* recover_session, by command. *)
AsRecover(s) ==
  /\ s \in AsLive
  /\ asSession' = [asSession EXCEPT ![s] = AsRecovered(@)]
  /\ UNCHANGED <<asCall, asReap>>

(* kill_session, by command or for each session at shutdown. *)
AsKill(s) ==
  /\ s \in AsLive
  /\ asSession' = [asSession EXCEPT ![s] = AsAbsent]
  /\ UNCHANGED <<asCall, asReap>>

(* A pass of reap_idle_sessions: sessions past their lifetime are          *)
(* collected, idle ones are marked first and collected on the next pass; a *)
(* Failed one is left alone.  A session marked Idle has not been touched   *)
(* since, so it is idle still.                                             *)
AsCollect(old, idle) ==
  LET marked == {s \in AsLive : asSession[s].state = "Idle"}
  IN  /\ asReap = {}
      /\ old \cap idle = {} /\ marked \subseteq old \cup idle
      /\ asReap' = old \cup (idle \cap marked)
      /\ asSession' = [s \in AsIds |-> IF s \in idle
                                       THEN [asSession[s] EXCEPT !.state = "Idle"]
                                       ELSE asSession[s]]
      /\ UNCHANGED asCall

(* The collected sessions are ended one by one, without another look. *)
AsEndCollected(s) ==
  /\ s \in asReap
  /\ asSession' = [asSession EXCEPT ![s] = AsAbsent]
  /\ asReap' = asReap \ {s}
  /\ UNCHANGED asCall

AsCommand(c) ==
  \/ AsBuild(c) \/ AsAdmit(c) \/ AsGet(c) \/ AsTouch(c) \/ AsStreamEnds(c)
  \/ \E usage \in 1..AsUsage : AsResult(c, usage)
  \/ \E transient \in BOOLEAN : AsStreamFails(c, transient)

AsNext ==
  \/ \E c \in AsCallers : AsCommand(c)
  \/ \E c \in AsCallers, s \in AsIds, via \in {"app", "web"} : AsSend(c, s, via)
  \/ \E s \in AsIds : AsRecover(s) \/ AsKill(s) \/ AsEndCollected(s)
  \/ \E old \in SUBSET AsLive, idle \in SUBSET {s \in AsLive : asSession[s].state # "Failed"} :
       AsCollect(old, idle)

AsSpec == AsInit /\ [][AsNext]_asVars

-----------------------------------------------------------------------------
(***************************************************************************)
(* Properties.                                                             *)
(***************************************************************************)

(* Type invariant of the session manager, its capacity included. *)
AsTypeOK ==
  /\ asSession \in [AsIds -> [state : {"absent", "Active", "Idle", "Failed"},
                              retries : 0..AsMaxRetries, tokens : Nat]]
  /\ Cardinality(AsLive) <= AsMaxSessions
  /\ asCall \in [AsCallers ->
                   [at : {"idle", "admit", "get", "touch", "stream", "rest"},
                    via : {"app", "web"}, id : AsIds \cup {AsNobody}]]
  /\ asReap \subseteq AsIds

(* The token budget is checked before a message and charged after its      *)
(* answer: the sessions that are there pass it by at most one answer for   *)
(* each message under way, however many sessions share it                  *)
(* (session_manager/mod.rs:140-153, commands/ai_session.rs:103-183).       *)
AsBudgetOvershoot ==
  AsBudget > 0 => AsSpent < AsBudget + Cardinality(AsCallers) * AsUsage
=============================================================================
