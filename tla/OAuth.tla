-------------------------------- MODULE OAuth --------------------------------
(***************************************************************************)
(* Provider-managed OAuth credentials: the OAuthClient (authorization      *)
(* flows, on-demand refresh, revocation), the TokenRefreshCoordinator with *)
(* its failure count and backoff, the scheduler loop that drives it, and   *)
(* the commands by which the user polls, cancels and revokes.              *)
(*                                                                         *)
(* Everything runs concurrently on the runtime.  A step ends where the     *)
(* code awaits the secret store, the network or a mutex.  Tokens are       *)
(* numbered by the grant that issued them (0: no token stored).            *)
(***************************************************************************)
EXTENDS Naturals, FiniteSets

CONSTANTS
  Callers,       \* tasks that call get_access_token
  LoopTask,      \* the scheduler task that calls check_and_refresh
  NumFlows,      \* bound: authorization flows started
  MaxGrants,     \* bound: grants the provider issues
  MaxRevokes,    \* bound: revoke commands
  GrantShapes,   \* what a token response may carry
  StoreMayFail   \* whether secret store calls may return an error

ASSUME OAuthAssumption ==
  /\ LoopTask \notin Callers
  /\ NumFlows \in Nat /\ MaxGrants \in Nat /\ MaxRevokes \in Nat
  /\ GrantShapes \subseteq [rotates : BOOLEAN, expires : BOOLEAN]
  /\ StoreMayFail \in BOOLEAN

Tasks == Callers \cup {LoopTask}
Flows == 1..NumFlows
None  == 0   \* no token, no flow

MAX_CONSECUTIVE_FAILURES == 3

VARIABLES
  sec,        \* the provider's namespace in the secret store
  guard,      \* OAuthClient.refresh_in_progress
  pc,         \* where each task is
  tok,        \* the refresh token each task read
  grant,      \* the token response each task or flow is storing
  result,     \* the RefreshResult the loop's refresh returned
  fpc,        \* where each flow's background task is
  status,     \* each flow's entry in active_flows ("absent": none)
  cancelled,  \* flows whose cancel channel has fired
  fgrant,     \* the token response each flow is storing
  lock,       \* the flow whose background task holds the active_flows mutex
  inProgress, failures, backoff,  \* RefreshState
  resetDue,   \* oauth_flow_status saw Completed and is about to call reset()
  revoking,   \* revoke() has deleted the namespace and waits for the flows
  grants,     \* grants issued so far
  spent,      \* refresh tokens an answer that arrived has replaced
  revokes,
  stranded,   \* history: a refresh's new refresh token was not kept by the store
  revoked     \* history: revoke() returned with no flow under way or started since

clientVars == <<sec, guard, pc, tok, grant, result>>
flowVars   == <<fpc, status, cancelled, fgrant, lock>>
coordVars  == <<inProgress, failures, backoff>>
userVars   == <<resetDue, revoking, revokes>>
vars == <<clientVars, flowVars, coordVars, userVars, grants, spent, stranded, revoked>>

NoGrant == [gen |-> None, rotates |-> FALSE, expires |-> FALSE]
Grants  == [gen : 0..MaxGrants, rotates : BOOLEAN, expires : BOOLEAN]

Init ==
  /\ sec = [access |-> None, refresh |-> None, expiry |-> "none"]
  /\ guard = FALSE
  /\ pc = [t \in Tasks |-> "idle"]
  /\ tok = [t \in Tasks |-> None]
  /\ grant = [t \in Tasks |-> NoGrant]
  /\ result = "none"
  /\ fpc = [f \in Flows |-> "none"]
  /\ status = [f \in Flows |-> "absent"]
  /\ cancelled = {} /\ lock = None
  /\ fgrant = [f \in Flows |-> NoGrant]
  /\ inProgress = FALSE /\ failures = 0 /\ backoff = "none"
  /\ resetDue = FALSE /\ revoking = FALSE /\ revokes = 0
  /\ grants = 0 /\ spent = {}
  /\ stranded = FALSE /\ revoked = FALSE

-----------------------------------------------------------------------------
(***************************************************************************)
(* A refresh, by the loop (refresh_access_token) or by a caller whose      *)
(* token has expired (get_access_token and try_refresh).  The two read the *)
(* same store under the same guard, in slightly different orders.          *)
(***************************************************************************)

(* A call returns: its locals are gone, the loop goes to phase 3 of         *)
(* check_and_refresh with the result, a caller is done.                     *)
Leave(t, r) ==
  /\ pc' = [pc EXCEPT ![t] = IF t = LoopTask THEN "outcome" ELSE "idle"]
  /\ result' = IF t = LoopTask THEN r ELSE result
  /\ tok' = [tok EXCEPT ![t] = None]
  /\ grant' = [grant EXCEPT ![t] = NoGrant]

(* A call goes on at the next await. *)
GoTo(t, place) == pc' = [pc EXCEPT ![t] = place] /\ UNCHANGED <<result, tok, grant>>

GetAccessToken(t) ==
  /\ t \in Callers /\ pc[t] = "idle"
  /\ GoTo(t, "token")
  /\ UNCHANGED <<sec, guard, flowVars, coordVars, userVars, grants, spent,
                 stranded, revoked>>

ReadAccess(t) ==
  /\ pc[t] = "token"
  /\ \/ sec.access = None /\ Leave(t, "NotAuthenticated")
     \/ sec.access # None /\ GoTo(t, IF t = LoopTask THEN "guard" ELSE "valid")
     \/ StoreMayFail /\ Leave(t, "Err")
  /\ UNCHANGED <<sec, guard, flowVars, coordVars, userVars, grants, spent,
                 stranded, revoked>>

(* Mutant of TakeGuard: the flag is loaded and stored, not compared and     *)
(* exchanged, with a suspension between the two.                            *)
TakeGuardLoadThenStore(t) ==
  /\ \/ pc[t] = "guard" /\ ~guard /\ GoTo(t, "guard2") /\ UNCHANGED guard
     \/ pc[t] = "guard" /\ guard /\ Leave(t, "AlreadyFresh") /\ UNCHANGED guard
     \/ pc[t] = "guard2" /\ guard' = TRUE /\ GoTo(t, IF t = LoopTask THEN "valid" ELSE "rtoken")
  /\ UNCHANGED <<sec, flowVars, coordVars, userVars, grants, spent,
                 stranded, revoked>>

(* compare_exchange on refresh_in_progress: a loop that loses it returns    *)
(* AlreadyFresh, a caller Ok(None).                                         *)
TakeGuard(t) ==
  /\ pc[t] = "guard"
  /\ IF guard
     THEN Leave(t, "AlreadyFresh") /\ UNCHANGED guard
     ELSE guard' = TRUE /\ GoTo(t, IF t = LoopTask THEN "valid" ELSE "rtoken")
  /\ UNCHANGED <<sec, flowVars, coordVars, userVars, grants, spent,
                 stranded, revoked>>

(* The loop wants 300 s of validity, a caller 60 s; an expiry that cannot  *)
(* be read counts as expired.                                              *)
ValidFor(t) == IF t = LoopTask THEN {"fresh"} ELSE {"fresh", "soon"}

CheckValid(t) ==
  /\ pc[t] = "valid"
  /\ \/ /\ sec.expiry \in ValidFor(t)
        /\ Leave(t, "AlreadyFresh")
        /\ guard' = (guard /\ t # LoopTask)
     \/ /\ sec.expiry \notin ValidFor(t) \/ StoreMayFail
        /\ GoTo(t, IF t = LoopTask THEN "rtoken" ELSE "guard")
        /\ UNCHANGED guard
  /\ UNCHANGED <<sec, flowVars, coordVars, userVars, grants, spent,
                 stranded, revoked>>

ReadRefreshToken(t) ==
  /\ pc[t] = "rtoken"
  /\ \/ /\ sec.refresh # None
        /\ tok' = [tok EXCEPT ![t] = sec.refresh]
        /\ pc' = [pc EXCEPT ![t] = "net"]
        /\ UNCHANGED <<guard, result, grant>>
     \/ sec.refresh = None /\ Leave(t, "ReauthRequired") /\ guard' = FALSE
     \/ StoreMayFail /\ Leave(t, "Err") /\ guard' = FALSE
  /\ UNCHANGED <<sec, flowVars, coordVars, userVars, grants, spent,
                 stranded, revoked>>

(* Mutant of RefreshAnswered: the guard is dropped before the new tokens    *)
(* are stored.                                                              *)
RefreshAnsweredDropsGuard(t) ==
  /\ pc[t] = "net" /\ grants < MaxGrants
  /\ \E shape \in GrantShapes :
       /\ grant' = [grant EXCEPT ![t] = [gen |-> grants + 1, rotates |-> shape.rotates,
                                         expires |-> shape.expires]]
       /\ spent' = IF shape.rotates THEN spent \cup {tok[t]} ELSE spent
  /\ grants' = grants + 1
  /\ pc' = [pc EXCEPT ![t] = "storeA"]
  /\ guard' = FALSE
  /\ UNCHANGED <<sec, tok, result, flowVars, coordVars, userVars, stranded, revoked>>

(* The token endpoint answers: with new tokens (rotating the refresh token *)
(* or not), with a terminal error, or with a transient one.                *)
RefreshAnswered(t) ==
  /\ pc[t] = "net"
  /\ \/ /\ grants < MaxGrants
        /\ \E shape \in GrantShapes :
             /\ grant' = [grant EXCEPT ![t] = [gen |-> grants + 1, rotates |-> shape.rotates,
                                               expires |-> shape.expires]]
             /\ spent' = IF shape.rotates THEN spent \cup {tok[t]} ELSE spent
        /\ grants' = grants + 1
        /\ pc' = [pc EXCEPT ![t] = "storeA"]
        /\ tok' = [tok EXCEPT ![t] = None]
        /\ UNCHANGED <<guard, result>>
     \/ /\ \E r \in {"ReauthRequired", "TransientFailure"} : Leave(t, r)
        /\ guard' = FALSE
        /\ UNCHANGED <<grants, spent>>
  /\ UNCHANGED <<sec, flowVars, coordVars, userVars, stranded, revoked>>

(***************************************************************************)
(* store_tokens_static: the access token, then the refresh token and the   *)
(* expiry if the response carries them, each an await of its own; place is *)
(* where the next one starts.                                              *)
(***************************************************************************)
Stored(place, g) ==
  CASE place = "storeA" -> [sec EXCEPT !.access = g.gen]
    [] place = "storeR" -> IF g.rotates THEN [sec EXCEPT !.refresh = g.gen] ELSE sec
    [] place = "storeE" -> IF g.expires THEN [sec EXCEPT !.expiry = "fresh"] ELSE sec

(* What an error leaves in the store: the last step also stores the scopes  *)
(* (and the loop reads the expiry back), so it may fail with the expiry     *)
(* already stored.                                                          *)
AfterError(place, g) == IF place = "storeE" THEN {sec, Stored(place, g)} ELSE {sec}

AfterStore(place) == IF place = "storeA" THEN "storeR" ELSE "storeE"

StoreTokens(t) ==
  /\ pc[t] \in {"storeA", "storeR", "storeE"}
  /\ \/ /\ sec' = Stored(pc[t], grant[t])
        /\ IF pc[t] = "storeE"
           THEN Leave(t, "Refreshed") /\ guard' = FALSE
           ELSE GoTo(t, AfterStore(pc[t])) /\ UNCHANGED guard
        /\ UNCHANGED stranded
     \/ /\ StoreMayFail /\ sec' \in AfterError(pc[t], grant[t])
        /\ Leave(t, "Err") /\ guard' = FALSE
        /\ stranded' = (stranded \/ (grant[t].rotates /\ pc[t] # "storeE"))
  /\ UNCHANGED <<flowVars, coordVars, userVars, grants, spent, revoked>>

-----------------------------------------------------------------------------
(***************************************************************************)
(* TokenRefreshCoordinator and its loop.                                   *)
(***************************************************************************)

(* Phase 1 of check_and_refresh, past its two early returns: a refresh is   *)
(* already in progress, or the backoff has not elapsed.                     *)
LoopTick ==
  /\ pc[LoopTask] = "idle"
  /\ ~inProgress /\ backoff = "none"
  /\ inProgress' = TRUE
  /\ pc' = [pc EXCEPT ![LoopTask] = "token"]
  /\ UNCHANGED <<sec, guard, tok, grant, result, flowVars, failures, backoff, userVars,
                 grants, spent, stranded, revoked>>

BackoffDuration(n) == CASE n = 1 -> "120s" [] n = 2 -> "300s" [] OTHER -> "120s"

(* Mutant of TransientFailure: the escalation is off by one. *)
TransientFailureLateEscalation ==
  /\ failures' = failures + 1
  /\ IF failures' > MAX_CONSECUTIVE_FAILURES
     THEN backoff' = "year"
     ELSE backoff' = BackoffDuration(failures')

(* handle_transient_failure *)
TransientFailure ==
  /\ failures' = failures + 1
  /\ IF failures' >= MAX_CONSECUTIVE_FAILURES
     THEN backoff' = "year"
     ELSE backoff' = BackoffDuration(failures')

(* Phase 3 of check_and_refresh: what each RefreshResult does to the state. *)
LoopOutcome ==
  /\ pc[LoopTask] = "outcome"
  /\ pc' = [pc EXCEPT ![LoopTask] = "idle"]
  /\ result' = "none"
  /\ inProgress' = FALSE
  /\ \/ /\ result = "AlreadyFresh"
        /\ failures' = 0
        /\ backoff' = IF failures > 0 THEN "none" ELSE backoff
     \/ /\ result = "Refreshed"
        /\ failures' = 0 /\ backoff' = "none"
     \/ /\ result \in {"NotAuthenticated", "ReauthRequired"}
        /\ backoff' = "year" /\ UNCHANGED failures
     \/ /\ result \in {"TransientFailure", "Err"}
        /\ TransientFailure
  /\ UNCHANGED <<sec, guard, tok, grant, flowVars, userVars, grants, spent,
                 stranded, revoked>>

(* Mutant of Reset: the backoff is left in place. *)
ResetKeepsBackoff ==
  /\ resetDue
  /\ resetDue' = FALSE
  /\ inProgress' = FALSE /\ failures' = 0 /\ UNCHANGED backoff
  /\ UNCHANGED <<clientVars, flowVars, revoking, revokes, grants, spent, stranded, revoked>>

(* oauth_flow_status calls reset() after it saw Completed. *)
Reset ==
  /\ resetDue
  /\ resetDue' = FALSE
  /\ inProgress' = FALSE /\ failures' = 0 /\ backoff' = "none"
  /\ UNCHANGED <<clientVars, flowVars, revoking, revokes, grants, spent, stranded, revoked>>

-----------------------------------------------------------------------------
(***************************************************************************)
(* Authorization flows.                                                    *)
(***************************************************************************)
Listening == {f \in Flows : fpc[f] = "listening"}

(* A cancel signal reaches only a flow that still waits for its callback. *)
Cancellable == {f \in Flows : fpc[f] \in {"starting", "listening"}}

(* start_flow: the callback port is free; the background task is spawned. *)
StartFlow(f) ==
  /\ fpc[f] = "none" /\ \A g \in Flows : g < f => fpc[g] # "none"
  /\ Listening = {} /\ lock = None
  /\ fpc' = [fpc EXCEPT ![f] = "starting"]
  /\ status' = [status EXCEPT ![f] = "Pending"]
  /\ revoked' = FALSE
  /\ UNCHANGED <<clientVars, cancelled, fgrant, lock, coordVars, userVars, grants, spent,
                 stranded>>

(* wait_for_callback binds the port, or finds another flow has it. *)
Bind(f) ==
  /\ fpc[f] = "starting"
  /\ IF Listening = {}
     THEN fpc' = [fpc EXCEPT ![f] = "listening"] /\ UNCHANGED cancelled
     ELSE fpc' = [fpc EXCEPT ![f] = "error"] /\ cancelled' = cancelled \ {f}
  /\ UNCHANGED <<clientVars, status, fgrant, lock, coordVars, userVars, grants,
                 spent, stranded, revoked>>

(* The select! of wait_for_callback: a callback with a code, an error       *)
(* callback or the 5 minute timeout, or the cancel signal.                  *)
CallbackEnds(f) ==
  /\ fpc[f] = "listening"
  /\ \/ fpc' = [fpc EXCEPT ![f] = "code"]
     \/ fpc' = [fpc EXCEPT ![f] = "error"]
     \/ f \in cancelled /\ fpc' = [fpc EXCEPT ![f] = "cancel"]
  /\ cancelled' = cancelled \ {f}
  /\ UNCHANGED <<clientVars, status, fgrant, lock, coordVars, userVars, grants,
                 spent, stranded, revoked>>

(* The flow's entry gets a final status, unless revoke() removed it. *)
SetStatus(f, s) ==
  status' = [status EXCEPT ![f] = IF @ = "absent" THEN @ ELSE s]

(* Mutant of TakeLock: the lookup's lock is released before the exchange. *)
TakeLockReleasesEarly(f) ==
  /\ lock = None
  /\ fpc[f] = "code"
  /\ fpc' = [fpc EXCEPT ![f] = "exchange"]
  /\ UNCHANGED <<clientVars, status, cancelled, fgrant, lock, coordVars, userVars, grants,
                 spent, stranded, revoked>>

(* The background task takes the active_flows mutex and keeps it while it   *)
(* exchanges the code and stores the tokens; a failed wait only records     *)
(* its status.                                                              *)
TakeLock(f) ==
  /\ lock = None
  /\ \/ /\ fpc[f] = "code"
        /\ lock' = f /\ fpc' = [fpc EXCEPT ![f] = "exchange"] /\ UNCHANGED status
     \/ /\ fpc[f] = "error"
        /\ SetStatus(f, "Failed") /\ fpc' = [fpc EXCEPT ![f] = "done"] /\ UNCHANGED lock
     \/ /\ fpc[f] = "cancel"
        /\ SetStatus(f, "Cancelled") /\ fpc' = [fpc EXCEPT ![f] = "done"] /\ UNCHANGED lock
  /\ UNCHANGED <<clientVars, cancelled, fgrant, coordVars, userVars, grants, spent,
                 stranded, revoked>>

EndFlow(f, s) ==
  /\ SetStatus(f, s) /\ lock' = None
  /\ fpc' = [fpc EXCEPT ![f] = "done"]
  /\ fgrant' = [fgrant EXCEPT ![f] = NoGrant]

ExchangeAnswered(f) ==
  /\ fpc[f] = "exchange"
  /\ \/ /\ grants < MaxGrants
        /\ \E shape \in GrantShapes :
             fgrant' = [fgrant EXCEPT ![f] = [gen |-> grants + 1, rotates |-> shape.rotates,
                                              expires |-> shape.expires]]
        /\ grants' = grants + 1
        /\ fpc' = [fpc EXCEPT ![f] = "storeA"]
        /\ UNCHANGED <<status, lock>>
     \/ /\ EndFlow(f, "Failed")
        /\ UNCHANGED grants
  /\ UNCHANGED <<clientVars, cancelled, coordVars, userVars, spent, stranded, revoked>>

StoreFlowTokens(f) ==
  /\ fpc[f] \in {"storeA", "storeR", "storeE"}
  /\ \/ /\ sec' = Stored(fpc[f], fgrant[f])
        /\ IF fpc[f] = "storeE"
           THEN EndFlow(f, "Completed")
           ELSE /\ fpc' = [fpc EXCEPT ![f] = AfterStore(@)]
                /\ UNCHANGED <<status, lock, fgrant>>
     \/ /\ StoreMayFail /\ sec' \in AfterError(fpc[f], fgrant[f])
        /\ EndFlow(f, "Failed")
  /\ UNCHANGED <<guard, pc, tok, grant, result, cancelled, coordVars, userVars,
                 grants, spent, stranded, revoked>>

-----------------------------------------------------------------------------
(***************************************************************************)
(* The user's commands; each needs the active_flows mutex.                 *)
(***************************************************************************)

(* oauth_flow_status: a final status is reported once and evicted;          *)
(* Completed makes the command reset the coordinator next.                  *)
PollFlow(f) ==
  /\ lock = None /\ status[f] \in {"Completed", "Failed", "Cancelled"}
  /\ resetDue' = (resetDue \/ status[f] = "Completed")
  /\ status' = [status EXCEPT ![f] = "absent"]
  /\ UNCHANGED <<clientVars, fpc, cancelled, fgrant, lock, coordVars, revoking, revokes,
                 grants, spent, stranded, revoked>>

CancelFlow(f) ==
  /\ lock = None /\ status[f] # "absent"
  /\ cancelled' = cancelled \cup ({f} \cap Cancellable)
  /\ status' = [status EXCEPT ![f] = "Cancelled"]
  /\ UNCHANGED <<clientVars, fpc, fgrant, lock, coordVars, userVars, grants, spent,
                 stranded, revoked>>

RevokeDelete ==
  /\ ~revoking /\ revokes < MaxRevokes
  /\ revokes' = revokes + 1
  /\ \/ /\ sec' = [access |-> None, refresh |-> None, expiry |-> "none"]
        /\ revoking' = TRUE
     \/ StoreMayFail /\ UNCHANGED <<sec, revoking>>
  /\ UNCHANGED <<guard, pc, tok, grant, result, flowVars, coordVars, resetDue, grants,
                 spent, stranded, revoked>>

(* revoke() drops the provider's flows and returns. *)
RevokeFlows ==
  /\ revoking /\ lock = None
  /\ revoking' = FALSE
  /\ cancelled' = cancelled \cup {f \in Cancellable : status[f] # "absent"}
  /\ status' = [f \in Flows |-> "absent"]
  /\ revoked' = \A f \in Flows : fpc[f] \in {"none", "done"}
  /\ UNCHANGED <<clientVars, fpc, fgrant, lock, coordVars, resetDue, revokes, grants, spent,
                 stranded>>

-----------------------------------------------------------------------------
(***************************************************************************)
(* Time: the access token ages, a short backoff elapses.  The backoff of a *)
(* year after a terminal failure does not elapse in the model.             *)
(***************************************************************************)
TokenAges ==
  /\ \/ sec.expiry = "fresh" /\ sec' = [sec EXCEPT !.expiry = "soon"]
     \/ sec.expiry = "soon" /\ sec' = [sec EXCEPT !.expiry = "expired"]
  /\ UNCHANGED <<guard, pc, tok, grant, result, flowVars, coordVars, userVars, grants,
                 spent, stranded, revoked>>

BackoffElapses ==
  /\ backoff \in {"120s", "300s"}
  /\ backoff' = "none"
  /\ UNCHANGED <<clientVars, flowVars, inProgress, failures, userVars, grants,
                 spent, stranded, revoked>>

RefreshStep(t) ==
  \/ ReadAccess(t) \/ TakeGuard(t) \/ CheckValid(t) \/ ReadRefreshToken(t)
  \/ RefreshAnswered(t) \/ StoreTokens(t)

FlowStep(f) ==
  Bind(f) \/ CallbackEnds(f) \/ TakeLock(f) \/ ExchangeAnswered(f) \/ StoreFlowTokens(f)

Next ==
  \/ \E t \in Tasks : GetAccessToken(t) \/ RefreshStep(t)
  \/ LoopTick \/ LoopOutcome \/ Reset
  \/ \E f \in Flows : StartFlow(f) \/ FlowStep(f) \/ PollFlow(f) \/ CancelFlow(f)
  \/ RevokeDelete \/ RevokeFlows
  \/ TokenAges \/ BackoffElapses

Spec == Init /\ [][Next]_vars

-----------------------------------------------------------------------------
(***************************************************************************)
(* Properties.                                                             *)
(***************************************************************************)
TaskPlaces == {"idle", "token", "guard", "valid", "rtoken", "net", "storeA", "storeR",
               "storeE", "outcome"}

FlowPlaces == {"none", "starting", "listening", "code", "error", "cancel", "exchange",
               "storeA", "storeR", "storeE", "done"}

(* Type invariant: every variable of the client, the coordinator and the    *)
(* flows has its type.                                                      *)
TypeOK ==
  /\ sec \in [access : 0..MaxGrants, refresh : 0..MaxGrants,
              expiry : {"none", "fresh", "soon", "expired"}]
  /\ guard \in BOOLEAN
  /\ pc \in [Tasks -> TaskPlaces]
  /\ tok \in [Tasks -> 0..MaxGrants]
  /\ grant \in [Tasks -> Grants]
  /\ result \in {"none", "NotAuthenticated", "AlreadyFresh", "ReauthRequired",
                 "TransientFailure", "Refreshed", "Err"}
  /\ fpc \in [Flows -> FlowPlaces]
  /\ status \in [Flows -> {"absent", "Pending", "Completed", "Failed", "Cancelled"}]
  /\ cancelled \subseteq Flows /\ fgrant \in [Flows -> Grants]
  /\ lock \in Flows \cup {None}
  /\ inProgress \in BOOLEAN /\ failures \in 0..MAX_CONSECUTIVE_FAILURES
  /\ backoff \in {"none", "120s", "300s", "year"}
  /\ resetDue \in BOOLEAN /\ revoking \in BOOLEAN /\ revokes \in 0..MaxRevokes
  /\ grants \in 0..MaxGrants /\ spent \subseteq 0..MaxGrants
  /\ stranded \in BOOLEAN /\ revoked \in BOOLEAN

(* The places between winning refresh_in_progress and its guard's drop. *)
Guarded(t) ==
  pc[t] \in {"rtoken", "net", "storeA", "storeR", "storeE"}
            \cup (IF t = LoopTask THEN {"valid"} ELSE {})

(* At most one refresh is under way, by the loop or by any caller, and the  *)
(* flag is set exactly while one is: no early return leaks it and no late   *)
(* one clears another's (oauth/mod.rs:99-138, 397-501).                     *)
SingleRefreshInFlight ==
  /\ \A t, u \in Tasks : Guarded(t) /\ Guarded(u) => t = u
  /\ guard <=> \E t \in Tasks : Guarded(t)

(* No refresh token for which an answer brought a newer one is sent again,  *)
(* by the loop, a caller, or across a new authorization, unless the secret  *)
(* store failed to keep the newer one (oauth/mod.rs:99-138, 397-530).       *)
NoSpentTokenSent ==
  \A t \in Tasks : pc[t] = "net" /\ tok[t] \in spent => stranded

(* The backoff in force is the one the failure count calls for, however     *)
(* refreshes, resets and elapsed backoffs interleave: the loop stops for    *)
(* good after MAX_CONSECUTIVE_FAILURES, and after fewer only waits.         *)
BackoffMatchesFailures ==
  /\ failures >= MAX_CONSECUTIVE_FAILURES => backoff = "year"
  /\ backoff = "120s" => failures = 1
  /\ backoff = "300s" => failures = 2

(* A flow keeps the active_flows mutex only while it exchanges and stores,  *)
(* so a command never waits on a flow that is over, and only one flow at a  *)
(* time writes credentials.                                                 *)
LockFollowsFlow ==
  \A f \in Flows : lock = f <=> fpc[f] \in {"exchange", "storeA", "storeR", "storeE"}

(* "Revoke stored credentials and disconnect" (ports/oauth.rs:125): once    *)
(* revoke() has returned, and until the user starts a new flow, no          *)
(* credentials are stored.                                                  *)
RevokedStaysRevoked == revoked => sec.access = None
=============================================================================
