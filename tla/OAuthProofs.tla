----------------------------- MODULE OAuthProofs -----------------------------
(***************************************************************************)
(* Proofs about OAuth for any number of callers, flows and grants.         *)
(***************************************************************************)
EXTENDS OAuth, TLAPS

(***************************************************************************)
(* The refresh guard.  SingleRefreshInFlight is inductive once pc is known *)
(* to be a function on the tasks and guard a Boolean.                      *)
(***************************************************************************)
GuardType == pc \in [Tasks -> TaskPlaces] /\ guard \in BOOLEAN

GuardInv == GuardType /\ SingleRefreshInFlight

(* A call's step touches no other task's place. *)
LEMMA CallMoves ==
  ASSUME NEW t \in Tasks, GuardType,
         GetAccessToken(t) \/ RefreshStep(t)
  PROVE  /\ pc' \in [Tasks -> TaskPlaces]
         /\ \A u \in Tasks \ {t} : pc'[u] = pc[u]
  <1>. USE DEF GuardType, TaskPlaces, Leave, GoTo
  <1>1. CASE GetAccessToken(t)
    BY <1>1 DEF GetAccessToken
  <1>2. CASE ReadAccess(t)
    BY <1>2 DEF ReadAccess
  <1>3. CASE TakeGuard(t)
    BY <1>3 DEF TakeGuard
  <1>4. CASE CheckValid(t)
    BY <1>4 DEF CheckValid
  <1>5. CASE ReadRefreshToken(t)
    BY <1>5 DEF ReadRefreshToken
  <1>6. CASE RefreshAnswered(t)
    BY <1>6 DEF RefreshAnswered
  <1>7. CASE StoreTokens(t)
    BY <1>7 DEF StoreTokens, AfterStore
  <1>. QED
    BY <1>1, <1>2, <1>3, <1>4, <1>5, <1>6, <1>7 DEF RefreshStep

(* What a step of a call does to its own place and to the flag: it stays    *)
(* on its side of the guard and leaves the flag, it takes the free flag, or *)
(* it drops the flag it holds.                                              *)
LEMMA CallAndGuard ==
  ASSUME NEW t \in Tasks, GuardType,
         GetAccessToken(t) \/ RefreshStep(t)
  PROVE  \/ (Guarded(t)' <=> Guarded(t)) /\ guard' = guard
         \/ ~Guarded(t) /\ ~guard /\ Guarded(t)' /\ guard' = TRUE
         \/ Guarded(t) /\ ~Guarded(t)' /\ guard' = FALSE
  <1>. USE DEF GuardType, TaskPlaces, Leave, GoTo, Guarded
  <1>1. CASE GetAccessToken(t)
    <2>1. t # LoopTask /\ guard' = guard
      BY <1>1, OAuthAssumption DEF GetAccessToken
    <2>. QED BY <1>1, <2>1 DEF GetAccessToken
  <1>2. CASE ReadAccess(t)
    BY <1>2 DEF ReadAccess
  <1>3. CASE TakeGuard(t)
    BY <1>3 DEF TakeGuard
  <1>4. CASE CheckValid(t)
    BY <1>4 DEF CheckValid
  <1>5. CASE ReadRefreshToken(t)
    BY <1>5 DEF ReadRefreshToken
  <1>6. CASE RefreshAnswered(t)
    BY <1>6 DEF RefreshAnswered
  <1>7. CASE StoreTokens(t)
    BY <1>7 DEF StoreTokens, AfterStore
  <1>. QED
    BY <1>1, <1>2, <1>3, <1>4, <1>5, <1>6, <1>7 DEF RefreshStep

(* A call that takes or drops the flag leaves it set exactly while one task *)
(* is past it.                                                              *)
LEMMA CallKeepsGuard ==
  ASSUME NEW t \in Tasks, GuardInv,
         GetAccessToken(t) \/ RefreshStep(t)
  PROVE  GuardInv'
  <1>1. GuardType
    BY DEF GuardInv
  <1>2. /\ pc' \in [Tasks -> TaskPlaces]
        /\ \A u \in Tasks \ {t} : pc'[u] = pc[u]
    BY <1>1, CallMoves
  <1>3. \A u \in Tasks \ {t} : Guarded(u)' <=> Guarded(u)
    BY <1>2 DEF Guarded
  <1>4. CASE (Guarded(t)' <=> Guarded(t)) /\ guard' = guard
    BY <1>1, <1>2, <1>3, <1>4 DEF GuardInv, GuardType, SingleRefreshInFlight
  <1>5. CASE ~Guarded(t) /\ ~guard /\ Guarded(t)' /\ guard' = TRUE
    BY <1>1, <1>2, <1>3, <1>5 DEF GuardInv, GuardType, SingleRefreshInFlight
  <1>6. CASE Guarded(t) /\ ~Guarded(t)' /\ guard' = FALSE
    BY <1>1, <1>2, <1>3, <1>6 DEF GuardInv, GuardType, SingleRefreshInFlight
  <1>. QED
    BY <1>1, <1>4, <1>5, <1>6, CallAndGuard

(* The loop's phases 1 and 3 lie outside the guard; no other step touches   *)
(* the tasks or the flag.                                                   *)
LEMMA OthersKeepGuard ==
  ASSUME GuardInv,
         \/ LoopTick \/ LoopOutcome \/ Reset
         \/ \E f \in Flows : StartFlow(f) \/ FlowStep(f) \/ PollFlow(f) \/ CancelFlow(f)
         \/ RevokeDelete \/ RevokeFlows
         \/ TokenAges \/ BackoffElapses
         \/ UNCHANGED vars
  PROVE  GuardInv'
  <1>1. CASE LoopTick \/ LoopOutcome
    <2>1. /\ pc' \in [Tasks -> TaskPlaces]
          /\ \A u \in Tasks \ {LoopTask} : pc'[u] = pc[u]
          /\ guard' = guard
      BY <1>1 DEF LoopTick, LoopOutcome, GuardInv, GuardType, TaskPlaces
    <2>2. ~Guarded(LoopTask) /\ ~Guarded(LoopTask)'
      BY <1>1 DEF LoopTick, LoopOutcome, GuardInv, GuardType, Guarded, Tasks
    <2>3. \A u \in Tasks : Guarded(u)' <=> Guarded(u)
      BY <2>1, <2>2 DEF Guarded
    <2>. QED
      BY <2>1, <2>3 DEF GuardInv, GuardType, SingleRefreshInFlight
  <1>2. CASE UNCHANGED <<pc, guard>>
    BY <1>2 DEF GuardInv, GuardType, SingleRefreshInFlight, Guarded
  <1>3. ASSUME NEW f \in Flows, StartFlow(f) \/ FlowStep(f) \/ PollFlow(f) \/ CancelFlow(f)
        PROVE  UNCHANGED <<pc, guard>>
    BY <1>3 DEF StartFlow, FlowStep, Bind, CallbackEnds, TakeLock, ExchangeAnswered,
                StoreFlowTokens, PollFlow, CancelFlow, clientVars
  <1>4. CASE Reset \/ RevokeDelete \/ RevokeFlows \/ TokenAges \/ BackoffElapses \/ UNCHANGED vars
    <2>1. UNCHANGED <<pc, guard>>
      BY <1>4 DEF Reset, RevokeDelete, RevokeFlows, TokenAges, BackoffElapses, vars, clientVars
    <2>. QED BY <1>2, <2>1
  <1>. QED
    BY <1>1, <1>2, <1>3, <1>4

(* For any number of callers: at most one refresh is under way, and the     *)
(* refresh_in_progress flag is set exactly while one is.                    *)
THEOREM OneRefreshAtATime == Spec => []SingleRefreshInFlight
  <1>1. Init => GuardInv
    <2>. SUFFICES ASSUME Init PROVE GuardInv
      OBVIOUS
    <2>1. GuardType
      BY DEF Init, GuardType, TaskPlaces
    <2>2. \A t \in Tasks : ~Guarded(t)
      BY DEF Init, Guarded
    <2>3. ~guard
      BY DEF Init
    <2>. QED
      BY <2>1, <2>2, <2>3 DEF GuardInv, SingleRefreshInFlight
  <1>2. GuardInv /\ [Next]_vars => GuardInv'
    <2>. SUFFICES ASSUME GuardInv, [Next]_vars PROVE GuardInv'
      OBVIOUS
    <2>1. ASSUME NEW t \in Tasks, GetAccessToken(t) \/ RefreshStep(t)
          PROVE  GuardInv'
      BY <2>1, CallKeepsGuard
    <2>. QED
      BY <2>1, OthersKeepGuard DEF Next
  <1>3. GuardInv => SingleRefreshInFlight
    BY DEF GuardInv
  <1>. QED
    BY <1>1, <1>2, <1>3, PTL DEF Spec

(***************************************************************************)
(* The coordinator's backoff.                                              *)
(***************************************************************************)
BackoffInv == failures \in Nat /\ BackoffMatchesFailures

(* For any number of callers: however refreshes, resets and elapsed         *)
(* backoffs interleave, the loop has stopped for good once the failures     *)
(* reach MAX_CONSECUTIVE_FAILURES, and a shorter backoff is the one its     *)
(* failure count calls for.                                                 *)
THEOREM BackoffCorrect == Spec => []BackoffMatchesFailures
  <1>. USE DEF BackoffInv, BackoffMatchesFailures, MAX_CONSECUTIVE_FAILURES
  <1>1. Init => BackoffInv
    BY DEF Init
  <1>2. BackoffInv /\ [Next]_vars => BackoffInv'
    <2>. SUFFICES ASSUME BackoffInv, [Next]_vars PROVE BackoffInv'
      OBVIOUS
    <2>1. CASE LoopOutcome
      BY <2>1 DEF LoopOutcome, TransientFailure, BackoffDuration
    <2>2. CASE Reset
      BY <2>2 DEF Reset
    <2>3. CASE BackoffElapses
      BY <2>3 DEF BackoffElapses
    <2>4. CASE LoopTick \/ RevokeDelete \/ RevokeFlows \/ TokenAges \/ UNCHANGED vars
      BY <2>4 DEF LoopTick, RevokeDelete, RevokeFlows, TokenAges, vars, coordVars
    <2>5. ASSUME NEW t \in Tasks, GetAccessToken(t) \/ RefreshStep(t)
          PROVE  BackoffInv'
      BY <2>5 DEF GetAccessToken, RefreshStep, ReadAccess, TakeGuard, CheckValid,
                  ReadRefreshToken, RefreshAnswered, StoreTokens, coordVars
    <2>6. ASSUME NEW f \in Flows, StartFlow(f) \/ FlowStep(f) \/ PollFlow(f) \/ CancelFlow(f)
          PROVE  BackoffInv'
      BY <2>6 DEF StartFlow, FlowStep, Bind, CallbackEnds, TakeLock, ExchangeAnswered,
                  StoreFlowTokens, PollFlow, CancelFlow, coordVars
    <2>. QED
      BY <2>1, <2>2, <2>3, <2>4, <2>5, <2>6 DEF Next
  <1>3. BackoffInv => BackoffMatchesFailures
    OBVIOUS
  <1>. QED
    BY <1>1, <1>2, <1>3, PTL DEF Spec

(***************************************************************************)
(* The active_flows mutex.                                                 *)
(***************************************************************************)
Storing == {"exchange", "storeA", "storeR", "storeE"}

LockInv ==
  /\ fpc \in [Flows -> FlowPlaces]
  /\ lock \in Flows \cup {None}
  /\ LockFollowsFlow

(* What a step of a flow does to its own place and to the mutex: it stays   *)
(* on its side of the lock, takes the free mutex, or releases it.           *)
LEMMA FlowAndLock ==
  ASSUME NEW f \in Flows, LockInv,
         StartFlow(f) \/ FlowStep(f)
  PROVE  /\ fpc' \in [Flows -> FlowPlaces]
         /\ \A g \in Flows \ {f} : fpc'[g] = fpc[g]
         /\ \/ (fpc'[f] \in Storing <=> fpc[f] \in Storing) /\ lock' = lock
            \/ fpc'[f] \in Storing /\ lock = None /\ lock' = f
            \/ fpc[f] \in Storing /\ fpc'[f] \notin Storing /\ lock' = None
  <1>. USE DEF LockInv, FlowPlaces, Storing
  <1>1. CASE StartFlow(f)
    BY <1>1 DEF StartFlow
  <1>2. CASE Bind(f)
    BY <1>2 DEF Bind
  <1>3. CASE CallbackEnds(f)
    BY <1>3 DEF CallbackEnds
  <1>4. CASE TakeLock(f)
    BY <1>4 DEF TakeLock
  <1>5. CASE ExchangeAnswered(f)
    BY <1>5 DEF ExchangeAnswered, EndFlow
  <1>6. CASE StoreFlowTokens(f)
    BY <1>6 DEF StoreFlowTokens, EndFlow, AfterStore
  <1>. QED
    BY <1>1, <1>2, <1>3, <1>4, <1>5, <1>6 DEF FlowStep

(* For any number of flows and callers: the mutex is held by a flow exactly *)
(* while that flow exchanges its code and stores the tokens, so it is free  *)
(* once every flow is over.                                                 *)
THEOREM MutexFollowsFlow == Spec => []LockFollowsFlow
  <1>0. None \notin Flows
    BY DEF None, Flows
  <1>1. Init => LockInv
    BY <1>0 DEF Init, LockInv, LockFollowsFlow, FlowPlaces
  <1>2. LockInv /\ [Next]_vars => LockInv'
    <2>. SUFFICES ASSUME LockInv, [Next]_vars PROVE LockInv'
      OBVIOUS
    <2>1. ASSUME NEW f \in Flows, StartFlow(f) \/ FlowStep(f)
          PROVE  LockInv'
      BY <1>0, <2>1, FlowAndLock DEF LockInv, LockFollowsFlow, Storing
    <2>2. CASE UNCHANGED <<fpc, lock>>
      BY <2>2 DEF LockInv, LockFollowsFlow
    <2>3. ASSUME NEW f \in Flows, PollFlow(f) \/ CancelFlow(f)
          PROVE  UNCHANGED <<fpc, lock>>
      BY <2>3 DEF PollFlow, CancelFlow
    <2>4. ASSUME NEW t \in Tasks, GetAccessToken(t) \/ RefreshStep(t)
          PROVE  UNCHANGED <<fpc, lock>>
      BY <2>4 DEF GetAccessToken, RefreshStep, ReadAccess, TakeGuard, CheckValid,
                  ReadRefreshToken, RefreshAnswered, StoreTokens, flowVars
    <2>5. CASE \/ LoopTick \/ LoopOutcome \/ Reset \/ RevokeDelete \/ RevokeFlows
               \/ TokenAges \/ BackoffElapses \/ UNCHANGED vars
      <3>1. UNCHANGED <<fpc, lock>>
        BY <2>5 DEF LoopTick, LoopOutcome, Reset, RevokeDelete, RevokeFlows, TokenAges,
                    BackoffElapses, vars, flowVars
      <3>. QED BY <2>2, <3>1
    <2>. QED
      BY <2>1, <2>2, <2>3, <2>4, <2>5 DEF Next
  <1>3. LockInv => LockFollowsFlow
    BY DEF LockInv
  <1>. QED
    BY <1>1, <1>2, <1>3, PTL DEF Spec

-----------------------------------------------------------------------------
(***************************************************************************)
(* Type correctness.  TypeOK bounds the failure count, which holds only    *)
(* because the loop cannot start a refresh once the count has reached its  *)
(* limit: RetryInv says so.                                                *)
(***************************************************************************)
Secrets == [access : 0..MaxGrants, refresh : 0..MaxGrants,
            expiry : {"none", "fresh", "soon", "expired"}]

ClientType ==
  /\ sec \in Secrets /\ guard \in BOOLEAN
  /\ pc \in [Tasks -> TaskPlaces] /\ tok \in [Tasks -> 0..MaxGrants]
  /\ grant \in [Tasks -> Grants]
  /\ result \in {"none", "NotAuthenticated", "AlreadyFresh", "ReauthRequired",
                 "TransientFailure", "Refreshed", "Err"}

FlowType ==
  /\ fpc \in [Flows -> FlowPlaces]
  /\ status \in [Flows -> {"absent", "Pending", "Completed", "Failed", "Cancelled"}]
  /\ cancelled \subseteq Flows /\ fgrant \in [Flows -> Grants]
  /\ lock \in Flows \cup {None}

CoordType ==
  /\ inProgress \in BOOLEAN /\ failures \in 0..MAX_CONSECUTIVE_FAILURES
  /\ backoff \in {"none", "120s", "300s", "year"}

UserType ==
  /\ resetDue \in BOOLEAN /\ revoking \in BOOLEAN /\ revokes \in 0..MaxRevokes
  /\ stranded \in BOOLEAN /\ revoked \in BOOLEAN

ProviderType == grants \in 0..MaxGrants /\ spent \subseteq 0..MaxGrants

RetryInv ==
  /\ BackoffMatchesFailures
  /\ pc[LoopTask] # "idle" => failures < MAX_CONSECUTIVE_FAILURES

(* TypeOK in the parts that its proof treats separately. *)
LEMMA TypeParts ==
  TypeOK <=> ClientType /\ FlowType /\ CoordType /\ UserType /\ ProviderType
BY Zenon DEF TypeOK, ClientType, FlowType, CoordType, UserType, ProviderType, Secrets

(* Storing a part of a token response, or failing to, leaves secrets. *)
LEMMA StoredTypes ==
  ASSUME sec \in Secrets, NEW g \in Grants, NEW place \in {"storeA", "storeR", "storeE"}
  PROVE  /\ Stored(place, g) \in Secrets
         /\ \A s \in AfterError(place, g) : s \in Secrets
<1>1. g.gen \in 0..MaxGrants
  BY DEF Grants
<1>2. Stored(place, g) \in Secrets
  BY <1>1 DEF Stored, Secrets
<1> QED
  BY <1>2 DEF AfterError

(* A token response the provider issues is a grant. *)
LEMMA IssuedGrants ==
  ASSUME ProviderType, grants < MaxGrants, NEW shape \in GrantShapes
  PROVE  [gen |-> grants + 1, rotates |-> shape.rotates, expires |-> shape.expires] \in Grants
<1>1. grants + 1 \in 0..MaxGrants
  BY OAuthAssumption DEF ProviderType
<1>2. shape.rotates \in BOOLEAN /\ shape.expires \in BOOLEAN
  BY OAuthAssumption
<1> QED
  BY <1>1, <1>2 DEF Grants

(* Leaving a call, and going on with it, keep the client's types. *)
LEMMA LeaveTypes ==
  ASSUME ClientType, NEW t \in Tasks
  PROVE  /\ \A r \in {"NotAuthenticated", "AlreadyFresh", "ReauthRequired",
                      "TransientFailure", "Refreshed", "Err"} :
              Leave(t, r) /\ sec' \in Secrets /\ guard' \in BOOLEAN => ClientType'
         /\ \A place \in TaskPlaces :
              GoTo(t, place) /\ sec' \in Secrets /\ guard' \in BOOLEAN => ClientType'
<1>1. NoGrant \in Grants /\ None \in 0..MaxGrants
  BY OAuthAssumption DEF NoGrant, Grants, None
<1>2. ASSUME NEW r \in {"NotAuthenticated", "AlreadyFresh", "ReauthRequired",
                        "TransientFailure", "Refreshed", "Err"},
             Leave(t, r), sec' \in Secrets, guard' \in BOOLEAN
      PROVE  ClientType'
  BY <1>1, <1>2 DEF Leave, ClientType, TaskPlaces
<1>3. ASSUME NEW place \in TaskPlaces, GoTo(t, place), sec' \in Secrets, guard' \in BOOLEAN
      PROVE  ClientType'
  BY <1>3 DEF GoTo, ClientType
<1> QED
  BY <1>2, <1>3

(* Every step of a call keeps the types of what it touches. *)
LEMMA CallKeepsTypes ==
  ASSUME ClientType, ProviderType, NEW t \in Tasks, GetAccessToken(t) \/ RefreshStep(t)
  PROVE  ClientType' /\ ProviderType'
<1>0. sec \in Secrets /\ guard \in BOOLEAN /\ pc \in [Tasks -> TaskPlaces]
      /\ tok \in [Tasks -> 0..MaxGrants] /\ grant \in [Tasks -> Grants]
  BY DEF ClientType
<1>1. CASE GetAccessToken(t)
  <2>1. GoTo(t, "token") /\ UNCHANGED <<sec, guard, grants, spent>>
    BY <1>1 DEF GetAccessToken
  <2> QED
    BY <1>0, <2>1, LeaveTypes DEF TaskPlaces, ProviderType
<1>2. CASE ReadAccess(t)
  <2>1. /\ \/ \E r \in {"NotAuthenticated", "Err"} : Leave(t, r)
           \/ \E place \in {"guard", "valid"} : GoTo(t, place)
        /\ UNCHANGED <<sec, guard, grants, spent>>
    BY <1>2 DEF ReadAccess
  <2> QED
    BY <1>0, <2>1, LeaveTypes DEF TaskPlaces, ProviderType
<1>3. CASE TakeGuard(t)
  <2>1. /\ \/ Leave(t, "AlreadyFresh")
           \/ \E place \in {"valid", "rtoken"} : GoTo(t, place)
        /\ guard' \in BOOLEAN /\ UNCHANGED <<sec, grants, spent>>
    BY <1>0, <1>3 DEF TakeGuard
  <2> QED
    BY <1>0, <2>1, LeaveTypes DEF TaskPlaces, ProviderType
<1>4. CASE CheckValid(t)
  <2>1. /\ \/ Leave(t, "AlreadyFresh")
           \/ \E place \in {"guard", "rtoken"} : GoTo(t, place)
        /\ guard' \in BOOLEAN /\ UNCHANGED <<sec, grants, spent>>
    BY <1>0, <1>4 DEF CheckValid
  <2> QED
    BY <1>0, <2>1, LeaveTypes DEF TaskPlaces, ProviderType
<1>5. CASE ReadRefreshToken(t)
  <2>1. UNCHANGED <<sec, grants, spent>>
    BY <1>5 DEF ReadRefreshToken
  <2>2. CASE \E r \in {"ReauthRequired", "Err"} : Leave(t, r) /\ guard' = FALSE
    BY <1>0, <2>1, <2>2, LeaveTypes DEF ProviderType
  <2>3. CASE /\ tok' = [tok EXCEPT ![t] = sec.refresh]
             /\ pc' = [pc EXCEPT ![t] = "net"] /\ UNCHANGED <<guard, result, grant>>
    <3>1. sec.refresh \in 0..MaxGrants
      BY <1>0 DEF Secrets
    <3> QED
      BY <1>0, <2>1, <2>3, <3>1 DEF ClientType, TaskPlaces, ProviderType
  <2> QED
    BY <1>5, <2>2, <2>3 DEF ReadRefreshToken
<1>6. CASE RefreshAnswered(t)
  <2>1. UNCHANGED sec
    BY <1>6 DEF RefreshAnswered
  <2>2. CASE \E r \in {"ReauthRequired", "TransientFailure"} :
               Leave(t, r) /\ guard' = FALSE /\ UNCHANGED <<grants, spent>>
    BY <1>0, <2>1, <2>2, LeaveTypes DEF ProviderType
  <2>3. ASSUME grants < MaxGrants, NEW shape \in GrantShapes,
               grant' = [grant EXCEPT ![t] = [gen |-> grants + 1, rotates |-> shape.rotates,
                                              expires |-> shape.expires]],
               spent' \in {spent, spent \cup {tok[t]}},
               grants' = grants + 1, pc' = [pc EXCEPT ![t] = "storeA"],
               tok' = [tok EXCEPT ![t] = None], UNCHANGED <<guard, result>>
        PROVE  ClientType' /\ ProviderType'
    <3>1. grant' \in [Tasks -> Grants]
      BY <1>0, <2>3, IssuedGrants
    <3>2. tok' \in [Tasks -> 0..MaxGrants]
      BY <1>0, <2>3, OAuthAssumption DEF None
    <3>3. ProviderType'
      BY <1>0, <2>3, OAuthAssumption DEF ProviderType
    <3> QED
      BY <2>1, <2>3, <3>1, <3>2, <3>3 DEF ClientType, TaskPlaces
  <2> QED
    BY <1>6, <2>2, <2>3 DEF RefreshAnswered
<1>7. CASE StoreTokens(t)
  <2>1. pc[t] \in {"storeA", "storeR", "storeE"} /\ grant[t] \in Grants
        /\ UNCHANGED <<grants, spent>>
    BY <1>0, <1>7 DEF StoreTokens
  <2>2. sec' \in Secrets
    BY <1>0, <1>7, <2>1, StoredTypes DEF StoreTokens
  <2>3. \/ \E r \in {"Refreshed", "Err"} : Leave(t, r) /\ guard' = FALSE
        \/ \E place \in {"storeR", "storeE"} : GoTo(t, place) /\ guard' = guard
    BY <1>7 DEF StoreTokens, AfterStore
  <2> QED
    BY <1>0, <2>1, <2>2, <2>3, LeaveTypes DEF TaskPlaces, ProviderType
<1> QED
  BY <1>1, <1>2, <1>3, <1>4, <1>5, <1>6, <1>7 DEF RefreshStep

(* Every step of a flow keeps the types of what it touches. *)
LEMMA FlowKeepsTypes ==
  ASSUME ClientType, FlowType, ProviderType, NEW f \in Flows,
         StartFlow(f) \/ FlowStep(f) \/ PollFlow(f) \/ CancelFlow(f)
  PROVE  ClientType' /\ FlowType' /\ ProviderType'
<1>0. /\ sec \in Secrets /\ fpc \in [Flows -> FlowPlaces] /\ fgrant \in [Flows -> Grants]
      /\ NoGrant \in Grants /\ None \in Flows \cup {None}
  BY OAuthAssumption DEF ClientType, FlowType, NoGrant, Grants, None
<1> USE DEF clientVars, FlowPlaces
<1>1. ASSUME UNCHANGED <<clientVars, grants, spent>>, FlowType'
      PROVE  ClientType' /\ FlowType' /\ ProviderType'
  BY <1>1 DEF ClientType, ProviderType
<1>2. CASE StartFlow(f)
  BY <1>1, <1>2 DEF StartFlow, FlowType
<1>3. CASE Bind(f)
  BY <1>1, <1>3 DEF Bind, FlowType
<1>4. CASE CallbackEnds(f)
  BY <1>1, <1>4 DEF CallbackEnds, FlowType
<1>5. CASE TakeLock(f)
  BY <1>1, <1>5 DEF TakeLock, SetStatus, FlowType
<1>6. ASSUME NEW s \in {"Completed", "Failed"}, EndFlow(f, s), UNCHANGED cancelled
      PROVE  FlowType'
  BY <1>0, <1>6 DEF EndFlow, SetStatus, FlowType
<1>7. CASE ExchangeAnswered(f)
  <2>1. UNCHANGED <<clientVars, cancelled, spent>>
    BY <1>7 DEF ExchangeAnswered
  <2>2. CASE EndFlow(f, "Failed") /\ UNCHANGED grants
    BY <1>1, <1>6, <2>1, <2>2
  <2>3. ASSUME grants < MaxGrants, NEW shape \in GrantShapes,
               fgrant' = [fgrant EXCEPT ![f] = [gen |-> grants + 1, rotates |-> shape.rotates,
                                                expires |-> shape.expires]],
               grants' = grants + 1, fpc' = [fpc EXCEPT ![f] = "storeA"],
               UNCHANGED <<status, lock>>
        PROVE  ClientType' /\ FlowType' /\ ProviderType'
    <3>1. fgrant' \in [Flows -> Grants]
      BY <1>0, <2>3, IssuedGrants
    <3>2. FlowType'
      BY <2>1, <2>3, <3>1 DEF FlowType
    <3>3. ProviderType'
      BY <2>1, <2>3, OAuthAssumption DEF ProviderType
    <3>4. ClientType'
      BY <2>1 DEF ClientType
    <3> QED
      BY <3>2, <3>3, <3>4
  <2> QED
    BY <1>7, <2>2, <2>3 DEF ExchangeAnswered
<1>8. CASE StoreFlowTokens(f)
  <2>1. /\ fpc[f] \in {"storeA", "storeR", "storeE"} /\ fgrant[f] \in Grants
        /\ UNCHANGED <<guard, pc, tok, grant, result, cancelled, grants, spent>>
    BY <1>0, <1>8 DEF StoreFlowTokens
  <2>2. sec' \in Secrets
    BY <1>0, <1>8, <2>1, StoredTypes DEF StoreFlowTokens
  <2>3. FlowType'
    <3>1. \/ \E s \in {"Completed", "Failed"} : EndFlow(f, s)
          \/ fpc' = [fpc EXCEPT ![f] = AfterStore(@)] /\ UNCHANGED <<status, lock, fgrant>>
      BY <1>8 DEF StoreFlowTokens
    <3>2. AfterStore(fpc[f]) \in FlowPlaces
      BY DEF AfterStore
    <3> QED
      BY <1>6, <2>1, <3>1, <3>2 DEF FlowType
  <2> QED
    BY <2>1, <2>2, <2>3 DEF ClientType, ProviderType
<1>9. CASE PollFlow(f)
  BY <1>1, <1>9 DEF PollFlow, FlowType
<1>10. CASE CancelFlow(f)
  BY <1>1, <1>10 DEF CancelFlow, FlowType
<1> QED
  BY <1>2, <1>3, <1>4, <1>5, <1>7, <1>8, <1>9, <1>10 DEF FlowStep

(* The loop, the commands and time keep the types; the failure count stays  *)
(* within its limit because the loop is idle once it is reached.            *)
LEMMA OthersKeepTypes ==
  ASSUME ClientType, FlowType, CoordType, UserType, ProviderType, RetryInv,
         \/ LoopTick \/ LoopOutcome \/ Reset \/ RevokeDelete \/ RevokeFlows
         \/ TokenAges \/ BackoffElapses
  PROVE  ClientType' /\ FlowType' /\ CoordType' /\ UserType' /\ ProviderType' /\ RetryInv'
<1> USE DEF clientVars, flowVars, coordVars, userVars, MAX_CONSECUTIVE_FAILURES
<1>0. LoopTask \in Tasks /\ pc \in [Tasks -> TaskPlaces]
  BY DEF Tasks, ClientType
<1>1. CASE LoopTick
  <2>1. ClientType'
    BY <1>1 DEF LoopTick, ClientType, TaskPlaces
  <2>2. FlowType' /\ UserType' /\ ProviderType'
    BY <1>1 DEF LoopTick, FlowType, UserType, ProviderType
  <2>3. CoordType' /\ RetryInv'
    BY <1>0, <1>1 DEF LoopTick, CoordType, RetryInv, BackoffMatchesFailures
  <2> QED
    BY <2>1, <2>2, <2>3
<1>2. CASE LoopOutcome
  <2>1. ClientType'
    BY <1>2 DEF LoopOutcome, ClientType, TaskPlaces
  <2>2. FlowType' /\ UserType' /\ ProviderType'
    BY <1>2 DEF LoopOutcome, FlowType, UserType, ProviderType
  <2>3. failures < 3 /\ pc'[LoopTask] = "idle"
    BY <1>0, <1>2 DEF LoopOutcome, RetryInv
  <2>4. CoordType'
    <3>1. inProgress' \in BOOLEAN
      BY <1>2 DEF LoopOutcome
    <3>2. failures' \in {0, failures, failures + 1}
      BY <1>2 DEF LoopOutcome, TransientFailure
    <3>3. failures' \in 0..3
      BY <2>3, <3>2 DEF CoordType
    <3>4. backoff' \in {"none", "120s", "300s", "year"}
      BY <1>2 DEF LoopOutcome, TransientFailure, BackoffDuration, CoordType
    <3> QED
      BY <3>1, <3>3, <3>4 DEF CoordType
  <2>5. RetryInv'
    BY <1>2, <2>3 DEF LoopOutcome, CoordType, RetryInv, BackoffMatchesFailures,
                      TransientFailure, BackoffDuration
  <2> QED
    BY <2>1, <2>2, <2>4, <2>5
<1>3. CASE Reset
  <2>1. ClientType' /\ FlowType' /\ ProviderType' /\ UserType'
    BY <1>3 DEF Reset, ClientType, FlowType, UserType, ProviderType
  <2>2. CoordType'
    <3>1. 0 \in 0..3
      OBVIOUS
    <3>2. inProgress' = FALSE /\ failures' = 0 /\ backoff' = "none"
      BY <1>3 DEF Reset
    <3> QED
      BY <3>1, <3>2, Zenon DEF CoordType
  <2>3. RetryInv'
    BY <1>3 DEF Reset, RetryInv, BackoffMatchesFailures
  <2> QED
    BY <2>1, <2>2, <2>3
<1>4. CASE RevokeDelete
  <2>1. sec' \in Secrets
    BY <1>4, OAuthAssumption DEF RevokeDelete, ClientType, Secrets, None
  <2>2. ClientType'
    BY <1>4, <2>1 DEF RevokeDelete, ClientType
  <2>3. UserType'
    <3>1. revokes' \in 0..MaxRevokes
      BY <1>4, OAuthAssumption DEF RevokeDelete, UserType
    <3>2. revoking' \in BOOLEAN /\ UNCHANGED <<resetDue, stranded, revoked>>
      BY <1>4 DEF RevokeDelete, UserType
    <3> QED
      BY <3>1, <3>2 DEF UserType
  <2> QED
    BY <1>4, <2>2, <2>3 DEF RevokeDelete, FlowType, CoordType, ProviderType, RetryInv,
                            BackoffMatchesFailures
<1>5. CASE RevokeFlows
  <2>1. FlowType'
    BY <1>5 DEF RevokeFlows, FlowType, Cancellable
  <2>2. UserType'
    BY <1>5 DEF RevokeFlows, UserType
  <2> QED
    BY <1>5, <2>1, <2>2 DEF RevokeFlows, ClientType, CoordType, ProviderType, RetryInv,
                            BackoffMatchesFailures
<1>6. CASE TokenAges
  <2>1. sec' \in Secrets
    BY <1>6 DEF TokenAges, ClientType, Secrets
  <2> QED
    BY <1>6, <2>1 DEF TokenAges, ClientType, FlowType, CoordType, UserType, ProviderType,
                      RetryInv, BackoffMatchesFailures
<1>7. CASE BackoffElapses
  BY <1>7 DEF BackoffElapses, ClientType, FlowType, CoordType, UserType, ProviderType,
              RetryInv, BackoffMatchesFailures
<1> QED
  BY <1>1, <1>2, <1>3, <1>4, <1>5, <1>6, <1>7

(* Every variable of the client, the coordinator and the flows has its      *)
(* type; the failure count never passes MAX_CONSECUTIVE_FAILURES            *)
(* (oauth/refresh_coordinator.rs).                                          *)
THEOREM TypeCorrect == Spec => []TypeOK
<1> DEFINE Inv == TypeOK /\ RetryInv
<1>1. Init => Inv
  <2> SUFFICES ASSUME Init PROVE Inv
    OBVIOUS
  <2>1. NoGrant \in Grants /\ None \in 0..MaxGrants
    BY OAuthAssumption DEF NoGrant, Grants, None
  <2>2. ClientType
    BY <2>1 DEF Init, ClientType, Secrets, TaskPlaces
  <2>3. FlowType
    BY <2>1 DEF Init, FlowType, FlowPlaces
  <2>4. CoordType /\ UserType /\ ProviderType /\ RetryInv
    <3>1. 0 \in 0..MaxRevokes /\ 0 \in 0..MaxGrants /\ 0 \in 0..3 /\ ~ (0 >= 3) /\ 0 < 3
      BY OAuthAssumption
    <3>2. CoordType /\ UserType /\ ProviderType
      BY <3>1 DEF Init, CoordType, UserType, ProviderType, MAX_CONSECUTIVE_FAILURES
    <3>3. RetryInv
      BY <3>1 DEF Init, RetryInv, BackoffMatchesFailures, MAX_CONSECUTIVE_FAILURES
    <3> QED
      BY <3>2, <3>3
  <2> QED
    BY <2>2, <2>3, <2>4, TypeParts
<1>2. Inv /\ [Next]_vars => Inv'
  <2> SUFFICES ASSUME TypeOK, RetryInv, [Next]_vars PROVE Inv'
    OBVIOUS
  <2> DEFINE Parts == ClientType /\ FlowType /\ CoordType /\ UserType /\ ProviderType
  <2>0. Parts
    BY TypeParts
  <2>1. SUFFICES Parts' /\ RetryInv'
    BY TypeParts DEF TypeOK, ClientType, FlowType, CoordType, UserType, ProviderType, Secrets
  <2>2. CASE UNCHANGED vars
    BY <2>0, <2>2 DEF vars, clientVars, flowVars, coordVars, userVars, ClientType, FlowType,
       CoordType, UserType, ProviderType, RetryInv, BackoffMatchesFailures
  <2>3. ASSUME NEW t \in Tasks, GetAccessToken(t) \/ RefreshStep(t)
        PROVE  Parts' /\ RetryInv'
    <3>1. ClientType' /\ ProviderType'
      BY <2>0, <2>3, CallKeepsTypes
    <3>2. UNCHANGED <<flowVars, coordVars, userVars, revoked>>
      BY <2>3 DEF GetAccessToken, RefreshStep, ReadAccess, TakeGuard, CheckValid,
                  ReadRefreshToken, RefreshAnswered, StoreTokens
    <3>3. stranded' \in BOOLEAN
      BY <2>0, <2>3 DEF GetAccessToken, RefreshStep, ReadAccess, TakeGuard, CheckValid,
                  ReadRefreshToken, RefreshAnswered, StoreTokens, UserType
    <3>4. FlowType' /\ CoordType' /\ UserType'
      BY <2>0, <3>2, <3>3 DEF flowVars, coordVars, userVars, FlowType, CoordType, UserType
    <3>5. pc[LoopTask] = "idle" => pc'[LoopTask] = "idle"
      <4>1. t \in Callers => t # LoopTask
        BY OAuthAssumption
      <4> QED
        BY <2>0, <2>3, <4>1 DEF GetAccessToken, RefreshStep, ReadAccess, TakeGuard, CheckValid,
                  ReadRefreshToken, RefreshAnswered, StoreTokens, Leave, GoTo, ClientType, Tasks
    <3> QED
      BY <3>1, <3>2, <3>4, <3>5 DEF RetryInv, BackoffMatchesFailures, coordVars
  <2>4. ASSUME NEW f \in Flows, StartFlow(f) \/ FlowStep(f) \/ PollFlow(f) \/ CancelFlow(f)
        PROVE  Parts' /\ RetryInv'
    <3>1. ClientType' /\ FlowType' /\ ProviderType'
      BY <2>0, <2>4, FlowKeepsTypes
    <3>2. UNCHANGED <<coordVars, pc, revoking, revokes, stranded>>
      BY <2>4 DEF StartFlow, FlowStep, Bind, CallbackEnds, TakeLock, ExchangeAnswered,
                  StoreFlowTokens, PollFlow, CancelFlow, clientVars, userVars
    <3>3. resetDue' \in BOOLEAN /\ revoked' \in BOOLEAN
      BY <2>0, <2>4 DEF StartFlow, FlowStep, Bind, CallbackEnds, TakeLock, ExchangeAnswered,
                  StoreFlowTokens, PollFlow, CancelFlow, userVars, UserType
    <3> QED
      BY <2>0, <3>1, <3>2, <3>3 DEF RetryInv, BackoffMatchesFailures, coordVars, CoordType, UserType
  <2>5. CASE \/ LoopTick \/ LoopOutcome \/ Reset \/ RevokeDelete \/ RevokeFlows
             \/ TokenAges \/ BackoffElapses
    BY <2>0, <2>5, OthersKeepTypes
  <2> QED
    BY <2>2, <2>3, <2>4, <2>5 DEF Next
<1> QED
  BY <1>1, <1>2, PTL DEF Spec

-----------------------------------------------------------------------------
(***************************************************************************)
(* Spent refresh tokens.  A token that an answer has replaced may still be *)
(* in the store, but only while the refresh that got the answer has yet to *)
(* store the new one; that refresh holds the guard, so no other can read   *)
(* the store meanwhile.  A token response is stored once, so a response in *)
(* flight, of a refresh or of a flow, carries a token that nobody has read *)
(* yet, and storing it late brings no spent token back.                    *)
(***************************************************************************)
ToStore(t)     == pc[t] \in {"storeA", "storeR"}
FlowToStore(f) == fpc[f] \in {"storeA", "storeR"}

IssuedInv ==
  /\ spent \subseteq 1..grants /\ sec.refresh \in 0..grants
  /\ \A t \in Tasks : pc[t] = "net" => tok[t] \in 1..grants
  /\ \A t \in Tasks : ToStore(t) => grant[t].gen \in (1..grants) \ spent
  /\ \A f \in Flows : FlowToStore(f) =>
       fgrant[f].gen \in (1..grants) \ (spent \cup {sec.refresh})

ApartInv ==
  \A f \in Flows, t \in Tasks : FlowToStore(f) =>
    /\ pc[t] = "net" => tok[t] # fgrant[f].gen
    /\ ToStore(t) => grant[t].gen # fgrant[f].gen

UnspentInv ==
  stranded \/ /\ sec.refresh \in spent => \E t \in Tasks : ToStore(t) /\ grant[t].rotates
              /\ \A t \in Tasks : pc[t] = "net" => tok[t] \notin spent

SpentInv == IssuedInv /\ ApartInv /\ UnspentInv

(* A step that touches no task, no flow at its store and no refresh token   *)
(* keeps the invariant.                                                     *)
LEMMA SpentStays ==
  ASSUME SpentInv, UNCHANGED <<pc, tok, grant, fgrant, grants, spent, stranded>>,
         sec'.refresh \in {sec.refresh, None}, grants \in Nat,
         \A f \in Flows : FlowToStore(f)' => FlowToStore(f)
  PROVE  SpentInv'
<1>0. None \in 0..grants /\ None \notin 1..grants
  BY DEF None
<1>1. IssuedInv'
  BY <1>0 DEF SpentInv, IssuedInv, ToStore
<1>2. ApartInv'
  BY DEF SpentInv, ApartInv, ToStore
<1>3. UnspentInv'
  BY <1>0 DEF SpentInv, IssuedInv, UnspentInv, ToStore
<1> QED
  BY <1>1, <1>2, <1>3 DEF SpentInv

(* A step of task t that ends at none of the places the invariant is about, *)
(* and was not storing a rotated token, keeps it.                           *)
LEMMA SpentCallMoves ==
  ASSUME SpentInv, NEW t \in Tasks, \A u \in Tasks \ {t} : pc'[u] = pc[u] /\ tok'[u] = tok[u] /\ grant'[u] = grant[u],
         pc'[t] \notin {"net", "storeA", "storeR"},
         UNCHANGED <<fpc, fgrant, grants, spent>>, sec'.refresh = sec.refresh,
         stranded => stranded', (ToStore(t) /\ grant[t].rotates) => stranded'
  PROVE  SpentInv'
<1> DEFINE Others == Tasks \ {t}
<1>0. \A u \in Tasks : u # t => /\ ToStore(u)' <=> ToStore(u)
                                /\ pc'[u] = pc[u] /\ tok'[u] = tok[u] /\ grant'[u] = grant[u]
  BY DEF ToStore
<1>1. \A f \in Flows : FlowToStore(f)' <=> FlowToStore(f)
  BY DEF FlowToStore
<1>2. ~ToStore(t)' /\ pc'[t] # "net"
  BY DEF ToStore
<1>3. IssuedInv'
  BY <1>0, <1>1, <1>2 DEF SpentInv, IssuedInv
<1>4. ApartInv'
  BY <1>0, <1>1, <1>2 DEF SpentInv, ApartInv
<1>5. UnspentInv'
  <2>1. CASE stranded'
    BY <2>1 DEF UnspentInv
  <2>2. CASE ~stranded'
    <3>1. \A u \in Tasks : pc'[u] = "net" => tok'[u] \notin spent
      BY <1>0, <1>2, <2>2 DEF SpentInv, UnspentInv
    <3>2. ASSUME sec'.refresh \in spent PROVE \E u \in Tasks : ToStore(u)' /\ grant'[u].rotates
      <4>1. PICK u \in Tasks : ToStore(u) /\ grant[u].rotates
        BY <2>2, <3>2 DEF SpentInv, UnspentInv
      <4>2. u # t
        BY <2>2, <4>1
      <4> QED
        BY <1>0, <4>1, <4>2
    <3> QED
      BY <3>1, <3>2 DEF UnspentInv
  <2> QED
    BY <2>1, <2>2
<1> QED
  BY <1>3, <1>4, <1>5 DEF SpentInv

(* A refresh keeps the invariant, because it is the only one. *)
LEMMA CallKeepsSpent ==
  ASSUME TypeOK, SingleRefreshInFlight, SpentInv, NEW t \in Tasks,
         GetAccessToken(t) \/ RefreshStep(t)
  PROVE  SpentInv'
<1> USE DEF flowVars, NoGrant
<1>0. /\ pc \in [Tasks -> TaskPlaces] /\ tok \in [Tasks -> 0..MaxGrants]
      /\ grant \in [Tasks -> Grants] /\ sec \in Secrets /\ grants \in Nat
  BY OAuthAssumption DEF TypeOK, Secrets
<1>1. \A u \in Tasks \ {t} : pc'[u] = pc[u] /\ tok'[u] = tok[u] /\ grant'[u] = grant[u]
  BY <1>0 DEF GetAccessToken, RefreshStep, ReadAccess, TakeGuard, CheckValid,
              ReadRefreshToken, RefreshAnswered, StoreTokens, Leave, GoTo
<1>2. UNCHANGED <<fpc, fgrant>>
  BY DEF GetAccessToken, RefreshStep, ReadAccess, TakeGuard, CheckValid,
         ReadRefreshToken, RefreshAnswered, StoreTokens
<1>3. \A u \in Tasks : Guarded(t) /\ u # t => pc[u] # "net" /\ ~ToStore(u)
  BY DEF SingleRefreshInFlight, Guarded, ToStore
<1>4. \A f \in Flows : FlowToStore(f)' <=> FlowToStore(f)
  BY <1>2 DEF FlowToStore
<1>5. CASE \/ GetAccessToken(t) \/ ReadAccess(t) \/ TakeGuard(t) \/ CheckValid(t)
           \/ (ReadRefreshToken(t) /\ pc'[t] # "net") \/ (RefreshAnswered(t) /\ pc'[t] # "storeA")
  <2>1. /\ pc'[t] \notin {"net", "storeA", "storeR"} /\ ~ToStore(t)
        /\ UNCHANGED <<grants, spent, sec, stranded>>
    BY <1>0, <1>5 DEF GetAccessToken, ReadAccess, TakeGuard, CheckValid, ReadRefreshToken,
                      RefreshAnswered, Leave, GoTo, ToStore
  <2> QED
    BY <1>1, <1>2, <2>1, SpentCallMoves
<1>6. CASE ReadRefreshToken(t) /\ pc'[t] = "net"
  <2>1. /\ sec.refresh # None /\ tok' = [tok EXCEPT ![t] = sec.refresh]
        /\ pc[t] = "rtoken" /\ UNCHANGED <<sec, grant, grants, spent, stranded>>
    BY <1>0, <1>6 DEF ReadRefreshToken, Leave
  <2>2. tok'[t] = sec.refresh /\ ~ToStore(t)' /\ ~ToStore(t)
    BY <1>0, <1>6, <2>1 DEF ToStore
  <2>3. \A u \in Tasks : u # t => pc'[u] # "net" /\ ~ToStore(u)' /\ ~ToStore(u)
    BY <1>1, <1>3, <2>1 DEF Guarded, ToStore
  <2>4. IssuedInv'
    BY <1>4, <1>2, <2>1, <2>2, <2>3 DEF SpentInv, IssuedInv, None
  <2>5. ApartInv'
    BY <1>4, <1>2, <2>1, <2>2, <2>3 DEF SpentInv, IssuedInv, ApartInv
  <2>6. UnspentInv'
    BY <2>1, <2>2, <2>3 DEF SpentInv, UnspentInv
  <2> QED
    BY <2>4, <2>5, <2>6 DEF SpentInv
<1>7. CASE RefreshAnswered(t) /\ pc'[t] = "storeA"
  <2>1. PICK shape \in GrantShapes :
          /\ grant' = [grant EXCEPT ![t] = [gen |-> grants + 1, rotates |-> shape.rotates,
                                            expires |-> shape.expires]]
          /\ spent' = IF shape.rotates THEN spent \cup {tok[t]} ELSE spent
          /\ grants' = grants + 1 /\ pc[t] = "net"
    BY <1>0, <1>7 DEF RefreshAnswered, Leave
  <2>2. UNCHANGED <<sec, stranded>>
    BY <1>7 DEF RefreshAnswered
  <2>3. grant'[t].gen = grants + 1 /\ grant'[t].rotates = shape.rotates
    BY <1>0, <2>1
  <2>4. /\ \A u \in Tasks : pc'[u] # "net" /\ (u # t => ~ToStore(u)')
        /\ ToStore(t)'
    BY <1>1, <1>3, <1>7, <2>1 DEF Guarded, ToStore
  <2>5. tok[t] \in 1..grants
    BY <2>1 DEF SpentInv, IssuedInv
  <2>6. spent' \subseteq 1..grants /\ spent \subseteq spent' /\ spent' \subseteq spent \cup {tok[t]}
    BY <2>1, <2>5 DEF SpentInv, IssuedInv
  <2>7. grants + 1 \notin 1..grants /\ 1..grants \subseteq 1..(grants + 1)
        /\ 0..grants \subseteq 0..(grants + 1) /\ grants + 1 \in 1..(grants + 1)
    BY <1>0
  <2>8. \A f \in Flows : FlowToStore(f) =>
          /\ fgrant[f].gen \in 1..grants
          /\ fgrant[f].gen \notin spent' /\ fgrant[f].gen # sec.refresh
    BY <2>1, <2>6 DEF SpentInv, IssuedInv, ApartInv
  <2>9. IssuedInv'
    <3>1. spent' \subseteq 1..grants' /\ sec'.refresh \in 0..grants'
      BY <2>1, <2>2, <2>6, <2>7 DEF SpentInv, IssuedInv
    <3>2. \A u \in Tasks : ToStore(u)' => grant'[u].gen \in (1..grants') \ spent'
      BY <2>1, <2>3, <2>4, <2>6, <2>7
    <3>3. \A f \in Flows : FlowToStore(f)' =>
            fgrant'[f].gen \in (1..grants') \ (spent' \cup {sec'.refresh})
      BY <1>2, <1>4, <2>1, <2>2, <2>7, <2>8
    <3> QED
      BY <2>4, <3>1, <3>2, <3>3 DEF IssuedInv
  <2>10. ApartInv'
    BY <1>2, <1>4, <2>3, <2>4, <2>7, <2>8 DEF ApartInv
  <2>11. UnspentInv'
    <3>1. CASE shape.rotates
      BY <2>3, <2>4, <3>1 DEF UnspentInv
    <3>2. CASE ~shape.rotates
      <4>1. spent' = spent
        BY <2>1, <3>2
      <4>2. \A u \in Tasks : ~ToStore(u)
        BY <1>3, <2>1 DEF Guarded, ToStore
      <4> QED
        BY <2>2, <2>4, <4>1, <4>2 DEF SpentInv, UnspentInv
    <3> QED
      BY <3>1, <3>2
  <2> QED
    BY <2>9, <2>10, <2>11 DEF SpentInv
<1>8. CASE StoreTokens(t)
  <2>0. /\ pc[t] \in {"storeA", "storeR", "storeE"} /\ UNCHANGED <<grants, spent>>
        /\ Guarded(t) /\ (stranded => stranded') /\ grant[t] \in Grants
    <3>1. /\ pc[t] \in {"storeA", "storeR", "storeE"} /\ UNCHANGED <<grants, spent>>
          /\ grant[t] \in Grants
      BY <1>0, <1>8 DEF StoreTokens
    <3>2. stranded => stranded'
      BY <1>8, Zenon DEF StoreTokens
    <3> QED
      BY <3>1, <3>2 DEF Guarded
  <2>1. CASE pc[t] = "storeE"
    <3>1. sec'.refresh = sec.refresh
      BY <1>0, <1>8, <2>1 DEF StoreTokens, AfterError, Stored, Secrets
    <3>2. pc'[t] \notin {"net", "storeA", "storeR"} /\ ~ToStore(t)
      BY <1>0, <1>8, <2>1 DEF StoreTokens, Leave, ToStore
    <3> QED
      BY <1>1, <1>2, <2>0, <3>1, <3>2, SpentCallMoves
  <2>2. CASE pc[t] # "storeE" /\ pc'[t] \notin {"storeR", "storeE"}
    <3>1. /\ sec' = sec /\ (stranded' <=> (stranded \/ grant[t].rotates))
          /\ pc'[t] \in {"idle", "outcome"}
      BY <1>0, <1>8, <2>0, <2>2 DEF StoreTokens, AfterError, AfterStore, Leave, GoTo
    <3> QED
      BY <1>1, <1>2, <2>0, <3>1, SpentCallMoves
  <2>3. CASE pc[t] = "storeA" /\ pc'[t] = "storeR"
    <3>1. sec' = [sec EXCEPT !.access = grant[t].gen] /\ UNCHANGED <<tok, grant, stranded>>
      BY <1>0, <1>8, <2>3 DEF StoreTokens, Stored, AfterStore, Leave, GoTo
    <3>2. sec'.refresh = sec.refresh
      BY <1>0, <3>1 DEF Secrets
    <3>3. \A u \in Tasks : (ToStore(u)' <=> ToStore(u)) /\ (pc'[u] = "net" <=> pc[u] = "net")
      BY <1>1, <2>3 DEF ToStore
    <3>4. IssuedInv'
      BY <1>2, <1>4, <2>0, <3>1, <3>2, <3>3 DEF SpentInv, IssuedInv
    <3>5. ApartInv'
      BY <1>2, <1>4, <3>1, <3>3 DEF SpentInv, ApartInv
    <3>6. UnspentInv'
      BY <2>0, <3>1, <3>2, <3>3 DEF SpentInv, UnspentInv
    <3> QED
      BY <3>4, <3>5, <3>6 DEF SpentInv
  <2>4. CASE pc[t] = "storeR" /\ pc'[t] = "storeE"
    <3>1. /\ sec' = (IF grant[t].rotates THEN [sec EXCEPT !.refresh = grant[t].gen] ELSE sec)
          /\ UNCHANGED <<tok, grant, stranded>>
      BY <1>0, <1>8, <2>4 DEF StoreTokens, Stored, AfterStore, Leave, GoTo
    <3>2. CASE ~grant[t].rotates
      BY <1>1, <1>2, <2>0, <2>4, <3>1, <3>2, SpentCallMoves
    <3>3. CASE grant[t].rotates
      <4>1. sec'.refresh = grant[t].gen
        BY <1>0, <3>1, <3>3 DEF Secrets
      <4>2. \A u \in Tasks : ~ToStore(u)' /\ pc'[u] # "net"
        BY <1>1, <1>3, <2>0, <2>4 DEF ToStore
      <4>3. grant[t].gen \in (1..grants) \ spent /\ ToStore(t)
        BY <2>4 DEF SpentInv, IssuedInv, ToStore
      <4>4. \A f \in Flows : FlowToStore(f) => fgrant[f].gen # grant[t].gen
        BY <4>3 DEF SpentInv, ApartInv
      <4>5. 1..grants \subseteq 0..grants
        BY <1>0
      <4>6. IssuedInv'
        BY <1>2, <1>4, <2>0, <4>1, <4>2, <4>3, <4>4, <4>5 DEF SpentInv, IssuedInv
      <4>7. ApartInv'
        BY <4>2 DEF ApartInv
      <4>8. UnspentInv'
        BY <2>0, <4>1, <4>2, <4>3 DEF UnspentInv
      <4> QED
        BY <4>6, <4>7, <4>8 DEF SpentInv
    <3> QED
      BY <3>2, <3>3
  <2>5. pc[t] = "storeA" => pc'[t] # "storeE"
    BY <1>0, <1>8 DEF StoreTokens, AfterStore, Leave, GoTo
  <2>6. pc[t] = "storeR" => pc'[t] # "storeR"
    BY <1>0, <1>8 DEF StoreTokens, AfterStore, Leave, GoTo
  <2> QED
    BY <2>0, <2>1, <2>2, <2>3, <2>4, <2>5, <2>6
<1> QED
  BY <1>5, <1>6, <1>7, <1>8 DEF RefreshStep

(* A flow's step keeps the invariant: the mutex lets one flow at a time     *)
(* store, and its token is new.                                             *)
LEMMA FlowKeepsSpent ==
  ASSUME TypeOK, LockFollowsFlow, SpentInv, NEW f \in Flows,
         StartFlow(f) \/ FlowStep(f) \/ PollFlow(f) \/ CancelFlow(f)
  PROVE  SpentInv'
<1> USE DEF clientVars
<1>0. /\ fpc \in [Flows -> FlowPlaces] /\ fgrant \in [Flows -> Grants]
      /\ sec \in Secrets /\ grants \in Nat
  BY OAuthAssumption DEF TypeOK, Secrets
<1>1. \A g \in Flows \ {f} : fpc'[g] = fpc[g] /\ fgrant'[g] = fgrant[g]
  BY <1>0 DEF StartFlow, FlowStep, Bind, CallbackEnds, TakeLock, ExchangeAnswered,
              StoreFlowTokens, EndFlow, PollFlow, CancelFlow
<1>2. UNCHANGED <<pc, tok, grant, spent, stranded>>
  BY DEF StartFlow, FlowStep, Bind, CallbackEnds, TakeLock, ExchangeAnswered,
         StoreFlowTokens, PollFlow, CancelFlow
<1>3. \A t \in Tasks : (ToStore(t)' <=> ToStore(t))
  BY <1>2 DEF ToStore
<1>4. \A g \in Flows : g # f /\ fpc[f] \in Storing => ~FlowToStore(g)
  BY DEF LockFollowsFlow, FlowToStore, Storing
<1>5. \A g \in Flows : g # f => (FlowToStore(g)' <=> FlowToStore(g)) /\ fgrant'[g] = fgrant[g]
  BY <1>1 DEF FlowToStore
<1>6. ASSUME ~FlowToStore(f)', UNCHANGED <<sec, grants>> PROVE SpentInv'
  <2>1. IssuedInv'
    BY <1>2, <1>3, <1>5, <1>6 DEF SpentInv, IssuedInv
  <2>2. ApartInv'
    BY <1>2, <1>3, <1>5, <1>6 DEF SpentInv, ApartInv
  <2>3. UnspentInv'
    BY <1>2, <1>3, <1>6 DEF SpentInv, UnspentInv
  <2> QED
    BY <2>1, <2>2, <2>3 DEF SpentInv
<1>7. CASE StartFlow(f) \/ Bind(f) \/ CallbackEnds(f) \/ TakeLock(f)
  <2>1. ~FlowToStore(f)' /\ UNCHANGED <<sec, grants>>
    BY <1>0, <1>7 DEF StartFlow, Bind, CallbackEnds, TakeLock, FlowToStore
  <2> QED
    BY <1>6, <2>1
<1>8. CASE PollFlow(f) \/ CancelFlow(f)
  <2>1. UNCHANGED <<sec, grants, fpc, fgrant>>
    BY <1>8 DEF PollFlow, CancelFlow
  <2>2. \A g \in Flows : FlowToStore(g)' => FlowToStore(g)
    BY <2>1 DEF FlowToStore
  <2> QED
    BY <1>0, <1>2, <2>1, <2>2, SpentStays
<1>9. CASE ExchangeAnswered(f)
  <2>1. CASE EndFlow(f, "Failed") /\ UNCHANGED grants
    <3>1. ~FlowToStore(f)' /\ UNCHANGED <<sec, grants>>
      BY <1>0, <1>9, <2>1 DEF ExchangeAnswered, EndFlow, FlowToStore
    <3> QED
      BY <1>6, <3>1
  <2>2. ASSUME NEW shape \in GrantShapes,
               fgrant' = [fgrant EXCEPT ![f] = [gen |-> grants + 1, rotates |-> shape.rotates,
                                                expires |-> shape.expires]],
               grants' = grants + 1, fpc' = [fpc EXCEPT ![f] = "storeA"]
        PROVE  SpentInv'
    <3>1. fgrant'[f].gen = grants + 1 /\ FlowToStore(f)'
      BY <1>0, <2>2 DEF FlowToStore
    <3>2. UNCHANGED sec /\ fpc[f] \in Storing
      BY <1>9 DEF ExchangeAnswered, Storing
    <3>3. \A g \in Flows : g # f => ~FlowToStore(g)'
      BY <1>4, <1>5, <3>2
    <3>4. /\ 1..grants \subseteq 1..(grants + 1) /\ 0..grants \subseteq 0..(grants + 1)
          /\ grants + 1 \in 1..(grants + 1) /\ grants + 1 \notin 1..grants
          /\ grants + 1 \notin 0..grants
      BY <1>0
    <3>5. IssuedInv'
      BY <1>2, <1>3, <2>2, <3>1, <3>2, <3>3, <3>4 DEF SpentInv, IssuedInv
    <3>6. ApartInv'
      BY <1>2, <1>3, <3>1, <3>3, <3>4 DEF SpentInv, IssuedInv, ApartInv
    <3>7. UnspentInv'
      BY <1>2, <1>3, <3>2 DEF SpentInv, UnspentInv
    <3> QED
      BY <3>5, <3>6, <3>7 DEF SpentInv
  <2> QED
    BY <1>9, <2>1, <2>2 DEF ExchangeAnswered
<1>10. CASE StoreFlowTokens(f)
  <2>0. /\ fpc[f] \in {"storeA", "storeR", "storeE"} /\ UNCHANGED grants
        /\ fpc[f] \in Storing
    BY <1>10 DEF StoreFlowTokens, Storing
  <2>1. \A g \in Flows : g # f => ~FlowToStore(g)'
    BY <1>4, <1>5, <2>0
  <2>2. ASSUME sec'.refresh = sec.refresh,
               FlowToStore(f)' => FlowToStore(f) /\ fgrant'[f] = fgrant[f]
        PROVE  SpentInv'
    <3>1. IssuedInv'
      BY <1>2, <1>3, <2>0, <2>1, <2>2 DEF SpentInv, IssuedInv
    <3>2. ApartInv'
      BY <1>2, <1>3, <2>1, <2>2 DEF SpentInv, ApartInv
    <3>3. UnspentInv'
      BY <1>2, <1>3, <2>2 DEF SpentInv, UnspentInv
    <3> QED
      BY <3>1, <3>2, <3>3 DEF SpentInv
  <2>3. CASE fpc[f] # "storeR" \/ fpc'[f] # "storeE" \/ ~fgrant[f].rotates
    <3>1. sec'.refresh = sec.refresh
      BY <1>0, <1>10, <2>0, <2>3 DEF StoreFlowTokens, EndFlow, Stored, AfterError, AfterStore, Secrets
    <3>2. FlowToStore(f)' => FlowToStore(f) /\ fgrant'[f] = fgrant[f]
      BY <1>0, <1>10, <2>0 DEF StoreFlowTokens, EndFlow, AfterStore, FlowToStore
    <3> QED
      BY <2>2, <3>1, <3>2
  <2>4. CASE fpc[f] = "storeR" /\ fpc'[f] = "storeE" /\ fgrant[f].rotates
    <3>1. sec' = [sec EXCEPT !.refresh = fgrant[f].gen]
      BY <1>0, <1>10, <2>4 DEF StoreFlowTokens, EndFlow, Stored
    <3>2. sec'.refresh = fgrant[f].gen
      BY <1>0, <3>1 DEF Secrets
    <3>3. FlowToStore(f) /\ fgrant[f].gen \in (1..grants) \ spent
      BY <2>4 DEF SpentInv, IssuedInv, FlowToStore
    <3>4. \A g \in Flows : ~FlowToStore(g)'
      BY <2>1, <2>4 DEF FlowToStore
    <3>5. 1..grants \subseteq 0..grants
      BY <1>0
    <3>6. IssuedInv'
      BY <1>2, <1>3, <2>0, <3>2, <3>3, <3>4, <3>5 DEF SpentInv, IssuedInv
    <3>7. ApartInv'
      BY <3>4 DEF ApartInv
    <3>8. UnspentInv'
      BY <1>2, <1>3, <3>2, <3>3 DEF SpentInv, UnspentInv
    <3> QED
      BY <3>6, <3>7, <3>8 DEF SpentInv
  <2> QED
    BY <2>3, <2>4
<1> QED
  BY <1>7, <1>8, <1>9, <1>10 DEF FlowStep

(* For any number of callers, flows and grants: a refresh token that an     *)
(* answer has replaced is not sent again unless the secret store failed to  *)
(* keep its replacement, across revocations and new authorizations that     *)
(* race with a refresh (oauth/mod.rs:99-138, 397-530).                      *)
THEOREM SpentTokensStayUnsent == Spec => []NoSpentTokenSent
<1>1. Init => SpentInv
  <2> SUFFICES ASSUME Init PROVE SpentInv
    OBVIOUS
  <2>1. /\ spent = {} /\ sec.refresh = 0 /\ grants = 0
        /\ \A t \in Tasks : pc[t] = "idle"
        /\ \A f \in Flows : fpc[f] = "none"
    BY DEF Init, None
  <2>2. 0 \in 0..0
    OBVIOUS
  <2> QED
    BY <2>1, <2>2 DEF SpentInv, IssuedInv, ApartInv, UnspentInv, ToStore, FlowToStore
<1>2. TypeOK /\ SingleRefreshInFlight /\ LockFollowsFlow /\ SpentInv /\ [Next]_vars => SpentInv'
  <2> SUFFICES ASSUME TypeOK, SingleRefreshInFlight, LockFollowsFlow, SpentInv, [Next]_vars
               PROVE  SpentInv'
    OBVIOUS
  <2>0. grants \in Nat /\ sec \in Secrets /\ pc \in [Tasks -> TaskPlaces]
        /\ tok \in [Tasks -> 0..MaxGrants] /\ grant \in [Tasks -> Grants] /\ LoopTask \in Tasks
    BY OAuthAssumption DEF TypeOK, Secrets, Tasks
  <2>1. ASSUME NEW t \in Tasks, GetAccessToken(t) \/ RefreshStep(t) PROVE SpentInv'
    BY <2>1, CallKeepsSpent
  <2>2. ASSUME NEW f \in Flows, StartFlow(f) \/ FlowStep(f) \/ PollFlow(f) \/ CancelFlow(f)
        PROVE  SpentInv'
    BY <2>2, FlowKeepsSpent
  <2>3. CASE LoopTick \/ LoopOutcome
    <3>1. /\ \A u \in Tasks \ {LoopTask} :
               pc'[u] = pc[u] /\ tok'[u] = tok[u] /\ grant'[u] = grant[u]
          /\ pc'[LoopTask] \notin {"net", "storeA", "storeR"} /\ ~ToStore(LoopTask)
          /\ UNCHANGED <<fpc, fgrant, grants, spent, sec, stranded>>
      BY <2>0, <2>3 DEF LoopTick, LoopOutcome, ToStore, flowVars
    <3> QED
      BY <2>0, <3>1, SpentCallMoves
  <2>4. CASE \/ Reset \/ RevokeDelete \/ RevokeFlows \/ TokenAges \/ BackoffElapses
             \/ UNCHANGED vars
    <3>1. UNCHANGED <<pc, tok, grant, fpc, fgrant, grants, spent, stranded>>
      BY <2>4 DEF Reset, RevokeDelete, RevokeFlows, TokenAges, BackoffElapses, vars,
                  clientVars, flowVars
    <3>2. sec'.refresh \in {sec.refresh, None}
      <4>1. CASE RevokeDelete
        BY <4>1 DEF RevokeDelete
      <4>2. CASE TokenAges
        BY <2>0, <4>2 DEF TokenAges, Secrets
      <4>3. CASE Reset \/ RevokeFlows \/ BackoffElapses \/ UNCHANGED vars
        BY <4>3 DEF Reset, RevokeFlows, BackoffElapses, vars, clientVars
      <4> QED
        BY <2>4, <4>1, <4>2, <4>3
    <3>3. \A f \in Flows : FlowToStore(f)' => FlowToStore(f)
      BY <3>1 DEF FlowToStore
    <3> QED
      BY <2>0, <3>1, <3>2, <3>3, SpentStays
  <2> QED
    BY <2>1, <2>2, <2>3, <2>4 DEF Next
<1>3. SpentInv => NoSpentTokenSent
  BY DEF SpentInv, UnspentInv, NoSpentTokenSent
<1> QED
  BY <1>1, <1>2, <1>3, TypeCorrect, OneRefreshAtATime, MutexFollowsFlow, PTL DEF Spec
=============================================================================
