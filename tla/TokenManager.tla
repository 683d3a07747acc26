---------------------------- MODULE TokenManager ----------------------------
(***************************************************************************)
(* TokenManager: the tokens of the server session, which the HTTP and SSE  *)
(* clients ask for at the same time.  Its state is behind a lock that is   *)
(* released before each request, and nothing lets a second refresh wait    *)
(* for the first.                                                          *)
(*                                                                         *)
(* Refresh tokens are numbered as the server issues them, 0 standing for   *)
(* no session.  The server is external: a login adds a token, a refresh    *)
(* with a token it accepts replaces it or not, a revocation removes it.    *)
(***************************************************************************)
EXTENDS Integers, FiniteSets

CONSTANTS
  TmCallers,   \* tasks that use the manager
  TmMaxTokens, \* bound: refresh tokens issued
  TmMaxRetries \* MAX_RETRIES (3)

ASSUME TmAssumption == TmMaxTokens \in Nat /\ TmMaxRetries \in Nat

VARIABLES
  tmState,   \* the refresh token of the stored TokenState, or 0
  tmExpires, \* the access token is within five minutes of its expiry
  tmCall,    \* where each caller is, with the token it holds
  tmValid,   \* refresh tokens the server accepts
  tmIssued,  \* refresh tokens issued so far
  tmRotates, \* the server's way: a refresh replaces the refresh token
  tmLost,    \* an answer that carried a new token was lost
  tmRaced    \* a logout and another call were in progress together

tmVars == <<tmState, tmExpires, tmCall, tmValid, tmIssued, tmRotates, tmLost, tmRaced>>

TmIdle == [at |-> "idle", token |-> 0, tries |-> 0]
TmAt(c, place) == tmCall[c].at = place
TmGoes(c, call) == tmCall' = [tmCall EXCEPT ![c] = call]
TmOthers(c) == {e \in TmCallers \ {c} : ~TmAt(e, "idle")}
TmLoggingOut == {e \in TmCallers : TmAt(e, "revoke") \/ TmAt(e, "clear")}

TmInit ==
  /\ tmState = 0 /\ tmExpires = FALSE
  /\ tmCall = [c \in TmCallers |-> TmIdle]
  /\ tmValid = {} /\ tmIssued = 0 /\ tmRotates \in BOOLEAN
  /\ tmLost = FALSE /\ tmRaced = FALSE

(* A call begins; whether it meets a logout is remembered. *)
TmBegins(c, call) ==
  /\ TmAt(c, "idle")
  /\ TmGoes(c, call)
  /\ tmRaced' = (\/ tmRaced \/ TmLoggingOut # {}
                 \/ call.at \in {"revoke", "clear"} /\ TmOthers(c) # {})

(* Time passes. *)
TmExpire ==
  /\ tmState # 0 /\ ~tmExpires
  /\ tmExpires' = TRUE
  /\ UNCHANGED <<tmState, tmCall, tmValid, tmIssued, tmRotates, tmLost, tmRaced>>

-----------------------------------------------------------------------------
(* login_with_org: the request, ... *)
TmLogin(c) ==
  /\ TmBegins(c, [TmIdle EXCEPT !.at = "login"])
  /\ UNCHANGED <<tmState, tmExpires, tmValid, tmIssued, tmRotates, tmLost>>

(* ... the server's answer, which may be lost, or its refusal. *)
TmLoggedIn(c) ==
  /\ TmAt(c, "login")
  /\ \/ /\ tmIssued < TmMaxTokens
        /\ tmIssued' = tmIssued + 1
        /\ tmValid' = tmValid \cup {tmIssued'}
        /\ \/ TmGoes(c, [at |-> "store", token |-> tmIssued', tries |-> 0])
           \/ TmGoes(c, TmIdle)
     \/ TmGoes(c, TmIdle) /\ UNCHANGED <<tmValid, tmIssued>>
  /\ UNCHANGED <<tmState, tmExpires, tmRotates, tmLost, tmRaced>>

(* get_token with a token about to expire calls refresh, which reads the   *)
(* state and lets go of the lock.                                          *)
TmRefresh(c) ==
  /\ tmState # 0 /\ tmExpires
  /\ TmBegins(c, [at |-> "send", token |-> tmState, tries |-> 0])
  /\ UNCHANGED <<tmState, tmExpires, tmValid, tmIssued, tmRotates, tmLost>>

(* A transport error, a 5xx or a 429 is tried again. *)
TmRetries(c) ==
  IF tmCall[c].tries < TmMaxRetries
  THEN TmGoes(c, [tmCall[c] EXCEPT !.tries = @ + 1])
  ELSE TmGoes(c, TmIdle)

(* Mutant of TmStored: the token that was sent is stored again. *)
TmStoredOld(sent, answered) == sent

(* The refresh token to store: the answer's, or the one that was sent when *)
(* the answer carries none.                                                *)
TmStored(sent, answered) == IF answered = 0 THEN sent ELSE answered

(* The server handles a refresh: it replaces the token, or not; the answer *)
(* may be lost, after which the client tries again with the same token, or *)
(* be unreadable, which ends the refresh.                                  *)
TmAnswered(c) ==
  LET token == tmCall[c].token
  IN  /\ TmAt(c, "send") /\ token \in tmValid
      /\ \/ /\ tmRotates /\ tmIssued < TmMaxTokens
            /\ tmIssued' = tmIssued + 1
            /\ tmValid' = (tmValid \ {token}) \cup {tmIssued'}
            /\ \/ /\ TmGoes(c, [at |-> "store", token |-> TmStored(token, tmIssued'), tries |-> 0])
                  /\ UNCHANGED tmLost
               \/ /\ TmRetries(c) \/ TmGoes(c, TmIdle)
                  /\ tmLost' = TRUE
         \/ /\ ~tmRotates
            /\ TmGoes(c, [at |-> "store", token |-> TmStored(token, 0), tries |-> 0])
            /\ UNCHANGED <<tmValid, tmIssued, tmLost>>
      /\ UNCHANGED <<tmState, tmExpires, tmRotates, tmRaced>>

(* A 4xx other than 429 ends the refresh, and it is the only answer to a   *)
(* token the server does not accept; a request that fails is tried again.  *)
TmNotAnswered(c) ==
  /\ TmAt(c, "send")
  /\ TmGoes(c, TmIdle) \/ TmRetries(c)
  /\ UNCHANGED <<tmState, tmExpires, tmValid, tmIssued, tmRotates, tmLost, tmRaced>>

(* Login and refresh store what they got, whatever the state is by then. *)
TmStore(c) ==
  /\ TmAt(c, "store")
  /\ tmState' = tmCall[c].token /\ tmExpires' = FALSE
  /\ TmGoes(c, TmIdle)
  /\ UNCHANGED <<tmValid, tmIssued, tmRotates, tmLost, tmRaced>>

(* logout asks for a token, refreshing it as above if it must; with one it *)
(* asks the server to revoke it, whose answer does not matter, and without *)
(* (not logged in, or the refresh failed) it only clears.                  *)
TmLogout(c) ==
  /\ TmBegins(c, [at    |-> IF tmState # 0 /\ ~tmExpires THEN "revoke" ELSE "clear",
                  token |-> tmState, tries |-> 0])
  /\ UNCHANGED <<tmState, tmExpires, tmValid, tmIssued, tmRotates, tmLost>>

TmRevoke(c) ==
  /\ TmAt(c, "revoke")
  /\ tmValid' \in {tmValid, tmValid \ {tmCall[c].token}}
  /\ TmGoes(c, [tmCall[c] EXCEPT !.at = "clear"])
  /\ UNCHANGED <<tmState, tmExpires, tmIssued, tmRotates, tmLost, tmRaced>>

TmClear(c) ==
  /\ TmAt(c, "clear")
  /\ tmState' = 0 /\ tmExpires' = FALSE
  /\ TmGoes(c, TmIdle)
  /\ UNCHANGED <<tmValid, tmIssued, tmRotates, tmLost, tmRaced>>

TmNext ==
  \/ TmExpire
  \/ \E c \in TmCallers :
       \/ TmLogin(c) \/ TmLoggedIn(c) \/ TmRefresh(c) \/ TmAnswered(c) \/ TmNotAnswered(c)
       \/ TmStore(c) \/ TmLogout(c) \/ TmRevoke(c) \/ TmClear(c)

TmSpec == TmInit /\ [][TmNext]_tmVars

-----------------------------------------------------------------------------
(***************************************************************************)
(* Properties.                                                             *)
(***************************************************************************)

(* Type invariant of the token manager. *)
TmTypeOK ==
  /\ tmState \in 0..TmMaxTokens /\ tmExpires \in BOOLEAN
  /\ \A c \in TmCallers :
       /\ tmCall[c].at \in {"idle", "login", "send", "store", "revoke", "clear"}
       /\ tmCall[c].token \in 0..TmMaxTokens /\ tmCall[c].tries \in 0..TmMaxRetries
  /\ tmIssued \in 0..TmMaxTokens /\ tmValid \subseteq 1..tmIssued
  /\ {tmRotates, tmLost, tmRaced} \subseteq BOOLEAN

(* The stored refresh token is one the server accepts whenever no call is  *)
(* in progress, however logins and refreshes overlap, unless an answer was *)
(* lost or a logout met another call: the client is not left with a        *)
(* session that it can never renew (auth.rs:175-315, 369-383).             *)
TmRenewable ==
  (\A c \in TmCallers : TmAt(c, "idle")) /\ tmState # 0 /\ ~tmLost /\ ~tmRaced
    => tmState \in tmValid
=============================================================================
