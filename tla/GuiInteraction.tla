--------------------------- MODULE GuiInteraction ---------------------------
(***************************************************************************)
(* GuiInteractionService: one GUI automation session and the requests that *)
(* work on it at the same time.  Each request takes the lock of the        *)
(* session map more than once and awaits the overlay driver or the focus   *)
(* probe in between, so what it read under one lock may be stale under the *)
(* next.  Sessions share nothing but the map, so one session is modelled;  *)
(* its capability token and signatures are taken to be right, a wrong one  *)
(* being refused before anything changes.                                  *)
(*                                                                         *)
(* Tickets and overlays are numbered in the order they are made.           *)
(***************************************************************************)
EXTENDS Integers, FiniteSets

CONSTANTS
  GuiCallers,      \* requests that can be in progress at the same time
  GuiMaxTickets,   \* bound: tickets issued for the session
  GuiMaxOverlays,  \* bound: highlights shown for the session
  GuiFocusRetries  \* FOCUS_DRIFT_MAX_RETRIES (2)

ASSUME GuiAssumption ==
  /\ IsFiniteSet(GuiCallers)
  /\ GuiMaxTickets \in Nat /\ GuiMaxOverlays \in Nat /\ GuiFocusRetries \in Nat

VARIABLES
  guiState,     \* the session's state; "absent" when the map has no entry
  guiExpired,   \* the clock has passed expires_at
  guiHandle,    \* overlay_handle_id, or 0
  guiConfirmed, \* the ticket of confirmed_action, or 0
  guiNonces,    \* tickets whose nonce is in used_ticket_nonces
  guiIssued,    \* tickets signed so far
  guiStale,     \* tickets past their expiry and its grace
  guiShown,     \* overlays on the screen (the driver's active processes)
  guiDrawn,     \* overlays shown so far
  guiReq,       \* where each request is, with the overlay and ticket it holds
  guiRuns       \* how often each ticket's actions were started

guiVars == <<guiState, guiExpired, guiHandle, guiConfirmed, guiNonces, guiIssued,
             guiStale, guiShown, guiDrawn, guiReq, guiRuns>>
guiTicketVars  == <<guiConfirmed, guiNonces, guiIssued, guiStale, guiRuns>>
guiOverlayVars == <<guiHandle, guiShown, guiDrawn>>

GuiTickets  == 1..GuiMaxTickets
GuiOverlays == 1..GuiMaxOverlays
GuiIdle     == [at |-> "idle", overlay |-> 0, ticket |-> 0, tries |-> 0]
GuiPresent  == guiState # "absent"

GuiInit ==
  /\ guiState = "absent" /\ guiExpired = FALSE
  /\ guiHandle = 0 /\ guiConfirmed = 0 /\ guiNonces = {}
  /\ guiIssued = 0 /\ guiStale = {} /\ guiShown = {} /\ guiDrawn = 0
  /\ guiReq = [c \in GuiCallers |-> GuiIdle]
  /\ guiRuns = [t \in GuiTickets |-> 0]

GuiGoes(c, r) == guiReq' = [guiReq EXCEPT ![c] = r]
GuiAt(c, place) == guiReq[c].at = place

(* The expired check at the top of a request marks the session and refuses. *)
GuiRefuseExpired ==
  /\ guiState' = "Expired"
  /\ UNCHANGED <<guiReq, guiExpired, guiTicketVars, guiOverlayVars>>

-----------------------------------------------------------------------------
(***************************************************************************)
(* The session.                                                            *)
(***************************************************************************)

(* create_session: the probe and the scene analysis touch nothing shared.  *)
GuiCreate ==
  /\ guiState = "absent" /\ ~guiExpired
  /\ guiState' = "Proposed"
  /\ UNCHANGED <<guiExpired, guiTicketVars, guiOverlayVars, guiReq>>

(* get_session, which notices the expiry. *)
GuiGet ==
  /\ GuiPresent /\ guiExpired /\ guiState # "Expired"
  /\ GuiRefuseExpired

(* highlight_session up to its first await. *)
GuiHighlightBegin(c) ==
  /\ GuiAt(c, "idle") /\ GuiPresent /\ guiDrawn < GuiMaxOverlays
  /\ IF guiExpired
     THEN GuiRefuseExpired
     ELSE /\ GuiGoes(c, [GuiIdle EXCEPT !.at = "replace", !.overlay = guiHandle])
          /\ UNCHANGED <<guiState, guiExpired, guiTicketVars, guiOverlayVars>>

(* The driver removes the overlay; clearing an unknown one does nothing. *)
GuiClears(o) == guiShown' = guiShown \ {o}

(* The previous overlay, as it was read, is cleared; 0 is none. *)
GuiHighlightClear(c) ==
  /\ GuiAt(c, "replace")
  /\ GuiClears(guiReq[c].overlay)
  /\ GuiGoes(c, [GuiIdle EXCEPT !.at = "show"])
  /\ UNCHANGED <<guiState, guiExpired, guiTicketVars, guiHandle, guiDrawn>>

(* show_highlights puts a new overlay on the screen, or fails. *)
GuiHighlightShow(c) ==
  /\ GuiAt(c, "show")
  /\ \/ /\ guiDrawn < GuiMaxOverlays
        /\ guiDrawn' = guiDrawn + 1
        /\ guiShown' = guiShown \cup {guiDrawn + 1}
        /\ GuiGoes(c, [GuiIdle EXCEPT !.at = "keep", !.overlay = guiDrawn + 1])
     \/ /\ GuiGoes(c, GuiIdle)
        /\ UNCHANGED <<guiDrawn, guiShown>>
  /\ UNCHANGED <<guiState, guiExpired, guiTicketVars, guiHandle>>

(* The second lock: neither the state nor the handle is looked at again. *)
GuiHighlightKeep(c) ==
  /\ GuiAt(c, "keep")
  /\ IF GuiPresent
     THEN guiHandle' = guiReq[c].overlay /\ guiState' = "Highlighted"
     ELSE UNCHANGED <<guiHandle, guiState>>
  /\ GuiGoes(c, GuiIdle)
  /\ UNCHANGED <<guiExpired, guiTicketVars, guiShown, guiDrawn>>

(* Mutant of GuiCancel: the handle is taken and the overlay never cleared. *)
GuiCancelForgets(c) ==
  /\ GuiAt(c, "idle") /\ GuiPresent
  /\ guiState' = "Cancelled" /\ guiHandle' = 0
  /\ UNCHANGED <<guiReq, guiExpired, guiTicketVars, guiShown, guiDrawn>>

(* cancel_session takes the overlay handle with it. *)
GuiCancel(c) ==
  /\ GuiAt(c, "idle") /\ GuiPresent
  /\ guiState' = "Cancelled" /\ guiHandle' = 0
  /\ GuiGoes(c, [GuiIdle EXCEPT !.at = "clear", !.overlay = guiHandle])
  /\ UNCHANGED <<guiExpired, guiTicketVars, guiShown, guiDrawn>>

(* The clear_highlights that ends a cancel, a completion or a sweep. *)
GuiClear(c) ==
  /\ GuiAt(c, "clear") \/ GuiAt(c, "swept")
  /\ GuiClears(guiReq[c].overlay)
  /\ GuiGoes(c, GuiIdle)
  /\ UNCHANGED <<guiState, guiExpired, guiTicketVars, guiHandle, guiDrawn>>

(* expire_sessions removes the session and then clears its overlay. *)
GuiSweep(c) ==
  /\ GuiAt(c, "idle") /\ GuiPresent /\ guiExpired
  /\ guiState' = "absent" /\ guiHandle' = 0
  /\ guiConfirmed' = 0 /\ guiNonces' = {}
  /\ GuiGoes(c, [GuiIdle EXCEPT !.at = "swept", !.overlay = guiHandle])
  /\ UNCHANGED <<guiExpired, guiIssued, guiStale, guiRuns, guiShown, guiDrawn>>

-----------------------------------------------------------------------------
(***************************************************************************)
(* Confirming a candidate and executing its ticket.                        *)
(***************************************************************************)

(* confirm_candidate up to the focus probe. *)
GuiConfirmBegin(c) ==
  /\ GuiAt(c, "idle") /\ GuiPresent /\ guiIssued < GuiMaxTickets
  /\ IF guiExpired
     THEN GuiRefuseExpired
     ELSE /\ GuiGoes(c, [GuiIdle EXCEPT !.at = "confirm"])
          /\ UNCHANGED <<guiState, guiExpired, guiTicketVars, guiOverlayVars>>

(* A drifted focus refuses; otherwise the ticket is signed, and stored     *)
(* under a second lock that looks at nothing but the session's presence.   *)
GuiConfirm(c) ==
  /\ GuiAt(c, "confirm")
  /\ GuiGoes(c, GuiIdle)
  /\ IF GuiPresent /\ guiIssued < GuiMaxTickets
     THEN \/ /\ guiIssued' = guiIssued + 1
             /\ guiConfirmed' = guiIssued + 1
             /\ guiState' = "Confirmed"
          \/ UNCHANGED <<guiIssued, guiConfirmed, guiState>>
     ELSE UNCHANGED <<guiIssued, guiConfirmed, guiState>>
  /\ UNCHANGED <<guiExpired, guiNonces, guiStale, guiRuns, guiOverlayVars>>

(* prepare_execution under its read lock: the ticket must be the confirmed *)
(* one of a live, Confirmed session and not past its grace.                *)
GuiExecuteBegin(c, t) ==
  /\ GuiAt(c, "idle") /\ GuiPresent /\ ~guiExpired
  /\ guiState = "Confirmed" /\ guiConfirmed = t /\ t \notin guiStale
  /\ GuiGoes(c, [GuiIdle EXCEPT !.at = "focus", !.ticket = t])
  /\ UNCHANGED <<guiState, guiExpired, guiTicketVars, guiOverlayVars>>

(* The focus probe: valid, or a drift that is tried again after a pause    *)
(* until the retries are spent.                                            *)
GuiFocus(c) ==
  /\ GuiAt(c, "focus")
  /\ \/ GuiGoes(c, [guiReq[c] EXCEPT !.at = "start", !.tries = 0])
     \/ /\ guiReq[c].tries < GuiFocusRetries
        /\ GuiGoes(c, [guiReq[c] EXCEPT !.tries = @ + 1])
     \/ /\ guiReq[c].tries = GuiFocusRetries
        /\ GuiGoes(c, GuiIdle)
  /\ UNCHANGED <<guiState, guiExpired, guiTicketVars, guiOverlayVars>>

(* Mutant of GuiStart: the nonce is checked but never remembered. *)
GuiStartForgetsNonce(c) ==
  /\ GuiAt(c, "start")
  /\ IF GuiPresent /\ guiReq[c].ticket \notin guiNonces
     THEN /\ guiState' = "Executing"
          /\ guiRuns' = [guiRuns EXCEPT ![guiReq[c].ticket] = @ + 1]
          /\ GuiGoes(c, [guiReq[c] EXCEPT !.at = "run"])
     ELSE /\ GuiGoes(c, GuiIdle)
          /\ UNCHANGED <<guiState, guiRuns>>
  /\ UNCHANGED <<guiExpired, guiConfirmed, guiIssued, guiStale, guiNonces, guiOverlayVars>>

(* The second lock of prepare_execution: only the nonce is checked, not    *)
(* the state or which ticket is now confirmed.                             *)
GuiStart(c) ==
  /\ GuiAt(c, "start")
  /\ IF GuiPresent /\ guiReq[c].ticket \notin guiNonces
     THEN /\ guiNonces' = guiNonces \cup {guiReq[c].ticket}
          /\ guiState' = "Executing"
          /\ guiRuns' = [guiRuns EXCEPT ![guiReq[c].ticket] = @ + 1]
          /\ GuiGoes(c, [guiReq[c] EXCEPT !.at = "run"])
     ELSE /\ GuiGoes(c, GuiIdle)
          /\ UNCHANGED <<guiNonces, guiState, guiRuns>>
  /\ UNCHANGED <<guiExpired, guiConfirmed, guiIssued, guiStale, guiOverlayVars>>

(* gui_execute runs the actions, which succeed, fail or time out, and      *)
(* complete_execution records it and takes the overlay handle.             *)
GuiComplete(c) ==
  /\ GuiAt(c, "run")
  /\ IF GuiPresent
     THEN /\ guiState' \in {"Executed", "Confirmed"}
          /\ guiHandle' = 0
          /\ GuiGoes(c, [GuiIdle EXCEPT !.at = "clear", !.overlay = guiHandle])
     ELSE /\ GuiGoes(c, GuiIdle)
          /\ UNCHANGED <<guiState, guiHandle>>
  /\ UNCHANGED <<guiExpired, guiTicketVars, guiShown, guiDrawn>>

(* The client goes away: the server drops the request at its next await.   *)
(* The sweep is no request.                                                *)
GuiDropped(c) ==
  /\ ~GuiAt(c, "idle") /\ ~GuiAt(c, "swept")
  /\ GuiGoes(c, GuiIdle)
  /\ UNCHANGED <<guiState, guiExpired, guiTicketVars, guiOverlayVars>>

(* Time passes. *)
GuiSessionExpires ==
  /\ GuiPresent /\ ~guiExpired
  /\ guiExpired' = TRUE
  /\ UNCHANGED <<guiState, guiTicketVars, guiOverlayVars, guiReq>>

GuiTicketExpires ==
  /\ \E t \in 1..guiIssued : t \notin guiStale /\ guiStale' = guiStale \cup {t}
  /\ UNCHANGED <<guiState, guiExpired, guiConfirmed, guiNonces, guiIssued, guiRuns,
                 guiOverlayVars, guiReq>>

GuiRequest(c) ==
  \/ GuiHighlightBegin(c) \/ GuiHighlightClear(c) \/ GuiHighlightShow(c)
  \/ GuiHighlightKeep(c) \/ GuiCancel(c) \/ GuiClear(c) \/ GuiSweep(c)
  \/ GuiConfirmBegin(c) \/ GuiConfirm(c)
  \/ \E t \in GuiTickets : GuiExecuteBegin(c, t)
  \/ GuiFocus(c) \/ GuiStart(c) \/ GuiComplete(c) \/ GuiDropped(c)

GuiNext ==
  \/ GuiCreate \/ GuiGet \/ GuiSessionExpires \/ GuiTicketExpires
  \/ \E c \in GuiCallers : GuiRequest(c)

GuiSpec == GuiInit /\ [][GuiNext]_guiVars

-----------------------------------------------------------------------------
(***************************************************************************)
(* Properties.                                                             *)
(***************************************************************************)
GuiRequestType ==
  [at : {"idle", "replace", "show", "keep", "clear", "swept", "confirm", "focus", "start", "run"},
   overlay : 0..GuiMaxOverlays, ticket : 0..GuiMaxTickets, tries : 0..GuiFocusRetries]

(* Type invariant of the GUI session service. *)
GuiTypeOK ==
  /\ guiState \in {"absent", "Proposed", "Highlighted", "Confirmed", "Executing",
                   "Executed", "Cancelled", "Expired"}
  /\ guiExpired \in BOOLEAN
  /\ guiHandle \in 0..GuiMaxOverlays /\ guiDrawn \in 0..GuiMaxOverlays
  /\ guiShown \subseteq 1..guiDrawn
  /\ guiIssued \in 0..GuiMaxTickets /\ guiConfirmed \in 0..guiIssued
  /\ guiNonces \subseteq GuiTickets /\ guiStale \subseteq GuiTickets
  /\ guiReq \in [GuiCallers -> GuiRequestType]
  /\ guiRuns \in [GuiTickets -> Nat]

(* A ticket's actions are started at most once, whatever overlaps: several *)
(* executes of one ticket waiting out a focus drift, a failure that takes  *)
(* the session back to Confirmed, a cancel or a confirm in between, or the *)
(* session being swept while an execute is under way                       *)
(* (service_execution.rs:297-314).                                         *)
GuiTicketRunsOnce == \A t \in GuiTickets : guiRuns[t] <= 1

GuiHeld == {guiHandle} \cup {guiReq[c].overlay : c \in GuiCallers}

(* An overlay on the screen is never forgotten except by a race: it stops  *)
(* being the session's handle, or one a request will clear or store, only  *)
(* when a second highlight overwrites the handle, when the session was     *)
(* swept before the highlight stored it, or when its request was dropped.  *)
(* Cancel, completion and sweep keep it until it is cleared.               *)
GuiOverlayLostOnlyByRace ==
  [][ \A o \in guiShown \cap guiShown' :
        o \in GuiHeld /\ o \notin GuiHeld' =>
          \/ guiState' = "Highlighted" /\ guiHandle # guiHandle'
          \/ \E c \in GuiCallers : /\ guiReq[c].overlay = o
                                   /\ guiState = "absent" \/ GuiDropped(c) ]_guiVars
=============================================================================
