---------------------------- MODULE ServiceProofs ----------------------------
(***************************************************************************)
(* Theorems about the services that keep sessions and run commands: GUI    *)
(* sessions, the automation command path, the tokens of the server session *)
(* and the AI sessions; for every number of requests, commands, callers,   *)
(* tickets, overlays, tokens and sessions.  At the end, the services       *)
(* together.                                                               *)
(***************************************************************************)
EXTENDS MCServices, ExchangeProofs, SuggestionProofs, FiniteSetTheorems, TLAPS

-----------------------------------------------------------------------------
(***************************************************************************)
(* GUI sessions.                                                           *)
(***************************************************************************)

(* What a request holds at each place: an overlay only where it will clear *)
(* or keep it, a ticket wherever it is about to be executed.               *)
GuiRequestOK(r) ==
  /\ r \in GuiRequestType
  /\ r.at \in {"idle", "show", "confirm", "focus", "start", "run"} => r.overlay = 0
  /\ r.at \in {"focus", "start", "run"} => r.ticket \in GuiTickets

GuiRequestsOK == \A c \in GuiCallers : GuiRequestOK(guiReq[c])

(* A ticket that has run is remembered by its nonce, or the session that   *)
(* remembered it is gone for good: it is swept only after its expiry, and  *)
(* an expired session is not created again.                                *)
GuiRunsRemembered ==
  \A t \in GuiTickets :
    guiRuns[t] > 0 => t \in guiNonces \/ (guiState = "absent" /\ guiExpired)

GuiInv == GuiTypeOK /\ GuiRequestsOK /\ GuiTicketRunsOnce /\ GuiRunsRemembered

(* An idle request is in order. *)
LEMMA GuiIdleOK == GuiRequestOK(GuiIdle)
BY GuiAssumption DEF GuiRequestOK, GuiRequestType, GuiIdle

(* One request moves to a record that is in order, the others stay. *)
LEMMA GuiRequestsMove ==
  ASSUME GuiTypeOK, GuiRequestsOK, NEW c \in GuiCallers, NEW r, GuiRequestOK(r), GuiGoes(c, r)
  PROVE  GuiRequestsOK' /\ guiReq' \in [GuiCallers -> GuiRequestType]
<1>1. guiReq \in [GuiCallers -> GuiRequestType] /\ r \in GuiRequestType
  BY DEF GuiTypeOK, GuiRequestOK
<1>2. guiReq' \in [GuiCallers -> GuiRequestType]
  BY <1>1 DEF GuiGoes
<1>3. \A e \in GuiCallers : guiReq'[e] = IF e = c THEN r ELSE guiReq[e]
  BY <1>1 DEF GuiGoes
<1> QED
  BY <1>2, <1>3 DEF GuiRequestsOK

(* The records a request moves to. *)
LEMMA GuiMovesOK ==
  ASSUME GuiTypeOK
  PROVE  /\ GuiRequestOK([GuiIdle EXCEPT !.at = "replace", !.overlay = guiHandle])
         /\ GuiRequestOK([GuiIdle EXCEPT !.at = "show"])
         /\ GuiRequestOK([GuiIdle EXCEPT !.at = "clear", !.overlay = guiHandle])
         /\ GuiRequestOK([GuiIdle EXCEPT !.at = "swept", !.overlay = guiHandle])
         /\ GuiRequestOK([GuiIdle EXCEPT !.at = "confirm"])
         /\ guiDrawn < GuiMaxOverlays =>
              GuiRequestOK([GuiIdle EXCEPT !.at = "keep", !.overlay = guiDrawn + 1])
         /\ \A t \in GuiTickets : GuiRequestOK([GuiIdle EXCEPT !.at = "focus", !.ticket = t])
<1>1. /\ guiHandle \in 0..GuiMaxOverlays /\ 0 \in 0..GuiMaxOverlays /\ 0 \in 0..GuiMaxTickets
      /\ 0 \in 0..GuiFocusRetries
      /\ guiDrawn < GuiMaxOverlays => guiDrawn + 1 \in 0..GuiMaxOverlays
      /\ \A t \in GuiTickets : t \in 0..GuiMaxTickets
  BY GuiAssumption DEF GuiTypeOK, GuiTickets
<1>2. GuiRequestOK([GuiIdle EXCEPT !.at = "replace", !.overlay = guiHandle])
  BY <1>1 DEF GuiIdle, GuiRequestOK, GuiRequestType
<1>3. GuiRequestOK([GuiIdle EXCEPT !.at = "show"])
  BY <1>1 DEF GuiIdle, GuiRequestOK, GuiRequestType
<1>4. GuiRequestOK([GuiIdle EXCEPT !.at = "clear", !.overlay = guiHandle])
  BY <1>1 DEF GuiIdle, GuiRequestOK, GuiRequestType
<1>5. GuiRequestOK([GuiIdle EXCEPT !.at = "swept", !.overlay = guiHandle])
  BY <1>1 DEF GuiIdle, GuiRequestOK, GuiRequestType
<1>6. GuiRequestOK([GuiIdle EXCEPT !.at = "confirm"])
  BY <1>1 DEF GuiIdle, GuiRequestOK, GuiRequestType
<1>7. guiDrawn < GuiMaxOverlays =>
        GuiRequestOK([GuiIdle EXCEPT !.at = "keep", !.overlay = guiDrawn + 1])
  BY <1>1 DEF GuiIdle, GuiRequestOK, GuiRequestType
<1>8. \A t \in GuiTickets : GuiRequestOK([GuiIdle EXCEPT !.at = "focus", !.ticket = t])
  BY <1>1 DEF GuiIdle, GuiRequestOK, GuiRequestType
<1> QED
  BY <1>2, <1>3, <1>4, <1>5, <1>6, <1>7, <1>8

(* At the launch there is no session and nothing has run. *)
LEMMA GuiInitInv == GuiInit => GuiInv
<1> SUFFICES ASSUME GuiInit PROVE GuiInv
  OBVIOUS
<1>1. guiReq \in [GuiCallers -> GuiRequestType] /\ GuiRequestsOK
  BY GuiIdleOK DEF GuiInit, GuiRequestsOK, GuiRequestOK
<1>2. GuiTypeOK
  <2>1. /\ guiHandle \in 0..GuiMaxOverlays /\ guiDrawn \in 0..GuiMaxOverlays
        /\ guiIssued \in 0..GuiMaxTickets /\ guiConfirmed \in 0..guiIssued
    BY GuiAssumption DEF GuiInit
  <2>2. guiRuns \in [GuiTickets -> Nat]
    BY DEF GuiInit
  <2> QED
    BY <1>1, <2>1, <2>2 DEF GuiInit, GuiTypeOK
<1>3. GuiTicketRunsOnce /\ GuiRunsRemembered
  BY DEF GuiInit, GuiTicketRunsOnce, GuiRunsRemembered
<1> QED
  BY <1>1, <1>2, <1>3 DEF GuiInv

(* A step that leaves tickets, nonces and runs alone and takes no session  *)
(* back from its sweep keeps what is known of the runs.                    *)
LEMMA GuiRunsKept ==
  ASSUME GuiTicketRunsOnce, GuiRunsRemembered, UNCHANGED <<guiRuns, guiNonces>>,
         guiState = "absent" /\ guiExpired => guiState' = "absent" /\ guiExpired'
  PROVE  GuiTicketRunsOnce' /\ GuiRunsRemembered'
BY DEF GuiTicketRunsOnce, GuiRunsRemembered

(* The steps of the session and of time. *)
LEMMA GuiSessionKeepsInv ==
  ASSUME GuiInv, GuiCreate \/ GuiGet \/ GuiSessionExpires \/ GuiTicketExpires
  PROVE  GuiInv'
<1>1. GuiRequestsOK'
  BY DEF GuiInv, GuiRequestsOK, GuiCreate, GuiGet, GuiRefuseExpired, GuiSessionExpires,
         GuiTicketExpires
<1>2. GuiTypeOK'
  <2>1. CASE GuiCreate \/ GuiGet \/ GuiSessionExpires
    BY <2>1 DEF GuiInv, GuiTypeOK, GuiCreate, GuiGet, GuiRefuseExpired, GuiSessionExpires,
       guiTicketVars, guiOverlayVars
  <2>2. CASE GuiTicketExpires
    <3>1. guiIssued \in 0..GuiMaxTickets /\ guiStale \subseteq GuiTickets
      BY DEF GuiInv, GuiTypeOK
    <3>2. guiStale' \subseteq GuiTickets
      BY <2>2, <3>1, GuiAssumption DEF GuiTicketExpires, GuiTickets
    <3> QED
      BY <2>2, <3>2 DEF GuiInv, GuiTypeOK, GuiTicketExpires, guiOverlayVars
  <2> QED
    BY <2>1, <2>2
<1>3. UNCHANGED <<guiRuns, guiNonces>>
  BY DEF GuiCreate, GuiGet, GuiRefuseExpired, GuiSessionExpires, GuiTicketExpires, guiTicketVars
<1>4. guiState = "absent" /\ guiExpired => guiState' = "absent" /\ guiExpired'
  BY DEF GuiCreate, GuiGet, GuiRefuseExpired, GuiSessionExpires, GuiTicketExpires, GuiPresent
<1> QED
  BY <1>1, <1>2, <1>3, <1>4, GuiRunsKept DEF GuiInv

(* The steps of a highlight, a cancel and a sweep up to its clear. *)
LEMMA GuiOverlayKeepsInv ==
  ASSUME GuiInv, NEW c \in GuiCallers,
         \/ GuiHighlightBegin(c) \/ GuiHighlightClear(c) \/ GuiHighlightShow(c)
         \/ GuiHighlightKeep(c) \/ GuiCancel(c) \/ GuiClear(c)
  PROVE  GuiInv'
<1>1. GuiTypeOK /\ GuiRequestsOK
  BY DEF GuiInv
<1>2. GuiRequestsOK' /\ guiReq' \in [GuiCallers -> GuiRequestType]
  <2>1. CASE GuiHighlightBegin(c) /\ guiExpired
    BY <2>1, <1>1 DEF GuiHighlightBegin, GuiRefuseExpired, GuiRequestsOK, GuiTypeOK
  <2>2. CASE GuiHighlightBegin(c) /\ ~guiExpired
    BY <2>2, <1>1, GuiMovesOK, GuiRequestsMove DEF GuiHighlightBegin
  <2>3. CASE GuiHighlightClear(c)
    BY <2>3, <1>1, GuiMovesOK, GuiRequestsMove DEF GuiHighlightClear
  <2>4. CASE GuiHighlightShow(c)
    BY <2>4, <1>1, GuiMovesOK, GuiIdleOK, GuiRequestsMove DEF GuiHighlightShow
  <2>5. CASE GuiHighlightKeep(c)
    BY <2>5, <1>1, GuiIdleOK, GuiRequestsMove DEF GuiHighlightKeep
  <2>6. CASE GuiCancel(c)
    BY <2>6, <1>1, GuiMovesOK, GuiRequestsMove DEF GuiCancel
  <2>7. CASE GuiClear(c)
    BY <2>7, <1>1, GuiIdleOK, GuiRequestsMove DEF GuiClear
  <2> QED
    BY <2>1, <2>2, <2>3, <2>4, <2>5, <2>6, <2>7
<1>3. guiReq[c].overlay \in 0..GuiMaxOverlays
  BY <1>1 DEF GuiRequestsOK, GuiRequestOK, GuiRequestType
<1>4. GuiTypeOK'
  <2>1. CASE GuiHighlightBegin(c)
    BY <2>1, <1>1, <1>2 DEF GuiHighlightBegin, GuiRefuseExpired, GuiTypeOK, guiTicketVars,
       guiOverlayVars
  <2>2. CASE GuiHighlightClear(c)
    BY <2>2, <1>1, <1>2 DEF GuiHighlightClear, GuiClears, GuiTypeOK, guiTicketVars
  <2>3. CASE GuiHighlightShow(c)
    BY <2>3, <1>1, <1>2, GuiAssumption DEF GuiHighlightShow, GuiTypeOK, guiTicketVars
  <2>4. CASE GuiHighlightKeep(c)
    BY <2>4, <1>1, <1>2, <1>3 DEF GuiHighlightKeep, GuiTypeOK, guiTicketVars
  <2>5. CASE GuiCancel(c)
    BY <2>5, <1>1, <1>2, GuiAssumption DEF GuiCancel, GuiTypeOK, guiTicketVars
  <2>6. CASE GuiClear(c)
    BY <2>6, <1>1, <1>2 DEF GuiClear, GuiClears, GuiTypeOK, guiTicketVars
  <2> QED
    BY <2>1, <2>2, <2>3, <2>4, <2>5, <2>6
<1>5. UNCHANGED <<guiRuns, guiNonces>>
  BY DEF GuiHighlightBegin, GuiRefuseExpired, GuiHighlightClear, GuiHighlightShow,
         GuiHighlightKeep, GuiCancel, GuiClear, guiTicketVars
<1>6. guiState = "absent" /\ guiExpired => guiState' = "absent" /\ guiExpired'
  BY DEF GuiHighlightBegin, GuiRefuseExpired, GuiHighlightClear, GuiHighlightShow,
         GuiHighlightKeep, GuiCancel, GuiClear, GuiPresent
<1> QED
  BY <1>2, <1>4, <1>5, <1>6, GuiRunsKept DEF GuiInv

(* The sweep forgets the nonces, and the session is gone for good. *)
LEMMA GuiSweepKeepsInv ==
  ASSUME GuiInv, NEW c \in GuiCallers, GuiSweep(c)
  PROVE  GuiInv'
<1>1. GuiRequestsOK' /\ guiReq' \in [GuiCallers -> GuiRequestType]
  BY GuiMovesOK, GuiRequestsMove DEF GuiInv, GuiSweep
<1>2. GuiTypeOK'
  BY <1>1, GuiAssumption DEF GuiInv, GuiSweep, GuiTypeOK
<1>3. GuiTicketRunsOnce' /\ GuiRunsRemembered'
  BY DEF GuiInv, GuiSweep, GuiTicketRunsOnce, GuiRunsRemembered
<1> QED
  BY <1>1, <1>2, <1>3 DEF GuiInv

(* The steps of a confirmation and of an execution before and after the    *)
(* start of its actions, and a dropped request.                            *)
LEMMA GuiTicketKeepsInv ==
  ASSUME GuiInv, NEW c \in GuiCallers,
         \/ GuiConfirmBegin(c) \/ GuiConfirm(c)
         \/ \E t \in GuiTickets : GuiExecuteBegin(c, t)
         \/ GuiFocus(c) \/ GuiComplete(c) \/ GuiDropped(c)
  PROVE  GuiInv'
<1>1. GuiTypeOK /\ GuiRequestsOK
  BY DEF GuiInv
<1>2. GuiRequestsOK' /\ guiReq' \in [GuiCallers -> GuiRequestType]
  <2>1. CASE GuiConfirmBegin(c) /\ guiExpired
    BY <2>1, <1>1 DEF GuiConfirmBegin, GuiRefuseExpired, GuiRequestsOK, GuiTypeOK
  <2>2. CASE GuiConfirmBegin(c) /\ ~guiExpired
    BY <2>2, <1>1, GuiMovesOK, GuiRequestsMove DEF GuiConfirmBegin
  <2>3. CASE GuiConfirm(c)
    BY <2>3, <1>1, GuiIdleOK, GuiRequestsMove DEF GuiConfirm
  <2>4. CASE \E t \in GuiTickets : GuiExecuteBegin(c, t)
    BY <2>4, <1>1, GuiMovesOK, GuiRequestsMove DEF GuiExecuteBegin
  <2>5. CASE GuiFocus(c)
    <3>1. GuiRequestOK(guiReq[c]) /\ guiReq[c].at = "focus"
      BY <2>5, <1>1 DEF GuiFocus, GuiAt, GuiRequestsOK
    <3>2. GuiRequestOK([guiReq[c] EXCEPT !.at = "start", !.tries = 0])
      <4>1. 0 \in 0..GuiFocusRetries
        BY GuiAssumption
      <4> QED
        BY <3>1, <4>1 DEF GuiRequestOK, GuiRequestType
    <3>3. guiReq[c].tries < GuiFocusRetries =>
            GuiRequestOK([guiReq[c] EXCEPT !.tries = @ + 1])
      BY <3>1, GuiAssumption DEF GuiRequestOK, GuiRequestType
    <3> QED
      BY <2>5, <3>2, <3>3, <1>1, GuiIdleOK, GuiRequestsMove DEF GuiFocus
  <2>6. CASE GuiComplete(c)
    BY <2>6, <1>1, GuiMovesOK, GuiIdleOK, GuiRequestsMove DEF GuiComplete
  <2>7. CASE GuiDropped(c)
    BY <2>7, <1>1, GuiIdleOK, GuiRequestsMove DEF GuiDropped
  <2> QED
    BY <2>1, <2>2, <2>3, <2>4, <2>5, <2>6, <2>7
<1>3. GuiTypeOK'
  <2>1. CASE GuiConfirmBegin(c)
    BY <2>1, <1>1, <1>2 DEF GuiConfirmBegin, GuiRefuseExpired, GuiTypeOK, guiTicketVars,
       guiOverlayVars
  <2>2. CASE GuiConfirm(c)
    BY <2>2, <1>1, <1>2, GuiAssumption DEF GuiConfirm, GuiTypeOK, guiOverlayVars
  <2>3. CASE \E t \in GuiTickets : GuiExecuteBegin(c, t)
    BY <2>3, <1>1, <1>2 DEF GuiExecuteBegin, GuiTypeOK, guiTicketVars, guiOverlayVars
  <2>4. CASE GuiFocus(c)
    BY <2>4, <1>1, <1>2 DEF GuiFocus, GuiTypeOK, guiTicketVars, guiOverlayVars
  <2>5. CASE GuiComplete(c)
    BY <2>5, <1>1, <1>2, GuiAssumption DEF GuiComplete, GuiTypeOK, guiTicketVars
  <2>6. CASE GuiDropped(c)
    BY <2>6, <1>1, <1>2 DEF GuiDropped, GuiTypeOK, guiTicketVars, guiOverlayVars
  <2> QED
    BY <2>1, <2>2, <2>3, <2>4, <2>5, <2>6
<1>4. UNCHANGED <<guiRuns, guiNonces>>
  BY DEF GuiConfirmBegin, GuiRefuseExpired, GuiConfirm, GuiExecuteBegin, GuiFocus,
         GuiComplete, GuiDropped, guiTicketVars
<1>5. guiState = "absent" /\ guiExpired => guiState' = "absent" /\ guiExpired'
  BY DEF GuiConfirmBegin, GuiRefuseExpired, GuiConfirm, GuiExecuteBegin, GuiFocus,
         GuiComplete, GuiDropped, GuiPresent
<1> QED
  BY <1>2, <1>3, <1>4, <1>5, GuiRunsKept DEF GuiInv

(* The start of a ticket's actions: the nonce is new, so nothing has run,  *)
(* because the session is there.                                           *)
LEMMA GuiStartKeepsInv ==
  ASSUME GuiInv, NEW c \in GuiCallers, GuiStart(c)
  PROVE  GuiInv'
<1>1. GuiRequestOK(guiReq[c]) /\ guiReq[c].at = "start"
  BY DEF GuiInv, GuiRequestsOK, GuiStart, GuiAt
<1>2. guiReq[c].ticket \in GuiTickets
  BY <1>1 DEF GuiRequestOK
<1>3. GuiRequestOK([guiReq[c] EXCEPT !.at = "run"])
  BY <1>1 DEF GuiRequestOK, GuiRequestType
<1>4. GuiRequestsOK' /\ guiReq' \in [GuiCallers -> GuiRequestType]
  BY <1>3, GuiIdleOK, GuiRequestsMove DEF GuiInv, GuiStart
<1>5. GuiTypeOK'
  BY <1>2, <1>4 DEF GuiInv, GuiStart, GuiTypeOK, guiOverlayVars
<1>6. GuiTicketRunsOnce' /\ GuiRunsRemembered'
  BY <1>2 DEF GuiInv, GuiStart, GuiTypeOK, GuiTicketRunsOnce, GuiRunsRemembered, GuiPresent
<1> QED
  BY <1>4, <1>5, <1>6 DEF GuiInv

(* Every step keeps the invariant. *)
LEMMA GuiNextInv == GuiInv /\ [GuiNext]_guiVars => GuiInv'
<1> SUFFICES ASSUME GuiInv, [GuiNext]_guiVars PROVE GuiInv'
  OBVIOUS
<1>1. CASE UNCHANGED guiVars
  BY <1>1 DEF GuiInv, GuiTypeOK, GuiRequestsOK, GuiTicketRunsOnce, GuiRunsRemembered, guiVars
<1>2. ASSUME NEW c \in GuiCallers, GuiRequest(c) PROVE GuiInv'
  BY <1>2, GuiOverlayKeepsInv, GuiSweepKeepsInv, GuiTicketKeepsInv, GuiStartKeepsInv
     DEF GuiRequest
<1> QED
  BY <1>1, <1>2, GuiSessionKeepsInv DEF GuiNext

LEMMA GuiInvariant == GuiSpec => []GuiInv
BY GuiInitInv, GuiNextInv, PTL DEF GuiSpec

(* Every variable of the GUI session service keeps its type. *)
THEOREM GuiTypeCorrect == GuiSpec => []GuiTypeOK
<1>1. GuiInv => GuiTypeOK
  BY DEF GuiInv
<1> QED
  BY <1>1, GuiInvariant, PTL

(* The actions of a ticket are started at most once, for any number of     *)
(* requests that overlap (prepare_execution, service_execution.rs).        *)
THEOREM TicketsRunOnce == GuiSpec => []GuiTicketRunsOnce
<1>1. GuiInv => GuiTicketRunsOnce
  BY DEF GuiInv
<1> QED
  BY <1>1, GuiInvariant, PTL

(* No step but the three races loses an overlay that is on the screen. *)
THEOREM OverlaysLostOnlyByRace == GuiSpec => GuiOverlayLostOnlyByRace
<1> DEFINE Lost ==
      \A o \in guiShown \cap guiShown' :
        o \in GuiHeld /\ o \notin GuiHeld' =>
          \/ guiState' = "Highlighted" /\ guiHandle # guiHandle'
          \/ \E c \in GuiCallers : /\ guiReq[c].overlay = o
                                   /\ guiState = "absent" \/ GuiDropped(c)
<1>1. GuiInv /\ [GuiNext]_guiVars => [Lost]_guiVars
  <2> SUFFICES ASSUME GuiInv, GuiNext,
                      NEW o \in guiShown \cap guiShown', o \in GuiHeld, o \notin GuiHeld',
                      ~(guiState' = "Highlighted" /\ guiHandle # guiHandle'),
                      \A c \in GuiCallers : guiReq[c].overlay = o =>
                                              guiState # "absent" /\ ~GuiDropped(c)
               PROVE  FALSE
    OBVIOUS
  <2>1. o # 0
    BY DEF GuiInv, GuiTypeOK
  <2>2. /\ guiReq \in [GuiCallers -> GuiRequestType]
        /\ \A c \in GuiCallers :
             guiReq[c].at \in {"idle", "show", "confirm", "focus", "start", "run"} =>
               guiReq[c].overlay = 0
    BY DEF GuiInv, GuiTypeOK, GuiRequestsOK, GuiRequestOK
  <2>3. \/ guiHandle' # guiHandle \/ guiReq' # guiReq
    BY DEF GuiHeld
  <2>4. PICK c \in GuiCallers : GuiRequest(c)
    BY <2>3 DEF GuiNext, GuiCreate, GuiGet, GuiRefuseExpired, GuiSessionExpires,
       GuiTicketExpires, guiOverlayVars
  <2>5. \A r : GuiGoes(c, r) =>
          \A e \in GuiCallers : guiReq'[e] = IF e = c THEN r ELSE guiReq[e]
    BY <2>2 DEF GuiGoes
  <2>6. ASSUME guiReq[c].overlay = 0, guiReq'[c].overlay = guiHandle,
               \A e \in GuiCallers \ {c} : guiReq'[e] = guiReq[e]
        PROVE  FALSE
    <3>1. o = guiHandle \/ \E e \in GuiCallers \ {c} : o = guiReq[e].overlay
      BY <2>6, <2>1 DEF GuiHeld
    <3> QED
      BY <3>1, <2>6 DEF GuiHeld
  <2>7. CASE GuiHighlightBegin(c) /\ guiExpired
    BY <2>7, <2>3 DEF GuiHighlightBegin, GuiRefuseExpired, guiOverlayVars
  <2>8. ASSUME guiReq[c].at \in {"idle", "run"},
               NEW place \in {"replace", "clear", "swept"},
               GuiGoes(c, [GuiIdle EXCEPT !.at = place, !.overlay = guiHandle])
        PROVE  FALSE
    <3>1. guiReq[c].overlay = 0
      BY <2>8, <2>2
    <3>2. \A e \in GuiCallers :
            guiReq'[e] = IF e = c THEN [GuiIdle EXCEPT !.at = place, !.overlay = guiHandle]
                                  ELSE guiReq[e]
      BY <2>8, <2>5
    <3>3. [GuiIdle EXCEPT !.at = place, !.overlay = guiHandle].overlay = guiHandle
      BY DEF GuiIdle
    <3> QED
      BY <3>1, <3>2, <3>3, <2>6
  <2>9. CASE GuiHighlightBegin(c) /\ ~guiExpired
    BY <2>9, <2>8 DEF GuiHighlightBegin, GuiAt
  <2>10. CASE GuiCancel(c)
    BY <2>10, <2>8 DEF GuiCancel, GuiAt
  <2>11. CASE GuiSweep(c)
    BY <2>11, <2>8 DEF GuiSweep, GuiAt
  <2>12. CASE GuiComplete(c) /\ GuiPresent
    BY <2>12, <2>8 DEF GuiComplete, GuiAt
  <2>13. CASE GuiHighlightClear(c) \/ GuiClear(c)
    BY <2>13, <2>1, <2>2, <2>5 DEF GuiHighlightClear, GuiClear, GuiClears, GuiHeld, GuiAt, GuiIdle
  <2>14. CASE GuiHighlightShow(c)
    BY <2>14, <2>1, <2>2, <2>5 DEF GuiHighlightShow, GuiHeld, GuiAt, GuiIdle
  <2>15. CASE GuiHighlightKeep(c)
    BY <2>15, <2>1, <2>2, <2>5 DEF GuiHighlightKeep, GuiHeld, GuiPresent
  <2>16. CASE GuiConfirmBegin(c) \/ GuiConfirm(c) \/ \E t \in GuiTickets : GuiExecuteBegin(c, t)
    BY <2>16, <2>1, <2>2, <2>5 DEF GuiConfirmBegin, GuiConfirm, GuiExecuteBegin,
       GuiRefuseExpired, GuiHeld, GuiAt, GuiIdle, guiOverlayVars
  <2>17. CASE GuiFocus(c) \/ GuiStart(c)
    BY <2>17, <2>1, <2>2, <2>5 DEF GuiFocus, GuiStart, GuiHeld, GuiAt, GuiIdle, guiOverlayVars
  <2>18. CASE GuiComplete(c) /\ ~GuiPresent
    BY <2>18, <2>1, <2>2, <2>5 DEF GuiComplete, GuiHeld, GuiAt, GuiIdle
  <2>19. CASE GuiDropped(c)
    BY <2>19, <2>2, <2>5 DEF GuiDropped, GuiHeld, guiOverlayVars
  <2> QED
    BY <2>4, <2>7, <2>9, <2>10, <2>11, <2>12, <2>13, <2>14, <2>15, <2>16, <2>17, <2>18,
       <2>19 DEF GuiRequest
<1> QED
  BY <1>1, GuiInvariant, PTL DEF GuiSpec, GuiOverlayLostOnlyByRace

-----------------------------------------------------------------------------
(***************************************************************************)
(* The command path.                                                       *)
(***************************************************************************)
GateCmdType == [at : GatePlaces, id : GateIds, token : GateTokens, now : 0..GateMaxClock]

(* A command judges by a time that has been. *)
GateStampsOK == \A c \in GateCommands : gateCmd[c].now <= gateClock

(* Only a command that asks has a channel that is not closed, and a yes in *)
(* it is its own user's.                                                   *)
GateAnswersOK ==
  \A c \in GateCommands : /\ gateAnswer[c] # "closed" => GateAt(c, "ask")
                          /\ gateAnswer[c] = "yes" => c \in gateApproved

(* The replay table has the last acceptance of a token, or its ttl passed. *)
GateReplayOK ==
  \A t \in GateTokens :
    gateAccepted[t] # -1 => \/ gateValidated[t] = gateAccepted[t]
                           \/ gateClock - gateAccepted[t] >= GateTtl

GateInv == GateTypeOK /\ GateStampsOK /\ GateAnswersOK /\ GateReplayOK

(* A command that is not under way. *)
LEMMA GateAnyNewOK == GateAnyNew \in GateCmdType /\ GateAnyNew.now = 0 /\ GateAnyNew.at = "idle"
<1>1. (CHOOSE i \in GateIds : TRUE) \in GateIds /\ (CHOOSE t \in GateTokens : TRUE) \in GateTokens
  BY GateAssumption
<1> QED
  BY <1>1, GateAssumption DEF GateAnyNew, GateNew, GateCmdType, GatePlaces

(* One command moves to a record that is in order, the others stay. *)
LEMMA GateCmdMoves ==
  ASSUME GateInv, NEW c \in GateCommands, NEW r \in GateCmdType, r.now <= gateClock,
         gateCmd' = [gateCmd EXCEPT ![c] = r]
  PROVE  /\ gateCmd' \in [GateCommands -> GateCmdType]
         /\ \A e \in GateCommands : gateCmd'[e] = IF e = c THEN r ELSE gateCmd[e]
         /\ \A e \in GateCommands : gateCmd'[e].now <= gateClock
<1>1. gateCmd \in [GateCommands -> GateCmdType] /\ \A e \in GateCommands : gateCmd[e].now <= gateClock
  BY DEF GateInv, GateTypeOK, GateCmdType, GateStampsOK
<1>2. gateCmd' \in [GateCommands -> GateCmdType]
  BY <1>1
<1>3. \A e \in GateCommands : gateCmd'[e] = IF e = c THEN r ELSE gateCmd[e]
  BY <1>1
<1> QED
  BY <1>1, <1>2, <1>3

(* The records a command moves to. *)
LEMMA GateRecordsOK ==
  ASSUME GateInv, NEW c \in GateCommands
  PROVE  /\ \A place \in GatePlaces : /\ [gateCmd[c] EXCEPT !.at = place] \in GateCmdType
                                      /\ [gateCmd[c] EXCEPT !.at = place].now <= gateClock
                                      /\ [gateCmd[c] EXCEPT !.at = place].at = place
         /\ \A i \in GateIds, t \in GateTokens, place \in GatePlaces :
              /\ [GateNew(i, t) EXCEPT !.at = place] \in GateCmdType
              /\ [GateNew(i, t) EXCEPT !.at = place].now <= gateClock
              /\ [GateNew(i, t) EXCEPT !.at = place].at = place
<1>1. gateCmd[c] \in GateCmdType /\ gateCmd[c].now <= gateClock /\ gateClock \in 0..GateMaxClock
  BY DEF GateInv, GateTypeOK, GateCmdType, GateStampsOK
<1>2. ASSUME NEW place \in GatePlaces
      PROVE  /\ [gateCmd[c] EXCEPT !.at = place] \in GateCmdType
             /\ [gateCmd[c] EXCEPT !.at = place].now <= gateClock
             /\ [gateCmd[c] EXCEPT !.at = place].at = place
  BY <1>1 DEF GateCmdType
<1>3. ASSUME NEW i \in GateIds, NEW t \in GateTokens, NEW place \in GatePlaces
      PROVE  /\ [GateNew(i, t) EXCEPT !.at = place] \in GateCmdType
             /\ [GateNew(i, t) EXCEPT !.at = place].now <= gateClock
             /\ [GateNew(i, t) EXCEPT !.at = place].at = place
  BY <1>1, GateAssumption DEF GateCmdType, GateNew
<1> QED
  BY <1>2, <1>3

(* The states the command path starts in. *)
LEMMA GateInitInv == GateInit => GateInv
<1> SUFFICES ASSUME GateInit PROVE GateInv
  OBVIOUS
<1>1. GateTypeOK
  BY GateAnyNewOK, GateAssumption DEF GateInit, GateTypeOK, GateCmdType, GateRequirements
<1>2. GateStampsOK
  BY GateAnyNewOK DEF GateInit, GateStampsOK
<1>3. GateAnswersOK /\ GateReplayOK
  BY DEF GateInit, GateAnswersOK, GateReplayOK
<1> QED
  BY <1>1, <1>2, <1>3 DEF GateInv

(* A command moves and its audit entry with it; cache and prompts stay. *)
LEMMA GateCommandMoves ==
  ASSUME GateInv, NEW c \in GateCommands, NEW r \in GateCmdType, r.now <= gateClock,
         gateCmd' = [gateCmd EXCEPT ![c] = r], ~GateAt(c, "ask"),
         \/ gateOpen' \subseteq gateOpen \ {c}
         \/ r.at = "dispatch" /\ gateOpen' \subseteq gateOpen \cup {c},
         UNCHANGED <<gateClock, gateCacheVars, gatePromptVars>>
  PROVE  GateInv'
<1>1. /\ gateCmd' \in [GateCommands -> GateCmdType]
      /\ \A e \in GateCommands : gateCmd'[e] = IF e = c THEN r ELSE gateCmd[e]
      /\ \A e \in GateCommands : gateCmd'[e].now <= gateClock
  BY GateCmdMoves
<1>2. gateOpen' \subseteq {e \in GateCommands : gateCmd'[e].at = "dispatch"}
  BY <1>1 DEF GateInv, GateTypeOK, GateAt
<1>3. GateTypeOK'
  BY <1>1, <1>2 DEF GateInv, GateTypeOK, GateCmdType, GateAt, gateCacheVars, gatePromptVars
<1>4. GateStampsOK' /\ GateReplayOK'
  BY <1>1 DEF GateInv, GateStampsOK, GateReplayOK, gateCacheVars
<1>5. GateAnswersOK'
  BY <1>1 DEF GateInv, GateAnswersOK, GateAt, gatePromptVars
<1> QED
  BY <1>3, <1>4, <1>5 DEF GateInv

(* validate_command but for the replay table, and the dispatch. *)
LEMMA GateRunKeepsInv ==
  ASSUME GateInv, NEW c \in GateCommands,
         GateStamp(c) \/ GateFresh(c) \/ GateLookup(c) \/ GateStart(c) \/ GateFinish(c)
  PROVE  GateInv'
<1>1. gateClock \in 0..GateMaxClock /\ gateCmd[c] \in GateCmdType /\ gateCmd[c].now <= gateClock
  BY DEF GateInv, GateTypeOK, GateCmdType, GateStampsOK
<1>2. c \notin gateOpen \/ GateAt(c, "dispatch")
  BY DEF GateInv, GateTypeOK
<1>3. GateAnyNew \in GateCmdType /\ GateAnyNew.now <= gateClock
  BY <1>1, GateAnyNewOK
<1>4. \A place \in GatePlaces : /\ [gateCmd[c] EXCEPT !.at = place] \in GateCmdType
                                /\ [gateCmd[c] EXCEPT !.at = place].now <= gateClock
                                /\ [gateCmd[c] EXCEPT !.at = place].at = place
  BY GateRecordsOK
<1>5. CASE GateStamp(c)
  <2> DEFINE r == [gateCmd[c] EXCEPT !.at = "fresh", !.now = gateClock]
  <2>1. r \in GateCmdType /\ r.now <= gateClock
    <3>1. \A q \in GateCmdType : /\ [q EXCEPT !.now = gateClock] \in GateCmdType
                                 /\ [q EXCEPT !.now = gateClock].now = gateClock
      BY <1>1 DEF GateCmdType
    <3>2. [gateCmd[c] EXCEPT !.at = "fresh"] \in GateCmdType
      BY <1>4 DEF GatePlaces
    <3>3. gateClock <= gateClock
      BY <1>1
    <3> QED
      BY <3>1, <3>2, <3>3, Zenon
  <2>2. gateCmd' = [gateCmd EXCEPT ![c] = r]
    BY <1>5 DEF GateStamp
  <2> QED
    BY <1>5, <1>2, <2>1, <2>2, GateCommandMoves DEF GateStamp, GateAt
<1>6. CASE GateFresh(c)
  BY <1>6, <1>2, <1>3, <1>4, GateCommandMoves DEF GateFresh, GateDeny, GateEnds, GateGoes, GateAt,
     GatePlaces
<1>7. CASE GateLookup(c)
  BY <1>7, <1>2, <1>3, <1>4, GateCommandMoves DEF GateLookup, GateDeny, GateEnds, GateGoes, GateAt,
     GatePlaces
<1>8. CASE GateStart(c)
  BY <1>8, <1>4, GateCommandMoves DEF GateStart, GateGoes, GateAt, GatePlaces
<1>9. CASE GateFinish(c)
  BY <1>9, <1>3, GateCommandMoves DEF GateFinish, GateEnds, GateAt
<1> QED
  BY <1>5, <1>6, <1>7, <1>8, <1>9

(* A claim stamps what the table drops as old, or finds the token new. *)
LEMMA GateClaimTable ==
  ASSUME GateInv, NEW c \in GateCommands, GateClaim(c)
  PROVE  /\ gateValidated' \in [GateTokens -> -1..GateMaxClock]
         /\ gateAccepted' \in [GateTokens -> -1..GateMaxClock]
         /\ GateReplayOK'
<1> DEFINE t == gateCmd[c].token
           now == gateCmd[c].now
           kept == GateRetained(now)
<1>1. /\ t \in GateTokens /\ now \in 0..GateMaxClock /\ now <= gateClock
      /\ gateClock \in 0..GateMaxClock /\ GateTtl \in Nat /\ GateMaxClock \in Nat
  BY GateAssumption DEF GateInv, GateTypeOK, GateStampsOK
<1>2. /\ gateValidated \in [GateTokens -> -1..GateMaxClock]
      /\ gateAccepted \in [GateTokens -> -1..GateMaxClock]
      /\ gateClock' = gateClock
  BY DEF GateInv, GateTypeOK, GateClaim
<1>3. /\ kept \in [GateTokens -> -1..GateMaxClock]
      /\ \A u \in GateTokens :
           kept[u] = IF now - gateValidated[u] < GateTtl THEN gateValidated[u] ELSE -1
  BY <1>1, <1>2 DEF GateRetained
<1>4. \A u \in GateTokens :
        gateAccepted[u] # -1 => kept[u] = gateAccepted[u] \/ gateClock - gateAccepted[u] >= GateTtl
  BY <1>1, <1>2, <1>3 DEF GateInv, GateReplayOK
<1> HIDE DEF kept
<1>5. CASE kept[t] = -1
  <2>1. /\ gateValidated' = [kept EXCEPT ![t] = now]
        /\ gateAccepted' = [gateAccepted EXCEPT ![t] = now]
    BY <1>5 DEF GateClaim, kept
  <2>2. gateValidated' \in [GateTokens -> -1..GateMaxClock] /\ gateAccepted' \in [GateTokens -> -1..GateMaxClock]
    BY <2>1, <1>1, <1>2, <1>3
  <2>3. \A u \in GateTokens : /\ gateValidated'[u] = IF u = t THEN now ELSE kept[u]
                              /\ gateAccepted'[u] = IF u = t THEN now ELSE gateAccepted[u]
    BY <2>1, <1>1, <1>2, <1>3
  <2> QED
    BY <2>2, <2>3, <1>2, <1>4 DEF GateReplayOK
<1>6. CASE kept[t] # -1
  <2>1. gateValidated' = kept /\ gateAccepted' = gateAccepted
    BY <1>6 DEF GateClaim, kept
  <2> QED
    BY <2>1, <1>2, <1>3, <1>4 DEF GateReplayOK
<1> QED
  BY <1>5, <1>6

(* The replay table under its write lock. *)
LEMMA GateClaimKeepsInv ==
  ASSUME GateInv, NEW c \in GateCommands, GateClaim(c)
  PROVE  GateInv'
<1>1. PICK r \in GateCmdType : r.now <= gateClock /\ gateCmd' = [gateCmd EXCEPT ![c] = r]
  <2>1. GateAnyNew \in GateCmdType /\ GateAnyNew.now <= gateClock
    BY GateAnyNewOK DEF GateInv, GateTypeOK
  <2>2. \/ gateCmd' = [gateCmd EXCEPT ![c] = GateAnyNew]
        \/ gateCmd' = [gateCmd EXCEPT ![c] = [gateCmd[c] EXCEPT !.at = "start"]]
    BY DEF GateClaim, GateDeny, GateEnds, GateGoes
  <2>3. [gateCmd[c] EXCEPT !.at = "start"] \in GateCmdType /\ [gateCmd[c] EXCEPT !.at = "start"].now <= gateClock
    BY GateRecordsOK DEF GatePlaces
  <2> QED
    BY <2>1, <2>2, <2>3
<1>2. /\ gateCmd' \in [GateCommands -> GateCmdType]
      /\ \A e \in GateCommands : gateCmd'[e] = IF e = c THEN r ELSE gateCmd[e]
      /\ \A e \in GateCommands : gateCmd'[e].now <= gateClock
  BY <1>1, GateCmdMoves
<1>3. /\ GateAt(c, "claim")
      /\ UNCHANGED <<gateClock, gatePolicy, gateUpdated, gatePromptVars, gateOpen>>
  BY DEF GateClaim, GateDeny
<1>4. gateOpen' \subseteq {e \in GateCommands : gateCmd'[e].at = "dispatch"}
  BY <1>2, <1>3 DEF GateInv, GateTypeOK, GateAt
<1>5. GateTypeOK'
  BY <1>2, <1>3, <1>4, GateClaimTable DEF GateInv, GateTypeOK, GateCmdType, GateAt, gatePromptVars
<1>6. GateStampsOK' /\ GateReplayOK'
  BY <1>2, <1>3, GateClaimTable DEF GateStampsOK
<1>7. GateAnswersOK'
  BY <1>2, <1>3 DEF GateInv, GateAnswersOK, GateAt, gatePromptVars
<1> QED
  BY <1>5, <1>6, <1>7 DEF GateInv

(* Dropping a sender closes at most a channel. *)
LEMMA GateDropSenderCloses ==
  ASSUME GateInv, NEW i \in GateIds
  PROVE  /\ GateDropSender(i, gateAnswer) \in [GateCommands -> {"open", "closed", "yes", "no"}]
         /\ \A c \in GateCommands : GateDropSender(i, gateAnswer)[c] \in {gateAnswer[c], "closed"}
<1>1. /\ gateAnswer \in [GateCommands -> {"open", "closed", "yes", "no"}]
      /\ gatePending[i] # GateNobody => gatePending[i] \in GateCommands
  BY DEF GateInv, GateTypeOK
<1> QED
  BY <1>1 DEF GateDropSender

(* execute_command: what comes of the policy's requirement. *)
LEMMA GateExecuteKeepsInv ==
  ASSUME GateInv, NEW c \in GateCommands, NEW i \in GateIds, NEW t \in GateTokens, GateExecute(c, i, t)
  PROVE  GateInv'
<1>1. /\ gateApproved' = gateApproved \ {c} /\ GateAt(c, "idle") /\ gateAnswer[c] = "closed"
      /\ UNCHANGED <<gateClock, gateCacheVars, gateOpen>>
      /\ gateOpen \subseteq GateCommands \ {c}
  BY DEF GateExecute, GateIdleIn, GateAt, GateInv, GateTypeOK, GateAnswersOK
<1>2. CASE gatePolicy = "Confirm"
  <2> DEFINE r == [GateNew(i, t) EXCEPT !.at = "ask"]
  <2>1. r \in GateCmdType /\ r.now <= gateClock /\ r.at = "ask"
    BY GateRecordsOK DEF GatePlaces
  <2>2. /\ gateCmd' = [gateCmd EXCEPT ![c] = r]
        /\ gatePending' = [gatePending EXCEPT ![i] = c]
        /\ gateAnswer' = [GateDropSender(i, gateAnswer) EXCEPT ![c] = "open"]
    BY <1>2 DEF GateExecute
  <2> HIDE DEF r
  <2>3. /\ gateCmd' \in [GateCommands -> GateCmdType]
        /\ \A e \in GateCommands : gateCmd'[e] = IF e = c THEN r ELSE gateCmd[e]
        /\ \A e \in GateCommands : gateCmd'[e].now <= gateClock
    BY <2>1, <2>2, GateCmdMoves
  <2>4. /\ gateAnswer' \in [GateCommands -> {"open", "closed", "yes", "no"}]
        /\ gateAnswer'[c] = "open"
        /\ \A e \in GateCommands \ {c} : gateAnswer'[e] \in {gateAnswer[e], "closed"}
    BY <2>2, GateDropSenderCloses
  <2>5. gateOpen' \subseteq {e \in GateCommands : gateCmd'[e].at = "dispatch"}
    BY <1>1, <2>3 DEF GateInv, GateTypeOK, GateAt
  <2>6. GateTypeOK'
    BY <1>1, <2>2, <2>3, <2>4, <2>5 DEF GateInv, GateTypeOK, GateCmdType, GateAt, gateCacheVars
  <2>7. GateStampsOK' /\ GateReplayOK'
    BY <1>1, <2>3 DEF GateInv, GateStampsOK, GateReplayOK, gateCacheVars
  <2>8. GateAnswersOK'
    BY <1>1, <2>1, <2>3, <2>4 DEF GateInv, GateAnswersOK, GateAt
  <2> QED
    BY <2>6, <2>7, <2>8 DEF GateInv
<1>3. CASE gatePolicy = "Block"
  <2>1. UNCHANGED <<gateCmd, gatePending, gateAnswer>>
    BY <1>3 DEF GateExecute
  <2>2. GateTypeOK'
    BY <1>1, <2>1 DEF GateInv, GateTypeOK, GateAt, gateCacheVars
  <2>3. GateStampsOK' /\ GateReplayOK' /\ GateAnswersOK'
    BY <1>1, <2>1 DEF GateInv, GateStampsOK, GateReplayOK, GateAnswersOK, GateAt, gateCacheVars
  <2> QED
    BY <2>2, <2>3 DEF GateInv
<1>4. CASE gatePolicy \notin {"Confirm", "Block"}
  <2> DEFINE r == [GateNew(i, t) EXCEPT !.at = "stamp"]
  <2>1. r \in GateCmdType /\ r.now <= gateClock
    BY GateRecordsOK DEF GatePlaces
  <2>2. /\ gateCmd' = [gateCmd EXCEPT ![c] = r]
        /\ UNCHANGED <<gatePending, gateAnswer>>
    BY <1>4 DEF GateExecute
  <2> HIDE DEF r
  <2>3. /\ gateCmd' \in [GateCommands -> GateCmdType]
        /\ \A e \in GateCommands : gateCmd'[e] = IF e = c THEN r ELSE gateCmd[e]
        /\ \A e \in GateCommands : gateCmd'[e].now <= gateClock
    BY <2>1, <2>2, GateCmdMoves
  <2>4. gateOpen' \subseteq {e \in GateCommands : gateCmd'[e].at = "dispatch"}
    BY <1>1, <2>3 DEF GateInv, GateTypeOK, GateAt
  <2>5. GateTypeOK'
    BY <1>1, <2>2, <2>3, <2>4 DEF GateInv, GateTypeOK, GateCmdType, GateAt, gateCacheVars
  <2>6. GateStampsOK' /\ GateReplayOK'
    BY <1>1, <2>3 DEF GateInv, GateStampsOK, GateReplayOK, gateCacheVars
  <2>7. GateAnswersOK'
    BY <1>1, <2>2, <2>3 DEF GateInv, GateAnswersOK, GateAt
  <2> QED
    BY <2>5, <2>6, <2>7 DEF GateInv
<1> QED
  BY <1>2, <1>3, <1>4

(* submit_confirmation: an answer goes to an open channel only. *)
LEMMA GateSubmitKeepsInv ==
  ASSUME GateInv, NEW i \in GateIds, NEW c \in GateCommands, NEW approved \in BOOLEAN,
         GateSubmit(i, c, approved)
  PROVE  GateInv'
<1>1. /\ gatePending' = [gatePending EXCEPT ![i] = GateNobody]
      /\ gateAnswer' = GateSend(c, IF approved THEN "yes" ELSE "no")
      /\ gateApproved' = IF approved THEN gateApproved \cup {c} ELSE gateApproved
      /\ UNCHANGED <<gateClock, gateCacheVars, gateCmd, gateOpen>>
  BY DEF GateSubmit
<1>2. gateAnswer \in [GateCommands -> {"open", "closed", "yes", "no"}]
  BY DEF GateInv, GateTypeOK
<1>3. /\ gateAnswer' \in [GateCommands -> {"open", "closed", "yes", "no"}]
      /\ \A e \in GateCommands :
           gateAnswer'[e] # gateAnswer[e] =>
             gateAnswer[e] = "open" /\ e = c /\ (gateAnswer'[e] = "yes" => approved)
  BY <1>1, <1>2 DEF GateSend
<1>4. gateApproved' \subseteq GateCommands /\ gateApproved \subseteq gateApproved'
      /\ (approved => c \in gateApproved')
  BY <1>1 DEF GateInv, GateTypeOK
<1>5. GateTypeOK'
  BY <1>1, <1>3, <1>4 DEF GateInv, GateTypeOK, GateAt, gateCacheVars
<1>6. GateStampsOK' /\ GateReplayOK'
  BY <1>1 DEF GateInv, GateStampsOK, GateReplayOK, gateCacheVars
<1>7. GateAnswersOK'
  BY <1>1, <1>3, <1>4 DEF GateInv, GateAnswersOK, GateAt
<1> QED
  BY <1>5, <1>6, <1>7 DEF GateInv

(* A channel is closed as its command leaves the prompt. *)
LEMMA GatePromptEnds ==
  ASSUME GateInv, NEW c \in GateCommands, NEW r \in GateCmdType, r.now <= gateClock,
         gateCmd' = [gateCmd EXCEPT ![c] = r], GateAt(c, "ask") \/ GateAt(c, "unask"),
         gateAnswer' \in [GateCommands -> {"open", "closed", "yes", "no"}],
         gateAnswer'[c] = "closed",
         \A e \in GateCommands : gateAnswer'[e] \in {gateAnswer[e], "closed"},
         gatePending' \in [GateIds -> GateCommands \cup {GateNobody}],
         gateApproved \ {c} \subseteq gateApproved', gateApproved' \subseteq gateApproved,
         UNCHANGED <<gateClock, gateCacheVars, gateOpen>>
  PROVE  GateInv'
<1>1. /\ gateCmd' \in [GateCommands -> GateCmdType]
      /\ \A e \in GateCommands : gateCmd'[e] = IF e = c THEN r ELSE gateCmd[e]
      /\ \A e \in GateCommands : gateCmd'[e].now <= gateClock
  BY GateCmdMoves
<1>2. gateOpen' \subseteq {e \in GateCommands : gateCmd'[e].at = "dispatch"}
  BY <1>1 DEF GateInv, GateTypeOK, GateAt
<1>3. GateTypeOK'
  BY <1>1, <1>2 DEF GateInv, GateTypeOK, GateCmdType, GateAt, gateCacheVars
<1>4. GateStampsOK' /\ GateReplayOK'
  BY <1>1 DEF GateInv, GateStampsOK, GateReplayOK, gateCacheVars
<1>5. GateAnswersOK'
  BY <1>1 DEF GateInv, GateAnswersOK, GateAt
<1> QED
  BY <1>3, <1>4, <1>5 DEF GateInv

(* The answer, the timeout and the removal of the prompt. *)
LEMMA GatePromptKeepsInv ==
  ASSUME GateInv, NEW c \in GateCommands, GateAnswered(c) \/ GateAskFails(c) \/ GateUnask(c)
  PROVE  GateInv'
<1>1. GateAnyNew \in GateCmdType /\ GateAnyNew.now <= gateClock
  BY GateAnyNewOK DEF GateInv, GateTypeOK
<1>2. /\ [gateCmd[c] EXCEPT !.at = "stamp"] \in GateCmdType /\ [gateCmd[c] EXCEPT !.at = "stamp"].now <= gateClock
      /\ [gateCmd[c] EXCEPT !.at = "unask"] \in GateCmdType /\ [gateCmd[c] EXCEPT !.at = "unask"].now <= gateClock
  BY GateRecordsOK DEF GatePlaces
<1>3. /\ gateAnswer \in [GateCommands -> {"open", "closed", "yes", "no"}]
      /\ gatePending \in [GateIds -> GateCommands \cup {GateNobody}]
      /\ gateCmd[c].id \in GateIds
  BY DEF GateInv, GateTypeOK
<1>4. CASE GateAnswered(c) \/ GateAskFails(c)
  <2>1. PICK r \in GateCmdType : r.now <= gateClock /\ gateCmd' = [gateCmd EXCEPT ![c] = r]
    BY <1>1, <1>2, <1>4 DEF GateAnswered, GateAskFails, GateGoes, GateEnds
  <2>2. /\ gateAnswer' = [gateAnswer EXCEPT ![c] = "closed"] /\ GateAt(c, "ask")
        /\ UNCHANGED <<gateClock, gateCacheVars, gatePending, gateApproved, gateOpen>>
    BY <1>4 DEF GateAnswered, GateAskFails
  <2>3. /\ gateAnswer' \in [GateCommands -> {"open", "closed", "yes", "no"}]
        /\ gateAnswer'[c] = "closed"
        /\ \A e \in GateCommands : gateAnswer'[e] \in {gateAnswer[e], "closed"}
    BY <2>2, <1>3
  <2> QED
    BY <1>3, <2>1, <2>2, <2>3, GatePromptEnds
<1>5. CASE GateUnask(c)
  <2>1. /\ gateCmd' = [gateCmd EXCEPT ![c] = GateAnyNew] /\ GateAt(c, "unask")
        /\ gateAnswer' = GateDropSender(gateCmd[c].id, gateAnswer)
        /\ gatePending' = [gatePending EXCEPT ![gateCmd[c].id] = GateNobody]
        /\ gateApproved' = gateApproved \ {c}
        /\ UNCHANGED <<gateClock, gateCacheVars, gateOpen>>
    BY <1>5 DEF GateUnask, GateEnds
  <2>2. gateAnswer[c] = "closed"
    BY <2>1 DEF GateInv, GateAnswersOK, GateAt
  <2>3. /\ gateAnswer' \in [GateCommands -> {"open", "closed", "yes", "no"}]
        /\ gateAnswer'[c] = "closed"
        /\ \A e \in GateCommands : gateAnswer'[e] \in {gateAnswer[e], "closed"}
    BY <2>1, <2>2, <1>3, GateDropSenderCloses
  <2>4. gatePending' \in [GateIds -> GateCommands \cup {GateNobody}]
    BY <2>1, <1>3
  <2> QED
    BY <1>1, <2>1, <2>3, <2>4, GatePromptEnds
<1> QED
  BY <1>4, <1>5

(* Policies change and time passes. *)
LEMMA GatePolicyKeepsInv ==
  ASSUME GateInv, \/ \E p \in GateRequirements \cup {"none"} : GateUpdatePolicies(p)
                  \/ \E p \in GateRequirements : GateAddPolicy(p)
                  \/ GateRemovePolicy \/ GateTick
  PROVE  GateInv'
<1>1. UNCHANGED <<gatePromptVars, gateCmd, gateOpen>>
  BY DEF GateUpdatePolicies, GateAddPolicy, GateRemovePolicy, GateTick
<1>2. gateClock' \in 0..GateMaxClock /\ gateClock \in 0..GateMaxClock /\ gateClock <= gateClock'
  BY GateAssumption DEF GateInv, GateTypeOK, GateUpdatePolicies, GateAddPolicy, GateRemovePolicy,
     GateTick
<1>3. /\ gatePolicy' \in GateRequirements \cup {"none"} /\ gateUpdated' \in 0..GateMaxClock
      /\ gateValidated' \in [GateTokens -> -1..GateMaxClock]
      /\ gateAccepted' \in [GateTokens -> -1..GateMaxClock]
  BY <1>2, GateAssumption DEF GateInv, GateTypeOK, GateUpdatePolicies, GateAddPolicy,
     GateRemovePolicy, GateTick, gateCacheVars
<1>4. GateTypeOK'
  BY <1>1, <1>2, <1>3 DEF GateInv, GateTypeOK, GateAt, gatePromptVars
<1>5. GateAnswersOK'
  BY <1>1 DEF GateInv, GateAnswersOK, GateAt, gatePromptVars
<1>6. GateStampsOK'
  BY <1>1, <1>2 DEF GateInv, GateTypeOK, GateStampsOK
<1>7. GateReplayOK'
  <2>1. CASE \E p \in GateRequirements \cup {"none"} : GateUpdatePolicies(p)
    BY <2>1 DEF GateUpdatePolicies, GateReplayOK
  <2>2. CASE (\E p \in GateRequirements : GateAddPolicy(p)) \/ GateRemovePolicy \/ GateTick
    <3>1. UNCHANGED <<gateValidated, gateAccepted>>
      BY <2>2 DEF GateAddPolicy, GateRemovePolicy, GateTick, gateCacheVars
    <3> QED
      BY <3>1, <1>2, GateAssumption DEF GateInv, GateTypeOK, GateReplayOK
  <2> QED
    BY <2>1, <2>2
<1> QED
  BY <1>4, <1>5, <1>6, <1>7 DEF GateInv

(* Every step keeps the invariant. *)
LEMMA GateNextInv == GateInv /\ [GateNext]_gateVars => GateInv'
<1> SUFFICES ASSUME GateInv, [GateNext]_gateVars PROVE GateInv'
  OBVIOUS
<1>1. CASE UNCHANGED gateVars
  BY <1>1 DEF GateInv, GateTypeOK, GateStampsOK, GateAnswersOK, GateReplayOK, GateAt, gateVars
<1>2. ASSUME NEW c \in GateCommands, GateStep(c) PROVE GateInv'
  BY <1>2, GateExecuteKeepsInv, GatePromptKeepsInv, GateRunKeepsInv, GateClaimKeepsInv
     DEF GateStep
<1>3. ASSUME NEW i \in GateIds, NEW c \in GateCommands, NEW approved \in BOOLEAN,
             GateSubmit(i, c, approved)
      PROVE  GateInv'
  BY <1>3, GateSubmitKeepsInv
<1> QED
  BY <1>1, <1>2, <1>3, GatePolicyKeepsInv DEF GateNext

LEMMA GateInvariant == GateSpec => []GateInv
BY GateInitInv, GateNextInv, PTL DEF GateSpec

(* Every variable of the command path keeps its type. *)
THEOREM GateTypeCorrect == GateSpec => []GateTypeOK
<1>1. GateInv => GateTypeOK
  BY DEF GateInv
<1> QED
  BY <1>1, GateInvariant, PTL

(* A step of another command leaves a command where it is. *)
LEMMA GateOnlyOwnStepMoves ==
  ASSUME GateInv, GateNext, NEW c \in GateCommands, gateCmd'[c] # gateCmd[c]
  PROVE  GateStep(c)
<1>1. gateCmd \in [GateCommands -> GateCmdType]
  BY DEF GateInv, GateTypeOK, GateCmdType
<1>2. PICK e \in GateCommands : GateStep(e)
  BY DEF GateNext, GateSubmit, GateUpdatePolicies, GateAddPolicy, GateRemovePolicy, GateTick
<1>3. gateCmd' = gateCmd \/ \E r : gateCmd' = [gateCmd EXCEPT ![e] = r]
  BY <1>2 DEF GateStep, GateExecute, GateAnswered, GateAskFails, GateUnask, GateStamp, GateFresh,
     GateLookup, GateClaim, GateStart, GateFinish, GateGoes, GateEnds, GateDeny
<1>4. e = c
  BY <1>1, <1>3
<1> QED
  BY <1>2, <1>4

(* A token is accepted again only when its ttl has passed since it was     *)
(* last accepted: no interleaving of stalled validations, policy changes   *)
(* and purges opens an earlier replay (PolicyClient::validate_command).    *)
THEOREM TokensOncePerTtl == GateSpec => GateTokenOncePerTtl
<1> DEFINE Once ==
      \A c \in GateCommands, t \in GateTokens :
        gateCmd[c].token = t /\ GateAt(c, "claim") /\ gateCmd'[c].at = "start"
        /\ gateAccepted[t] # -1
          => gateClock - gateAccepted[t] >= GateTtl
<1>1. GateInv /\ [GateNext]_gateVars => [Once]_gateVars
  <2> SUFFICES ASSUME GateInv, GateNext, NEW c \in GateCommands, NEW t \in GateTokens,
                      gateCmd[c].token = t, GateAt(c, "claim"), gateCmd'[c].at = "start",
                      gateAccepted[t] # -1
               PROVE  gateClock - gateAccepted[t] >= GateTtl
    OBVIOUS
  <2>1. GateStep(c)
    BY GateOnlyOwnStepMoves DEF GateAt
  <2>2. GateClaim(c)
    BY <2>1 DEF GateStep, GateExecute, GateIdleIn, GateAnswered, GateAskFails, GateUnask, GateStamp,
       GateFresh, GateLookup, GateStart, GateFinish, GateAt
  <2>3. gateCmd \in [GateCommands -> GateCmdType]
    BY DEF GateInv, GateTypeOK, GateCmdType
  <2>4. GateRetained(gateCmd[c].now)[t] = -1
    <3> SUFFICES ASSUME GateRetained(gateCmd[c].now)[t] # -1 PROVE FALSE
      OBVIOUS
    <3>1. gateCmd' = [gateCmd EXCEPT ![c] = GateAnyNew]
      BY <2>2 DEF GateClaim, GateDeny, GateEnds
    <3> QED
      BY <3>1, <2>3, GateAnyNewOK
  <2>5. /\ gateCmd[c].now \in 0..GateMaxClock /\ gateCmd[c].now <= gateClock
        /\ gateClock \in 0..GateMaxClock
        /\ gateValidated[t] \in -1..GateMaxClock /\ gateAccepted[t] \in -1..GateMaxClock
        /\ \/ gateValidated[t] = gateAccepted[t]
           \/ gateClock - gateAccepted[t] >= GateTtl
    BY DEF GateInv, GateTypeOK, GateStampsOK, GateReplayOK
  <2> QED
    BY <2>4, <2>5, GateAssumption DEF GateRetained
<1> QED
  BY <1>1, GateInvariant, PTL DEF GateSpec, GateTokenOncePerTtl

(* A command that asks reaches the gate only by its own user's yes, though *)
(* commands share an id and its prompt is replaced, removed or late.       *)
THEOREM RunsOnlyIfApproved == GateSpec => GateRunsOnlyIfApproved
<1> DEFINE Approved ==
      \A c \in GateCommands :
        GateAt(c, "ask") /\ gateCmd'[c].at = "stamp" => c \in gateApproved
<1>1. GateInv /\ [GateNext]_gateVars => [Approved]_gateVars
  <2> SUFFICES ASSUME GateInv, GateNext, NEW c \in GateCommands, GateAt(c, "ask"),
                      gateCmd'[c].at = "stamp"
               PROVE  c \in gateApproved
    OBVIOUS
  <2>1. GateStep(c)
    BY GateOnlyOwnStepMoves DEF GateAt
  <2>2. GateAnswered(c) \/ GateAskFails(c)
    BY <2>1 DEF GateStep, GateExecute, GateIdleIn, GateUnask, GateStamp,
       GateFresh, GateLookup, GateClaim, GateStart, GateFinish, GateAt
  <2>3. gateCmd \in [GateCommands -> GateCmdType]
    BY DEF GateInv, GateTypeOK, GateCmdType
  <2>4. gateAnswer[c] = "yes"
    <3> SUFFICES ASSUME gateAnswer[c] # "yes" PROVE FALSE
      OBVIOUS
    <3>1. GateGoes(c, "unask") \/ gateCmd' = [gateCmd EXCEPT ![c] = GateAnyNew]
      BY <2>2 DEF GateAnswered, GateAskFails, GateEnds
    <3>2. GateGoes(c, "unask") => gateCmd'[c].at = "unask"
      BY <2>3 DEF GateGoes, GateCmdType
    <3> QED
      BY <3>1, <3>2, <2>3, GateAnyNewOK
  <2> QED
    BY <2>4 DEF GateInv, GateAnswersOK
<1> QED
  BY <1>1, GateInvariant, PTL DEF GateSpec, GateRunsOnlyIfApproved

-----------------------------------------------------------------------------
(***************************************************************************)
(* The tokens of the server session.                                       *)
(***************************************************************************)
TmCallType ==
  [at : {"idle", "login", "send", "store", "revoke", "clear"}, token : 0..TmMaxTokens,
   tries : 0..TmMaxRetries]

(* Every token the client holds was issued. *)
TmIssuedOK ==
  /\ tmCall \in [TmCallers -> TmCallType]
  /\ tmState <= tmIssued
  /\ \A c \in TmCallers : tmCall[c].token <= tmIssued

TmLeaving(c) == TmAt(c, "revoke") \/ TmAt(c, "clear")

(* While no logout has met another call, a logout is alone. *)
TmLogoutAlone ==
  ~tmRaced => \A c, e \in TmCallers : TmLeaving(c) /\ e # c => TmAt(e, "idle")

(* What a caller is about to store is accepted by the server, and where a  *)
(* refresh replaces the token, nobody else holds it.                       *)
TmStoresOK ==
  ~tmRaced => \A c \in TmCallers : TmAt(c, "store") =>
    /\ tmCall[c].token \in tmValid
    /\ tmRotates => /\ tmCall[c].token # tmState
                    /\ \A e \in TmCallers \ {c} :
                         ~TmAt(e, "idle") => tmCall[e].token # tmCall[c].token

(* A stored token the server no longer accepts is about to be overwritten  *)
(* or cleared.                                                             *)
TmStateOK ==
  ~tmLost /\ ~tmRaced /\ tmState # 0 =>
    tmState \in tmValid \/ \E c \in TmCallers : TmAt(c, "store") \/ TmLeaving(c)

TmInv == TmTypeOK /\ TmIssuedOK /\ TmLogoutAlone /\ TmStoresOK /\ TmStateOK

(* The states the token manager starts in. *)
LEMMA TmInitInv == TmInit => TmInv
<1> SUFFICES ASSUME TmInit PROVE TmInv
  OBVIOUS
<1>1. TmIdle \in TmCallType /\ TmIdle.at = "idle" /\ TmIdle.token = 0 /\ TmIdle.tries = 0
  BY TmAssumption DEF TmIdle, TmCallType
<1>2. \A c \in TmCallers : tmCall[c] = TmIdle
  BY DEF TmInit
<1>3. TmTypeOK
  <2>1. /\ tmRotates \in BOOLEAN /\ tmLost \in BOOLEAN /\ tmRaced \in BOOLEAN
        /\ tmExpires \in BOOLEAN
    BY DEF TmInit
  <2>2. tmState \in 0..TmMaxTokens /\ tmIssued \in 0..TmMaxTokens
    BY TmAssumption DEF TmInit
  <2>3. tmValid \subseteq 1..tmIssued
    BY DEF TmInit
  <2>4. \A c \in TmCallers :
          /\ tmCall[c].at \in {"idle", "login", "send", "store", "revoke", "clear"}
          /\ tmCall[c].token \in 0..TmMaxTokens /\ tmCall[c].tries \in 0..TmMaxRetries
    BY <1>1, <1>2 DEF TmCallType
  <2> QED
    BY <2>1, <2>2, <2>3, <2>4 DEF TmTypeOK
<1>4. TmIssuedOK
  BY <1>1, <1>2 DEF TmInit, TmIssuedOK
<1>5. TmLogoutAlone /\ TmStoresOK /\ TmStateOK
  BY <1>1, <1>2 DEF TmInit, TmLogoutAlone, TmLeaving, TmStoresOK, TmStateOK, TmAt
<1> QED
  BY <1>3, <1>4, <1>5 DEF TmInv

(* One caller moves to another call, the others stay. *)
LEMMA TmCallMoves ==
  ASSUME TmInv, NEW c \in TmCallers, NEW r \in TmCallType, TmGoes(c, r)
  PROVE  /\ tmCall' \in [TmCallers -> TmCallType]
         /\ \A e \in TmCallers : tmCall'[e] = IF e = c THEN r ELSE tmCall[e]
         /\ \A e \in TmCallers :
              /\ tmCall'[e].at \in {"idle", "login", "send", "store", "revoke", "clear"}
              /\ tmCall'[e].token \in 0..TmMaxTokens /\ tmCall'[e].tries \in 0..TmMaxRetries
<1>1. tmCall \in [TmCallers -> TmCallType]
  BY DEF TmInv, TmIssuedOK
<1>2. tmCall' \in [TmCallers -> TmCallType]
  BY <1>1 DEF TmGoes
<1>3. \A e \in TmCallers : tmCall'[e] = IF e = c THEN r ELSE tmCall[e]
  BY <1>1 DEF TmGoes
<1> QED
  BY <1>2, <1>3 DEF TmCallType

(* A call begins: a logout beside another call is a race. *)
LEMMA TmBeginKeepsInv ==
  ASSUME TmInv, NEW c \in TmCallers, NEW r \in TmCallType, TmBegins(c, r),
         r.at \in {"login", "send", "revoke", "clear"}, r.token \in {0, tmState},
         UNCHANGED <<tmState, tmExpires, tmValid, tmIssued, tmRotates, tmLost>>
  PROVE  TmInv'
<1>1. /\ tmCall' \in [TmCallers -> TmCallType]
      /\ \A e \in TmCallers : tmCall'[e] = IF e = c THEN r ELSE tmCall[e]
      /\ \A e \in TmCallers :
           /\ tmCall'[e].at \in {"idle", "login", "send", "store", "revoke", "clear"}
           /\ tmCall'[e].token \in 0..TmMaxTokens /\ tmCall'[e].tries \in 0..TmMaxRetries
  BY TmCallMoves DEF TmBegins
<1>2. /\ tmRaced' \in BOOLEAN
      /\ ~tmRaced' => /\ ~tmRaced
                      /\ \A e \in TmCallers : ~TmLeaving(e)
                      /\ r.at \in {"revoke", "clear"} => \A e \in TmCallers \ {c} : TmAt(e, "idle")
  BY DEF TmBegins, TmLoggingOut, TmLeaving, TmOthers, TmInv, TmTypeOK
<1>3. TmTypeOK'
  BY <1>1, <1>2 DEF TmInv, TmTypeOK
<1>4. TmIssuedOK'
  BY <1>1, TmAssumption DEF TmInv, TmTypeOK, TmIssuedOK
<1>5. TmLogoutAlone'
  BY <1>1, <1>2 DEF TmInv, TmLogoutAlone, TmLeaving, TmAt
<1>6. TmStoresOK'
  <2> SUFFICES ASSUME ~tmRaced', NEW e \in TmCallers, TmAt(e, "store")'
               PROVE  /\ tmCall'[e].token \in tmValid'
                      /\ tmRotates' => /\ tmCall'[e].token # tmState'
                                       /\ \A d \in TmCallers \ {e} :
                                            ~TmAt(d, "idle")' => tmCall'[d].token # tmCall'[e].token
    BY DEF TmStoresOK
  <2>1. e # c /\ tmCall'[e] = tmCall[e] /\ TmAt(e, "store")
    BY <1>1 DEF TmAt
  <2>2. /\ tmCall[e].token \in tmValid
        /\ tmRotates => /\ tmCall[e].token # tmState
                        /\ \A d \in TmCallers \ {e} :
                             ~TmAt(d, "idle") => tmCall[d].token # tmCall[e].token
    BY <1>2, <2>1 DEF TmInv, TmStoresOK
  <2>3. tmCall[e].token # 0
    BY <2>2 DEF TmInv, TmTypeOK
  <2> QED
    BY <1>1, <2>1, <2>2, <2>3 DEF TmAt
<1>7. TmStateOK'
  <2> SUFFICES ASSUME ~tmLost', ~tmRaced', tmState' # 0, tmState' \notin tmValid'
               PROVE  \E e \in TmCallers : (TmAt(e, "store") \/ TmLeaving(e))'
    BY DEF TmStateOK
  <2>1. PICK e \in TmCallers : TmAt(e, "store") \/ TmLeaving(e)
    BY <1>2 DEF TmInv, TmStateOK
  <2>2. e # c
    BY <1>2, <2>1 DEF TmBegins, TmAt, TmLeaving
  <2> QED
    BY <1>1, <2>1, <2>2 DEF TmAt, TmLeaving
<1> QED
  BY <1>3, <1>4, <1>5, <1>6, <1>7 DEF TmInv

(* A caller goes back to idle, or tries again, and nothing else changes    *)
(* but an answer that was lost; a caller about to store does not.          *)
LEMMA TmReturnKeepsInv ==
  ASSUME TmInv, NEW c \in TmCallers, NEW r \in TmCallType, TmGoes(c, r),
         TmAt(c, "login") \/ TmAt(c, "send"),
         r = TmIdle \/ (r.at = tmCall[c].at /\ r.token = tmCall[c].token),
         UNCHANGED <<tmState, tmExpires, tmValid, tmIssued, tmRotates, tmRaced, tmLost>>
  PROVE  TmInv'
<1>1. /\ tmCall' \in [TmCallers -> TmCallType]
      /\ \A e \in TmCallers : tmCall'[e] = IF e = c THEN r ELSE tmCall[e]
      /\ \A e \in TmCallers :
           /\ tmCall'[e].at \in {"idle", "login", "send", "store", "revoke", "clear"}
           /\ tmCall'[e].token \in 0..TmMaxTokens /\ tmCall'[e].tries \in 0..TmMaxRetries
  BY TmCallMoves
<1>2. TmIdle.at = "idle" /\ TmIdle.token = 0
  BY DEF TmIdle
<1>3. TmTypeOK'
  BY <1>1 DEF TmInv, TmTypeOK
<1>4. TmIssuedOK'
  BY <1>1, <1>2, TmAssumption DEF TmInv, TmTypeOK, TmIssuedOK
<1>5. TmLogoutAlone'
  BY <1>1, <1>2 DEF TmInv, TmLogoutAlone, TmLeaving, TmAt
<1>6. TmStoresOK'
  BY <1>1, <1>2 DEF TmInv, TmStoresOK, TmAt
<1>7. TmStateOK'
  BY <1>1, <1>2 DEF TmInv, TmStateOK, TmLeaving, TmAt
<1> QED
  BY <1>3, <1>4, <1>5, <1>6, <1>7 DEF TmInv

(* The server issues a token, in place of the one that was sent or not;    *)
(* the caller stores it, or the answer is lost.                            *)
LEMMA TmIssueKeepsInv ==
  ASSUME TmInv, NEW c \in TmCallers, NEW r \in TmCallType, TmGoes(c, r), tmIssued < TmMaxTokens,
         tmIssued' = tmIssued + 1,
         \/ TmAt(c, "login") /\ tmValid' = tmValid \cup {tmIssued'}
         \/ /\ TmAt(c, "send") /\ tmRotates
            /\ tmValid' = (tmValid \ {tmCall[c].token}) \cup {tmIssued'},
         \/ r.at = "store" /\ r.token = tmIssued' /\ tmLost' = tmLost
         \/ /\ r = TmIdle \/ (r.at = "send" /\ r.token = tmCall[c].token /\ TmAt(c, "send"))
            /\ (TmAt(c, "login") /\ tmLost' = tmLost) \/ tmLost' = TRUE,
         UNCHANGED <<tmState, tmExpires, tmRotates, tmRaced>>
  PROVE  TmInv'
<1>1. /\ tmCall' \in [TmCallers -> TmCallType]
      /\ \A e \in TmCallers : tmCall'[e] = IF e = c THEN r ELSE tmCall[e]
      /\ \A e \in TmCallers :
           /\ tmCall'[e].at \in {"idle", "login", "send", "store", "revoke", "clear"}
           /\ tmCall'[e].token \in 0..TmMaxTokens /\ tmCall'[e].tries \in 0..TmMaxRetries
  BY TmCallMoves
<1>2. TmIdle.at = "idle" /\ TmIdle.token = 0
  BY DEF TmIdle
<1>3. /\ tmIssued \in 0..TmMaxTokens /\ tmIssued' \in 1..TmMaxTokens /\ tmState \in 0..TmMaxTokens
      /\ tmState < tmIssued' /\ tmValid \subseteq 1..tmIssued
      /\ \A e \in TmCallers : tmCall[e].token \in 0..TmMaxTokens /\ tmCall[e].token < tmIssued'
  BY TmAssumption DEF TmInv, TmTypeOK, TmIssuedOK
<1>4. TmTypeOK'
  <2>1. tmValid' \subseteq 1..tmIssued'
    <3>1. \A v \in tmValid' : v \in tmValid \/ v = tmIssued'
      OBVIOUS
    <3>2. \A v \in 1..tmIssued : v \in 1..tmIssued'
      BY <1>3
    <3>3. tmIssued' \in 1..tmIssued' /\ tmValid \subseteq 1..tmIssued
      BY <1>3
    <3> QED
      BY <3>1, <3>2, <3>3, Zenon
  <2>2. tmLost' \in BOOLEAN
    BY DEF TmInv, TmTypeOK
  <2> QED
    BY <1>1, <1>3, <2>1, <2>2 DEF TmInv, TmTypeOK
<1>5. TmIssuedOK'
  BY <1>1, <1>2, <1>3 DEF TmIssuedOK
<1>6. TmLogoutAlone'
  BY <1>1, <1>2 DEF TmInv, TmLogoutAlone, TmLeaving, TmAt
<1>7. TmStoresOK'
  <2> SUFFICES ASSUME ~tmRaced', NEW e \in TmCallers, TmAt(e, "store")'
               PROVE  /\ tmCall'[e].token \in tmValid'
                      /\ tmRotates' => /\ tmCall'[e].token # tmState'
                                       /\ \A d \in TmCallers \ {e} :
                                            ~TmAt(d, "idle")' => tmCall'[d].token # tmCall'[e].token
    BY DEF TmStoresOK
  <2>1. CASE e = c
    BY <1>1, <1>2, <1>3, <2>1 DEF TmAt
  <2>2. CASE e # c
    <3>1. tmCall'[e] = tmCall[e] /\ TmAt(e, "store")
      BY <1>1, <2>2 DEF TmAt
    <3>2. /\ tmCall[e].token \in tmValid
          /\ tmRotates => /\ tmCall[e].token # tmState
                          /\ \A d \in TmCallers \ {e} :
                               ~TmAt(d, "idle") => tmCall[d].token # tmCall[e].token
      BY <3>1 DEF TmInv, TmStoresOK
    <3>3. tmCall[e].token \in tmValid'
      BY <2>2, <3>2 DEF TmAt
    <3> QED
      BY <1>1, <1>2, <1>3, <2>2, <3>1, <3>2, <3>3 DEF TmAt
  <2> QED
    BY <2>1, <2>2
<1>8. TmStateOK'
  BY <1>1, <1>2, <1>3 DEF TmInv, TmStateOK, TmLeaving, TmAt
<1> QED
  BY <1>4, <1>5, <1>6, <1>7, <1>8 DEF TmInv

(* A call of login, refresh or logout begins. *)
LEMMA TmBeginningsKeepInv ==
  ASSUME TmInv, NEW c \in TmCallers, TmLogin(c) \/ TmRefresh(c) \/ TmLogout(c)
  PROVE  TmInv'
<1>1. tmState \in 0..TmMaxTokens /\ 0 \in 0..TmMaxTokens /\ 0 \in 0..TmMaxRetries
  BY TmAssumption DEF TmInv, TmTypeOK
<1>2. CASE TmLogin(c)
  <2> DEFINE r == [TmIdle EXCEPT !.at = "login"]
  <2>1. r \in TmCallType /\ r.at = "login" /\ r.token = 0
    BY <1>1 DEF TmIdle, TmCallType
  <2> QED
    BY <1>2, <2>1, TmBeginKeepsInv DEF TmLogin
<1>3. CASE TmRefresh(c)
  <2> DEFINE r == [at |-> "send", token |-> tmState, tries |-> 0]
  <2>1. r \in TmCallType /\ r.at = "send" /\ r.token = tmState
    BY <1>1 DEF TmCallType
  <2> QED
    BY <1>3, <2>1, TmBeginKeepsInv DEF TmRefresh
<1>4. CASE TmLogout(c)
  <2> DEFINE place == IF tmState # 0 /\ ~tmExpires THEN "revoke" ELSE "clear"
             r == [at |-> place, token |-> tmState, tries |-> 0]
  <2>1. place \in {"revoke", "clear"}
    OBVIOUS
  <2> HIDE DEF place
  <2>2. r \in TmCallType /\ r.at \in {"revoke", "clear"} /\ r.token = tmState
    BY <1>1, <2>1 DEF TmCallType
  <2>3. TmBegins(c, r) /\ UNCHANGED <<tmState, tmExpires, tmValid, tmIssued, tmRotates, tmLost>>
    BY <1>4 DEF TmLogout, place
  <2> QED
    BY <2>2, <2>3, TmBeginKeepsInv
<1> QED
  BY <1>2, <1>3, <1>4

(* The server answers a login or a refresh, or does not. *)
LEMMA TmAnswersKeepInv ==
  ASSUME TmInv, NEW c \in TmCallers, TmLoggedIn(c) \/ TmAnswered(c) \/ TmNotAnswered(c)
  PROVE  TmInv'
<1>1. /\ tmCall[c] \in TmCallType /\ tmIssued \in 0..TmMaxTokens /\ 0 \in 0..TmMaxRetries
      /\ TmMaxTokens \in Nat /\ TmMaxRetries \in Nat
  BY TmAssumption DEF TmInv, TmTypeOK, TmIssuedOK
<1>2. TmIdle \in TmCallType
  BY TmAssumption DEF TmIdle, TmCallType
<1>3. ASSUME tmIssued < TmMaxTokens
      PROVE  [at |-> "store", token |-> tmIssued + 1, tries |-> 0] \in TmCallType
  BY <1>1, <1>3 DEF TmCallType
<1>4. tmCall[c].tries < TmMaxRetries =>
        /\ [tmCall[c] EXCEPT !.tries = @ + 1] \in TmCallType
        /\ [tmCall[c] EXCEPT !.tries = @ + 1].at = tmCall[c].at
        /\ [tmCall[c] EXCEPT !.tries = @ + 1].token = tmCall[c].token
  BY <1>1 DEF TmCallType
<1>5. TmRetries(c) => \E r \in TmCallType : TmGoes(c, r) /\ (r = TmIdle \/ (r.at = tmCall[c].at /\ r.token = tmCall[c].token))
  BY <1>2, <1>4 DEF TmRetries
<1>6. CASE TmLoggedIn(c)
  <2>1. CASE TmGoes(c, TmIdle) /\ UNCHANGED <<tmValid, tmIssued>>
    BY <1>2, <1>6, <2>1, TmReturnKeepsInv DEF TmLoggedIn
  <2>2. CASE /\ tmIssued < TmMaxTokens /\ tmIssued' = tmIssued + 1
             /\ tmValid' = tmValid \cup {tmIssued'}
             /\ TmGoes(c, [at |-> "store", token |-> tmIssued', tries |-> 0]) \/ TmGoes(c, TmIdle)
    BY <1>2, <1>3, <1>6, <2>2, TmIssueKeepsInv DEF TmLoggedIn
  <2> QED
    BY <1>6, <2>1, <2>2 DEF TmLoggedIn
<1>7. CASE TmAnswered(c)
  <2>1. CASE /\ tmRotates /\ tmIssued < TmMaxTokens /\ tmIssued' = tmIssued + 1
             /\ tmValid' = (tmValid \ {tmCall[c].token}) \cup {tmIssued'}
             /\ TmGoes(c, [at |-> "store", token |-> TmStored(tmCall[c].token, tmIssued'), tries |-> 0])
             /\ UNCHANGED tmLost
    <3>1. TmStored(tmCall[c].token, tmIssued') = tmIssued + 1
      BY <1>1, <2>1 DEF TmStored
    <3> QED
      BY <1>3, <1>7, <2>1, <3>1, TmIssueKeepsInv DEF TmAnswered
  <2>2. CASE /\ tmRotates /\ tmIssued < TmMaxTokens /\ tmIssued' = tmIssued + 1
             /\ tmValid' = (tmValid \ {tmCall[c].token}) \cup {tmIssued'}
             /\ TmRetries(c) \/ TmGoes(c, TmIdle)
             /\ tmLost' = TRUE
    <3>1. PICK r \in TmCallType : TmGoes(c, r) /\ (r = TmIdle \/ (r.at = tmCall[c].at /\ r.token = tmCall[c].token))
      BY <1>2, <1>5, <2>2
    <3> QED
      BY <1>7, <2>2, <3>1, TmIssueKeepsInv DEF TmAnswered, TmAt
  <2>3. CASE /\ ~tmRotates
             /\ TmGoes(c, [at |-> "store", token |-> TmStored(tmCall[c].token, 0), tries |-> 0])
             /\ UNCHANGED <<tmValid, tmIssued, tmLost>>
    <3> DEFINE r == [at |-> "store", token |-> tmCall[c].token, tries |-> 0]
    <3>1. r \in TmCallType /\ r.at = "store" /\ r.token = tmCall[c].token
      BY <1>1 DEF TmCallType
    <3>2. TmGoes(c, r)
      BY <2>3 DEF TmStored
    <3>3. /\ TmAt(c, "send") /\ tmCall[c].token \in tmValid
          /\ UNCHANGED <<tmState, tmExpires, tmValid, tmIssued, tmRotates, tmLost, tmRaced>>
      BY <1>7, <2>3 DEF TmAnswered
    <3> HIDE DEF r
    <3>4. /\ tmCall' \in [TmCallers -> TmCallType]
          /\ \A e \in TmCallers : tmCall'[e] = IF e = c THEN r ELSE tmCall[e]
          /\ \A e \in TmCallers :
               /\ tmCall'[e].at \in {"idle", "login", "send", "store", "revoke", "clear"}
               /\ tmCall'[e].token \in 0..TmMaxTokens /\ tmCall'[e].tries \in 0..TmMaxRetries
      BY <3>1, <3>2, TmCallMoves
    <3>5. TmTypeOK'
      BY <3>3, <3>4 DEF TmInv, TmTypeOK
    <3>6. TmIssuedOK'
      BY <3>1, <3>3, <3>4 DEF TmInv, TmIssuedOK
    <3>7. TmLogoutAlone' /\ TmStateOK'
      BY <3>1, <3>3, <3>4 DEF TmInv, TmLogoutAlone, TmStateOK, TmLeaving, TmAt
    <3>8. TmStoresOK'
      BY <2>3, <3>1, <3>3, <3>4 DEF TmInv, TmStoresOK, TmAt
    <3> QED
      BY <3>5, <3>6, <3>7, <3>8 DEF TmInv
  <2> QED
    BY <1>7, <2>1, <2>2, <2>3 DEF TmAnswered
<1>8. CASE TmNotAnswered(c)
  <2>1. PICK r \in TmCallType : TmGoes(c, r) /\ (r = TmIdle \/ (r.at = tmCall[c].at /\ r.token = tmCall[c].token))
    BY <1>2, <1>5, <1>8 DEF TmNotAnswered
  <2> QED
    BY <1>8, <2>1, TmReturnKeepsInv DEF TmNotAnswered
<1> QED
  BY <1>6, <1>7, <1>8

(* The answer is stored: the state is a token the server accepts. *)
LEMMA TmStoreKeepsInv ==
  ASSUME TmInv, NEW c \in TmCallers, TmStore(c)
  PROVE  TmInv'
<1>1. TmIdle \in TmCallType /\ TmIdle.at = "idle" /\ TmIdle.token = 0
  BY TmAssumption DEF TmIdle, TmCallType
<1>2. /\ tmState' = tmCall[c].token /\ tmExpires' = FALSE /\ TmAt(c, "store")
      /\ TmGoes(c, TmIdle)
      /\ UNCHANGED <<tmValid, tmIssued, tmRotates, tmLost, tmRaced>>
  BY DEF TmStore
<1>3. /\ tmCall' \in [TmCallers -> TmCallType]
      /\ \A e \in TmCallers : tmCall'[e] = IF e = c THEN TmIdle ELSE tmCall[e]
      /\ \A e \in TmCallers :
           /\ tmCall'[e].at \in {"idle", "login", "send", "store", "revoke", "clear"}
           /\ tmCall'[e].token \in 0..TmMaxTokens /\ tmCall'[e].tries \in 0..TmMaxRetries
  BY <1>1, <1>2, TmCallMoves
<1>4. TmTypeOK'
  <2>1. tmState' \in 0..TmMaxTokens /\ tmExpires' \in BOOLEAN
    BY <1>2 DEF TmInv, TmTypeOK
  <2> QED
    BY <1>2, <1>3, <2>1 DEF TmInv, TmTypeOK
<1>5. TmIssuedOK'
  BY <1>1, <1>2, <1>3, TmAssumption DEF TmInv, TmTypeOK, TmIssuedOK
<1>6. TmLogoutAlone'
  BY <1>1, <1>2, <1>3 DEF TmInv, TmLogoutAlone, TmLeaving, TmAt
<1>7. TmStoresOK'
  BY <1>1, <1>2, <1>3 DEF TmInv, TmStoresOK, TmAt
<1>8. TmStateOK'
  BY <1>2 DEF TmInv, TmStateOK, TmStoresOK
<1> QED
  BY <1>4, <1>5, <1>6, <1>7, <1>8 DEF TmInv

(* A logout that is alone revokes and clears the stored token. *)
LEMMA TmLogoutKeepsInv ==
  ASSUME TmInv, NEW c \in TmCallers, TmRevoke(c) \/ TmClear(c)
  PROVE  TmInv'
<1>1. CASE TmRevoke(c)
  <2> DEFINE r == [tmCall[c] EXCEPT !.at = "clear"]
  <2>1. tmCall[c] \in TmCallType
    BY DEF TmInv, TmIssuedOK
  <2>2. r \in TmCallType /\ r.at = "clear" /\ r.token = tmCall[c].token
    BY <2>1 DEF TmCallType
  <2>3. /\ TmAt(c, "revoke") /\ TmGoes(c, r) /\ tmValid' \subseteq tmValid
        /\ UNCHANGED <<tmState, tmExpires, tmIssued, tmRotates, tmLost, tmRaced>>
    BY <1>1 DEF TmRevoke
  <2> HIDE DEF r
  <2>4. /\ tmCall' \in [TmCallers -> TmCallType]
        /\ \A e \in TmCallers : tmCall'[e] = IF e = c THEN r ELSE tmCall[e]
        /\ \A e \in TmCallers :
             /\ tmCall'[e].at \in {"idle", "login", "send", "store", "revoke", "clear"}
             /\ tmCall'[e].token \in 0..TmMaxTokens /\ tmCall'[e].tries \in 0..TmMaxRetries
    BY <2>2, <2>3, TmCallMoves
  <2>5. TmTypeOK'
    BY <2>3, <2>4 DEF TmInv, TmTypeOK
  <2>6. TmIssuedOK'
    BY <2>2, <2>3, <2>4 DEF TmInv, TmIssuedOK
  <2>7. TmLogoutAlone' /\ TmStateOK'
    BY <2>2, <2>3, <2>4 DEF TmInv, TmLogoutAlone, TmStateOK, TmLeaving, TmAt
  <2>8. TmStoresOK'
    BY <2>2, <2>3, <2>4 DEF TmInv, TmLogoutAlone, TmLeaving, TmStoresOK, TmAt
  <2> QED
    BY <2>5, <2>6, <2>7, <2>8 DEF TmInv
<1>2. CASE TmClear(c)
  <2>1. TmIdle \in TmCallType /\ TmIdle.at = "idle" /\ TmIdle.token = 0
    BY TmAssumption DEF TmIdle, TmCallType
  <2>2. /\ tmState' = 0 /\ tmExpires' = FALSE /\ TmAt(c, "clear") /\ TmGoes(c, TmIdle)
        /\ UNCHANGED <<tmValid, tmIssued, tmRotates, tmLost, tmRaced>>
    BY <1>2 DEF TmClear
  <2>3. /\ tmCall' \in [TmCallers -> TmCallType]
        /\ \A e \in TmCallers : tmCall'[e] = IF e = c THEN TmIdle ELSE tmCall[e]
        /\ \A e \in TmCallers :
             /\ tmCall'[e].at \in {"idle", "login", "send", "store", "revoke", "clear"}
             /\ tmCall'[e].token \in 0..TmMaxTokens /\ tmCall'[e].tries \in 0..TmMaxRetries
    BY <2>1, <2>2, TmCallMoves
  <2>4. TmTypeOK'
    <3>1. tmState' \in 0..TmMaxTokens
      BY <2>2, TmAssumption
    <3>2. tmExpires' \in BOOLEAN
      BY <2>2
    <3> QED
      BY <2>2, <2>3, <3>1, <3>2 DEF TmInv, TmTypeOK
  <2>5. TmIssuedOK'
    BY <2>1, <2>2, <2>3, TmAssumption DEF TmInv, TmTypeOK, TmIssuedOK
  <2>6. TmLogoutAlone' /\ TmStateOK'
    BY <2>1, <2>2, <2>3 DEF TmInv, TmLogoutAlone, TmStateOK, TmLeaving, TmAt
  <2>7. TmStoresOK'
    BY <2>1, <2>2, <2>3 DEF TmInv, TmLogoutAlone, TmLeaving, TmStoresOK, TmAt
  <2> QED
    BY <2>4, <2>5, <2>6, <2>7 DEF TmInv
<1> QED
  BY <1>1, <1>2

(* Every step keeps the invariant. *)
LEMMA TmNextInv == TmInv /\ [TmNext]_tmVars => TmInv'
<1> SUFFICES ASSUME TmInv, [TmNext]_tmVars PROVE TmInv'
  OBVIOUS
<1>1. CASE UNCHANGED tmVars \/ TmExpire
  <2>1. /\ UNCHANGED <<tmState, tmCall, tmValid, tmIssued, tmRotates, tmLost, tmRaced>>
        /\ tmExpires' = tmExpires \/ tmExpires' = TRUE
    BY <1>1 DEF tmVars, TmExpire
  <2>2. TmTypeOK'
    BY <2>1 DEF TmInv, TmTypeOK
  <2> QED
    BY <2>1, <2>2 DEF TmInv, TmIssuedOK, TmLogoutAlone, TmLeaving, TmStoresOK, TmStateOK, TmAt
<1>2. ASSUME NEW c \in TmCallers,
             \/ TmLogin(c) \/ TmLoggedIn(c) \/ TmRefresh(c) \/ TmAnswered(c) \/ TmNotAnswered(c)
             \/ TmStore(c) \/ TmLogout(c) \/ TmRevoke(c) \/ TmClear(c)
      PROVE  TmInv'
  BY <1>2, TmBeginningsKeepInv, TmAnswersKeepInv, TmStoreKeepsInv, TmLogoutKeepsInv
<1> QED
  BY <1>1, <1>2 DEF TmNext

LEMMA TmInvariant == TmSpec => []TmInv
BY TmInitInv, TmNextInv, PTL DEF TmSpec

(* Every variable of the token manager keeps its type. *)
THEOREM TmTypeCorrect == TmSpec => []TmTypeOK
<1>1. TmInv => TmTypeOK
  BY DEF TmInv
<1> QED
  BY <1>1, TmInvariant, PTL

(* However many logins and refreshes overlap, the stored session can be    *)
(* renewed once they are done (TokenManager, auth.rs).                     *)
THEOREM SessionRenewable == TmSpec => []TmRenewable
<1>1. TmInv => TmRenewable
  BY DEF TmInv, TmRenewable, TmStateOK, TmLeaving, TmAt
<1> QED
  BY <1>1, TmInvariant, PTL

-----------------------------------------------------------------------------
(***************************************************************************)
(* The AI sessions.                                                        *)
(***************************************************************************)
AsSessionType ==
  [state : {"absent", "Active", "Idle", "Failed"}, retries : 0..AsMaxRetries, tokens : Nat]
AsCallType ==
  [at : {"idle", "admit", "get", "touch", "stream", "rest"}, via : {"app", "web"},
   id : AsIds \cup {AsNobody}]

(* The desktop's messages that passed the budget and are not charged yet. *)
AsUnpaid == {c \in AsCallers : asCall[c].via = "app" /\ asCall[c].at \in {"get", "touch", "stream"}}

(* What is spent and what the messages under way may still spend. *)
AsBudgetOK ==
  /\ IsFiniteSet(AsTokensOf(asSession))
  /\ AsBudget > 0 => AsSpent + Cardinality(AsUnpaid) * AsUsage
                        < AsBudget + Cardinality(AsCallers) * AsUsage

AsInv == AsTypeOK /\ AsBudgetOK

(* A token that is counted belongs to a session and is one of its first. *)
LEMMA AsTokenMember ==
  ASSUME NEW f, NEW p
  PROVE  p \in AsTokensOf(f) <=> \E s \in AsIds : \E n \in 1..f[s].tokens : p = <<s, n>>
BY DEF AsTokensOf

(* Where no session's count grows, the sum does not. *)
LEMMA AsSpentShrinks ==
  ASSUME NEW f \in [AsIds -> AsSessionType], NEW g \in [AsIds -> AsSessionType],
         \A s \in AsIds : g[s].tokens <= f[s].tokens, IsFiniteSet(AsTokensOf(f))
  PROVE  /\ IsFiniteSet(AsTokensOf(g))
         /\ Cardinality(AsTokensOf(g)) <= Cardinality(AsTokensOf(f))
<1>1. \A s \in AsIds : f[s].tokens \in Nat /\ g[s].tokens \in Nat
  BY DEF AsSessionType
<1>2. \A s \in AsIds : \A n \in 1..g[s].tokens : n \in 1..f[s].tokens
  BY <1>1
<1>3. AsTokensOf(g) \in SUBSET AsTokensOf(f)
  BY <1>2, AsTokenMember
<1> QED
  BY <1>3, FS_Subset

(* Where one session's count grows by an answer's usage, the sum grows by  *)
(* no more.                                                                *)
LEMMA AsSpentGrows ==
  ASSUME NEW f \in [AsIds -> AsSessionType], NEW g \in [AsIds -> AsSessionType],
         NEW s \in AsIds, NEW usage \in Nat, g[s].tokens = f[s].tokens + usage,
         \A e \in AsIds \ {s} : g[e].tokens = f[e].tokens, IsFiniteSet(AsTokensOf(f))
  PROVE  /\ IsFiniteSet(AsTokensOf(g))
         /\ Cardinality(AsTokensOf(g)) <= Cardinality(AsTokensOf(f)) + usage
<1> DEFINE used == f[s].tokens
           new == {s} \X ((used + 1)..(used + usage))
<1>1. \A e \in AsIds : f[e].tokens \in Nat /\ g[e].tokens \in Nat
  BY DEF AsSessionType
<1>2. /\ IsFiniteSet((used + 1)..(used + usage))
      /\ Cardinality((used + 1)..(used + usage)) = usage
  <2>1. used + 1 \in Int /\ used + usage \in Int
    BY <1>1
  <2>2. IsFiniteSet((used + 1)..(used + usage)) /\ Cardinality((used + 1)..(used + usage)) =
          IF used + 1 > used + usage THEN 0 ELSE (used + usage) - (used + 1) + 1
    BY <2>1, FS_Interval
  <2> QED
    BY <1>1, <2>2
<1>3. IsFiniteSet(new) /\ Cardinality(new) = usage
  <2>1. IsFiniteSet({s}) /\ Cardinality({s}) = 1
    BY FS_Singleton
  <2>2. IsFiniteSet(new) /\ Cardinality(new) = Cardinality({s}) * Cardinality((used + 1)..(used + usage))
    BY <1>2, <2>1, FS_Product
  <2> QED
    BY <1>2, <2>1, <2>2
<1>4. AsTokensOf(g) \in SUBSET (AsTokensOf(f) \cup new)
  <2> SUFFICES ASSUME NEW p \in AsTokensOf(g) PROVE p \in AsTokensOf(f) \cup new
    OBVIOUS
  <2>1. PICK e \in AsIds : \E n \in 1..g[e].tokens : p = <<e, n>>
    BY AsTokenMember
  <2>2. PICK n \in 1..g[e].tokens : p = <<e, n>>
    BY <2>1
  <2>3. CASE n \in 1..f[e].tokens
    BY <2>2, <2>3, AsTokenMember
  <2>4. CASE n \notin 1..f[e].tokens
    <3>1. e = s /\ n \in (used + 1)..(used + usage)
      BY <1>1, <2>4
    <3> QED
      BY <2>2, <3>1
  <2> QED
    BY <2>3, <2>4
<1> HIDE DEF new
<1>5. /\ IsFiniteSet(AsTokensOf(f) \cup new)
      /\ Cardinality(AsTokensOf(f) \cup new) =
           Cardinality(AsTokensOf(f)) + Cardinality(new) - Cardinality(AsTokensOf(f) \cap new)
  BY <1>3, FS_Union
<1>6. Cardinality(AsTokensOf(f) \cap new) \in Nat /\ Cardinality(AsTokensOf(f)) \in Nat
  BY <1>3, FS_Intersection, FS_CardinalityType
<1>7. /\ IsFiniteSet(AsTokensOf(g))
      /\ Cardinality(AsTokensOf(g)) <= Cardinality(AsTokensOf(f) \cup new)
  BY <1>4, <1>5, FS_Subset
<1>8. Cardinality(AsTokensOf(g)) \in Nat
  BY <1>7, FS_CardinalityType
<1> QED
  BY <1>3, <1>5, <1>6, <1>7, <1>8

(* The states the session manager starts in. *)
LEMMA AsInitInv == AsInit => AsInv
<1> SUFFICES ASSUME AsInit PROVE AsInv
  OBVIOUS
<1>1. AsAbsent \in AsSessionType /\ AsNoCall \in AsCallType /\ AsAbsent.tokens = 0 /\ AsNoCall.at = "idle"
  BY AsAssumption DEF AsAbsent, AsNoCall, AsSessionType, AsCallType
<1>2. /\ asSession \in [AsIds -> AsSessionType] /\ asCall \in [AsCallers -> AsCallType]
      /\ \A s \in AsIds : asSession[s] = AsAbsent
      /\ \A c \in AsCallers : asCall[c] = AsNoCall
  BY <1>1 DEF AsInit
<1>3. AsLive = {} /\ AsUnpaid = {}
  BY <1>1, <1>2 DEF AsLive, AsUnpaid
<1>4. AsTypeOK
  BY <1>2, <1>3, FS_EmptySet, AsAssumption DEF AsInit, AsTypeOK, AsSessionType, AsCallType
<1>5. AsTokensOf(asSession) = {}
  <2>1. \A s \in AsIds : 1..asSession[s].tokens = {}
    BY <1>1, <1>2
  <2> QED
    BY <2>1, AsTokenMember
<1>6. AsBudgetOK
  <2>1. Cardinality(AsCallers) \in Nat
    BY AsAssumption, FS_CardinalityType
  <2>2. Cardinality(AsCallers) * AsUsage \in Nat
    BY <2>1, AsAssumption
  <2>3. Cardinality(AsUnpaid) * AsUsage = 0
    BY <1>3, FS_EmptySet, AsAssumption
  <2> QED
    BY <1>5, <2>2, <2>3, FS_EmptySet, AsAssumption DEF AsBudgetOK, AsSpent
<1> QED
  BY <1>4, <1>6 DEF AsInv

(* More messages may spend more. *)
LEMMA AsUsageMonotone ==
  ASSUME NEW a \in Nat, NEW b \in Nat, a <= b
  PROVE  a * AsUsage <= b * AsUsage /\ a * AsUsage \in Nat /\ b * AsUsage \in Nat
BY AsAssumption

(* Nothing is charged, and no message passes the budget. *)
LEMMA AsNothingCharged ==
  ASSUME AsInv, asSession' \in [AsIds -> AsSessionType], asCall' \in [AsCallers -> AsCallType],
         \A s \in AsIds : asSession'[s].tokens <= asSession[s].tokens,
         Cardinality(AsLive') <= AsMaxSessions, asReap' \subseteq AsIds,
         AsUnpaid' \subseteq AsUnpaid
  PROVE  AsInv'
<1>1. AsTypeOK'
  BY DEF AsTypeOK, AsSessionType, AsCallType
<1>2. asSession \in [AsIds -> AsSessionType]
  BY DEF AsInv, AsTypeOK, AsSessionType
<1>3. /\ IsFiniteSet(AsTokensOf(asSession')) /\ IsFiniteSet(AsTokensOf(asSession))
      /\ Cardinality(AsTokensOf(asSession')) <= Cardinality(AsTokensOf(asSession))
  BY <1>2, AsSpentShrinks DEF AsInv, AsBudgetOK
<1>4. Cardinality(AsTokensOf(asSession')) \in Nat /\ Cardinality(AsTokensOf(asSession)) \in Nat
  BY <1>3, FS_CardinalityType
<1>5. IsFiniteSet(AsUnpaid) /\ IsFiniteSet(AsUnpaid') /\ Cardinality(AsUnpaid') <= Cardinality(AsUnpaid)
  <2>1. AsUnpaid \in SUBSET AsCallers
    BY DEF AsUnpaid
  <2>2. IsFiniteSet(AsUnpaid)
    BY <2>1, AsAssumption, FS_Subset
  <2> QED
    BY <2>2, FS_Subset
<1>6. Cardinality(AsUnpaid) \in Nat /\ Cardinality(AsUnpaid') \in Nat /\ Cardinality(AsCallers) \in Nat
  BY <1>5, FS_CardinalityType, AsAssumption
<1>7. /\ Cardinality(AsUnpaid') * AsUsage <= Cardinality(AsUnpaid) * AsUsage
      /\ Cardinality(AsUnpaid') * AsUsage \in Nat /\ Cardinality(AsUnpaid) * AsUsage \in Nat
  BY <1>5, <1>6, AsUsageMonotone
<1>8. Cardinality(AsCallers) * AsUsage \in Nat
  BY <1>6, AsUsageMonotone
<1>9. AsBudgetOK'
  BY <1>3, <1>4, <1>7, <1>8, AsAssumption DEF AsInv, AsBudgetOK, AsSpent
<1> QED
  BY <1>1, <1>9 DEF AsInv

(* A command moves without passing the budget. *)
LEMMA AsCallMoves ==
  ASSUME AsInv, NEW c \in AsCallers, NEW r \in AsCallType, asCall' = [asCall EXCEPT ![c] = r],
         r.via = "app" /\ r.at \in {"get", "touch", "stream"} => c \in AsUnpaid
  PROVE  asCall' \in [AsCallers -> AsCallType] /\ AsUnpaid' \subseteq AsUnpaid
<1>1. asCall \in [AsCallers -> AsCallType]
  BY DEF AsInv, AsTypeOK, AsCallType
<1>2. asCall' \in [AsCallers -> AsCallType] /\ \A e \in AsCallers : asCall'[e] = IF e = c THEN r ELSE asCall[e]
  BY <1>1
<1> QED
  BY <1>2 DEF AsUnpaid

(* Sessions change, and none that was absent appears. *)
LEMMA AsNoneAppears ==
  ASSUME AsInv, AsLive' \subseteq AsLive
  PROVE  Cardinality(AsLive') <= AsMaxSessions
<1>1. AsLive \in SUBSET AsIds
  BY DEF AsLive
<1>2. IsFiniteSet(AsLive)
  BY <1>1, AsAssumption, FS_Subset
<1>3. IsFiniteSet(AsLive') /\ Cardinality(AsLive') <= Cardinality(AsLive)
  BY <1>2, FS_Subset
<1>4. Cardinality(AsLive') \in Nat /\ Cardinality(AsLive) \in Nat
  BY <1>2, <1>3, FS_CardinalityType
<1> QED
  BY <1>3, <1>4, AsAssumption DEF AsInv, AsTypeOK

(* One session changes to a record with no more tokens. *)
LEMMA AsOneSessionChanges ==
  ASSUME AsInv, NEW s \in AsIds, NEW r \in AsSessionType, r.tokens <= asSession[s].tokens,
         s \in AsLive \/ r = AsAbsent, asSession' = [asSession EXCEPT ![s] = r]
  PROVE  /\ asSession' \in [AsIds -> AsSessionType]
         /\ \A e \in AsIds : asSession'[e].tokens <= asSession[e].tokens
         /\ AsLive' \subseteq AsLive
<1>1. asSession \in [AsIds -> AsSessionType]
  BY DEF AsInv, AsTypeOK, AsSessionType
<1>2. /\ asSession' \in [AsIds -> AsSessionType]
      /\ \A e \in AsIds : asSession'[e] = IF e = s THEN r ELSE asSession[e]
  BY <1>1
<1>3. \A e \in AsIds : asSession[e].tokens \in Nat
  BY <1>1 DEF AsSessionType
<1>4. \A e \in AsIds : asSession'[e].tokens <= asSession[e].tokens
  BY <1>2, <1>3
<1>5. AsLive' \subseteq AsLive
  BY <1>2 DEF AsLive
<1> QED
  BY <1>2, <1>4, <1>5

(* A session that is tried again, and one that has failed. *)
LEMMA AsRecordsOK ==
  ASSUME NEW q \in AsSessionType
  PROVE  /\ [q EXCEPT !.state = "Failed"] \in AsSessionType
         /\ [q EXCEPT !.state = "Failed"].tokens = q.tokens
         /\ ~(q.retries >= AsMaxRetries) =>
              /\ [q EXCEPT !.retries = @ + 1, !.state = "Active"] \in AsSessionType
              /\ [q EXCEPT !.retries = @ + 1, !.state = "Active"].tokens = q.tokens
<1>1. \A e \in AsSessionType : /\ [e EXCEPT !.state = "Active"] \in AsSessionType
                               /\ [e EXCEPT !.state = "Active"].tokens = e.tokens
  BY DEF AsSessionType
<1>2. ~(q.retries >= AsMaxRetries) => /\ [q EXCEPT !.retries = @ + 1] \in AsSessionType
                                      /\ [q EXCEPT !.retries = @ + 1].tokens = q.tokens
  BY AsAssumption DEF AsSessionType
<1>3. /\ [q EXCEPT !.state = "Failed"] \in AsSessionType
      /\ [q EXCEPT !.state = "Failed"].tokens = q.tokens
  BY DEF AsSessionType
<1> QED
  BY <1>1, <1>2, <1>3, Zenon

(* The commands' steps that charge nothing. *)
LEMMA AsCommandKeepsInv ==
  ASSUME AsInv, NEW c \in AsCallers,
         \/ AsBuild(c) \/ AsGet(c) \/ AsStreamEnds(c) \/ AsTouch(c)
         \/ \E transient \in BOOLEAN : AsStreamFails(c, transient)
  PROVE  AsInv'
<1>1. asCall \in [AsCallers -> AsCallType] /\ asSession \in [AsIds -> AsSessionType] /\ asReap \subseteq AsIds
  BY DEF AsInv, AsTypeOK, AsCallType, AsSessionType
<1>2. AsNoCall \in AsCallType /\ AsNoCall.at = "idle"
  BY DEF AsNoCall, AsCallType
<1>3. \A place \in {"admit", "touch", "stream"} :
        /\ [asCall[c] EXCEPT !.at = place] \in AsCallType
        /\ [asCall[c] EXCEPT !.at = place].at = place
        /\ [asCall[c] EXCEPT !.at = place].via = asCall[c].via
  BY <1>1 DEF AsCallType
<1>4. asCall' \in [AsCallers -> AsCallType] /\ AsUnpaid' \subseteq AsUnpaid
  <2>1. CASE AsBuild(c)
    BY <1>3, <2>1, AsCallMoves DEF AsBuild, AsGoes
  <2>2. CASE AsGet(c)
    <3>1. asCall[c].at = "get"
      BY <2>2 DEF AsGet, AsAt
    <3>2. CASE AsGoes(c, "touch")
      <4>1. asCall[c].via = "app" => c \in AsUnpaid
        BY <3>1 DEF AsUnpaid
      <4> QED
        BY <1>3, <3>2, <4>1, AsCallMoves DEF AsGoes
    <3>3. CASE AsEnds(c)
      BY <1>2, <3>3, AsCallMoves DEF AsEnds
    <3> QED
      BY <2>2, <3>2, <3>3 DEF AsGet
  <2>3. CASE AsTouch(c)
    <3>1. asCall[c].at = "touch" /\ AsGoes(c, "stream")
      BY <2>3 DEF AsTouch, AsAt
    <3>2. asCall[c].via = "app" => c \in AsUnpaid
      BY <3>1 DEF AsUnpaid
    <3> QED
      BY <1>3, <3>1, <3>2, AsCallMoves DEF AsGoes
  <2>4. CASE AsEnds(c)
    BY <1>2, <2>4, AsCallMoves DEF AsEnds
  <2>5. CASE asCall' = asCall
    BY <1>1, <2>5 DEF AsUnpaid
  <2> QED
    BY <2>1, <2>2, <2>3, <2>4, <2>5 DEF AsStreamEnds, AsStreamFails
<1>5. /\ asSession' \in [AsIds -> AsSessionType]
      /\ \A s \in AsIds : asSession'[s].tokens <= asSession[s].tokens
      /\ AsLive' \subseteq AsLive
  <2>1. \A s \in AsIds : asSession[s].tokens \in Nat /\ asSession[s].tokens <= asSession[s].tokens
    BY <1>1 DEF AsSessionType
  <2>2. CASE asSession' = asSession
    BY <1>1, <2>1, <2>2 DEF AsLive
  <2>3. ASSUME NEW s \in AsLive, asCall[c].id = s,
               \/ asSession' = [asSession EXCEPT ![s].state = "Active"]
               \/ \E transient \in BOOLEAN :
                    asSession' = [asSession EXCEPT ![s] = AsReported(@, transient)]
        PROVE  /\ asSession' \in [AsIds -> AsSessionType]
               /\ \A e \in AsIds : asSession'[e].tokens <= asSession[e].tokens
               /\ AsLive' \subseteq AsLive
    <3>1. s \in AsIds /\ asSession[s] \in AsSessionType
      BY <1>1 DEF AsLive
    <3>2. /\ [asSession[s] EXCEPT !.state = "Active"] \in AsSessionType
          /\ [asSession[s] EXCEPT !.state = "Active"].tokens = asSession[s].tokens
      BY <3>1 DEF AsSessionType
    <3>3. \A transient \in BOOLEAN : /\ AsReported(asSession[s], transient) \in AsSessionType
                                     /\ AsReported(asSession[s], transient).tokens = asSession[s].tokens
      <4>1. asSession[s].retries \in Nat
        BY <3>1, AsAssumption DEF AsSessionType
      <4>2. asSession[s].retries < AsMaxRetries => ~(asSession[s].retries >= AsMaxRetries)
        BY <4>1, AsAssumption
      <4> QED
        BY <3>1, <4>2, AsRecordsOK DEF AsReported
    <3>4. \E r \in AsSessionType : r.tokens <= asSession[s].tokens /\ asSession' = [asSession EXCEPT ![s] = r]
      BY <2>1, <2>3, <3>1, <3>2, <3>3
    <3> QED
      BY <3>1, <3>4, AsOneSessionChanges
  <2>4. \/ asSession' = asSession
        \/ /\ asCall[c].id \in AsLive
           /\ \/ asSession' = [asSession EXCEPT ![asCall[c].id].state = "Active"]
              \/ \E transient \in BOOLEAN :
                   asSession' = [asSession EXCEPT ![asCall[c].id] = AsReported(@, transient)]
    BY DEF AsBuild, AsGet, AsStreamEnds, AsTouch, AsStreamFails
  <2> QED
    BY <2>2, <2>3, <2>4
<1>6. asReap' \subseteq AsIds
  BY <1>1 DEF AsBuild, AsGet, AsStreamEnds, AsTouch, AsStreamFails
<1> QED
  BY <1>4, <1>5, <1>6, AsNoneAppears, AsNothingCharged

(* admit_session counts and inserts under one lock. *)
LEMMA AsAdmitKeepsInv ==
  ASSUME AsInv, NEW c \in AsCallers, AsAdmit(c)
  PROVE  AsInv'
<1>1. asCall \in [AsCallers -> AsCallType] /\ asSession \in [AsIds -> AsSessionType] /\ asReap \subseteq AsIds
  BY DEF AsInv, AsTypeOK, AsCallType, AsSessionType
<1>2. AsNoCall \in AsCallType /\ AsNoCall.at = "idle" /\ AsNew \in AsSessionType /\ AsNew.tokens = 0
  BY AsAssumption DEF AsNoCall, AsCallType, AsNew, AsSessionType
<1>3. asCall' \in [AsCallers -> AsCallType] /\ AsUnpaid' \subseteq AsUnpaid /\ asReap' \subseteq AsIds
  BY <1>1, <1>2, AsCallMoves DEF AsAdmit, AsEnds
<1>4. \A s \in AsIds : asSession[s].tokens \in Nat
  BY <1>1 DEF AsSessionType
<1>5. CASE asSession' = asSession
  <2>1. AsLive' \subseteq AsLive
    BY <1>5 DEF AsLive
  <2> QED
    BY <1>1, <1>3, <1>4, <1>5, <2>1, AsNoneAppears, AsNothingCharged
<1>6. ASSUME NEW s \in AsIds, Cardinality(AsLive) < AsMaxSessions,
             asSession' = [asSession EXCEPT ![s] = AsNew]
      PROVE  AsInv'
  <2>1. /\ asSession' \in [AsIds -> AsSessionType]
        /\ \A e \in AsIds : asSession'[e] = IF e = s THEN AsNew ELSE asSession[e]
    BY <1>1, <1>2, <1>6
  <2>2. \A e \in AsIds : asSession'[e].tokens <= asSession[e].tokens
    BY <1>2, <1>4, <2>1
  <2>3. AsLive \in SUBSET AsIds /\ AsLive' \in SUBSET (AsLive \cup {s})
    BY <2>1 DEF AsLive
  <2>4. IsFiniteSet(AsLive)
    BY <2>3, AsAssumption, FS_Subset
  <2>5. /\ IsFiniteSet(AsLive \cup {s})
        /\ Cardinality(AsLive \cup {s}) = IF s \in AsLive THEN Cardinality(AsLive) ELSE Cardinality(AsLive) + 1
    BY <2>4, FS_AddElement
  <2>6. IsFiniteSet(AsLive') /\ Cardinality(AsLive') <= Cardinality(AsLive \cup {s})
    BY <2>3, <2>5, FS_Subset
  <2>7. Cardinality(AsLive) \in Nat /\ Cardinality(AsLive') \in Nat
    BY <2>4, <2>6, FS_CardinalityType
  <2>8. Cardinality(AsLive') <= AsMaxSessions
    BY <1>6, <2>5, <2>6, <2>7, AsAssumption
  <2> QED
    BY <1>3, <2>1, <2>2, <2>8, AsNothingCharged
<1> QED
  BY <1>5, <1>6 DEF AsAdmit

(* accumulate_tokens: a message that passed the budget is charged. *)
LEMMA AsResultKeepsInv ==
  ASSUME AsInv, NEW c \in AsCallers, NEW usage \in 1..AsUsage, AsResult(c, usage)
  PROVE  AsInv'
<1>1. asCall \in [AsCallers -> AsCallType] /\ asSession \in [AsIds -> AsSessionType] /\ asReap \subseteq AsIds
  BY DEF AsInv, AsTypeOK, AsCallType, AsSessionType
<1>2. asCall[c].at = "stream" /\ asReap' = asReap /\ AsGoes(c, "rest")
  BY DEF AsResult, AsAt
<1>3. [asCall[c] EXCEPT !.at = "rest"] \in AsCallType /\ [asCall[c] EXCEPT !.at = "rest"].at = "rest"
  BY <1>1 DEF AsCallType
<1>4. /\ asCall' \in [AsCallers -> AsCallType]
      /\ \A e \in AsCallers : asCall'[e] = IF e = c THEN [asCall[c] EXCEPT !.at = "rest"] ELSE asCall[e]
  BY <1>1, <1>2, <1>3 DEF AsGoes
<1>5. AsUnpaid' \subseteq AsUnpaid /\ c \notin AsUnpaid'
  BY <1>3, <1>4 DEF AsUnpaid
<1>6. CASE asSession' = asSession
  <2>1. AsLive' \subseteq AsLive /\ \A s \in AsIds : asSession[s].tokens \in Nat
    BY <1>1, <1>6 DEF AsLive, AsSessionType
  <2> QED
    BY <1>1, <1>2, <1>4, <1>5, <1>6, <2>1, AsNoneAppears, AsNothingCharged
<1>7. CASE /\ asCall[c].via = "app" /\ asCall[c].id \in AsLive
           /\ asSession' = [asSession EXCEPT ![asCall[c].id].tokens = @ + usage]
  <2> DEFINE s == asCall[c].id
             r == [asSession[s] EXCEPT !.tokens = @ + usage]
  <2>1. s \in AsIds /\ asSession[s] \in AsSessionType /\ s \in AsLive
    BY <1>1, <1>7 DEF AsLive
  <2>2. usage \in Nat /\ usage <= AsUsage
    BY AsAssumption
  <2>3. r \in AsSessionType /\ r.tokens = asSession[s].tokens + usage
    BY <2>1, <2>2 DEF AsSessionType
  <2>4. asSession' = [asSession EXCEPT ![s] = r]
    BY <1>7
  <2> HIDE DEF r, s
  <2>5. /\ asSession' \in [AsIds -> AsSessionType]
        /\ \A e \in AsIds : asSession'[e] = IF e = s THEN r ELSE asSession[e]
    BY <1>1, <2>1, <2>3, <2>4
  <2>6. /\ IsFiniteSet(AsTokensOf(asSession')) /\ IsFiniteSet(AsTokensOf(asSession))
        /\ Cardinality(AsTokensOf(asSession')) <= Cardinality(AsTokensOf(asSession)) + usage
    BY <1>1, <2>1, <2>2, <2>3, <2>5, AsSpentGrows DEF AsInv, AsBudgetOK
  <2>7. Cardinality(AsTokensOf(asSession')) \in Nat /\ Cardinality(AsTokensOf(asSession)) \in Nat
    BY <2>6, FS_CardinalityType
  <2>8. AsLive' \subseteq AsLive
    BY <2>1, <2>5 DEF AsLive
  <2>9. AsTypeOK'
    BY <1>1, <1>2, <1>4, <2>5, <2>8, AsNoneAppears DEF AsTypeOK, AsSessionType, AsCallType
  <2>10. AsUnpaid \in SUBSET AsCallers /\ c \in AsUnpaid /\ AsUnpaid' \in SUBSET (AsUnpaid \ {c})
    BY <1>2, <1>5, <1>7 DEF AsUnpaid
  <2>11. IsFiniteSet(AsUnpaid)
    BY <2>10, AsAssumption, FS_Subset
  <2>12. /\ IsFiniteSet(AsUnpaid \ {c})
         /\ Cardinality(AsUnpaid \ {c}) = Cardinality(AsUnpaid) - 1
    BY <2>10, <2>11, FS_RemoveElement
  <2>13. IsFiniteSet(AsUnpaid') /\ Cardinality(AsUnpaid') <= Cardinality(AsUnpaid \ {c})
    BY <2>10, <2>12, FS_Subset
  <2>14. Cardinality(AsUnpaid) \in Nat /\ Cardinality(AsUnpaid') \in Nat /\ Cardinality(AsCallers) \in Nat
    BY <2>11, <2>13, FS_CardinalityType, AsAssumption
  <2>15. (Cardinality(AsUnpaid') + 1) * AsUsage <= Cardinality(AsUnpaid) * AsUsage
    BY <2>12, <2>13, <2>14, AsUsageMonotone
  <2>16. /\ (Cardinality(AsUnpaid') + 1) * AsUsage = Cardinality(AsUnpaid') * AsUsage + AsUsage
         /\ Cardinality(AsUnpaid') * AsUsage \in Nat /\ Cardinality(AsUnpaid) * AsUsage \in Nat
         /\ Cardinality(AsCallers) * AsUsage \in Nat
    BY <2>14, AsAssumption
  <2>17. AsBudgetOK'
    BY <2>2, <2>6, <2>7, <2>15, <2>16, AsAssumption DEF AsInv, AsBudgetOK, AsSpent
  <2> QED
    BY <2>9, <2>17 DEF AsInv
<1> QED
  BY <1>6, <1>7 DEF AsResult

(* check_token_budget passes a message of the desktop, or nothing does. *)
LEMMA AsSendKeepsInv ==
  ASSUME AsInv, NEW c \in AsCallers, NEW s \in AsIds, NEW via \in {"app", "web"}, AsSend(c, s, via)
  PROVE  AsInv'
<1> DEFINE r == [at |-> "get", via |-> via, id |-> s]
<1>1. asCall \in [AsCallers -> AsCallType] /\ asSession \in [AsIds -> AsSessionType] /\ asReap \subseteq AsIds
  BY DEF AsInv, AsTypeOK, AsCallType, AsSessionType
<1>2. r \in AsCallType /\ r.via = via
  BY DEF AsCallType
<1>3. asCall' = [asCall EXCEPT ![c] = r] /\ UNCHANGED <<asSession, asReap>>
  BY DEF AsSend
<1> HIDE DEF r
<1>4. AsLive' = AsLive /\ \A e \in AsIds : asSession[e].tokens \in Nat
  BY <1>1, <1>3 DEF AsLive, AsSessionType
<1>5. CASE via = "web"
  <2>1. asCall' \in [AsCallers -> AsCallType] /\ AsUnpaid' \subseteq AsUnpaid
    BY <1>2, <1>3, <1>5, AsCallMoves
  <2>2. Cardinality(AsLive') <= AsMaxSessions
    BY <1>4, AsNoneAppears
  <2>3. \A e \in AsIds : asSession'[e].tokens <= asSession[e].tokens
    BY <1>3, <1>4
  <2> QED
    BY <1>1, <1>3, <2>1, <2>2, <2>3, AsNothingCharged
<1>6. CASE via = "app"
  <2>1. asCall' \in [AsCallers -> AsCallType]
    BY <1>1, <1>2, <1>3
  <2>2. AsTypeOK'
    BY <1>1, <1>3, <1>4, <2>1, AsNoneAppears DEF AsTypeOK, AsSessionType, AsCallType
  <2>3. AsUnpaid' \in SUBSET AsCallers
    BY DEF AsUnpaid
  <2>4. IsFiniteSet(AsUnpaid') /\ Cardinality(AsUnpaid') <= Cardinality(AsCallers)
    BY <2>3, AsAssumption, FS_Subset
  <2>5. Cardinality(AsUnpaid') \in Nat /\ Cardinality(AsCallers) \in Nat
    BY <2>4, FS_CardinalityType, AsAssumption
  <2>6. /\ Cardinality(AsUnpaid') * AsUsage <= Cardinality(AsCallers) * AsUsage
        /\ Cardinality(AsUnpaid') * AsUsage \in Nat /\ Cardinality(AsCallers) * AsUsage \in Nat
    BY <2>4, <2>5, AsUsageMonotone
  <2>7. IsFiniteSet(AsTokensOf(asSession)) /\ AsSpent \in Nat /\ AsSpent' = AsSpent
    BY <1>3, FS_CardinalityType DEF AsInv, AsBudgetOK, AsSpent
  <2>8. AsBudget > 0 => AsSpent < AsBudget
    BY <1>6, AsAssumption DEF AsSend, AsWithinBudget
  <2>9. AsBudgetOK'
    BY <1>3, <2>6, <2>7, <2>8, AsAssumption DEF AsBudgetOK
  <2> QED
    BY <2>2, <2>9 DEF AsInv
<1> QED
  BY <1>5, <1>6

(* Recovery, kill and reaper change sessions only. *)
LEMMA AsManagerKeepsInv ==
  ASSUME AsInv, \/ \E s \in AsIds : AsRecover(s) \/ AsKill(s) \/ AsEndCollected(s)
                \/ \E old \in SUBSET AsLive,
                       idle \in SUBSET {s \in AsLive : asSession[s].state # "Failed"} :
                     AsCollect(old, idle)
  PROVE  AsInv'
<1>1. asCall \in [AsCallers -> AsCallType] /\ asSession \in [AsIds -> AsSessionType] /\ asReap \subseteq AsIds
  BY DEF AsInv, AsTypeOK, AsCallType, AsSessionType
<1>2. asCall' = asCall /\ AsUnpaid' \subseteq AsUnpaid /\ asReap' \subseteq AsIds
  <2>1. asCall' = asCall
    BY DEF AsRecover, AsKill, AsEndCollected, AsCollect
  <2>2. asReap' \subseteq AsIds
    BY <1>1 DEF AsRecover, AsKill, AsEndCollected, AsCollect, AsLive
  <2> QED
    BY <2>1, <2>2 DEF AsUnpaid
<1>3. \A s \in AsIds : asSession[s].tokens \in Nat /\ asSession[s].tokens <= asSession[s].tokens
  BY <1>1 DEF AsSessionType
<1>4. /\ asSession' \in [AsIds -> AsSessionType]
      /\ \A s \in AsIds : asSession'[s].tokens <= asSession[s].tokens
      /\ AsLive' \subseteq AsLive
  <2>1. ASSUME NEW s \in AsIds, AsRecover(s)
        PROVE  \E r \in AsSessionType : r.tokens <= asSession[s].tokens /\ s \in AsLive
                 /\ asSession' = [asSession EXCEPT ![s] = r]
    <3>1. asSession[s] \in AsSessionType
      BY <1>1
    <3>2. s \in AsLive /\ asSession' = [asSession EXCEPT ![s] = AsRecovered(asSession[s])]
      BY <2>1 DEF AsRecover
    <3>3. /\ AsRecovered(asSession[s]) \in AsSessionType
          /\ AsRecovered(asSession[s]).tokens = asSession[s].tokens
      BY <3>1, AsRecordsOK DEF AsRecovered
    <3> QED
      BY <1>3, <3>2, <3>3
  <2>2. ASSUME NEW s \in AsIds, AsKill(s) \/ AsEndCollected(s)
        PROVE  /\ AsAbsent \in AsSessionType /\ AsAbsent.tokens <= asSession[s].tokens
               /\ asSession' = [asSession EXCEPT ![s] = AsAbsent]
    <3>1. AsAbsent \in AsSessionType /\ AsAbsent.tokens = 0
      BY AsAssumption DEF AsAbsent, AsSessionType
    <3> QED
      BY <1>3, <2>2, <3>1 DEF AsKill, AsEndCollected
  <2>3. ASSUME NEW old \in SUBSET AsLive,
               NEW idle \in SUBSET {s \in AsLive : asSession[s].state # "Failed"}, AsCollect(old, idle)
        PROVE  /\ asSession' \in [AsIds -> AsSessionType]
               /\ \A s \in AsIds : asSession'[s].tokens <= asSession[s].tokens
               /\ AsLive' \subseteq AsLive
    <3>1. asSession' = [s \in AsIds |-> IF s \in idle THEN [asSession[s] EXCEPT !.state = "Idle"]
                                       ELSE asSession[s]]
      BY <2>3 DEF AsCollect
    <3>2. \A s \in AsIds : /\ [asSession[s] EXCEPT !.state = "Idle"] \in AsSessionType
                           /\ [asSession[s] EXCEPT !.state = "Idle"].tokens = asSession[s].tokens
      BY <1>1 DEF AsSessionType
    <3>3. asSession' \in [AsIds -> AsSessionType]
      BY <1>1, <3>1, <3>2
    <3>4. \A s \in AsIds : asSession'[s].tokens <= asSession[s].tokens
      BY <1>3, <3>1, <3>2
    <3>5. AsLive' \subseteq AsLive
      BY <3>1 DEF AsLive
    <3> QED
      BY <3>3, <3>4, <3>5
  <2> QED
    BY <2>1, <2>2, <2>3, AsOneSessionChanges
<1> QED
  BY <1>1, <1>2, <1>4, AsNoneAppears, AsNothingCharged

(* Every step keeps the invariant. *)
LEMMA AsNextInv == AsInv /\ [AsNext]_asVars => AsInv'
<1> SUFFICES ASSUME AsInv, [AsNext]_asVars PROVE AsInv'
  OBVIOUS
<1>1. CASE UNCHANGED asVars
  BY <1>1 DEF AsInv, AsTypeOK, AsBudgetOK, AsUnpaid, AsLive, AsSpent, AsTokensOf, asVars
<1>2. ASSUME NEW c \in AsCallers, AsCommand(c) PROVE AsInv'
  BY <1>2, AsCommandKeepsInv, AsAdmitKeepsInv, AsResultKeepsInv DEF AsCommand
<1> QED
  BY <1>1, <1>2, AsSendKeepsInv, AsManagerKeepsInv DEF AsNext

LEMMA AsInvariant == AsSpec => []AsInv
BY AsInitInv, AsNextInv, PTL DEF AsSpec

(* Every variable of the session manager keeps its type, and no race of    *)
(* creations exceeds max_concurrent_sessions.                              *)
THEOREM AsTypeCorrect == AsSpec => []AsTypeOK
<1>1. AsInv => AsTypeOK
  BY DEF AsInv
<1> QED
  BY <1>1, AsInvariant, PTL

(* The token budget is passed by at most one answer for each command, for  *)
(* every number of sessions that share it (check_token_budget).            *)
THEOREM BudgetOvershootBounded == AsSpec => []AsBudgetOvershoot
<1>1. AsInv => AsBudgetOvershoot
  <2> SUFFICES ASSUME AsInv, AsBudget > 0
               PROVE  AsSpent < AsBudget + Cardinality(AsCallers) * AsUsage
    BY DEF AsBudgetOvershoot
  <2>1. AsUnpaid \in SUBSET AsCallers
    BY DEF AsUnpaid
  <2>2. IsFiniteSet(AsUnpaid)
    BY <2>1, AsAssumption, FS_Subset
  <2>3. Cardinality(AsUnpaid) \in Nat /\ Cardinality(AsCallers) \in Nat /\ AsSpent \in Nat
    BY <2>2, FS_CardinalityType, AsAssumption DEF AsInv, AsBudgetOK, AsSpent
  <2>4. Cardinality(AsUnpaid) * AsUsage \in Nat /\ Cardinality(AsCallers) * AsUsage \in Nat
    BY <2>3, AsAssumption
  <2> QED
    BY <2>3, <2>4, AsAssumption DEF AsInv, AsBudgetOK
<1> QED
  BY <1>1, AsInvariant, PTL

-----------------------------------------------------------------------------
(***************************************************************************)
(* The services together.                                                  *)
(***************************************************************************)

(* A step of the product is a step of one service, and leaves the others   *)
(* alone.                                                                  *)
LEMMA OneServiceMoves ==
  ASSUME [Next]_allVars
  PROVE  /\ [GuiNext]_guiVars /\ [GateNext]_gateVars /\ [SqNext]_sqVars /\ [FbNext]_fbVars
         /\ [IxNext]_ixVars /\ [SyNext]_syVars /\ [TmNext]_tmVars /\ [AsNext]_asVars
<1>1. CASE UNCHANGED allVars
  BY <1>1, Zenon DEF allVars
<1>2. CASE Gui
  BY <1>2, Zenon DEF Gui
<1>3. CASE Gate
  BY <1>3, Zenon DEF Gate
<1>4. CASE Queue
  BY <1>4, Zenon DEF Queue
<1>5. CASE Feedback
  BY <1>5, Zenon DEF Feedback
<1>6. CASE Inbox \/ Outbox
  BY <1>6, Zenon DEF Inbox, Outbox
<1>7. CASE Sync
  BY <1>7, Zenon DEF Sync
<1>8. CASE Tokens
  BY <1>8, Zenon DEF Tokens
<1>9. CASE Chat
  BY <1>9, Zenon DEF Chat
<1> QED
  BY <1>1, <1>2, <1>3, <1>4, <1>5, <1>6, <1>7, <1>8, <1>9, Zenon DEF Next

(* The product behaves as each of the services does, so what is proved of  *)
(* one of them holds where they run together.                              *)
LEMMA ServicesCompose ==
  Spec => /\ GuiSpec /\ GateSpec /\ SqSpec /\ FbSpec
          /\ IxSpec /\ SySpec /\ TmSpec /\ AsSpec
<1>1. Init => /\ GuiInit /\ GateInit /\ SqInit /\ FbInit /\ IxInit /\ SyInit /\ TmInit /\ AsInit
  BY Zenon DEF Init
<1>2. [Next]_allVars => /\ [GuiNext]_guiVars /\ [GateNext]_gateVars /\ [SqNext]_sqVars
                        /\ [FbNext]_fbVars /\ [IxNext]_ixVars /\ [SyNext]_syVars
                        /\ [TmNext]_tmVars /\ [AsNext]_asVars
  BY OneServiceMoves
<1> QED
  BY <1>1, <1>2, PTL DEF Spec, GuiSpec, GateSpec, SqSpec, FbSpec, IxSpec, SySpec, TmSpec, AsSpec

(* The services are well typed where they run together, and their queues,  *)
(* tables and counters keep to their limits (ServicesTypeOK).              *)
THEOREM ServicesTypeCorrect == Spec => []ServicesTypeOK
<1>1. /\ GuiTypeOK /\ GateTypeOK /\ SqTypeOK /\ FbTypeOK /\ IxTypeOK /\ SyTypeOK /\ TmTypeOK
      /\ AsTypeOK
      => ServicesTypeOK
  BY Zenon DEF ServicesTypeOK
<1> QED
  BY <1>1, ServicesCompose, GuiTypeCorrect, GateTypeCorrect, SqTypeCorrect, FbTypeCorrect,
     IxTypeCorrect, SyTypeCorrect, TmTypeCorrect, AsTypeCorrect, PTL
=============================================================================
