---------------------------- MODULE MCServices ------------------------------
(***************************************************************************)
(* The services around the upload and update cores, for TLC.  They share   *)
(* no variable, call or lock with one another, so a state of the product   *)
(* violates a property exactly when the state of one of them does, and a   *)
(* behaviour moves one of them, chosen at the start, while the rest stay   *)
(* as they were launched.                                                  *)
(***************************************************************************)
EXTENDS GuiInteraction, AutomationGate, SuggestionQueue, FeedbackRetry,
        IntegrationExchange, CrossDeviceSync, TokenManager, AiSessions

VARIABLE part  \* the service whose behaviour this is

(* Suggestions 1 and 3 have the same content, so the same fingerprint; the *)
(* order of creation is not that of their ranks.                           *)
Content == [s \in 1..SqRanks |-> <<"a", "b", "a">>[s]]
Newest  == <<3, 1, 2>>

allVars == <<part, guiVars, gateVars, sqVars, fbVars, ixVars, syVars, tmVars, asVars>>

(* The services that stay still start in one of their initial states. *)
Init ==
  /\ part \in {"gui", "gate", "queue", "feedback", "inbox", "outbox", "sync", "tokens",
              "chat"}
  /\ GuiInit /\ GateInit /\ SqInit /\ FbInit /\ IxInit /\ SyInit /\ TmInit /\ AsInit
  /\ part \notin {"inbox", "outbox"} => ixWay = "poll"
  /\ part # "sync" => \A d \in SyDevice : sySince[d] = d
  /\ part # "tokens" => tmRotates

Gui      == /\ part = "gui" /\ GuiNext
            /\ UNCHANGED <<part, gateVars, sqVars, fbVars, ixVars, syVars, tmVars, asVars>>
Gate     == /\ part = "gate" /\ GateNext
            /\ UNCHANGED <<part, guiVars, sqVars, fbVars, ixVars, syVars, tmVars, asVars>>
Queue    == /\ part = "queue" /\ SqNext
            /\ UNCHANGED <<part, guiVars, gateVars, fbVars, ixVars, syVars, tmVars, asVars>>
Feedback == /\ part = "feedback" /\ FbNext
            /\ UNCHANGED <<part, guiVars, gateVars, sqVars, ixVars, syVars, tmVars, asVars>>
Sync     == /\ part = "sync" /\ SyNext
            /\ UNCHANGED <<part, guiVars, gateVars, sqVars, fbVars, ixVars, tmVars, asVars>>
Tokens   == /\ part = "tokens" /\ TmNext
            /\ UNCHANGED <<part, guiVars, gateVars, sqVars, fbVars, ixVars, syVars, asVars>>
Chat     == /\ part = "chat" /\ AsNext
            /\ UNCHANGED <<part, guiVars, gateVars, sqVars, fbVars, ixVars, syVars, tmVars>>

(* The integration runtime in two instances: two refreshes that overlap,   *)
(* without insights, and insights with the runtime loop's refresh only.    *)
(* The last prompt, which makes the inbox overflow, is offered in the one  *)
(* while no prompt is answered and in the other without insights.          *)
Loop     == CHOOSE r \in IxRefreshers : TRUE
Inbox    == /\ part = "inbox" /\ IxNext /\ ixProducer' = "idle"
            /\ ixPublished' < IxMaxPrompts \/ ixMessages' = 0
            /\ UNCHANGED <<part, guiVars, gateVars, sqVars, fbVars, syVars, tmVars, asVars>>
Outbox   == /\ part = "outbox" /\ IxNext
            /\ \A r \in IxRefreshers \ {Loop} : ixRefresh'[r] = IxNoRefresh
            /\ \/ ixPublished' < IxMaxPrompts
               \/ ixProducer' = "idle" /\ ixMem'.checkpoint = 0
            /\ UNCHANGED <<part, guiVars, gateVars, sqVars, fbVars, syVars, tmVars, asVars>>

Next ==
  Gui \/ Gate \/ Queue \/ Feedback \/ Inbox \/ Outbox \/ Sync \/ Tokens \/ Chat

Spec == Init /\ [][Next]_allVars

(* Type invariant of the service that moves, the bounds of its queues and  *)
(* tables included: the retry queue's max_size, the inbox's retained       *)
(* prompts, the suggestion queue's max_size, the sessions' limit.          *)
ServicesTypeOK ==
  /\ part = "gui" => GuiTypeOK
  /\ part = "gate" => GateTypeOK
  /\ part = "queue" => SqTypeOK
  /\ part = "feedback" => FbTypeOK
  /\ part \in {"inbox", "outbox"} => IxTypeOK
  /\ part = "sync" => SyTypeOK
  /\ part = "tokens" => TmTypeOK
  /\ part = "chat" => AsTypeOK
=============================================================================
