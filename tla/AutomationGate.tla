--------------------------- MODULE AutomationGate ---------------------------
(***************************************************************************)
(* The automation controller's command path: the confirmation prompt that  *)
(* a policy may ask for, PolicyClient::validate_command with its replay    *)
(* table, and the CommandExecutionGate that resolves the policy again,     *)
(* dispatches the action and writes the audit trail.                       *)
(*                                                                         *)
(* Commands run concurrently, carry tokens of one policy, and may reuse a  *)
(* command id.  Every lock is taken and released within one step, so a     *)
(* policy change can fall between any two of them.  A token's nonce,       *)
(* signature and command hash are taken to be right (a wrong one is denied *)
(* before the replay table is touched), and the cache's ttl_seconds is not *)
(* 0, which denies everything.  The caller waits for the command's result. *)
(***************************************************************************)
EXTENDS Integers, FiniteSets

CONSTANTS
  GateCommands,  \* commands that can be in progress at the same time
  GateIds,       \* command ids
  GateTokens,    \* policy tokens
  GateTtl,       \* ttl_seconds of the policy cache
  GateMaxClock   \* bound: seconds that pass

ASSUME GateAssumption ==
  /\ IsFiniteSet(GateCommands)
  /\ GateIds # {} /\ GateTokens # {}
  /\ GateTtl \in Nat \ {0} /\ GateMaxClock \in Nat

VARIABLES
  gateClock,     \* the wall clock, in seconds
  gatePolicy,    \* the cached policy: its confirmation requirement, or "none"
  gateUpdated,   \* last_updated
  gateValidated, \* validated_tokens: when each was validated, -1 when absent
  gatePending,   \* pending_confirmations: the command whose prompt an id holds
  gateCmd,       \* where each command is, with its id, token and stamped time
  gateAnswer,    \* what came over each command's oneshot channel
  gateApproved,  \* commands whose own prompt the user approved
  gateOpen,      \* commands whose Started entry in the audit log has no end yet
  gateAccepted   \* when each token was last accepted since update_policies, or -1

gateVars == <<gateClock, gatePolicy, gateUpdated, gateValidated, gatePending,
              gateCmd, gateAnswer, gateApproved, gateOpen, gateAccepted>>
gateCacheVars  == <<gatePolicy, gateUpdated, gateValidated, gateAccepted>>
gatePromptVars == <<gatePending, gateAnswer, gateApproved>>

GateRequirements == {"Auto", "Confirm", "Block"}
GateNobody == "nobody"

GateIdleIn(c) == gateCmd[c].at = "idle"
GateAt(c, place) == gateCmd[c].at = place
GateGoes(c, place) == gateCmd' = [gateCmd EXCEPT ![c].at = place]
GateNew(i, t) == [at |-> "idle", id |-> i, token |-> t, now |-> 0]
GateAnyNew == GateNew(CHOOSE i \in GateIds : TRUE, CHOOSE t \in GateTokens : TRUE)
GateEnds(c) == gateCmd' = [gateCmd EXCEPT ![c] = GateAnyNew]

GateInit ==
  /\ gateClock = 0 /\ gatePolicy = "none" /\ gateUpdated = 0
  /\ gateValidated = [t \in GateTokens |-> -1]
  /\ gateAccepted = [t \in GateTokens |-> -1]
  /\ gatePending = [i \in GateIds |-> GateNobody]
  /\ gateCmd = [c \in GateCommands |-> GateAnyNew]
  /\ gateAnswer = [c \in GateCommands |-> "closed"]
  /\ gateApproved = {}
  /\ gateOpen = {}

-----------------------------------------------------------------------------
(***************************************************************************)
(* execute_command: the confirmation.                                      *)
(***************************************************************************)

(* The sender that an insert or a remove drops closes its channel. *)
GateDropSender(i, answers) ==
  IF gatePending[i] # GateNobody /\ answers[gatePending[i]] = "open"
  THEN [answers EXCEPT ![gatePending[i]] = "closed"]
  ELSE answers

(* The policy is looked up by the token and its requirement decides.  A    *)
(* token whose policy is not cached goes straight to the gate.  A prompt   *)
(* is registered under the command id, over any prompt that id has.        *)
GateExecute(c, i, t) ==
  /\ GateIdleIn(c)
  /\ gateApproved' = gateApproved \ {c}
  /\ CASE gatePolicy = "Confirm" ->
            /\ gateCmd' = [gateCmd EXCEPT ![c] = [GateNew(i, t) EXCEPT !.at = "ask"]]
            /\ gatePending' = [gatePending EXCEPT ![i] = c]
            /\ gateAnswer' = [GateDropSender(i, gateAnswer) EXCEPT ![c] = "open"]
       [] gatePolicy = "Block" ->
            UNCHANGED <<gateCmd, gatePending, gateAnswer>>
       [] OTHER ->
            /\ gateCmd' = [gateCmd EXCEPT ![c] = [GateNew(i, t) EXCEPT !.at = "stamp"]]
            /\ UNCHANGED <<gatePending, gateAnswer>>
  /\ UNCHANGED <<gateClock, gateCacheVars, gateOpen>>

(* A send to a receiver that is gone has no effect. *)
GateSend(c, answer) ==
  IF gateAnswer[c] = "open" THEN [gateAnswer EXCEPT ![c] = answer] ELSE gateAnswer

(* Mutant of GateSubmit: the prompt's nonce is not compared. *)
GateSubmitAnyNonce(i, prompt, approved) ==
  /\ gatePending[i] # GateNobody
  /\ gatePending' = [gatePending EXCEPT ![i] = GateNobody]
  /\ gateAnswer' = GateSend(gatePending[i], IF approved THEN "yes" ELSE "no")
  /\ gateApproved' = IF approved THEN gateApproved \cup {prompt} ELSE gateApproved
  /\ UNCHANGED <<gateClock, gateCacheVars, gateCmd, gateOpen>>

(* submit_confirmation: the user answers the prompt of one command, which  *)
(* may no longer be the one registered under that id; the nonce tells.     *)
GateSubmit(i, prompt, approved) ==
  /\ gatePending[i] = prompt
  /\ gatePending' = [gatePending EXCEPT ![i] = GateNobody]
  /\ gateAnswer' = GateSend(prompt, IF approved THEN "yes" ELSE "no")
  /\ gateApproved' = IF approved THEN gateApproved \cup {prompt} ELSE gateApproved
  /\ UNCHANGED <<gateClock, gateCacheVars, gateCmd, gateOpen>>

(* The receiver gets the answer: an approval goes on to the gate, a denial *)
(* ends the command.                                                       *)
GateAnswered(c) ==
  /\ GateAt(c, "ask") /\ gateAnswer[c] \in {"yes", "no"}
  /\ IF gateAnswer[c] = "yes" THEN GateGoes(c, "stamp") ELSE GateEnds(c)
  /\ gateAnswer' = [gateAnswer EXCEPT ![c] = "closed"]
  /\ UNCHANGED <<gateClock, gateCacheVars, gatePending, gateApproved, gateOpen>>

(* The 30 s pass, or the channel is closed.  The receiver is gone from     *)
(* here on, and a late approval is sent to nobody.                         *)
GateAskFails(c) ==
  /\ GateAt(c, "ask") /\ gateAnswer[c] \in {"open", "closed"}
  /\ GateGoes(c, "unask")
  /\ gateAnswer' = [gateAnswer EXCEPT ![c] = "closed"]
  /\ UNCHANGED <<gateClock, gateCacheVars, gatePending, gateApproved, gateOpen>>

(* Whatever prompt the id has by now is removed, and the command denied. *)
GateUnask(c) ==
  /\ GateAt(c, "unask")
  /\ LET i == gateCmd[c].id
     IN  /\ gateAnswer' = GateDropSender(i, gateAnswer)
         /\ gatePending' = [gatePending EXCEPT ![i] = GateNobody]
  /\ GateEnds(c)
  /\ gateApproved' = gateApproved \ {c}
  /\ UNCHANGED <<gateClock, gateCacheVars, gateOpen>>

-----------------------------------------------------------------------------
(***************************************************************************)
(* CommandExecutionGate::execute.                                          *)
(***************************************************************************)

(* validate_command reads the clock once, and judges by it from then on. *)
GateStamp(c) ==
  /\ GateAt(c, "stamp")
  /\ gateCmd' = [gateCmd EXCEPT ![c].at = "fresh", ![c].now = gateClock]
  /\ UNCHANGED <<gateClock, gateCacheVars, gatePromptVars, gateOpen>>

(* The gate refuses: a Denied entry is logged, which opens and ends nothing. *)
GateDeny(c) == GateEnds(c) /\ UNCHANGED gateOpen

(* The cache's age: an update later than the stamped time makes it         *)
(* negative, which the cast to u64 turns into a very large one.            *)
GateFresh(c) ==
  LET elapsed == gateCmd[c].now - gateUpdated
  IN  /\ GateAt(c, "fresh")
      /\ IF elapsed \in 0..(GateTtl - 1)
         THEN GateGoes(c, "policy") /\ UNCHANGED gateOpen
         ELSE GateDeny(c)
      /\ UNCHANGED <<gateClock, gateCacheVars, gatePromptVars>>

GateLookup(c) ==
  /\ GateAt(c, "policy")
  /\ IF gatePolicy # "none"
     THEN GateGoes(c, "claim") /\ UNCHANGED gateOpen
     ELSE GateDeny(c)
  /\ UNCHANGED <<gateClock, gateCacheVars, gatePromptVars>>

(* validated_tokens.retain: what the stamped time says is younger than the *)
(* ttl stays.                                                              *)
GateRetained(now) ==
  [t \in GateTokens |-> IF now - gateValidated[t] < GateTtl THEN gateValidated[t] ELSE -1]

(* Under the write lock: old entries go, and the token must be new. *)
GateClaim(c) ==
  LET t == gateCmd[c].token
      kept == GateRetained(gateCmd[c].now)
  IN  /\ GateAt(c, "claim")
      /\ IF kept[t] = -1
         THEN /\ gateValidated' = [kept EXCEPT ![t] = gateCmd[c].now]
              /\ gateAccepted' = [gateAccepted EXCEPT ![t] = gateCmd[c].now]
              /\ GateGoes(c, "start") /\ UNCHANGED gateOpen
         ELSE /\ gateValidated' = kept /\ UNCHANGED gateAccepted
              /\ GateDeny(c)
      /\ UNCHANGED <<gateClock, gatePolicy, gateUpdated, gatePromptVars>>

(* The sandbox and the audit level are resolved from the policy as it is   *)
(* now (the strict default when it is gone) and the start is logged, or    *)
(* not, when the policy's audit level is None.                             *)
GateStart(c) ==
  /\ GateAt(c, "start")
  /\ GateGoes(c, "dispatch")
  /\ \/ gateOpen' = gateOpen \cup {c}
     \/ gatePolicy # "none" /\ UNCHANGED gateOpen
  /\ UNCHANGED <<gateClock, gateCacheVars, gatePromptVars>>

(* The dispatch ends, which is logged at the audit level resolved before   *)
(* it, or is cut off by its timeout, which is always logged.               *)
GateFinish(c) ==
  /\ GateAt(c, "dispatch")
  /\ gateOpen' = gateOpen \ {c}
  /\ GateEnds(c)
  /\ UNCHANGED <<gateClock, gateCacheVars, gatePromptVars>>

-----------------------------------------------------------------------------
(***************************************************************************)
(* Policy management.                                                      *)
(***************************************************************************)

(* update_policies replaces the list and empties the replay table. *)
GateUpdatePolicies(p) ==
  /\ gatePolicy' = p
  /\ gateUpdated' = gateClock
  /\ gateValidated' = [t \in GateTokens |-> -1]
  /\ gateAccepted' = [t \in GateTokens |-> -1]
  /\ UNCHANGED <<gateClock, gatePromptVars, gateCmd, gateOpen>>

(* Mutant of GateAddPolicy: it empties the replay table as well. *)
GateAddPolicyClears(p) ==
  /\ gatePolicy' = p
  /\ gateUpdated' = gateClock
  /\ gateValidated' = [t \in GateTokens |-> -1]
  /\ UNCHANGED <<gateClock, gatePromptVars, gateCmd, gateOpen, gateAccepted>>

(* add_policy replaces one policy and makes the cache fresh again. *)
GateAddPolicy(p) ==
  /\ gatePolicy' = p
  /\ gateUpdated' = gateClock
  /\ UNCHANGED <<gateClock, gateValidated, gateAccepted, gatePromptVars, gateCmd, gateOpen>>

GateRemovePolicy ==
  /\ gatePolicy # "none"
  /\ gatePolicy' = "none"
  /\ gateUpdated' = gateClock
  /\ UNCHANGED <<gateClock, gateValidated, gateAccepted, gatePromptVars, gateCmd, gateOpen>>

GateTick ==
  /\ gateClock < GateMaxClock
  /\ gateClock' = gateClock + 1
  /\ UNCHANGED <<gateCacheVars, gatePromptVars, gateCmd, gateOpen>>

GateStep(c) ==
  \/ \E i \in GateIds, t \in GateTokens : GateExecute(c, i, t)
  \/ GateAnswered(c) \/ GateAskFails(c) \/ GateUnask(c)
  \/ GateStamp(c) \/ GateFresh(c) \/ GateLookup(c) \/ GateClaim(c)
  \/ GateStart(c) \/ GateFinish(c)

GateNext ==
  \/ \E c \in GateCommands : GateStep(c)
  \/ \E i \in GateIds, c \in GateCommands, approved \in BOOLEAN : GateSubmit(i, c, approved)
  \/ \E p \in GateRequirements \cup {"none"} : GateUpdatePolicies(p)
  \/ \E p \in GateRequirements : GateAddPolicy(p)
  \/ GateRemovePolicy \/ GateTick

GateSpec == GateInit /\ [][GateNext]_gateVars

-----------------------------------------------------------------------------
(***************************************************************************)
(* Properties.                                                             *)
(***************************************************************************)
GatePlaces == {"idle", "ask", "unask", "stamp", "fresh", "policy", "claim", "start",
               "dispatch"}

(* Type invariant of the command path. *)
GateTypeOK ==
  /\ gateClock \in 0..GateMaxClock /\ gateUpdated \in 0..GateMaxClock
  /\ gatePolicy \in GateRequirements \cup {"none"}
  /\ gateValidated \in [GateTokens -> -1..GateMaxClock]
  /\ gateAccepted \in [GateTokens -> -1..GateMaxClock]
  /\ gatePending \in [GateIds -> GateCommands \cup {GateNobody}]
  /\ gateCmd \in [GateCommands -> [at : GatePlaces, id : GateIds, token : GateTokens,
                                   now : 0..GateMaxClock]]
  /\ gateAnswer \in [GateCommands -> {"open", "closed", "yes", "no"}]
  /\ gateApproved \subseteq GateCommands
  /\ gateOpen \subseteq {c \in GateCommands : GateAt(c, "dispatch")}

(* A token is accepted again no sooner than ttl_seconds after the time its *)
(* last acceptance was stamped, unless update_policies emptied the table   *)
(* in between: a validation that was stalled between reading the clock and *)
(* taking the lock, a policy added or removed, or another token's purge    *)
(* opens no earlier replay (policy/mod.rs:59-162).                         *)
GateTokenOncePerTtl ==
  [][ \A c \in GateCommands, t \in GateTokens :
        gateCmd[c].token = t /\ GateAt(c, "claim") /\ gateCmd'[c].at = "start"
        /\ gateAccepted[t] # -1
          => gateClock - gateAccepted[t] >= GateTtl ]_gateVars

(* A command that asked for confirmation reaches the gate only if the user *)
(* approved its own prompt, though another command under the same id may   *)
(* have taken the prompt's place, timed out or been answered late.         *)
GateRunsOnlyIfApproved ==
  [][ \A c \in GateCommands :
        GateAt(c, "ask") /\ gateCmd'[c].at = "stamp" => c \in gateApproved ]_gateVars
=============================================================================
