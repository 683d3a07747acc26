------------------------- MODULE UpdateCoordinator -------------------------
(***************************************************************************)
(* The update coordinator (src-tauri/src/update_coordinator.rs): one task  *)
(* that checks for releases, downloads and installs them, and serves the   *)
(* user's actions from an unbounded channel.  The status it publishes is   *)
(* shared: the startup check (src-tauri/src/update_runtime.rs) and the     *)
(* rollback notice (UpdateControl::set_rolled_back) write the same phase   *)
(* and the same pending release, whatever the coordinator is doing.        *)
(*                                                                         *)
(* One step is one hold of the status lock, or one answer from the         *)
(* network.  Message texts and download progress are left out.  The        *)
(* success branch of run_install is the end of this process: on Unix the   *)
(* restart replaces it and never returns Ok.                               *)
(***************************************************************************)
EXTENDS Naturals, Sequences

CONSTANTS
    MaxVersion,   \* newest version the server ever offers; the running one is 0
    MaxActions,   \* bound on the actions the user sends
    MaxReleases   \* bound on how often the server's offer changes

ASSUME MaxVersionAssumption == MaxVersion \in Nat \ {0}
ASSUME MaxActionsAssumption == MaxActions \in Nat
ASSUME MaxReleasesAssumption == MaxReleases \in Nat

VARIABLES
    phase,     \* UpdateStatus.phase
    pending,   \* UpdateStatus.pending
    pc,        \* where the coordinator stands
    path,      \* downloaded_path: the release whose asset was downloaded
    want,      \* the release run_download works on
    file,      \* the release run_install has taken
    queue,     \* the action channel
    startup,   \* the startup check
    found,     \* the release the startup check was told of
    notice,    \* whether a rollback left a notice that is still to be published
    server,    \* what a check would be told now
    sent,      \* actions sent so far
    releases,  \* changes of the server's offer so far
    auto       \* config.auto_install, which the coordinator reads as it starts

coordVars == <<pc, path, want, file>>
taskVars  == <<startup, found, notice>>
envVars   == <<server, sent, releases, auto>>
vars == <<phase, pending, coordVars, queue, taskVars, envVars>>

Phases == {"Idle", "Checking", "PendingApproval", "Downloading", "ReadyToInstall",
           "Installing", "Deferred", "Error", "RolledBack"}

Actions == {"CheckNow", "Approve", "Defer"}

\* A release a check can offer: its version and the kind of asset selected.
Offers  == [ver : 1 .. MaxVersion, asset : {"full", "patch"}]
NoOffer == [ver |-> 0, asset |-> "none"]

Init ==
    /\ phase = "Idle" /\ pending = NoOffer
    /\ pc = "start" /\ path = NoOffer /\ want = NoOffer /\ file = NoOffer
    /\ queue = <<>>
    /\ startup = "asking" /\ found = NoOffer
    /\ notice \in BOOLEAN /\ auto \in BOOLEAN
    /\ server \in Offers \cup {NoOffer}
    /\ sent = 0 /\ releases = 0

-----------------------------------------------------------------------------
(* Everything outside the coordinator.                                     *)

\* The process lives until an install replaces it.
Alive == pc # "gone"

\* A release is published, or withdrawn (rollout 0, an unlucky bucket).
ServerChanges ==
    /\ Alive /\ releases < MaxReleases
    /\ server' \in {o \in Offers : o.ver > server.ver} \cup {NoOffer}
    /\ server' # server
    /\ releases' = releases + 1
    /\ UNCHANGED <<phase, pending, coordVars, queue, taskVars, sent, auto>>

\* post_update_action and the tray queue an action, in whatever phase.
Send(a) ==
    /\ Alive /\ sent < MaxActions
    /\ queue' = Append(queue, a)
    /\ sent' = sent + 1
    /\ UNCHANGED <<phase, pending, coordVars, taskVars, server, releases, auto>>

\* The startup check is answered; an error and the 3 s timeout end it.
StartupAnswered ==
    /\ Alive /\ startup = "asking"
    /\ \/ /\ server # NoOffer
          /\ found' = server
          /\ startup' = "found"
       \/ /\ startup' = "done"
          /\ UNCHANGED found
    /\ UNCHANGED <<phase, pending, coordVars, queue, notice, envVars>>

\* What it found is written over the shared status.
StartupPublishes ==
    /\ Alive /\ startup = "found"
    /\ phase' = "PendingApproval" /\ pending' = found
    /\ startup' = "published" /\ found' = NoOffer
    /\ UNCHANGED <<coordVars, queue, notice, envVars>>

\* set_rolled_back.
SetRolledBack ==
    /\ Alive /\ notice
    /\ phase' = "RolledBack"
    /\ notice' = FALSE
    /\ UNCHANGED <<pending, coordVars, queue, startup, found, envVars>>

-----------------------------------------------------------------------------
(* The coordinator.                                                        *)

Quiet == UNCHANGED <<queue, taskVars, envVars>>

\* An error is shown; the pending release stays.  run_install shows its own and
\* its caller shows it once more: one step.
EmitError ==
    /\ phase' = "Error"
    /\ pc' = "loop"
    /\ UNCHANGED pending

\* The initial check runs unless the last one was recent.
InitialCheck ==
    /\ pc = "start"
    /\ pc' \in {"check", "loop"}
    /\ UNCHANGED <<phase, pending, path, want, file>> /\ Quiet

BeginCheck ==
    /\ pc = "check"
    /\ phase' = "Checking" /\ pending' = NoOffer
    /\ pc' = "checking"
    /\ UNCHANGED <<path, want, file>> /\ Quiet

CheckAnsweredUpToDate ==
    /\ pc = "checking" /\ server = NoOffer
    /\ phase' = "Idle" /\ pending' = NoOffer
    /\ pc' = "loop"
    /\ UNCHANGED <<path, want, file>> /\ Quiet

CheckAnsweredAvailable ==
    /\ pc = "checking" /\ server # NoOffer
    /\ phase' = "PendingApproval" /\ pending' = server
    /\ pc' = IF auto THEN "download" ELSE "loop"
    /\ UNCHANGED <<path, want, file>> /\ Quiet

CheckFails ==
    /\ pc = "checking"
    /\ phase' = "Error" /\ pending' = NoOffer
    /\ pc' = "loop"
    /\ UNCHANGED <<path, want, file>> /\ Quiet

\* run_download reads the pending release; without one it returns Ok.
DownloadReads ==
    /\ pc = "download"
    /\ IF pending # NoOffer
         THEN /\ want' = pending
              /\ pc' = "mark"
              /\ UNCHANGED phase
         ELSE /\ phase' = "Idle"
              /\ pc' = IF auto THEN "install" ELSE "loop"
              /\ UNCHANGED want
    /\ UNCHANGED <<pending, path, file>> /\ Quiet

DownloadStarts ==
    /\ pc = "mark"
    /\ phase' = "Downloading"
    /\ pc' = "downloading"
    /\ UNCHANGED <<pending, path, want, file>> /\ Quiet

DownloadCompletes ==
    /\ pc = "downloading"
    /\ path' = want /\ want' = NoOffer
    /\ phase' = "ReadyToInstall"
    /\ pc' = IF auto THEN "install" ELSE "loop"
    /\ UNCHANGED <<pending, file>> /\ Quiet

DownloadFailsSilently ==   \* mutant: the caller does not report the error
    /\ pc = "downloading"
    /\ path' = NoOffer /\ want' = NoOffer
    /\ pc' = "loop"
    /\ UNCHANGED <<phase, pending, file>> /\ Quiet

DownloadFailsStops ==   \* mutant: the error propagates out of the loop
    /\ pc = "downloading"
    /\ path' = NoOffer /\ want' = NoOffer
    /\ phase' = "Error"
    /\ pc' = "stopped"
    /\ UNCHANGED <<pending, file>> /\ Quiet

\* A network, checksum or signature error.
DownloadFails ==
    /\ pc = "downloading"
    /\ path' = NoOffer /\ want' = NoOffer
    /\ EmitError
    /\ UNCHANGED file /\ Quiet

\* run_install takes the downloaded path; without one it is an error.
InstallStarts ==
    /\ pc = "install"
    /\ IF path # NoOffer
         THEN /\ file' = path
              /\ phase' = "Installing"
              /\ pc' = "installing"
              /\ UNCHANGED pending
         ELSE EmitError /\ UNCHANGED file
    /\ path' = NoOffer
    /\ UNCHANGED want /\ Quiet

InstallFailsKeepsFile ==   \* mutant: the taken file is not let go
    /\ pc = "installing"
    /\ EmitError
    /\ UNCHANGED <<path, want, file>> /\ Quiet

InstallFails ==
    /\ pc = "installing"
    /\ file' = NoOffer
    /\ EmitError
    /\ UNCHANGED <<path, want>> /\ Quiet

\* The restart succeeded: this process is no more.
InstallReplacesProcess ==
    /\ pc = "installing"
    /\ pc' = "gone"
    /\ UNCHANGED <<phase, pending, path, want, file>> /\ Quiet

-----------------------------------------------------------------------------
Received(a) ==
    /\ pc = "loop" /\ queue # <<>> /\ Head(queue) = a
    /\ queue' = Tail(queue)
    /\ UNCHANGED <<phase, pending, path, want, file, taskVars, envVars>>

ServeCheckNow ==
    /\ Received("CheckNow")
    /\ pc' = "check"

ServeApproveReusesFile ==   \* mutant: a file already there is not downloaded again
    /\ Received("Approve")
    /\ pc' = CASE phase = "PendingApproval" -> IF path = NoOffer THEN "download"
                                                                 ELSE "install"
               [] phase = "ReadyToInstall"  -> "install"
               [] OTHER                     -> "loop"

ServeApproveOnceIsEnough ==   \* mutant: any approval leads to the installer
    /\ Received("Approve")
    /\ pc' = CASE phase = "PendingApproval" -> "install"
               [] phase = "ReadyToInstall"  -> "install"
               [] OTHER                     -> "loop"

\* An approval is judged by the phase at the time it is served.
ServeApprove ==
    /\ Received("Approve")
    /\ pc' = CASE phase = "PendingApproval" -> "download"
               [] phase = "ReadyToInstall"  -> "install"
               [] OTHER                     -> "loop"

ServeDefer ==
    /\ Received("Defer")
    /\ pc' = IF phase \in {"PendingApproval", "ReadyToInstall"} THEN "defer" ELSE "loop"

Deferred ==
    /\ pc = "defer"
    /\ path' = NoOffer
    /\ phase' = "Deferred" /\ pending' = NoOffer
    /\ pc' = "loop"
    /\ UNCHANGED <<want, file>> /\ Quiet

\* The periodic re-check leaves a phase that awaits something alone.
RecheckTick ==
    /\ pc = "loop"
    /\ phase \in {"Idle", "Deferred", "Error"}
    /\ pc' = "check"
    /\ UNCHANGED <<phase, pending, path, want, file>> /\ Quiet

CheckAnswered == CheckAnsweredUpToDate \/ CheckAnsweredAvailable \/ CheckFails

DownloadEnds == DownloadCompletes \/ DownloadFails

InstallEnds == InstallFails \/ InstallReplacesProcess

Serve == ServeCheckNow \/ ServeApprove \/ ServeDefer

Coordinator ==
    \/ InitialCheck
    \/ BeginCheck
    \/ CheckAnswered
    \/ DownloadReads
    \/ DownloadStarts
    \/ DownloadEnds
    \/ InstallStarts
    \/ InstallEnds
    \/ Deferred

Next ==
    \/ Coordinator
    \/ Serve
    \/ RecheckTick
    \/ ServerChanges
    \/ \E a \in Actions : Send(a)
    \/ StartupAnswered
    \/ StartupPublishes
    \/ SetRolledBack

Spec == Init /\ [][Next]_vars

(***************************************************************************)
(* Fairness.  The tasks run, the recheck timer ticks, tokio's select does  *)
(* not starve the action channel, and the network answers or breaks: the   *)
(* HTTP client has no timeout of its own, so the last is an assumption on  *)
(* the peer.                                                               *)
(***************************************************************************)
FairSpec ==
    /\ Spec
    /\ WF_vars(Coordinator)
    /\ SF_vars(Serve)
    /\ WF_vars(RecheckTick)
    /\ WF_vars(StartupAnswered)
    /\ WF_vars(StartupPublishes)
    /\ WF_vars(SetRolledBack)

-----------------------------------------------------------------------------
\* Types, and that a file is held exactly while it is being installed.
TypeOK ==
    /\ file # NoOffer <=> pc \in {"installing", "gone"}
    /\ phase \in Phases
    /\ {pending, path, want, file, found, server} \subseteq Offers \cup {NoOffer}
    /\ pc \in {"start", "check", "checking", "download", "mark", "downloading",
               "install", "installing", "loop", "defer", "gone"}
    /\ queue \in Seq(Actions)
    /\ Len(queue) <= sent
    /\ startup \in {"asking", "found", "published", "done"}
    /\ notice \in BOOLEAN /\ auto \in BOOLEAN
    /\ sent \in 0 .. MaxActions /\ releases \in 0 .. MaxReleases

\* run_install always finds the downloaded file, whoever overwrites the shared
\* phase while the coordinator is between its two halves.
InstallHasFile ==
    /\ pc = "install" => path # NoOffer
    /\ phase = "ReadyToInstall" => path # NoOffer

\* What is installed is the release the status shows, however checks,
\* approvals and deferrals follow each other; only a startup check that has
\* written its own finding can make the two differ (run_download, run_install).
InstallsWhatIsShown ==
    pc = "installing" /\ startup # "published" => file = pending

\* A phase that says something is under way does not stay for ever
\* (emit_error after every failure).
TransientPhasesEnd ==
    \A p \in {"Checking", "Downloading", "Installing"} :
        (phase = p) ~> (phase # p \/ pc = "gone")

\* Every action the user sends is served unless an install ends the process
\* first.
ActionsAreServed == (queue # <<>>) ~> (queue = <<>> \/ pc = "gone")

\* crates/oneshim-web/frontend/src/i18n/locales/en.json:587, of auto_install:
\* "Installs updates immediately after detection".
DetectedUpdatesProceed ==
    (auto /\ phase = "PendingApproval") ~> (phase # "PendingApproval")

\* docs/specs/phase15-auto-update-ux-spec.md:324: the patched result "is
\* identical to a fresh download": what is installed is a full binary.
InstallsFullBinary == pc = "installing" => file.asset = "full"

=============================================================================
