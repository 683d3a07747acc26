---------------------- MODULE UpdateCoordinatorProofs ----------------------
(***************************************************************************)
(* For every number of versions, actions and releases, with and without    *)
(* auto_install: the installer always finds the downloaded file, and       *)
(* installs the release the status shows.  Both rest on what the shared    *)
(* phase means to whoever reads it next, which is what FileInv and         *)
(* ShownInv record.                                                        *)
(***************************************************************************)
EXTENDS UpdateCoordinator, TLAPS

\* A phase that invites an approval comes with what the approval needs.
FileInv ==
    /\ startup = "found" => found # NoOffer
    /\ phase = "PendingApproval" => pending # NoOffer
    /\ pc = "download" => pending # NoOffer
    /\ pc \in {"mark", "downloading"} => want # NoOffer
    /\ InstallHasFile

\* Without a word from the startup check, everything under way concerns the
\* release that is shown.
ShownInv ==
    startup # "published" =>
        /\ pc \in {"mark", "downloading"} => want = pending
        /\ pc = "install" => path = pending
        /\ phase = "ReadyToInstall" => path = pending
        /\ pc = "installing" => file = pending

Inv == FileInv /\ ShownInv

-----------------------------------------------------------------------------
\* A coordinator that has not started has nothing to download or install.
LEMMA InitInv == Init => Inv
  BY DEF Init, Inv, FileInv, ShownInv, InstallHasFile

\* The tasks beside the coordinator.
LEMMA OthersKeepInv ==
    ASSUME Inv,
           \/ ServerChanges \/ (\E a \in Actions : Send(a)) \/ StartupAnswered
           \/ StartupPublishes \/ SetRolledBack
    PROVE  Inv'
  <1>1. CASE ServerChanges
    BY <1>1 DEF Inv, FileInv, ShownInv, InstallHasFile, ServerChanges, coordVars, taskVars
  <1>2. CASE \E a \in Actions : Send(a)
    BY <1>2 DEF Inv, FileInv, ShownInv, InstallHasFile, Send, coordVars, taskVars
  <1>3. CASE StartupAnswered
    BY <1>3 DEF Inv, FileInv, ShownInv, InstallHasFile, StartupAnswered, coordVars
  <1>4. CASE StartupPublishes
    BY <1>4 DEF Inv, FileInv, ShownInv, InstallHasFile, StartupPublishes, coordVars
  <1>5. CASE SetRolledBack
    BY <1>5 DEF Inv, FileInv, ShownInv, InstallHasFile, SetRolledBack, coordVars
  <1>6. QED
    BY <1>1, <1>2, <1>3, <1>4, <1>5

\* The actions of the user as the coordinator serves them.
LEMMA ServeKeepsInv ==
    ASSUME Inv, Serve
    PROVE  Inv'
  <1>1. CASE ServeCheckNow
    BY <1>1 DEF Inv, FileInv, ShownInv, InstallHasFile, ServeCheckNow, Received, taskVars
  <1>2. CASE ServeApprove
    BY <1>2 DEF Inv, FileInv, ShownInv, InstallHasFile, ServeApprove, Received, taskVars
  <1>3. CASE ServeDefer
    BY <1>3 DEF Inv, FileInv, ShownInv, InstallHasFile, ServeDefer, Received, taskVars
  <1>4. QED
    BY <1>1, <1>2, <1>3 DEF Serve

\* The coordinator's own steps.
LEMMA CoordinatorKeepsInv ==
    ASSUME Inv, Coordinator \/ RecheckTick
    PROVE  Inv'
  <1>1. CASE InitialCheck \/ BeginCheck \/ RecheckTick \/ Deferred
    BY <1>1 DEF Inv, FileInv, ShownInv, InstallHasFile, InitialCheck, BeginCheck,
                RecheckTick, Deferred, Quiet, taskVars
  <1>2. CASE CheckAnswered
    BY <1>2 DEF Inv, FileInv, ShownInv, InstallHasFile, CheckAnswered,
                CheckAnsweredUpToDate, CheckAnsweredAvailable, CheckFails, Quiet, taskVars
  <1>3. CASE DownloadReads \/ DownloadStarts
    BY <1>3 DEF Inv, FileInv, ShownInv, InstallHasFile, DownloadReads, DownloadStarts,
                Quiet, taskVars
  <1>4. CASE DownloadEnds
    BY <1>4 DEF Inv, FileInv, ShownInv, InstallHasFile, DownloadEnds, DownloadCompletes,
                DownloadFails, EmitError, Quiet, taskVars
  <1>5. CASE InstallStarts
    BY <1>5 DEF Inv, FileInv, ShownInv, InstallHasFile, InstallStarts, EmitError,
                Quiet, taskVars
  <1>6. CASE InstallEnds
    BY <1>6 DEF Inv, FileInv, ShownInv, InstallHasFile, InstallEnds, InstallFails,
                InstallReplacesProcess, EmitError, Quiet, taskVars
  <1>7. QED
    BY <1>1, <1>2, <1>3, <1>4, <1>5, <1>6 DEF Coordinator

\* Every step of the coordinator and of the tasks beside it keeps the
\* invariant.
LEMMA NextInv == Inv /\ [Next]_vars => Inv'
  <1> SUFFICES ASSUME Inv, [Next]_vars PROVE Inv'
    OBVIOUS
  <1>1. CASE UNCHANGED vars
    BY <1>1 DEF Inv, FileInv, ShownInv, InstallHasFile, vars, coordVars, taskVars
  <1>2. QED
    BY <1>1, OthersKeepInv, ServeKeepsInv, CoordinatorKeepsInv DEF Next

\* run_install never takes its "No downloaded file" branch, and
\* ReadyToInstall is shown only while a file is there.
THEOREM InstallerFindsItsFile == Spec => []InstallHasFile
  <1>1. Inv => InstallHasFile
    BY DEF Inv, FileInv
  <1>2. QED
    BY <1>1, InitInv, NextInv, PTL DEF Spec

\* The release that is installed is the one the status shows, unless the
\* startup check wrote its own finding over it.
THEOREM ShownIsInstalled == Spec => []InstallsWhatIsShown
  <1>1. Inv => InstallsWhatIsShown
    BY DEF Inv, ShownInv, InstallsWhatIsShown
  <1>2. QED
    BY <1>1, InitInv, NextInv, PTL DEF Spec

-----------------------------------------------------------------------------
(***************************************************************************)
(* Type correctness, in three parts: the releases that are passed around,  *)
(* the control state, and the channel with its bounds.                     *)
(***************************************************************************)
ReleasesOK == {pending, path, want, file, found, server} \subseteq Offers \cup {NoOffer}

ControlOK ==
    /\ file # NoOffer <=> pc \in {"installing", "gone"}
    /\ phase \in Phases
    /\ pc \in {"start", "check", "checking", "download", "mark", "downloading",
               "install", "installing", "loop", "defer", "gone"}
    /\ startup \in {"asking", "found", "published", "done"}
    /\ notice \in BOOLEAN /\ auto \in BOOLEAN

ChannelOK ==
    /\ queue \in Seq(Actions)
    /\ Len(queue) <= sent
    /\ sent \in 0 .. MaxActions /\ releases \in 0 .. MaxReleases

\* Releases are only handed on.
LEMMA NextReleases ==
    ASSUME ReleasesOK, [Next]_vars
    PROVE  ReleasesOK'
  <1> USE DEF ReleasesOK
  <1>1. CASE ServerChanges \/ StartupAnswered \/ StartupPublishes \/ SetRolledBack
    BY <1>1 DEF ServerChanges, StartupAnswered, StartupPublishes, SetRolledBack,
                coordVars, taskVars, envVars
  <1>2. CASE (\E a \in Actions : Send(a)) \/ Serve \/ RecheckTick \/ UNCHANGED vars
    BY <1>2 DEF Send, Serve, ServeCheckNow, ServeApprove, ServeDefer, Received,
                RecheckTick, Quiet, coordVars, taskVars, envVars, vars
  <1>3. CASE InitialCheck \/ BeginCheck \/ CheckAnswered \/ Deferred
    BY <1>3 DEF InitialCheck, BeginCheck, CheckAnswered, CheckAnsweredUpToDate,
                CheckAnsweredAvailable, CheckFails, Deferred, Quiet, taskVars, envVars
  <1>4. CASE DownloadReads \/ DownloadStarts \/ DownloadEnds
    BY <1>4 DEF DownloadReads, DownloadStarts, DownloadEnds, DownloadCompletes,
                DownloadFails, EmitError, Quiet, taskVars, envVars
  <1>5. CASE InstallStarts \/ InstallEnds
    BY <1>5 DEF InstallStarts, InstallEnds, InstallFails, InstallReplacesProcess,
                EmitError, Quiet, taskVars, envVars
  <1>6. QED
    BY <1>1, <1>2, <1>3, <1>4, <1>5 DEF Next, Coordinator

\* A file is taken as the install starts and let go as it fails.
LEMMA NextControl ==
    ASSUME ControlOK, [Next]_vars
    PROVE  ControlOK'
  <1> USE DEF ControlOK, Phases
  <1>1. CASE ServerChanges \/ StartupAnswered \/ StartupPublishes \/ SetRolledBack
    BY <1>1 DEF ServerChanges, StartupAnswered, StartupPublishes, SetRolledBack,
                coordVars, taskVars, envVars
  <1>2. CASE (\E a \in Actions : Send(a)) \/ Serve \/ RecheckTick \/ UNCHANGED vars
    BY <1>2 DEF Send, Serve, ServeCheckNow, ServeApprove, ServeDefer, Received,
                RecheckTick, Quiet, coordVars, taskVars, envVars, vars
  <1>3. CASE InitialCheck \/ BeginCheck \/ CheckAnswered \/ Deferred
    BY <1>3 DEF InitialCheck, BeginCheck, CheckAnswered, CheckAnsweredUpToDate,
                CheckAnsweredAvailable, CheckFails, Deferred, Quiet, taskVars, envVars
  <1>4. CASE DownloadReads \/ DownloadStarts \/ DownloadEnds
    BY <1>4 DEF DownloadReads, DownloadStarts, DownloadEnds, DownloadCompletes,
                DownloadFails, EmitError, Quiet, taskVars, envVars
  <1>5. CASE InstallStarts \/ InstallEnds
    BY <1>5 DEF InstallStarts, InstallEnds, InstallFails, InstallReplacesProcess,
                EmitError, Quiet, taskVars, envVars
  <1>6. QED
    BY <1>1, <1>2, <1>3, <1>4, <1>5 DEF Next, Coordinator

\* The channel never holds more than was sent.
LEMMA NextChannel ==
    ASSUME ChannelOK, [Next]_vars
    PROVE  ChannelOK'
  <1>1. CASE UNCHANGED <<queue, sent, releases>>
    BY <1>1 DEF ChannelOK
  <1>2. CASE ServerChanges
    BY <1>2, MaxReleasesAssumption DEF ServerChanges, ChannelOK
  <1>3. CASE \E a \in Actions : Send(a)
    BY <1>3, MaxActionsAssumption DEF Send, ChannelOK
  <1>4. CASE Serve
    BY <1>4 DEF Serve, ServeCheckNow, ServeApprove, ServeDefer, Received, ChannelOK,
                envVars
  <1>5. QED
    BY <1>1, <1>2, <1>3, <1>4 DEF Next, vars, envVars, Coordinator, InitialCheck,
       BeginCheck, CheckAnswered, CheckAnsweredUpToDate, CheckAnsweredAvailable, CheckFails,
       DownloadReads, DownloadStarts, DownloadEnds, DownloadCompletes, DownloadFails,
       InstallStarts, InstallEnds, InstallFails, InstallReplacesProcess, Deferred,
       RecheckTick, Quiet, StartupAnswered, StartupPublishes, SetRolledBack

\* The coordinator holds a file exactly while it installs it, and its state
\* is well typed, whatever is sent to it and published beside it.
THEOREM TypeCorrect == Spec => []TypeOK
  <1>1. Init => ReleasesOK /\ ControlOK /\ ChannelOK
    BY MaxActionsAssumption, MaxReleasesAssumption
       DEF Init, ReleasesOK, ControlOK, ChannelOK, Phases
  <1>2. ReleasesOK /\ ControlOK /\ ChannelOK /\ [Next]_vars
          => (ReleasesOK /\ ControlOK /\ ChannelOK)'
    BY NextReleases, NextControl, NextChannel
  <1>3. ReleasesOK /\ ControlOK /\ ChannelOK => TypeOK
    BY DEF ReleasesOK, ControlOK, ChannelOK, TypeOK
  <1>4. QED
    BY <1>1, <1>2, <1>3, PTL DEF Spec
=============================================================================
