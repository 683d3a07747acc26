------------------------ MODULE UpdateInstallProofs ------------------------
(***************************************************************************)
(* A rollback restores exactly the version its marker calls previous, for  *)
(* every number of versions, installs and pids, any set of failing         *)
(* versions, any placement of crashes and any operation failing, unless a  *)
(* process installs again after its own executable was replaced.           *)
(*                                                                         *)
(* BackupIsPrevious is not inductive: that a copy of the executable is a   *)
(* copy of the running version needs InSync and what InstallInv remembers  *)
(* of the install, that a new backup does not overwrite one a marker names *)
(* needs the markers to point below `installs` (MarkerInv), and that the   *)
(* swap finds a backup needs the healthy writer to be idle until startup   *)
(* is over (StartupInv).                                                   *)
(***************************************************************************)
EXTENDS UpdateInstall, FiniteSetTheorems, TLAPS

\* What the argument needs of the types of the state.
Shape ==
    /\ exe \in Versions
    /\ backup \in [Backups -> Versions \cup {0}]
    /\ pending \in [Versions -> [prev : 0 .. MaxVersion, backup : 0 .. MaxInstalls,
                                 stale : BOOLEAN]]
    /\ run \in Versions \cup {0}
    /\ installs \in 0 .. MaxInstalls
    /\ target \in Versions \cup {0}

Startup == {"boot", "unboot", "rollback", "swap"}

\* Until startup is over the running version is the one on disk.
InSync ==
    /\ main \in Startup => exe = run
    /\ main # "down" => run \in Versions

\* An install under way: its backup is a copy of the running version, or has
\* been swept, and its target is newer.
InstallInv ==
    /\ main \in {"replace", "arm", "restart", "restore"} => installs \in Backups
    /\ main \in {"replace", "arm"} => /\ target \in Versions /\ target > run
                                      /\ mixed \/ backup[installs] \in {0, run}

\* A marker names a backup that exists or has existed and an older version.
MarkerInv ==
    \A v \in Versions : Pending(v) =>
        /\ pending[v].backup \in 1 .. installs
        /\ pending[v].prev \in 1 .. (v - 1)

\* Until startup is over the healthy writer has not been dispatched, so that
\* the marker and the backup a rollback works from stay where they are.
StartupInv ==
    /\ main \in Startup => writer = "none"
    /\ main \in {"rollback", "swap"} => Pending(run)
    /\ main = "swap" => backup[pending[run].backup] # 0

Inv == Shape /\ InSync /\ InstallInv /\ MarkerInv /\ StartupInv /\ BackupIsPrevious

-----------------------------------------------------------------------------
\* Starting a process from the executable leaves the directory alone.
LEMMA StartKeepsInv ==
    ASSUME Inv, NEW p, StartProcess(p), UNCHANGED <<dir, installs>>
    PROVE  Inv'
  BY DEF Inv, Shape, InSync, InstallInv, MarkerInv, StartupInv, BackupIsPrevious,
         Startup, StartProcess, dir, Pending

\* Steps that write neither the executable nor a backup nor a marker and keep
\* the main line where it is.
LEMMA QuietKeepsInv ==
    ASSUME Inv, UNCHANGED <<exe, backup, pending, run, main, target, installs, mixed>>,
           main \in Startup => writer' = "none"
    PROVE  Inv'
  BY DEF Inv, Shape, InSync, InstallInv, MarkerInv, StartupInv, BackupIsPrevious,
         Startup, Pending

\* Steps that only take markers and backups away, with startup behind them.
LEMMA RemovalKeepsInv ==
    ASSUME Inv, UNCHANGED <<exe, run, main, target, installs, mixed>>,
           main \notin Startup,
           backup' \in [Backups -> Versions \cup {0}],
           pending' \in [Versions -> [prev : 0 .. MaxVersion, backup : 0 .. MaxInstalls,
                                      stale : BOOLEAN]],
           \A b \in Backups : backup'[b] \in {0, backup[b]},
           \A v \in Versions : pending'[v] \in {NoMarker, pending[v]}
    PROVE  Inv'
  <1>1. Shape' /\ InSync' /\ StartupInv'
    BY DEF Inv, Shape, InSync, StartupInv, Startup
  <1>2. InstallInv'
    BY DEF Inv, InstallInv
  <1>3. \A v \in Versions : Pending(v)' => Pending(v) /\ pending'[v] = pending[v]
    BY DEF Pending
  <1>4. MarkerInv'
    BY <1>3 DEF Inv, MarkerInv
  <1>5. BackupIsPrevious'
    <2>1. SUFFICES ASSUME NEW v \in Versions, Pending(v)',
                          backup'[pending'[v].backup] # 0, ~mixed'
                   PROVE  backup'[pending'[v].backup] = pending'[v].prev
      BY DEF BackupIsPrevious
    <2>2. Pending(v) /\ pending'[v] = pending[v]
      BY <1>3, <2>1
    <2>3. pending[v].backup \in Backups
      BY <2>2, MaxInstallsAssumption DEF Inv, MarkerInv, Shape, Backups
    <2>4. QED
      BY <2>1, <2>2, <2>3 DEF Inv, BackupIsPrevious
  <1>6. QED
    BY <1>1, <1>2, <1>4, <1>5 DEF Inv

-----------------------------------------------------------------------------
\* The steps of the probe.
LEMMA ProbeKeepsInv ==
    ASSUME Inv, Probe
    PROVE  Inv'
  <1>1. CASE NothingToJudge \/ ProbeFails \/ RecordBootAttempt \/ DropStaleBoots
    BY <1>1 DEF Inv, Shape, InSync, InstallInv, MarkerInv, StartupInv, BackupIsPrevious,
                Startup, Pending, NothingToJudge, ProbeFails, RecordBootAttempt,
                DropStaleBoots, ToJudge, ProceedNormally, dir, hist
  <1>2. CASE RollbackRequired
    BY <1>2 DEF Inv, Shape, InSync, InstallInv, MarkerInv, StartupInv, BackupIsPrevious,
                Startup, Pending, RollbackRequired, ToJudge, dir, hist
  <1>3. CASE DropStale
    <2>1. /\ main = "boot" /\ main' = "unboot"
          /\ UNCHANGED <<exe, backup, run, target, installs, writer, mixed>>
          /\ pending' = [pending EXCEPT ![run] = NoMarker]
      BY <1>3 DEF DropStale, ToJudge, hist
    <2>2. NoMarker \in [prev : 0 .. MaxVersion, backup : 0 .. MaxInstalls, stale : BOOLEAN]
      BY MaxVersionAssumption, MaxInstallsAssumption DEF NoMarker
    <2>3. Shape'
      BY <2>1, <2>2 DEF Inv, Shape
    <2>4. \A v \in Versions : Pending(v)' => Pending(v) /\ pending'[v] = pending[v]
      BY <2>1 DEF Inv, Shape, Pending
    <2>5. InSync' /\ InstallInv' /\ StartupInv'
      BY <2>1 DEF Inv, InSync, InstallInv, StartupInv, Startup
    <2>6. MarkerInv' /\ BackupIsPrevious'
      BY <2>1, <2>4 DEF Inv, MarkerInv, BackupIsPrevious
    <2>7. QED
      BY <2>3, <2>5, <2>6 DEF Inv
  <1>4. QED
    BY <1>1, <1>2, <1>3 DEF Probe

\* The steps of a rollback.
LEMMA RollbackKeepsInv ==
    ASSUME Inv, Rollback
    PROVE  Inv'
  <1>1. CASE BackupMissing
    BY <1>1 DEF Inv, Shape, InSync, InstallInv, MarkerInv, StartupInv, BackupIsPrevious,
                Startup, Pending, BackupMissing, ProceedWithoutProbe, dir, hist
  <1>2. CASE LeaveNotice
    BY <1>2 DEF Inv, Shape, InSync, InstallInv, MarkerInv, StartupInv, BackupIsPrevious,
                Startup, Pending, LeaveNotice, Kept, hist
  <1>3. CASE SwapBack
    <2>1. /\ main = "swap" /\ main' = "respawn"
          /\ UNCHANGED <<pending, run, target, installs, mixed>>
          /\ exe' = backup[pending[run].backup]
          /\ backup' = [backup EXCEPT ![pending[run].backup] = 0]
      BY <1>3 DEF SwapBack, Kept, hist
    <2>2. run \in Versions /\ Pending(run) /\ backup[pending[run].backup] # 0
      BY <2>1 DEF Inv, Shape, InSync, StartupInv
    <2>3. pending[run].backup \in Backups
      BY <2>2, MaxInstallsAssumption DEF Inv, MarkerInv, Shape, Backups
    <2>4. Shape'
      BY <2>1, <2>2, <2>3 DEF Inv, Shape
    <2>5. InSync' /\ InstallInv' /\ StartupInv' /\ MarkerInv'
      BY <2>1, <2>2 DEF Inv, InSync, InstallInv, StartupInv, MarkerInv, Startup, Pending
    <2>6. \A b \in Backups : backup'[b] \in {0, backup[b]}
      BY <2>1 DEF Inv, Shape
    <2>7. \A v \in Versions : Pending(v) => pending[v].backup \in Backups
      BY MaxInstallsAssumption DEF Inv, MarkerInv, Shape, Backups
    <2>8. BackupIsPrevious'
      BY <2>1, <2>6, <2>7 DEF Inv, BackupIsPrevious, Pending
    <2>9. QED
      BY <2>4, <2>5, <2>8 DEF Inv
  <1>4. CASE \E p \in Pids : Respawn(p)
    BY <1>4, StartKeepsInv DEF Respawn
  <1>5. CASE RollbackFails
    BY <1>5 DEF Inv, Shape, InSync, InstallInv, MarkerInv, StartupInv, BackupIsPrevious,
                Startup, Pending, RollbackFails, ProceedWithoutProbe, dir, hist
  <1>6. QED
    BY <1>1, <1>2, <1>3, <1>4, <1>5 DEF Rollback

\* The steps of the healthy writer.
LEMMA WriterKeepsInv ==
    ASSUME Inv, Writer
    PROVE  Inv'
  <1>1. main \notin Startup
    BY DEF Inv, StartupInv, Writer, WriterFires, WriterMarks, WriterUnpends,
           WriterUnboots, WriterSweeps
  <1>2. CASE WriterFires \/ WriterMarks \/ WriterUnboots
    BY <1>1, <1>2, QuietKeepsInv DEF WriterFires, WriterMarks, WriterUnboots, dir, hist
  <1>3. NoMarker \in [prev : 0 .. MaxVersion, backup : 0 .. MaxInstalls, stale : BOOLEAN]
    BY MaxVersionAssumption, MaxInstallsAssumption DEF NoMarker
  <1>4. CASE WriterUnpends
    <2>1. /\ UNCHANGED <<exe, backup, run, main, target, installs, mixed>>
          /\ pending' = [pending EXCEPT ![run] = NoMarker]
      BY <1>4 DEF WriterUnpends, hist
    <2>2. /\ pending' \in [Versions -> [prev : 0 .. MaxVersion, backup : 0 .. MaxInstalls,
                                        stale : BOOLEAN]]
          /\ backup' \in [Backups -> Versions \cup {0}]
          /\ \A b \in Backups : backup'[b] \in {0, backup[b]}
          /\ \A v \in Versions : pending'[v] \in {NoMarker, pending[v]}
      BY <1>3, <2>1 DEF Inv, Shape
    <2>3. QED
      BY <1>1, <2>1, <2>2, RemovalKeepsInv
  <1>5. CASE WriterSweeps
    <2>1. PICK f \in listed :
            /\ backup' = IF f[1] = "backup" THEN [backup EXCEPT ![f[2]] = 0] ELSE backup
            /\ pending' = IF f[1] = "pending" THEN [pending EXCEPT ![f[2]] = NoMarker]
                                              ELSE pending
      BY <1>5 DEF WriterSweeps
    <2>2. UNCHANGED <<exe, run, main, target, installs, mixed>>
      BY <1>5 DEF WriterSweeps, hist
    <2>3. /\ backup' \in [Backups -> Versions \cup {0}]
          /\ \A b \in Backups : backup'[b] \in {0, backup[b]}
      BY <2>1 DEF Inv, Shape
    <2>4. /\ pending' \in [Versions -> [prev : 0 .. MaxVersion, backup : 0 .. MaxInstalls,
                                        stale : BOOLEAN]]
          /\ \A v \in Versions : pending'[v] \in {NoMarker, pending[v]}
      BY <1>3, <2>1 DEF Inv, Shape
    <2>5. QED
      BY <1>1, <2>2, <2>3, <2>4, RemovalKeepsInv
  <1>6. QED
    BY <1>2, <1>4, <1>5 DEF Writer

-----------------------------------------------------------------------------
\* The copy of the executable goes to a file no marker names yet.
LEMMA CopyKeepsInv ==
    ASSUME Inv, NEW v \in Versions, CopyBackup(v)
    PROVE  Inv'
  <1>1. /\ main = "up" /\ main' = "replace"
        /\ v > run
        /\ target' = v
        /\ mixed' = (mixed \/ exe # run)
        /\ UNCHANGED <<exe, pending, run>>
    BY DEF CopyBackup
  <1>2. /\ installs' = installs + 1
        /\ installs + 1 \in Backups
        /\ backup' = [backup EXCEPT ![installs + 1] = exe]
    BY MaxInstallsAssumption DEF CopyBackup, Inv, Shape, Backups
  <1>3. Shape'
    BY <1>1, <1>2, MaxInstallsAssumption DEF Inv, Shape, Backups
  <1>4. run \in Versions
    BY <1>1 DEF Inv, Shape, InSync
  <1>5. InSync' /\ StartupInv'
    BY <1>1, <1>4 DEF Inv, InSync, StartupInv, Startup
  <1>6. mixed' \/ backup'[installs'] = run
    BY <1>1, <1>2 DEF Inv, Shape
  <1>7. InstallInv'
    BY <1>1, <1>2, <1>6 DEF InstallInv
  <1>8. MarkerInv'
    BY <1>1, <1>2, MaxInstallsAssumption DEF Inv, Shape, MarkerInv, Pending
  <1>9. \A u \in Versions : Pending(u) => /\ pending[u].backup \in Backups
                                          /\ pending[u].backup # installs + 1
    BY MaxInstallsAssumption DEF Inv, Shape, MarkerInv, Backups
  <1>10. BackupIsPrevious'
    BY <1>1, <1>2, <1>9 DEF Inv, Shape, BackupIsPrevious, Pending
  <1>11. QED
    BY <1>3, <1>5, <1>7, <1>8, <1>10 DEF Inv

\* The marker of an install under way names its backup and the version that
\* is running.
LEMMA ArmKeepsInv ==
    ASSUME Inv, main = "arm", main' = "restart",
           pending' = [pending EXCEPT ![target] =
                         [prev |-> run, backup |-> installs, stale |-> FALSE]],
           UNCHANGED <<exe, backup, run, target, installs, mixed>>
    PROVE  Inv'
  <1> DEFINE mark == [prev |-> run, backup |-> installs, stale |-> FALSE]
  <1>1. /\ main = "arm" /\ main' = "restart"
        /\ pending' = [pending EXCEPT ![target] = mark]
        /\ UNCHANGED <<exe, backup, run, target, installs, mixed>>
    OBVIOUS
  <1>2. /\ installs \in Backups
        /\ mixed \/ backup[installs] \in {0, run}
        /\ target \in Versions /\ target > run
        /\ run \in Versions
    BY <1>1 DEF Inv, InSync, InstallInv
  <1>3. /\ mark \in [prev : 0 .. MaxVersion, backup : 0 .. MaxInstalls, stale : BOOLEAN]
        /\ mark.prev \in 1 .. (target - 1)
        /\ mark.backup \in 1 .. installs
    BY <1>2, MaxVersionAssumption, MaxInstallsAssumption DEF Versions, Backups
  <1> HIDE DEF mark
  <1>4. Shape'
    BY <1>1, <1>2, <1>3 DEF Inv, Shape
  <1>5. InSync' /\ StartupInv' /\ InstallInv'
    BY <1>1, <1>2 DEF Inv, InSync, StartupInv, InstallInv, Startup
  <1>6. \A u \in Versions : \/ pending'[u] = pending[u]
                            \/ u = target /\ pending'[u] = mark
    BY <1>1 DEF Inv, Shape
  <1>7. MarkerInv'
    BY <1>1, <1>3, <1>6 DEF Inv, MarkerInv, Pending
  <1>8. mark.backup = installs /\ mark.prev = run
    BY DEF mark
  <1>9. BackupIsPrevious'
    BY <1>1, <1>2, <1>6, <1>8 DEF Inv, BackupIsPrevious, Pending
  <1>10. QED
    BY <1>4, <1>5, <1>7, <1>9 DEF Inv

\* The steps of an install.
LEMMA InstallKeepsInv ==
    ASSUME Inv, Install
    PROVE  Inv'
  <1>1. CASE \E v \in Versions : CopyBackup(v)
    BY <1>1, CopyKeepsInv
  <1>2. CASE ReplaceFails
    <2>1. /\ main = "replace" /\ main' = "up" /\ target' = 0
          /\ UNCHANGED <<exe, pending, run, installs, mixed>>
          /\ backup' = [backup EXCEPT ![installs] = 0]
      BY <1>2 DEF ReplaceFails, hist
    <2>2. Shape' /\ \A b \in Backups : backup'[b] \in {0, backup[b]}
      BY <2>1 DEF Inv, Shape
    <2>3. InSync' /\ InstallInv' /\ StartupInv' /\ MarkerInv'
      BY <2>1 DEF Inv, InSync, InstallInv, StartupInv, MarkerInv, Startup, Pending
    <2>4. \A v \in Versions : Pending(v) => pending[v].backup \in Backups
      BY MaxInstallsAssumption DEF Inv, MarkerInv, Shape, Backups
    <2>5. BackupIsPrevious'
      BY <2>1, <2>2, <2>4 DEF Inv, BackupIsPrevious, Pending
    <2>6. QED
      BY <2>2, <2>3, <2>5 DEF Inv
  <1>3. CASE ReplaceBinary
    BY <1>3 DEF Inv, Shape, InSync, InstallInv, MarkerInv, StartupInv, BackupIsPrevious,
                Startup, Pending, ReplaceBinary, hist
  <1>4. CASE WriteInstallPending
    <2>1. CASE main' = "restart"
      BY <1>4, <2>1, ArmKeepsInv DEF WriteInstallPending, hist
    <2>2. CASE main' # "restart"
      BY <1>4, <2>2 DEF Inv, Shape, InSync, InstallInv, MarkerInv, StartupInv,
                        BackupIsPrevious, Startup, Pending, WriteInstallPending, hist
    <2>3. QED
      BY <2>1, <2>2
  <1>5. CASE Restart
    BY <1>5, StartKeepsInv DEF Restart
  <1>6. CASE RestartFails \/ Restore
    BY <1>6 DEF Inv, Shape, InSync, InstallInv, MarkerInv, StartupInv, BackupIsPrevious,
                Startup, Pending, RestartFails, Restore, dir, hist
  <1>7. QED
    BY <1>1, <1>2, <1>3, <1>4, <1>5, <1>6 DEF Install

\* Ageing changes neither what a marker names nor whether it is there.
LEMMA AgeingKeepsInv ==
    ASSUME Inv, NEW v \in Versions, MarkerAges(v)
    PROVE  Inv'
  <1>1. /\ pending' = [pending EXCEPT ![v].stale = TRUE]
        /\ Pending(v)
        /\ UNCHANGED <<exe, backup, run, main, target, installs, writer, mixed>>
    BY DEF MarkerAges, proc, hist
  <1>2. Shape'
    BY <1>1 DEF Inv, Shape
  <1>3. \A u \in Versions : /\ pending'[u].prev = pending[u].prev
                            /\ pending'[u].backup = pending[u].backup
    BY <1>1 DEF Inv, Shape
  <1>4. \A u \in Versions : u # v => pending'[u] = pending[u]
    BY <1>1 DEF Inv, Shape
  <1>5. pending'[v].stale = TRUE
    BY <1>1 DEF Inv, Shape
  <1>6. \A u \in Versions : Pending(u)' <=> Pending(u)
    BY <1>1, <1>4, <1>5 DEF Pending, NoMarker
  <1>7. InSync' /\ InstallInv'
    BY <1>1 DEF Inv, InSync, InstallInv
  <1>8. MarkerInv' /\ BackupIsPrevious'
    BY <1>1, <1>3, <1>6 DEF Inv, MarkerInv, BackupIsPrevious
  <1>9. main \in {"rollback", "swap"} => run \in Versions
    BY DEF Inv, Shape, InSync
  <1>10. StartupInv'
    BY <1>1, <1>3, <1>6, <1>9 DEF Inv, StartupInv, Startup
  <1>11. QED
    BY <1>2, <1>7, <1>8, <1>10 DEF Inv

-----------------------------------------------------------------------------
\* The empty install directory satisfies the invariant.
LEMMA InitInv == Init => Inv
  BY MaxVersionAssumption, MaxInstallsAssumption
     DEF Init, Inv, Shape, InSync, InstallInv, MarkerInv, StartupInv, BackupIsPrevious,
         Startup, Pending, NoMarker, Versions, Backups

\* Every step of the process, of the user or of time keeps the invariant.
LEMMA NextInv ==
    ASSUME Inv, [Next]_vars
    PROVE  Inv'
  <1>1. CASE \E p \in Pids : Launch(p)
    BY <1>1, StartKeepsInv DEF Launch
  <1>2. CASE Crash
    BY <1>2 DEF Inv, Shape, InSync, InstallInv, MarkerInv, StartupInv, BackupIsPrevious,
                Startup, Pending, Crash, dir, hist
  <1>3. CASE ScanNotices
    BY <1>3, QuietKeepsInv DEF ScanNotices, Inv, StartupInv, hist
  <1>4. CASE UNCHANGED vars
    BY <1>4, QuietKeepsInv DEF vars, dir, proc, hist, Inv, StartupInv
  <1>5. QED
    BY <1>1, <1>2, <1>3, <1>4, ProbeKeepsInv, RollbackKeepsInv, WriterKeepsInv,
       InstallKeepsInv, AgeingKeepsInv DEF Next

\* A backup that a marker names holds the version the marker calls previous,
\* whatever fails, unless a process installed again over a replaced executable.
THEOREM MarkersNameTheirBackup == Spec => []BackupIsPrevious
  <1>1. Inv => BackupIsPrevious
    BY DEF Inv
  <1>2. Inv /\ [Next]_vars => Inv'
    BY NextInv
  <1>3. QED
    BY <1>1, <1>2, InitInv, PTL DEF Spec

\* Under the same condition a rollback restores the version its marker calls
\* previous, which is older than the one that failed.
THEOREM RollbackIsExact == Spec => RollbackRestoresPrevious
  <1>1. ASSUME Inv, [Next]_vars, main = "swap", main' = "respawn", ~mixed
        PROVE  exe' = pending[run].prev /\ exe' < exe
    <2>1. SwapBack
      BY <1>1 DEF Next, vars, dir, proc, hist, Launch, StartProcess, Crash, ScanNotices, Probe,
         NothingToJudge, ProbeFails, DropStale, DropStaleBoots, RecordBootAttempt,
         RollbackRequired, ToJudge, ProceedNormally, ProceedWithoutProbe, Rollback,
         BackupMissing,
         LeaveNotice, Respawn, RollbackFails, Writer, WriterFires, WriterMarks,
         WriterUnpends, WriterUnboots, WriterSweeps, Install, CopyBackup, ReplaceFails,
         ReplaceBinary, WriteInstallPending, Restart, RestartFails, Restore, MarkerAges
    <2>2. exe' = backup[pending[run].backup]
      BY <2>1 DEF SwapBack, Kept
    <2>3. /\ exe = run /\ run \in Versions /\ Pending(run)
          /\ backup[pending[run].backup] # 0
      BY <1>1 DEF Inv, Shape, InSync, StartupInv, Startup
    <2>4. exe' = pending[run].prev
      BY <1>1, <2>2, <2>3 DEF Inv, BackupIsPrevious
    <2>5. pending[run].prev < run
      BY <1>1, <2>3, MaxVersionAssumption DEF Inv, MarkerInv, Versions
    <2>6. QED
      BY <2>3, <2>4, <2>5
  <1>2. Inv /\ [Next]_vars
          => [main = "swap" /\ main' = "respawn" /\ ~mixed
                => exe' = pending[run].prev /\ exe' < exe]_vars
    BY <1>1
  <1>3. Inv /\ [Next]_vars => Inv'
    BY NextInv
  <1>4. QED
    BY <1>2, <1>3, InitInv, PTL DEF Spec, RollbackRestoresPrevious

-----------------------------------------------------------------------------
(***************************************************************************)
(* Type correctness.  What the writer removes and what the probe records   *)
(* are of the right kind because both belong to a live process, with a pid *)
(* the system handed out.                                                  *)
(***************************************************************************)
WriterStates == {"none", "sleeping", "mark", "unpend", "unboot", "sweep", "done"}

\* The files Inv says nothing about.
FilesType ==
    /\ boots \in [Versions -> SUBSET Pids]
    /\ healthy \subseteq Versions
    /\ notes \subseteq Versions
    /\ keep \in Backups \cup {0}
    /\ listed \subseteq Files
    /\ attempts \in [Versions -> 0 .. Third]
    /\ torn \subseteq Versions

\* The process: it has a pid while it lives, and its writer dies with it.
ProcessType ==
    /\ pid \in Pids \cup {0}
    /\ main \in MainStates
    /\ main # "down" => pid \in Pids
    /\ scan \in BOOLEAN
    /\ writer \in WriterStates
    /\ writer # "none" => main # "down"
    /\ mixed \in BOOLEAN

\* Every action keeps the process's types.
LEMMA NextProcessType ==
    ASSUME ProcessType, [Next]_vars
    PROVE  ProcessType'
  <1> USE DEF ProcessType, MainStates, WriterStates
  <1>1. ASSUME NEW p \in Pids, StartProcess(p)
        PROVE  ProcessType'
    BY <1>1 DEF StartProcess
  <1>2. CASE \E p \in Pids : Launch(p) \/ Respawn(p)
    BY <1>1, <1>2 DEF Launch, Respawn
  <1>3. CASE Restart
    BY <1>1, <1>3 DEF Restart
  <1>4. CASE Crash \/ ScanNotices \/ UNCHANGED vars
    BY <1>4 DEF Crash, ScanNotices, vars, proc, hist
  <1>5. CASE Probe
    BY <1>5 DEF Probe, NothingToJudge, ProbeFails, DropStale, DropStaleBoots,
                RecordBootAttempt, RollbackRequired, ToJudge, ProceedNormally, hist
  <1>6. CASE BackupMissing \/ LeaveNotice \/ SwapBack \/ RollbackFails
    BY <1>6 DEF BackupMissing, LeaveNotice, SwapBack, RollbackFails,
                ProceedWithoutProbe, hist
  <1>7. CASE Writer
    BY <1>7 DEF Writer, WriterFires, WriterMarks, WriterUnpends, WriterUnboots,
                WriterSweeps, hist
  <1>8. CASE \E v \in Versions : CopyBackup(v)
    BY <1>8 DEF CopyBackup
  <1>9. CASE ReplaceFails \/ ReplaceBinary \/ WriteInstallPending \/ RestartFails \/ Restore
    BY <1>9 DEF ReplaceFails, ReplaceBinary, WriteInstallPending, RestartFails, Restore,
                hist
  <1>10. CASE \E v \in Versions : MarkerAges(v)
    BY <1>10 DEF MarkerAges, proc, hist
  <1>11. QED
    BY <1>2, <1>3, <1>4, <1>5, <1>6, <1>7, <1>8, <1>9, <1>10 DEF Next, Rollback, Install

\* One start more on record stays within the bound of the history counter.
LEMMA CountBounded ==
    ASSUME NEW n \in 0 .. Third
    PROVE  CountUpTo(n) \in 0 .. Third
  BY DEF CountUpTo, Third, failed_boot_threshold

\* Every action keeps the types of the files.
LEMMA NextFilesType ==
    ASSUME Inv, ProcessType, FilesType, [Next]_vars
    PROVE  FilesType'
  <1>1. ASSUME NEW p, StartProcess(p), UNCHANGED <<dir, installs>>
        PROVE  FilesType'
    <2>1. exe \in Versions
      BY DEF Inv, Shape
    <2>2. attempts' \in [Versions -> 0 .. Third]
      BY <1>1, <2>1, CountBounded DEF StartProcess, FilesType
    <2>3. QED
      BY <1>1, <2>2 DEF StartProcess, dir, FilesType
  <1>2. CASE \E p \in Pids : Launch(p) \/ Respawn(p)
    BY <1>1, <1>2 DEF Launch, Respawn
  <1>3. CASE Restart
    BY <1>1, <1>3 DEF Restart
  <1>4. CASE Crash \/ ScanNotices \/ UNCHANGED vars
    BY <1>4 DEF Crash, ScanNotices, vars, dir, proc, hist, FilesType
  <1>5. CASE Probe
    <2>1. main # "down"
      BY <1>5 DEF Probe, NothingToJudge, ProbeFails, DropStale, DropStaleBoots,
                  RecordBootAttempt, RollbackRequired, ToJudge
    <2>2. pid \in Pids /\ run \in Versions
      BY <2>1 DEF ProcessType, Inv, InSync
    <2>3. /\ UNCHANGED <<healthy, notes, keep, listed, attempts>>
          /\ torn' \in {torn, torn \ {run}}
      BY <1>5 DEF Probe, NothingToJudge, ProbeFails, DropStale, DropStaleBoots,
                  RecordBootAttempt, RollbackRequired, ProceedNormally, dir, hist
    <2>4. \/ UNCHANGED boots
          \/ boots' = [boots EXCEPT ![run] = @ \cup {pid}]
          \/ boots' = [boots EXCEPT ![run] = {}]
      BY <1>5 DEF Probe, NothingToJudge, ProbeFails, DropStale, DropStaleBoots,
                  RecordBootAttempt, RollbackRequired, dir
    <2>5. boots' \in [Versions -> SUBSET Pids]
      BY <2>2, <2>4 DEF FilesType
    <2>6. QED
      BY <2>3, <2>5 DEF FilesType
  <1>6. CASE BackupMissing \/ LeaveNotice \/ SwapBack \/ RollbackFails
    <2>1. /\ UNCHANGED <<boots, healthy, keep, listed, attempts, torn>>
          /\ notes' = notes \/ (main = "rollback" /\ notes' = notes \cup {pending[run].prev})
      BY <1>6 DEF BackupMissing, LeaveNotice, SwapBack, RollbackFails,
                  ProceedWithoutProbe, dir, hist
    <2>2. main = "rollback" => run \in Versions /\ pending[run].prev \in 1 .. (run - 1)
      BY DEF Inv, InSync, StartupInv, MarkerInv
    <2>3. main = "rollback" => pending[run].prev \in Versions
      BY <2>2, MaxVersionAssumption DEF Versions
    <2>4. QED
      BY <2>1, <2>3 DEF FilesType
  <1>7. CASE Writer
    <2>1. writer # "none"
      BY <1>7 DEF Writer, WriterFires, WriterMarks, WriterUnpends, WriterUnboots,
                  WriterSweeps
    <2>2. run \in Versions
      BY <2>1 DEF ProcessType, Inv, InSync
    <2>3. CASE WriterFires
      <3>1. pending[run].backup \in Backups \cup {0}
        BY <2>2, MaxInstallsAssumption DEF Inv, Shape, Backups
      <3>2. QED
        BY <2>3, <3>1 DEF WriterFires, Kept, FilesType, dir, hist
    <2>4. CASE WriterMarks
      <3>1. 0 \in 0 .. Third
        BY DEF Third, failed_boot_threshold
      <3>2. /\ healthy' \subseteq Versions
            /\ attempts' \in [Versions -> 0 .. Third]
        BY <2>2, <2>4, <3>1 DEF WriterMarks, FilesType
      <3>3. QED
        BY <2>4, <3>2 DEF WriterMarks, FilesType
    <2>5. CASE WriterUnpends
      BY <2>5 DEF WriterUnpends, FilesType, hist
    <2>6. CASE WriterUnboots
      <3>1. Sweepable \subseteq Files
        BY DEF Sweepable, Files, FilesType
      <3>2. boots' \in [Versions -> SUBSET Pids]
        BY <2>2, <2>6 DEF WriterUnboots, FilesType
      <3>3. QED
        BY <2>6, <3>1, <3>2 DEF WriterUnboots, FilesType
    <2>7. CASE WriterSweeps
      <3>1. PICK f \in listed :
              /\ boots' = IF f[1] = "boot" THEN [boots EXCEPT ![f[2]] = @ \ {f[3]}] ELSE boots
              /\ healthy' = IF f[1] = "healthy" THEN healthy \ {f[2]} ELSE healthy
              /\ listed' = listed \ {f}
        BY <2>7 DEF WriterSweeps
      <3>2. boots' \in [Versions -> SUBSET Pids]
        BY <3>1 DEF FilesType
      <3>3. healthy' \subseteq Versions /\ listed' \subseteq Files
        BY <3>1 DEF FilesType
      <3>4. torn' \subseteq Versions
        BY <2>7 DEF WriterSweeps, FilesType
      <3>5. QED
        BY <2>7, <3>2, <3>3, <3>4 DEF WriterSweeps, FilesType
    <2>8. QED
      BY <1>7, <2>3, <2>4, <2>5, <2>6, <2>7 DEF Writer
  <1>8. CASE \E v \in Versions : CopyBackup(v)
    BY <1>8 DEF CopyBackup, FilesType
  <1>9. CASE ReplaceFails \/ ReplaceBinary \/ WriteInstallPending \/ RestartFails \/ Restore
    BY <1>9 DEF ReplaceFails, ReplaceBinary, WriteInstallPending, RestartFails, Restore,
                dir, hist, FilesType
  <1>10. CASE \E v \in Versions : MarkerAges(v)
    BY <1>10 DEF MarkerAges, proc, hist, FilesType
  <1>11. QED
    BY <1>2, <1>3, <1>4, <1>5, <1>6, <1>7, <1>8, <1>9, <1>10 DEF Next, Rollback, Install

\* The empty directory has the types.
LEMMA InitTypes == Init => ProcessType /\ FilesType
  <1>1. 0 \in 0 .. Third
    BY DEF Third, failed_boot_threshold
  <1>2. QED
    BY <1>1 DEF Init, ProcessType, FilesType, MainStates, WriterStates

\* With its backup and its previous version, a marker is one of Markers.
LEMMA MarkersTyped ==
    ASSUME Inv
    PROVE  pending \in [Versions -> Markers]
  <1>1. SUFFICES ASSUME NEW v \in Versions, Pending(v)
                 PROVE  pending[v] \in [prev : Versions, backup : Backups, stale : BOOLEAN]
    BY DEF Inv, Shape, Pending, Markers
  <1>2. pending[v].prev \in Versions /\ pending[v].backup \in Backups
    BY <1>1, MaxInstallsAssumption, MaxVersionAssumption
       DEF Inv, Shape, MarkerInv, Versions, Backups
  <1>3. QED
    BY <1>2 DEF Inv, Shape

\* The types and the base invariant hold together in every reachable state.
LEMMA TypesInvariant == Spec => [](Inv /\ ProcessType /\ FilesType)
  <1>1. Init => Inv /\ ProcessType /\ FilesType
    BY InitInv, InitTypes
  <1>2. Inv /\ ProcessType /\ FilesType /\ [Next]_vars
          => (Inv /\ ProcessType /\ FilesType)'
    BY NextInv, NextProcessType, NextFilesType
  <1>3. QED
    BY <1>1, <1>2, PTL DEF Spec

\* Through any crashes and failures the executable is one complete version,
\* every marker names a version and a backup, and the writer's list holds
\* only files of the directory.
THEOREM TypeCorrect == Spec => []TypeOK
  <1>1. ASSUME Inv, ProcessType, FilesType
        PROVE  TypeOK
    <2>1. pending \in [Versions -> Markers]
      BY <1>1, MarkersTyped
    <2>2. QED
      BY <1>1, <2>1 DEF TypeOK, Inv, Shape, ProcessType, FilesType, WriterStates
  <1>2. QED
    BY <1>1, TypesInvariant, PTL
-----------------------------------------------------------------------------
(***************************************************************************)
(* A rollback needs three starts.  The attempts on record never outnumber  *)
(* the starts, and while a start has not been recorded yet they are fewer: *)
(* so the third attempt the probe sees is the third start.  A version with *)
(* a healthy marker is never judged; a version whose marker a sweep has    *)
(* taken away is, so its attempts must be gone by then or it is `torn`.    *)
(***************************************************************************)
Judged(v) ==
    \/ attempts[v] >= Third
    \/ /\ Cardinality(boots[v]) <= attempts[v]
       /\ main = "boot" /\ run = v => Cardinality(boots[v]) < attempts[v]

RecordInv ==
    \A v \in Versions : /\ IsFiniteSet(boots[v])
                        /\ v \notin healthy \cup torn => Judged(v)

\* Steps that neither start a process nor touch what the record is about.
LEMMA QuietKeepsRecord ==
    ASSUME RecordInv, UNCHANGED <<boots, attempts, healthy, torn>>,
           main' = "boot" => main = "boot" /\ run' = run
    PROVE  RecordInv'
  BY DEF RecordInv, Judged

\* Until the next start judges it, a version without attempts is in order.
LEMMA EmptyRecord ==
    ASSUME NEW n \in 0 .. Third
    PROVE  IsFiniteSet({}) /\ Cardinality({}) <= n
  BY FS_EmptySet DEF Third, failed_boot_threshold

\* A start is counted before the probe can record it.
LEMMA StartKeepsRecord ==
    ASSUME Inv, FilesType, RecordInv, NEW p, StartProcess(p), UNCHANGED dir
    PROVE  RecordInv'
  <1>1. exe \in Versions /\ run' = exe
    BY DEF Inv, Shape, StartProcess
  <1>2. UNCHANGED <<boots, healthy, torn>>
    BY DEF StartProcess, dir
  <1>3. SUFFICES ASSUME NEW v \in Versions, v \notin healthy \cup torn
                 PROVE  Judged(v)'
    BY <1>2 DEF RecordInv
  <1>4. Judged(v) /\ IsFiniteSet(boots[v])
    BY <1>3 DEF RecordInv
  <1>5. Cardinality(boots[v]) \in Nat /\ attempts[v] \in 0 .. Third
    BY <1>4, FS_CardinalityType DEF FilesType
  <1>6. attempts' = [attempts EXCEPT ![exe] = CountUpTo(attempts[exe])]
    BY DEF StartProcess
  <1>7. CASE v = exe
    <2>1. attempts'[v] = CountUpTo(attempts[v])
      BY <1>1, <1>6, <1>7 DEF FilesType
    <2>2. attempts[v] >= Third \/ Cardinality(boots[v]) <= attempts[v]
      BY <1>4 DEF Judged
    <2>3. attempts'[v] >= Third \/ Cardinality(boots[v]) < attempts'[v]
      BY <1>5, <2>1, <2>2 DEF CountUpTo, Third, failed_boot_threshold
    <2>4. attempts'[v] \in Int
      BY <1>5, <2>1 DEF CountUpTo, Third, failed_boot_threshold
    <2>5. QED
      BY <1>2, <1>5, <2>3, <2>4 DEF Judged
  <1>8. CASE v # exe
    <2>1. attempts'[v] = attempts[v]
      BY <1>1, <1>3, <1>6, <1>8 DEF FilesType
    <2>2. QED
      BY <1>1, <1>2, <1>4, <1>8, <2>1 DEF Judged
  <1>9. QED
    BY <1>7, <1>8

\* The probe records the start it judges, forgets a stale record or leaves
\* the record alone.
LEMMA ProbeKeepsRecord ==
    ASSUME Inv, FilesType, RecordInv, Probe
    PROVE  RecordInv'
  <1>1. main # "down" /\ main' # "boot"
    BY DEF Probe, NothingToJudge, ProbeFails, DropStale, DropStaleBoots,
           RecordBootAttempt, RollbackRequired, ToJudge, ProceedNormally
  <1>2. run \in Versions
    BY <1>1 DEF Inv, InSync
  <1>3. CASE UNCHANGED <<boots, attempts, healthy, torn>>
    BY <1>1, <1>3, QuietKeepsRecord
  <1>4. CASE /\ main = "boot" /\ run \notin healthy
             /\ boots' = [boots EXCEPT ![run] = boots[run] \cup {pid}]
             /\ UNCHANGED <<attempts, healthy, torn>>
    <2>1. SUFFICES ASSUME NEW v \in Versions
                   PROVE  /\ IsFiniteSet(boots'[v])
                          /\ v \notin healthy \cup torn => Judged(v)'
      BY <1>4 DEF RecordInv
    <2>2. IsFiniteSet(boots[v]) /\ (v \notin healthy \cup torn => Judged(v))
      BY <2>1 DEF RecordInv
    <2>3. CASE v # run
      BY <1>1, <1>2, <1>4, <2>2, <2>3 DEF FilesType, Judged
    <2>4. CASE v = run
      <3>1. boots'[v] = boots[v] \cup {pid}
        BY <1>2, <1>4, <2>4 DEF FilesType
      <3>2. /\ IsFiniteSet(boots[v] \cup {pid})
            /\ Cardinality(boots[v] \cup {pid}) \in {Cardinality(boots[v]),
                                                     Cardinality(boots[v]) + 1}
        BY <2>2, FS_AddElement
      <3>3. Cardinality(boots[v]) \in Nat /\ attempts[v] \in 0 .. Third
        BY <2>2, FS_CardinalityType DEF FilesType
      <3>4. Judged(v) => \/ attempts[v] >= Third
                         \/ Cardinality(boots[v]) < attempts[v]
        BY <1>4, <2>4 DEF Judged
      <3>5. Judged(v) => \/ attempts[v] >= Third
                         \/ Cardinality(boots'[v]) <= attempts[v]
        BY <3>1, <3>2, <3>3, <3>4 DEF Third, failed_boot_threshold
      <3>6. QED
        BY <1>1, <1>4, <2>2, <3>1, <3>2, <3>5 DEF Judged
    <2>5. QED
      BY <2>3, <2>4
  <1>5. CASE DropStaleBoots
    <2>1. /\ boots' = [boots EXCEPT ![run] = {}]
          /\ torn' = torn \ {run}
          /\ UNCHANGED <<attempts, healthy>>
      BY <1>5 DEF DropStaleBoots
    <2>2. SUFFICES ASSUME NEW v \in Versions
                   PROVE  /\ IsFiniteSet(boots'[v])
                          /\ v \notin healthy' \cup torn' => Judged(v)'
      BY DEF RecordInv
    <2>3. CASE v # run
      BY <1>1, <1>2, <2>1, <2>3 DEF FilesType, RecordInv, Judged
    <2>4. CASE v = run
      <3>1. boots'[v] = {} /\ attempts[v] \in 0 .. Third
        BY <1>2, <2>1, <2>4 DEF FilesType
      <3>2. IsFiniteSet({}) /\ Cardinality({}) <= attempts[v]
        BY <3>1, EmptyRecord
      <3>3. QED
        BY <1>1, <2>1, <3>1, <3>2 DEF Judged
    <2>5. QED
      BY <2>3, <2>4
  <1>6. QED
    BY <1>3, <1>4, <1>5 DEF Probe, NothingToJudge, ProbeFails, DropStale,
       RecordBootAttempt, RollbackRequired, ToJudge, dir, hist

\* The writer starts the count anew, and takes away the record of a version
\* or remembers that its marker went first.
LEMMA WriterKeepsRecord ==
    ASSUME Inv, ProcessType, FilesType, RecordInv, Writer
    PROVE  RecordInv'
  <1>1. writer # "none" /\ UNCHANGED <<main, run>>
    BY DEF Writer, WriterFires, WriterMarks, WriterUnpends, WriterUnboots, WriterSweeps
  <1>2. main' # "boot" /\ run \in Versions
    BY <1>1 DEF Inv, InSync, StartupInv, Startup, ProcessType
  <1>3. CASE WriterFires \/ WriterUnpends
    BY <1>2, <1>3, QuietKeepsRecord DEF WriterFires, WriterUnpends, dir, hist
  <1>4. CASE WriterMarks
    <2>1. /\ UNCHANGED <<boots, torn>>
          /\ healthy \subseteq healthy'
          /\ \A v \in Versions : v \notin healthy' => attempts'[v] = attempts[v]
      BY <1>2, <1>4 DEF WriterMarks, FilesType
    <2>2. QED
      BY <1>1, <1>2, <2>1 DEF RecordInv, Judged
  <1>5. ASSUME NEW v \in Versions, boots'[v] = {}, UNCHANGED attempts
        PROVE  IsFiniteSet(boots'[v]) /\ Judged(v)'
    <2>1. attempts[v] \in 0 .. Third
      BY DEF FilesType
    <2>2. IsFiniteSet({}) /\ Cardinality({}) <= attempts[v]
      BY <2>1, EmptyRecord
    <2>3. QED
      BY <1>2, <1>5, <2>2 DEF Judged
  <1>6. CASE WriterUnboots
    <2>1. /\ boots' = [boots EXCEPT ![run] = {}]
          /\ torn' = torn \ {run}
          /\ UNCHANGED <<attempts, healthy>>
      BY <1>6 DEF WriterUnboots
    <2>2. SUFFICES ASSUME NEW v \in Versions
                   PROVE  /\ IsFiniteSet(boots'[v])
                          /\ v \notin healthy' \cup torn' => Judged(v)'
      BY DEF RecordInv
    <2>3. CASE v # run
      BY <1>1, <1>2, <2>1, <2>3 DEF FilesType, RecordInv, Judged
    <2>4. CASE v = run
      <3>1. boots'[v] = {}
        BY <1>2, <2>1, <2>4 DEF FilesType
      <3>2. QED
        BY <1>5, <2>1, <3>1
    <2>5. QED
      BY <2>3, <2>4
  <1>7. CASE WriterSweeps
    <2>1. PICK f \in listed :
            /\ boots' = IF f[1] = "boot" THEN [boots EXCEPT ![f[2]] = boots[f[2]] \ {f[3]}]
                                         ELSE boots
            /\ healthy' = IF f[1] = "healthy" THEN healthy \ {f[2]} ELSE healthy
      BY <1>7 DEF WriterSweeps
    <2>2. /\ torn' = {v \in torn \cup (healthy \ healthy') : boots'[v] # {}}
          /\ UNCHANGED attempts
      BY <1>7 DEF WriterSweeps
    <2>3. SUFFICES ASSUME NEW v \in Versions
                   PROVE  /\ IsFiniteSet(boots'[v])
                          /\ v \notin healthy' \cup torn' => Judged(v)'
      BY DEF RecordInv
    <2>4. IsFiniteSet(boots[v]) /\ (v \notin healthy \cup torn => Judged(v))
      BY <2>3 DEF RecordInv
    <2>5. boots'[v] \subseteq boots[v]
      BY <2>1 DEF FilesType
    <2>6. /\ IsFiniteSet(boots'[v])
          /\ Cardinality(boots'[v]) <= Cardinality(boots[v])
      BY <2>4, <2>5, FS_Subset
    <2>7. CASE boots'[v] = {}
      BY <1>5, <2>2, <2>7
    <2>8. CASE boots'[v] # {}
      <3>1. SUFFICES ASSUME v \notin healthy' \cup torn'
                     PROVE  Judged(v)'
        BY <2>6
      <3>2. v \notin healthy \cup torn
        BY <2>1, <2>2, <2>8, <3>1
      <3>3. attempts[v] >= Third \/ Cardinality(boots[v]) <= attempts[v]
        BY <2>4, <3>2 DEF Judged
      <3>4. /\ Cardinality(boots[v]) \in Nat /\ Cardinality(boots'[v]) \in Nat
            /\ attempts[v] \in 0 .. Third
        BY <2>4, <2>6, FS_CardinalityType DEF FilesType
      <3>5. attempts[v] >= Third \/ Cardinality(boots'[v]) <= attempts[v]
        BY <2>6, <3>3, <3>4 DEF Third, failed_boot_threshold
      <3>6. QED
        BY <1>2, <2>2, <3>5 DEF Judged
    <2>9. QED
      BY <2>7, <2>8
  <1>8. QED
    BY <1>3, <1>4, <1>6, <1>7 DEF Writer

\* Every step keeps the record in order.
LEMMA NextRecord ==
    ASSUME Inv, ProcessType, FilesType, RecordInv, [Next]_vars
    PROVE  RecordInv'
  <1>1. CASE (\E p \in Pids : Launch(p) \/ Respawn(p)) \/ Restart
    BY <1>1, StartKeepsRecord DEF Launch, Respawn, Restart
  <1>2. CASE Crash \/ ScanNotices \/ UNCHANGED vars
    BY <1>2, QuietKeepsRecord DEF Crash, ScanNotices, vars, dir, proc, hist
  <1>3. CASE BackupMissing \/ LeaveNotice \/ SwapBack \/ RollbackFails
    BY <1>3, QuietKeepsRecord DEF BackupMissing, LeaveNotice, SwapBack, RollbackFails,
       ProceedWithoutProbe, dir, hist
  <1>4. CASE \E v \in Versions : CopyBackup(v)
    BY <1>4, QuietKeepsRecord DEF CopyBackup
  <1>5. CASE ReplaceFails \/ ReplaceBinary \/ WriteInstallPending \/ RestartFails \/ Restore
    BY <1>5, QuietKeepsRecord DEF ReplaceFails, ReplaceBinary, WriteInstallPending,
       RestartFails, Restore, dir, hist
  <1>6. CASE \E v \in Versions : MarkerAges(v)
    BY <1>6, QuietKeepsRecord DEF MarkerAges, proc, hist
  <1>7. QED
    BY <1>1, <1>2, <1>3, <1>4, <1>5, <1>6, ProbeKeepsRecord, WriterKeepsRecord
       DEF Next, Rollback, Install

\* From the moment the probe asks for a rollback to the swap nothing touches
\* the count.
LEMMA NextThreeBoots ==
    ASSUME Inv, FilesType, RecordInv, RollbackNeedsThreeBoots, [Next]_vars
    PROVE  RollbackNeedsThreeBoots'
  <1>1. SUFFICES ASSUME main' \in {"rollback", "swap"}, run' \notin torn'
                 PROVE  attempts'[run'] >= Third
    BY DEF RollbackNeedsThreeBoots
  <1>2. CASE RollbackRequired
    <2>1. /\ main = "boot" /\ run \notin healthy /\ UNCHANGED <<run, torn, attempts>>
          /\ Cardinality(boots[run]) >= 2
      BY <1>2 DEF RollbackRequired, ToJudge, Count, failed_boot_threshold, hist
    <2>2. run \in Versions
      BY <2>1 DEF Inv, InSync
    <2>3. Judged(run) /\ IsFiniteSet(boots[run])
      BY <1>1, <2>1, <2>2 DEF RecordInv
    <2>4. Cardinality(boots[run]) \in Nat /\ attempts[run] \in 0 .. Third
      BY <2>2, <2>3, FS_CardinalityType DEF FilesType
    <2>5. attempts[run] >= Third \/ Cardinality(boots[run]) < attempts[run]
      BY <2>1, <2>3 DEF Judged
    <2>6. QED
      BY <2>1, <2>4, <2>5 DEF Third, failed_boot_threshold
  <1>3. CASE ~RollbackRequired
    <2>1. /\ main \in {"rollback", "swap"}
          /\ writer = "none" => UNCHANGED <<run, torn, attempts>>
      BY <1>1, <1>3 DEF Next, vars, dir, proc, hist, Launch, StartProcess, Crash,
         ScanNotices, Probe, NothingToJudge, ProbeFails, DropStale, DropStaleBoots,
         RecordBootAttempt, ToJudge, ProceedNormally, ProceedWithoutProbe, Rollback,
         BackupMissing, LeaveNotice, SwapBack, Respawn, RollbackFails, Writer, WriterFires,
         WriterMarks, WriterUnpends, WriterUnboots, WriterSweeps, Install, CopyBackup,
         ReplaceFails, ReplaceBinary, WriteInstallPending, Restart, RestartFails, Restore,
         MarkerAges
    <2>2. writer = "none"
      BY <2>1 DEF Inv, StartupInv, Startup
    <2>3. QED
      BY <1>1, <2>1, <2>2 DEF RollbackNeedsThreeBoots
  <1>4. QED
    BY <1>2, <1>3

\* No version is rolled back before its third start without a healthy marker
\* in between, for any number of versions, installs and pids, unless a sweep
\* was cut short between its healthy marker and its attempts.
THEOREM RollbackOnThirdStart == Spec => []RollbackNeedsThreeBoots
  <1>1. Init => RecordInv /\ RollbackNeedsThreeBoots
    <2>1. ASSUME Init
          PROVE  RecordInv
      <3>1. \A v \in Versions : boots[v] = {} /\ attempts[v] = 0
        BY <2>1 DEF Init
      <3>2. main # "boot" /\ IsFiniteSet({}) /\ Cardinality({}) <= 0
        BY <2>1, FS_EmptySet DEF Init
      <3>3. QED
        BY <3>1, <3>2 DEF RecordInv, Judged
    <2>2. Init => RollbackNeedsThreeBoots
      BY DEF Init, RollbackNeedsThreeBoots
    <2>3. QED
      BY <2>1, <2>2
  <1>2. Inv /\ ProcessType /\ FilesType /\ RecordInv /\ RollbackNeedsThreeBoots
          /\ [Next]_vars => (RecordInv /\ RollbackNeedsThreeBoots)'
    BY NextRecord, NextThreeBoots
  <1>3. QED
    BY <1>1, <1>2, TypesInvariant, PTL DEF Spec
-----------------------------------------------------------------------------
(***************************************************************************)
(* The healthy writer leaves nothing behind.  Once it has listed the       *)
(* directory, everything that must go and is still there is on its list,   *)
(* although the main line can install another version meanwhile: only the  *)
(* writer writes healthy markers, only a starting process writes attempts, *)
(* and an install marker written now names this version as previous.       *)
(***************************************************************************)
Cleaning == {"unpend", "unboot", "sweep", "done"}

ListInv ==
    /\ boots[run] = {}
    /\ \A v \in Versions \ {run} : \A p \in boots[v] : <<"boot", v, p>> \in listed
    /\ \A v \in healthy \ {run} : <<"healthy", v, 0>> \in listed
    /\ \A f \in listed : f[1] = "healthy" => f[2] # run
    /\ \A v \in Versions : Pending(v) => \/ pending[v].prev = run
                                         \/ <<"pending", v, 0>> \in listed

ResidueInv ==
    /\ writer \in Cleaning => run \in healthy
    /\ writer \in Cleaning \ {"unpend"} => ~Pending(run)
    /\ writer \in {"sweep", "done"} => ListInv
    /\ writer = "done" => listed = {}

\* Steps that touch no marker, or leave no writer.
LEMMA QuietKeepsResidue ==
    ASSUME ResidueInv,
           \/ writer' \notin Cleaning
           \/ UNCHANGED <<boots, healthy, pending, run, listed, writer>>
    PROVE  ResidueInv'
  BY DEF ResidueInv, ListInv, Cleaning, Pending

\* The writer's own steps.
LEMMA WriterKeepsResidue ==
    ASSUME Inv, ProcessType, FilesType, ResidueInv, Writer
    PROVE  ResidueInv'
  <1>1. writer # "none" /\ UNCHANGED <<main, run>>
    BY DEF Writer, WriterFires, WriterMarks, WriterUnpends, WriterUnboots, WriterSweeps
  <1>2. run \in Versions
    BY <1>1 DEF Inv, InSync, ProcessType
  <1>3. CASE WriterFires
    BY <1>3, QuietKeepsResidue DEF WriterFires, Cleaning
  <1>4. CASE WriterMarks
    BY <1>4 DEF WriterMarks, ResidueInv, Cleaning
  <1>5. CASE WriterUnpends
    <2>1. /\ writer = "unpend" /\ writer' = "unboot"
          /\ pending' = [pending EXCEPT ![run] = NoMarker]
          /\ UNCHANGED <<healthy, run>>
      BY <1>5 DEF WriterUnpends
    <2>2. pending'[run] = NoMarker
      BY <1>2, <2>1 DEF Inv, Shape
    <2>3. QED
      BY <2>1, <2>2 DEF ResidueInv, Cleaning, Pending
  <1>6. CASE WriterUnboots
    <2>1. /\ writer = "unboot" /\ writer' = IF listed' = {} THEN "done" ELSE "sweep"
          /\ boots' = [boots EXCEPT ![run] = {}]
          /\ listed' = Sweepable
          /\ UNCHANGED <<healthy, pending, run>>
      BY <1>6 DEF WriterUnboots
    <2>2. run \in healthy /\ ~Pending(run)
      BY <2>1 DEF ResidueInv, Cleaning
    <2>3. /\ boots'[run] = {}
          /\ \A v \in Versions \ {run} : boots'[v] = boots[v] /\ boots[v] \subseteq Pids
      BY <1>2, <2>1 DEF FilesType
    <2>4. \A v \in Versions \ {run} : \A p \in boots'[v] : <<"boot", v, p>> \in listed'
      <3>1. ASSUME NEW v \in Versions \ {run}, NEW p \in Pids, p \in boots[v]
            PROVE  <<"boot", v, p>> \in
                     {f \in {"boot"} \X (Versions \ {run}) \X Pids : f[3] \in boots[f[2]]}
        BY <3>1
      <3>2. QED
        BY <2>1, <2>3, <3>1 DEF Sweepable
    <2>5. \A v \in healthy \ {run} : <<"healthy", v, 0>> \in listed'
      BY <2>1 DEF Sweepable
    <2>6. \A v \in Versions : Pending(v) => <<"pending", v, 0>> \in listed'
      BY <2>1, <2>2 DEF Sweepable
    <2>7. ASSUME NEW f \in listed', f[1] = "healthy"
          PROVE  f[2] # run
      <3>1. /\ \A b : f # <<"backup", b, 0>>
            /\ \A v : f # <<"pending", v, 0>>
            /\ f \notin {"boot"} \X (Versions \ {run}) \X Pids
        BY <2>7
      <3>2. PICK v \in healthy \ {run} : f = <<"healthy", v, 0>>
        BY <2>1, <3>1 DEF Sweepable
      <3>3. f[2] = v
        BY <3>2
      <3>4. QED
        BY <3>2, <3>3
    <2>8. ListInv'
      BY <2>1, <2>3, <2>4, <2>5, <2>6, <2>7 DEF ListInv, Pending
    <2>9. QED
      BY <2>1, <2>2, <2>8 DEF ResidueInv, Cleaning, Pending
  <1>7. CASE WriterSweeps
    <2>1. PICK f \in listed :
            /\ boots' = IF f[1] = "boot" THEN [boots EXCEPT ![f[2]] = boots[f[2]] \ {f[3]}]
                                         ELSE boots
            /\ pending' = IF f[1] = "pending" THEN [pending EXCEPT ![f[2]] = NoMarker]
                                              ELSE pending
            /\ healthy' = IF f[1] = "healthy" THEN healthy \ {f[2]} ELSE healthy
            /\ listed' = listed \ {f}
      BY <1>7 DEF WriterSweeps
    <2>2. /\ writer = "sweep" /\ writer' = IF listed' = {} THEN "done" ELSE "sweep"
          /\ UNCHANGED run
      BY <1>7 DEF WriterSweeps
    <2>3. ListInv /\ run \in healthy /\ ~Pending(run)
      BY <2>2 DEF ResidueInv, Cleaning
    <2>4. \A v \in Versions : boots'[v] \subseteq boots[v]
      BY <2>1 DEF FilesType
    <2>5. ASSUME NEW v \in Versions \ {run}, NEW p \in boots'[v]
          PROVE  <<"boot", v, p>> \in listed'
      <3>1. <<"boot", v, p>> \in listed
        BY <2>3, <2>4 DEF ListInv
      <3>2. ASSUME f = <<"boot", v, p>>
            PROVE  FALSE
        <4>1. f[1] = "boot" /\ f[2] = v /\ f[3] = p
          BY <3>2
        <4>2. boots'[v] = boots[v] \ {p}
          BY <2>1, <4>1 DEF FilesType
        <4>3. QED
          BY <2>5, <4>2
      <3>3. QED
        BY <2>1, <3>1, <3>2
    <2>6. ASSUME NEW v \in healthy' \ {run}
          PROVE  <<"healthy", v, 0>> \in listed'
      <3>1. v \in healthy \ {run} /\ <<"healthy", v, 0>> \in listed
        BY <2>1, <2>3 DEF ListInv
      <3>2. ASSUME f = <<"healthy", v, 0>>
            PROVE  FALSE
        <4>1. f[1] = "healthy" /\ f[2] = v
          BY <3>2
        <4>2. QED
          BY <2>1, <2>6, <4>1
      <3>3. QED
        BY <2>1, <3>1, <3>2
    <2>7. ASSUME NEW v \in Versions, Pending(v)'
          PROVE  /\ pending'[v] = pending[v] /\ Pending(v)
                 /\ f # <<"pending", v, 0>>
      <3>1. pending'[v] # NoMarker
        BY <2>7 DEF Pending
      <3>2. pending'[v] \in {NoMarker, pending[v]}
        BY <2>1 DEF Inv, Shape
      <3>3. ASSUME f = <<"pending", v, 0>>
            PROVE  FALSE
        <4>1. f[1] = "pending" /\ f[2] = v
          BY <3>3
        <4>2. pending'[v] = NoMarker
          BY <2>1, <4>1 DEF Inv, Shape
        <4>3. QED
          BY <3>1, <4>2
      <3>4. QED
        BY <3>1, <3>2, <3>3 DEF Pending
    <2>8. boots'[run] = {}
      BY <1>2, <2>3, <2>4 DEF ListInv
    <2>9. ASSUME NEW v \in Versions, Pending(v)'
          PROVE  pending'[v].prev = run \/ <<"pending", v, 0>> \in listed'
      BY <2>1, <2>3, <2>7, <2>9 DEF ListInv
    <2>10. ListInv'
      <3>1. \A g \in listed' : g[1] = "healthy" => g[2] # run
        BY <2>1, <2>3 DEF ListInv
      <3>2. QED
        BY <2>2, <2>5, <2>6, <2>8, <2>9, <3>1 DEF ListInv
    <2>11. pending'[run] = NoMarker
      BY <1>2, <2>3, <2>7 DEF Pending
    <2>12. run \in healthy'
      BY <2>1, <2>3 DEF ListInv
    <2>13. QED
      BY <2>2, <2>10, <2>11, <2>12 DEF ResidueInv, Cleaning, Pending
  <1>8. QED
    BY <1>3, <1>4, <1>5, <1>6, <1>7 DEF Writer

\* What the main line does while the writer is at work: it never writes an
\* attempt or a healthy marker, and its install marker names this version.
LEMMA NextResidue ==
    ASSUME Inv, ProcessType, FilesType, ResidueInv, [Next]_vars
    PROVE  ResidueInv'
  <1>1. CASE (\E p \in Pids : Launch(p) \/ Respawn(p)) \/ Restart \/ Crash
    <2>1. writer' = "none"
      BY <1>1 DEF Launch, Respawn, Restart, StartProcess, Crash
    <2>2. QED
      BY <2>1, QuietKeepsResidue DEF Cleaning
  <1>2. CASE ScanNotices \/ UNCHANGED vars
    BY <1>2, QuietKeepsResidue DEF ScanNotices, vars, dir, proc
  <1>3. CASE Probe
    <2>1. writer = "none"
      BY <1>3 DEF Probe, NothingToJudge, ProbeFails, DropStale, DropStaleBoots,
                  RecordBootAttempt, RollbackRequired, ToJudge, Inv, StartupInv, Startup
    <2>2. writer' \in {"none", "sleeping"}
      BY <1>3, <2>1 DEF Probe, NothingToJudge, ProbeFails, DropStale, DropStaleBoots,
                  RecordBootAttempt, RollbackRequired, ProceedNormally
    <2>3. QED
      BY <2>2, QuietKeepsResidue DEF Cleaning
  <1>4. CASE BackupMissing \/ LeaveNotice \/ SwapBack \/ RollbackFails
    BY <1>4, QuietKeepsResidue DEF BackupMissing, LeaveNotice, SwapBack, RollbackFails,
       ProceedWithoutProbe, dir
  <1>5. CASE \E v \in Versions : CopyBackup(v)
    BY <1>5, QuietKeepsResidue DEF CopyBackup
  <1>6. CASE ReplaceFails \/ ReplaceBinary \/ RestartFails \/ Restore
    BY <1>6, QuietKeepsResidue DEF ReplaceFails, ReplaceBinary, RestartFails, Restore, dir
  <1>7. CASE WriteInstallPending
    <2>1. /\ main = "arm" /\ UNCHANGED <<boots, healthy, run, listed, writer>>
          /\ \/ UNCHANGED pending
             \/ pending' = [pending EXCEPT ![target] =
                              [prev |-> run, backup |-> installs, stale |-> FALSE]]
      BY <1>7 DEF WriteInstallPending
    <2>2. target \in Versions /\ target > run /\ run \in Versions
      BY <2>1 DEF Inv, InSync, InstallInv
    <2>3. \A v \in Versions : v # target => pending'[v] = pending[v]
      BY <2>1, <2>2 DEF Inv, Shape
    <2>4. pending'[target].prev = run \/ pending'[target] = pending[target]
      BY <2>1, <2>2 DEF Inv, Shape
    <2>5. pending'[run] = pending[run]
      BY <2>2, <2>3, MaxVersionAssumption DEF Versions
    <2>6. ListInv => ListInv'
      BY <2>1, <2>3, <2>4 DEF ListInv, Pending
    <2>7. QED
      BY <2>1, <2>5, <2>6 DEF ResidueInv, Pending
  <1>8. CASE \E v \in Versions : MarkerAges(v)
    <2>1. PICK v \in Versions : MarkerAges(v)
      BY <1>8
    <2>2. /\ Pending(v) /\ pending' = [pending EXCEPT ![v].stale = TRUE]
          /\ UNCHANGED <<boots, healthy, run, listed, writer>>
      BY <2>1 DEF MarkerAges, proc
    <2>3. \A u \in Versions : /\ pending'[u].prev = pending[u].prev
                              /\ u # v => pending'[u] = pending[u]
      BY <2>2 DEF Inv, Shape
    <2>4. \A u \in Versions : Pending(u)' => Pending(u)
      BY <2>2, <2>3 DEF Pending
    <2>5. ListInv => ListInv'
      BY <2>2, <2>3, <2>4 DEF ListInv
    <2>6. writer \in Cleaning => run \in Versions
      BY DEF ProcessType, Inv, InSync, Cleaning
    <2>7. QED
      BY <2>2, <2>4, <2>5, <2>6 DEF ResidueInv, Cleaning
  <1>9. QED
    BY <1>1, <1>2, <1>3, <1>4, <1>5, <1>6, <1>7, <1>8, WriterKeepsResidue
       DEF Next, Rollback, Install

\* When the healthy writer is through, no version's attempts are left, no
\* healthy marker but the own one, and no install marker except one this
\* process is leaving, however its steps interleave with an install.
THEOREM SweepLeavesNothing == Spec => []HealthyLeavesNoResidue
  <1>1. Init => ResidueInv
    BY DEF Init, ResidueInv, Cleaning
  <1>2. Inv /\ ProcessType /\ FilesType /\ ResidueInv /\ [Next]_vars => ResidueInv'
    BY NextResidue
  <1>3. ResidueInv /\ FilesType => HealthyLeavesNoResidue
    <2>1. SUFFICES ASSUME ResidueInv, FilesType, writer = "done"
                   PROVE  /\ \A v \in Versions : boots[v] = {}
                          /\ healthy = {run}
                          /\ \A v \in Versions : Pending(v) => pending[v].prev = run
      BY DEF HealthyLeavesNoResidue
    <2>2. ListInv /\ listed = {} /\ run \in healthy
      BY <2>1 DEF ResidueInv, Cleaning
    <2>3. QED
      BY <2>2 DEF ListInv
  <1>4. QED
    BY <1>1, <1>2, <1>3, TypesInvariant, PTL DEF Spec
=============================================================================
