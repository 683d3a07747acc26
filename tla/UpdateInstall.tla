--------------------------- MODULE UpdateInstall ---------------------------
(***************************************************************************)
(* Installing an update and surviving a bad one.                           *)
(*                                                                         *)
(* `Updater::install_and_restart_with_ops` (src-tauri/src/updater/         *)
(* install.rs) copies the executable aside, replaces it, leaves an         *)
(* `.install_pending_{VERSION}` marker and re-executes.  On every start    *)
(* `HealthProbe` (health_probe.rs) reads the markers of the install        *)
(* directory and either records the attempt or puts the backup back; a     *)
(* task that fires after 30 s of uptime declares the version healthy and   *)
(* sweeps the directory; another task, started before the probe, consumes  *)
(* the notices a rollback leaves for the user                              *)
(* (src-tauri/src/app_runtime_launch_health_probe.rs).                     *)
(*                                                                         *)
(* The directory survives a crash; everything else is the memory of the    *)
(* one running process (the single-instance plugin admits no second).  A   *)
(* file operation is one step, so a crash falls between any two of them.   *)
(* The platform is Unix: on Windows the rollback is a stub that returns an *)
(* error.  A version is a number, so that an update is a larger one; the   *)
(* nanosecond stamp that names a backup is the number of its install.      *)
(* Writes, renames, reads and spawns may fail; a removal of a file that is *)
(* there succeeds, and a marker is written whole or not at all.            *)
(***************************************************************************)
EXTENDS Integers, FiniteSets

CONSTANTS
    MaxVersion,   \* the newest version the release server ever offers
    MaxInstalls,  \* bound on the installs of a behaviour
    Pids,         \* process ids the system hands out
    Bad,          \* the versions that never stay up for 30 s
    Armed,        \* whether the caller passes Some(new_version)
    MayFail       \* whether writes, renames, reads and spawns can fail

Versions == 1 .. MaxVersion
Backups  == 1 .. MaxInstalls

ASSUME MaxVersionAssumption == MaxVersion \in Nat \ {0}
ASSUME MaxInstallsAssumption == MaxInstalls \in Nat
ASSUME BadAssumption == Bad \subseteq Versions
ASSUME FlagsAssumption == Armed \in BOOLEAN /\ MayFail \in BOOLEAN

VARIABLES
    exe,      \* the version the executable file holds
    backup,   \* backup file -> the version it holds, 0 when it does not exist
    pending,  \* version -> its .install_pending_ marker
    boots,    \* version -> the pids with a .boot_count_pid_ marker
    healthy,  \* versions with a .self_healthy_ marker
    notes,    \* versions with a .rolled_back_notification_ file
    run,      \* the version running, 0 when there is no process
    pid,      \* its process id
    main,     \* where its main line (startup, then the coordinator) stands
    target,   \* the version being installed
    scan,     \* whether the notice scan still has to run
    writer,   \* where the healthy writer stands
    keep,     \* the backup the healthy writer spares, 0 for none
    listed,   \* the files the healthy writer has still to remove
    installs, \* installs started so far
    attempts, \* history: starts of a version since it was last found healthy
    mixed,    \* history: an install began in a process whose executable had
              \* already been replaced
    torn      \* history: versions whose healthy marker a sweep has removed
              \* before their attempts, and whose attempts are still there

dir  == <<exe, backup, pending, boots, healthy, notes>>
proc == <<run, pid, main, target, scan, writer, keep, listed>>
hist == <<attempts, mixed, torn>>
vars == <<dir, proc, installs, hist>>

\* HealthProbe::new: rollback once this many attempts are on record.
failed_boot_threshold == 2

\* The history counters stop here: one start more than the threshold.
Third == failed_boot_threshold + 1

\* An absent marker; `backup` 0 distinguishes it.
NoMarker == [prev |-> 0, backup |-> 0, stale |-> FALSE]

Pending(v) == pending[v] # NoMarker

Init ==
    /\ exe = 1
    /\ backup = [b \in Backups |-> 0]
    /\ pending = [v \in Versions |-> NoMarker]
    /\ boots = [v \in Versions |-> {}]
    /\ healthy = {}
    /\ notes = {}
    /\ run = 0 /\ pid = 0 /\ main = "down" /\ target = 0
    /\ scan = FALSE /\ writer = "none" /\ keep = 0 /\ listed = {}
    /\ installs = 0
    /\ attempts = [v \in Versions |-> 0]
    /\ mixed = FALSE
    /\ torn = {}

-----------------------------------------------------------------------------
(* A process starts from the executable file.                              *)

CountUpTo(n) == IF n < Third THEN n + 1 ELSE n

StartProcess(p) ==
    /\ run' = exe /\ pid' = p /\ main' = "boot" /\ target' = 0
    /\ scan' = TRUE
    /\ writer' = "none" /\ keep' = 0 /\ listed' = {}
    /\ attempts' = [attempts EXCEPT ![exe] = CountUpTo(@)]
    /\ UNCHANGED <<mixed, torn>>

\* The user or the system launches the application.
Launch(p) ==
    /\ main = "down"
    /\ StartProcess(p)
    /\ UNCHANGED <<dir, installs>>

\* The process ends: a crash, a kill, the user quitting.
Crash ==
    /\ main # "down"
    /\ run' = 0 /\ pid' = 0 /\ main' = "down" /\ target' = 0
    /\ scan' = FALSE
    /\ writer' = "none" /\ keep' = 0 /\ listed' = {}
    /\ UNCHANGED <<dir, installs, hist>>

\* spawn_rolled_back_scan: every notice is removed; the one that names the
\* running version is shown first.  The removals are independent of each
\* other, so the loop is one step.
ScanNotices ==
    /\ scan
    /\ scan' = FALSE
    /\ notes' = {}
    /\ UNCHANGED <<exe, backup, pending, boots, healthy, run, pid, main, target,
                   writer, keep, listed, installs, hist>>

-----------------------------------------------------------------------------
(* HealthProbe::check_startup_state.                                       *)

\* StartupAction::Normal: startup goes on and dispatches the healthy writer.
ProceedNormally ==
    /\ main' = "up" /\ writer' = "sleeping"
    /\ UNCHANGED <<run, pid, target, scan, keep, listed>>

\* The probe failed or the rollback did: no probe handle, no healthy writer.
ProceedWithoutProbe ==
    /\ main' = "up"
    /\ UNCHANGED <<run, pid, target, scan, writer, keep, listed>>

Count == Cardinality(boots[run])

\* Already healthy, or no install to judge.
NothingToJudge ==
    /\ main = "boot"
    /\ run \in healthy \/ ~Pending(run)
    /\ ProceedNormally
    /\ UNCHANGED <<dir, installs, hist>>

ToJudge == main = "boot" /\ run \notin healthy /\ Pending(run)

\* A filesystem error while inspecting the state means Normal; one that only
\* hides the attempts on record makes the probe count none and record this one.
ProbeFails ==
    /\ ToJudge /\ MayFail
    /\ \/ UNCHANGED boots
       \/ ~pending[run].stale /\ boots' = [boots EXCEPT ![run] = @ \cup {pid}]
    /\ ProceedNormally
    /\ UNCHANGED <<exe, backup, pending, healthy, notes, installs, hist>>

\* A marker older than a day is abandoned: first the marker goes ...
DropStale ==
    /\ ToJudge /\ pending[run].stale
    /\ pending' = [pending EXCEPT ![run] = NoMarker]
    /\ main' = "unboot"
    /\ UNCHANGED <<exe, backup, boots, healthy, notes, run, pid, target, scan,
                   writer, keep, listed, installs, hist>>

\* ... then the attempts on record.
DropStaleBoots ==
    /\ main = "unboot"
    /\ boots' = [boots EXCEPT ![run] = {}]
    /\ torn' = torn \ {run}
    /\ ProceedNormally
    /\ UNCHANGED <<exe, backup, pending, healthy, notes, installs, attempts, mixed>>

RecordBootAttemptForgets ==   \* mutant
    /\ ToJudge /\ ~pending[run].stale
    /\ Count < failed_boot_threshold
    /\ ProceedNormally
    /\ UNCHANGED <<dir, installs, hist>>

\* Below the threshold this start is recorded; a marker that this pid left
\* before (PID reuse) is accepted as it is.
RecordBootAttempt ==
    /\ ToJudge /\ ~pending[run].stale
    /\ Count < failed_boot_threshold
    /\ boots' = [boots EXCEPT ![run] = @ \cup {pid}]
    /\ ProceedNormally
    /\ UNCHANGED <<exe, backup, pending, healthy, notes, installs, hist>>

RollbackRequiredEarly ==   \* mutant: the boot is counted before the test
    /\ ToJudge /\ ~pending[run].stale
    /\ Count + 1 >= failed_boot_threshold
    /\ main' = "rollback"
    /\ UNCHANGED <<dir, run, pid, target, scan, writer, keep, listed,
                   installs, hist>>

\* At the threshold the probe asks for a rollback.
RollbackRequired ==
    /\ ToJudge /\ ~pending[run].stale
    /\ Count >= failed_boot_threshold
    /\ main' = "rollback"
    /\ UNCHANGED <<dir, run, pid, target, scan, writer, keep, listed,
                   installs, hist>>

-----------------------------------------------------------------------------
(* Updater::execute_rollback.                                              *)

Kept == pending[run].backup

\* No backup: the rollback fails and the user stays on the failing version.
BackupMissing ==
    /\ main = "rollback"
    /\ backup[Kept] = 0
    /\ ProceedWithoutProbe
    /\ UNCHANGED <<dir, installs, hist>>

LeaveNoticeUnchecked ==   \* mutant: the backup is not looked for
    /\ main = "rollback"
    /\ notes' = notes \cup {pending[run].prev}
    /\ main' = "swap"
    /\ UNCHANGED <<exe, backup, pending, boots, healthy, run, pid, target, scan,
                   writer, keep, listed, installs, hist>>

\* The notice is written before the swap; failing to write it is not fatal.
LeaveNotice ==
    /\ main = "rollback"
    /\ backup[Kept] # 0
    /\ \/ notes' = notes \cup {pending[run].prev}
       \/ MayFail /\ UNCHANGED notes
    /\ main' = "swap"
    /\ UNCHANGED <<exe, backup, pending, boots, healthy, run, pid, target, scan,
                   writer, keep, listed, installs, hist>>

SwapBackNewest ==   \* mutant: the newest backup, not the recorded one
    /\ main = "swap"
    /\ \E b \in Backups :
         /\ backup[b] # 0
         /\ \A c \in Backups : c > b => backup[c] = 0
         /\ exe' = backup[b]
         /\ backup' = [backup EXCEPT ![b] = 0]
    /\ main' = "respawn"
    /\ UNCHANGED <<pending, boots, healthy, notes, run, pid, target, scan,
                   writer, keep, listed, installs, hist>>

\* The backup is renamed over the executable.
SwapBack ==
    /\ main = "swap"
    /\ exe' = backup[Kept]
    /\ backup' = [backup EXCEPT ![Kept] = 0]
    /\ main' = "respawn"
    /\ UNCHANGED <<pending, boots, healthy, notes, run, pid, target, scan,
                   writer, keep, listed, installs, hist>>

\* The restored binary is spawned and this process exits.
Respawn(p) ==
    /\ main = "respawn"
    /\ StartProcess(p)
    /\ UNCHANGED <<dir, installs>>

\* The rename or the spawn fails.
RollbackFails ==
    /\ main \in {"swap", "respawn"} /\ MayFail
    /\ ProceedWithoutProbe
    /\ UNCHANGED <<dir, installs, hist>>

-----------------------------------------------------------------------------
(* The healthy writer: spawn_healthy_writer and                            *)
(* write_self_healthy_and_cleanup, concurrent with everything the process  *)
(* does once it is up.                                                     *)

\* The 30 s are over: the backup named by the own marker will be spared.
WriterFires ==
    /\ writer = "sleeping" /\ run \notin Bad
    /\ keep' = Kept
    /\ writer' = "mark"
    /\ UNCHANGED <<dir, run, pid, main, target, scan, listed, installs, hist>>

\* The .self_healthy_ marker is written; an error there ends the task.
WriterMarks ==
    /\ writer = "mark"
    /\ \/ /\ healthy' = healthy \cup {run}
          /\ attempts' = [attempts EXCEPT ![run] = 0]
          /\ writer' = "unpend"
       \/ /\ MayFail
          /\ writer' = "none"
          /\ UNCHANGED <<healthy, attempts>>
    /\ UNCHANGED <<exe, backup, pending, boots, notes, run, pid, main, target, scan,
                   keep, listed, installs, mixed, torn>>

WriterUnpends ==
    /\ writer = "unpend"
    /\ pending' = [pending EXCEPT ![run] = NoMarker]
    /\ writer' = "unboot"
    /\ UNCHANGED <<exe, backup, boots, healthy, notes, run, pid, main, target, scan,
                   keep, listed, installs, hist>>

SweepableBackupsOnly ==   \* mutant: the sweep before its fix
    { <<"backup", b, 0>> : b \in {c \in Backups : backup[c] # 0 /\ c # keep} }

\* What the sweep finds: every backup but the spared one, and the markers of
\* every other version.
Sweepable ==
    { <<"backup", b, 0>> : b \in {c \in Backups : backup[c] # 0 /\ c # keep} }
      \cup {f \in {"boot"} \X (Versions \ {run}) \X Pids : f[3] \in boots[f[2]]}
      \cup { <<"pending", v, 0>> : v \in {u \in Versions \ {run} : Pending(u)} }
      \cup { <<"healthy", v, 0>> : v \in healthy \ {run} }

\* The own attempts are removed and the directory is listed for the sweep.
WriterUnboots ==
    /\ writer = "unboot"
    /\ boots' = [boots EXCEPT ![run] = {}]
    /\ listed' = Sweepable
    /\ torn' = torn \ {run}
    /\ writer' = IF listed' = {} THEN "done" ELSE "sweep"
    /\ UNCHANGED <<exe, backup, pending, healthy, notes, run, pid, main, target,
                   scan, keep, installs, attempts, mixed>>

\* One listed file is removed.
WriterSweeps ==
    /\ writer = "sweep"
    /\ \E f \in listed :
         /\ backup' = IF f[1] = "backup" THEN [backup EXCEPT ![f[2]] = 0] ELSE backup
         /\ boots' = IF f[1] = "boot" THEN [boots EXCEPT ![f[2]] = @ \ {f[3]}] ELSE boots
         /\ pending' = IF f[1] = "pending" THEN [pending EXCEPT ![f[2]] = NoMarker]
                                           ELSE pending
         /\ healthy' = IF f[1] = "healthy" THEN healthy \ {f[2]} ELSE healthy
         /\ listed' = listed \ {f}
    /\ torn' = {v \in torn \cup (healthy \ healthy') : boots'[v] # {}}
    /\ writer' = IF listed' = {} THEN "done" ELSE "sweep"
    /\ UNCHANGED <<exe, notes, run, pid, main, target, scan, keep, installs, attempts, mixed>>

-----------------------------------------------------------------------------
(* Updater::install_and_restart_with_ops.                                  *)

\* The executable is copied to a backup of its own.
CopyBackup(v) ==
    /\ main = "up" /\ v > run
    /\ installs < MaxInstalls
    /\ installs' = installs + 1
    /\ backup' = [backup EXCEPT ![installs + 1] = exe]
    /\ target' = v /\ main' = "replace"
    /\ mixed' = (mixed \/ exe # run)
    /\ UNCHANGED <<exe, pending, boots, healthy, notes, run, pid, scan, writer, keep,
                   listed, attempts, torn>>

\* Extracting or replacing fails: the orphan backup is removed.
ReplaceFails ==
    /\ main = "replace"
    /\ backup' = [backup EXCEPT ![installs] = 0]
    /\ target' = 0 /\ main' = "up"
    /\ UNCHANGED <<exe, pending, boots, healthy, notes, run, pid, scan, writer, keep,
                   listed, installs, hist>>

ReplaceBinaryThenBackup ==   \* mutant: the copy is taken after the replacement
    /\ main = "replace"
    /\ exe' = target
    /\ backup' = [backup EXCEPT ![installs] = target]
    /\ main' = IF Armed THEN "arm" ELSE "restart"
    /\ UNCHANGED <<pending, boots, healthy, notes, run, pid, target, scan,
                   writer, keep, listed, installs, hist>>

\* self_replace: the new binary takes the executable's place.
ReplaceBinary ==
    /\ main = "replace"
    /\ exe' = target
    /\ main' = IF Armed THEN "arm" ELSE "restart"
    /\ UNCHANGED <<backup, pending, boots, healthy, notes, run, pid, target, scan,
                   writer, keep, listed, installs, hist>>

\* write_install_pending; when it fails the install ends with an error, on the
\* new binary, without a marker.
WriteInstallPending ==
    /\ main = "arm"
    /\ \/ /\ pending' = [pending EXCEPT ![target] =
                           [prev |-> run, backup |-> installs, stale |-> FALSE]]
          /\ main' = "restart"
          /\ UNCHANGED target
       \/ /\ MayFail
          /\ target' = 0 /\ main' = "up"
          /\ UNCHANGED pending
    /\ UNCHANGED <<exe, backup, boots, healthy, notes, run, pid, scan, writer, keep,
                   listed, installs, hist>>

\* restart_app: exec keeps the pid and loses everything in memory.
Restart ==
    /\ main = "restart"
    /\ StartProcess(pid)
    /\ UNCHANGED <<dir, installs>>

RestartFails ==
    /\ main = "restart" /\ MayFail
    /\ main' = "restore"
    /\ UNCHANGED <<dir, run, pid, target, scan, writer, keep, listed, installs, hist>>

\* After a failed restart the backup replaces the executable again, unless
\* that fails too; either way the install ends with an error.
Restore ==
    /\ main = "restore"
    /\ \/ backup[installs] # 0 /\ exe' = backup[installs]
       \/ UNCHANGED exe
    /\ target' = 0 /\ main' = "up"
    /\ UNCHANGED <<backup, pending, boots, healthy, notes, run, pid, scan, writer,
                   keep, listed, installs, hist>>

-----------------------------------------------------------------------------
\* A day passes over a marker.
MarkerAges(v) ==
    /\ Pending(v) /\ ~pending[v].stale
    /\ pending' = [pending EXCEPT ![v].stale = TRUE]
    /\ UNCHANGED <<exe, backup, boots, healthy, notes, proc, installs, hist>>

Probe ==
    \/ NothingToJudge
    \/ ProbeFails
    \/ DropStale
    \/ DropStaleBoots
    \/ RecordBootAttempt
    \/ RollbackRequired

Rollback ==
    \/ BackupMissing
    \/ LeaveNotice
    \/ SwapBack
    \/ \E p \in Pids : Respawn(p)
    \/ RollbackFails

Writer ==
    \/ WriterFires
    \/ WriterMarks
    \/ WriterUnpends
    \/ WriterUnboots
    \/ WriterSweeps

Install ==
    \/ \E v \in Versions : CopyBackup(v)
    \/ ReplaceFails
    \/ ReplaceBinary
    \/ WriteInstallPending
    \/ Restart
    \/ RestartFails
    \/ Restore

Next ==
    \/ \E p \in Pids : Launch(p)
    \/ Crash
    \/ ScanNotices
    \/ Probe
    \/ Rollback
    \/ Writer
    \/ Install
    \/ \E v \in Versions : MarkerAges(v)

Spec == Init /\ [][Next]_vars

(***************************************************************************)
(* Fairness.  Someone launches the application again, and not always under *)
(* a pid that already left a marker; a version of Bad ends before its 30 s *)
(* do; and no process, one with a new pid included, is killed before its   *)
(* probe, or inside the rollback, over and over.                           *)
(***************************************************************************)
LaunchFresh == \E p \in Pids \ boots[exe] : Launch(p)
RecordFresh == main = "boot" /\ pid \notin boots[run] /\ RecordBootAttempt
BadEnds     == run \in Bad /\ main = "up" /\ Crash

FairSpec ==
    /\ Spec
    /\ SF_vars(LaunchFresh)
    /\ WF_vars(BadEnds)
    /\ WF_vars(Probe)
    /\ SF_vars(RecordFresh)
    /\ SF_vars(RollbackRequired)
    /\ SF_vars(LeaveNotice)
    /\ SF_vars(SwapBack)

-----------------------------------------------------------------------------
Markers == {NoMarker} \cup [prev : Versions, backup : Backups, stale : BOOLEAN]

Files ==
    ({"backup"} \X Backups \X {0}) \cup ({"boot"} \X Versions \X Pids)
      \cup ({"pending", "healthy"} \X Versions \X {0})

MainStates == {"down", "boot", "unboot", "rollback", "swap", "respawn", "up",
               "replace", "arm", "restart", "restore"}

\* The executable is always some complete version, every marker names a backup
\* and a version, and a main line past its launch belongs to a version.
TypeOK ==
    /\ exe \in Versions
    /\ backup \in [Backups -> Versions \cup {0}]
    /\ pending \in [Versions -> Markers]
    /\ boots \in [Versions -> SUBSET Pids]
    /\ healthy \subseteq Versions
    /\ notes \subseteq Versions
    /\ run \in Versions \cup {0}
    /\ pid \in Pids \cup {0}
    /\ main \in MainStates
    /\ target \in Versions \cup {0}
    /\ scan \in BOOLEAN
    /\ writer \in {"none", "sleeping", "mark", "unpend", "unboot", "sweep", "done"}
    /\ keep \in Backups \cup {0}
    /\ listed \subseteq Files
    /\ installs \in 0 .. MaxInstalls
    /\ attempts \in [Versions -> 0 .. Third]
    /\ mixed \in BOOLEAN
    /\ torn \subseteq Versions

\* A version is rolled back only after it was started three times without
\* having been found healthy in between, whatever crashes interrupted the
\* writer or the stale-marker cleanup, unless a sweep of another version was
\* cut short between this version's healthy marker and its attempts
\* (check_startup_state, write_self_healthy_and_cleanup).
RollbackNeedsThreeBoots ==
    main \in {"rollback", "swap"} /\ run \notin torn => attempts[run] >= Third

\* When the healthy writer is through, the directory holds no attempt of any
\* version, no healthy marker but the own one, and no install marker except
\* one this process is leaving for its successor
\* (write_self_healthy_and_cleanup).
HealthyLeavesNoResidue ==
    writer = "done" =>
        /\ \A v \in Versions : boots[v] = {}
        /\ healthy = {run}
        /\ \A v \in Versions : Pending(v) => pending[v].prev = run

\* A backup that a marker names holds exactly the version the marker calls
\* previous, through any number of installs, failures, rollbacks, sweeps and
\* crashes, unless a process installed a second time after its own executable
\* had been replaced (install_and_restart_with_ops).
BackupIsPrevious ==
    \A v \in Versions :
        Pending(v) /\ backup[pending[v].backup] # 0 /\ ~mixed
            => backup[pending[v].backup] = pending[v].prev

\* Under the same condition a rollback replaces the executable by the version
\* the marker calls previous, which is older than the one that failed
\* (execute_rollback).
RollbackRestoresPrevious ==
    [][main = "swap" /\ main' = "respawn" /\ ~mixed
        => exe' = pending[run].prev /\ exe' < exe]_vars

\* A version of Bad that sits in place with a fresh marker and its backup is
\* eventually rolled back, unless its marker expires or it is replaced.
ArmedFor(v) ==
    /\ exe = v
    /\ Pending(v) /\ ~pending[v].stale
    /\ v \notin healthy
    /\ backup[pending[v].backup] # 0

FailingVersionLeaves ==
    \A v \in Bad : (main = "down" /\ ArmedFor(v))
                     ~> (exe # v \/ ~Pending(v) \/ pending[v].stale)

\* What docs/guides/updater-rollout.md:126 promises of every install: a
\* version that never reaches its healthy marker is replaced by the previous
\* one.
BadVersionRolledBack == \A v \in Bad : (exe = v) ~> (exe # v)

=============================================================================
