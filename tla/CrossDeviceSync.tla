-------------------------- MODULE CrossDeviceSync ---------------------------
(***************************************************************************)
(* Cross-device sync over a shared folder: each device's SyncEngine pulls  *)
(* and merges the other devices' changesets, then pushes the rows it has   *)
(* after its push watermark.  Modelled are the rows of the suggestions     *)
(* table, which merge by status; the append-only tables merge like rows    *)
(* whose status never changes.                                             *)
(*                                                                         *)
(* Devices are numbers in the order of their ids.  No write of the program *)
(* sets a row's hybrid logical clock, so every row has (0, 0) and two      *)
(* timestamps differ in their device only: the watermark read from the     *)
(* tables is the device itself, and 0, no device, is below every device.   *)
(* A row is named after the device that makes it; SyMaxRows of the devices *)
(* make one.  Consent is given on all devices: nothing can change it at    *)
(* run time.  A device may run several cycles at once: the loop's and the  *)
(* command's.                                                              *)
(***************************************************************************)
EXTENDS Integers, FiniteSetsExt

CONSTANTS
  SyDevices,   \* number of devices
  SyMakers,    \* the devices that may make a row
  SyMaxRows,   \* bound: rows that are made
  SyMaxStatus, \* highest status of a suggestion (3: acted on)
  SyMaxCycles  \* bound: cycles that run at the same time, over all devices

ASSUME SyAssumption ==
  /\ SyDevices \in Nat \ {0} /\ SyMakers \subseteq 1..SyDevices
  /\ SyMaxRows \in Nat /\ SyMaxStatus \in Nat /\ SyMaxCycles \in Nat

VARIABLES
  syRow,   \* what each device has for each row: its status, -1 for no row, and origin
  syFile,  \* each device's changeset in the folder, in the same form
  sySince, \* last_push_watermark: 0 or the device
  syCycle, \* the cycles that run, by number
  syUnread \* the makers that once failed to read their watermark at start

syVars == <<syRow, syFile, sySince, syCycle, syUnread>>

SyDevice == 1..SyDevices
SyCycles == 1..SyMaxCycles
SyRows   == [status: -1..SyMaxStatus, origin: 0..SyDevices]
SyNoRow  == [status |-> -1, origin |-> 0]
SyNone   == [i \in SyMakers |-> SyNoRow]

(* A cycle: its step, its device, the watermark of its pull loop and the   *)
(* changes it has extracted.                                               *)
SyCycleState ==
  [at: {"none", "pull", "push", "write"}, dev: SyDevice,
   mark: SyDevice, out: [SyMakers -> SyRows]]
SyNoCycle == [at |-> "none", dev |-> 1, mark |-> 1, out |-> SyNone]

(* SyncEngine::new seeds the push watermark from storage, or starts from   *)
(* zero when that cannot be read.                                          *)
SySeed(d) == {0, d}

SyInit ==
  /\ syRow = [d \in SyDevice |-> SyNone] /\ syFile = syRow
  /\ sySince \in [SyDevice -> 0..SyDevices]
  /\ \A d \in SyDevice : sySince[d] \in SySeed(d)
  /\ syCycle = [c \in SyCycles |-> SyNoCycle]
  /\ syUnread = {d \in SyMakers : sySince[d] = 0}

SyHas(d, i) == syRow[d][i] # SyNoRow

(* The device makes its row, ... *)
SyCreate(d) ==
  /\ d \in SyMakers /\ ~SyHas(d, d)
  /\ Cardinality({i \in SyMakers : SyHas(i, i)}) < SyMaxRows
  /\ syRow' = [syRow EXCEPT ![d][d].status = 0]
  /\ UNCHANGED <<syFile, sySince, syCycle, syUnread>>

(* ... and the user of any device that has a row sees, dismisses or        *)
(* accepts it there.                                                       *)
SyDecide(d, i, status) ==
  /\ SyHas(d, i) /\ status > syRow[d][i].status
  /\ syRow' = [syRow EXCEPT ![d][i].status = status]
  /\ UNCHANGED <<syFile, sySince, syCycle, syUnread>>

(* save_suggestion_state replaces the row of a suggestion that is in the   *)
(* queue, where a start puts every row, decided or not: what the user      *)
(* decided goes with the old row, and so does the origin.                  *)
SySave(d, i) ==
  /\ SyHas(d, i)
  /\ syRow' = [syRow EXCEPT ![d][i] = [status |-> 0, origin |-> 0]]
  /\ UNCHANGED <<syFile, sySince, syCycle, syUnread>>

(* run_cycle starts to pull from the local watermark: on the loop's tick,  *)
(* at its end or by command, whatever cycles the device runs already.      *)
SyBegin(d) ==
  LET free == {c \in SyCycles : syCycle[c].at = "none"}
  IN  /\ free # {}
      /\ syCycle' = [syCycle EXCEPT ![Min(free)] =
                       [at |-> "pull", dev |-> d, mark |-> d, out |-> SyNone]]
  /\ UNCHANGED <<syRow, syFile, sySince, syUnread>>

(* Mutant of SyMergeRow: the incoming row always wins. *)
SyMergeTakesRemote(local, remote) == IF remote = SyNoRow THEN local ELSE remote

(* merge_suggestion: a row that is not there is inserted, the higher       *)
(* status wins, and between equals the later timestamp.                    *)
SyMergeRow(local, remote) ==
  IF \/ remote.status > local.status
     \/ remote.status = local.status /\ remote.origin > local.origin
  THEN remote ELSE local

(* The other devices' files after the cycle's pull watermark. *)
SyNewer(c) ==
  {e \in SyDevice \ {syCycle[c].dev} : syFile[e] # SyNone /\ e > syCycle[c].mark}

(* transport.pull takes the oldest file after the watermark, and           *)
(* apply_changes merges it in one transaction.                             *)
SyPull(c) ==
  /\ syCycle[c].at = "pull" /\ SyNewer(c) # {}
  /\ LET e == Min(SyNewer(c))
     IN  /\ syRow' = [syRow EXCEPT ![syCycle[c].dev] =
                        [i \in SyMakers |-> SyMergeRow(@[i], syFile[e][i])]]
         /\ syCycle' = [syCycle EXCEPT ![c].mark = e]
  /\ UNCHANGED <<syFile, sySince, syUnread>>

(* No file is left to pull, and the pull watermark is forgotten. *)
SyPulled(c) ==
  /\ syCycle[c].at = "pull" /\ SyNewer(c) = {}
  /\ syCycle' = [syCycle EXCEPT ![c].at = "push",
                                  ![c].mark = syCycle[c].dev]
  /\ UNCHANGED <<syRow, syFile, sySince, syUnread>>

(* backfill_origin_device_id: rows without an origin are the device's own. *)
SyBackfilled(d) ==
  [i \in SyMakers |-> IF SyHas(d, i) /\ syRow[d][i].origin = 0
                      THEN [syRow[d][i] EXCEPT !.origin = d] ELSE syRow[d][i]]

(* Mutant of SyChanges: the rows at the watermark are extracted as well. *)
SyChangesFrom(rows, since) ==
  [i \in SyMakers |-> IF rows[i].origin >= since THEN rows[i] ELSE SyNoRow]

(* query_table_changes: rows whose clock and origin come after the push    *)
(* watermark.                                                              *)
SyChanges(rows, since) ==
  [i \in SyMakers |-> IF rows[i].origin > since THEN rows[i] ELSE SyNoRow]

(* get_changes_since; without any changes the cycle is over. *)
SyExtract(c) ==
  LET d   == syCycle[c].dev
      out == SyChanges(SyBackfilled(d), sySince[d])
  IN  /\ syCycle[c].at = "push"
      /\ syRow' = [syRow EXCEPT ![d] = SyBackfilled(d)]
      /\ syCycle' = IF out = SyNone
                    THEN [syCycle EXCEPT ![c] = SyNoCycle]
                    ELSE [syCycle EXCEPT ![c].at = "write", ![c].out = out]
      /\ UNCHANGED <<syFile, sySince, syUnread>>

(* The push replaces the device's file, whose name is its watermark, and   *)
(* on its success the push watermark advances.                             *)
SyPush(c) ==
  /\ syCycle[c].at = "write"
  /\ LET d == syCycle[c].dev
     IN  /\ syFile' = [syFile EXCEPT ![d] = syCycle[c].out]
         /\ sySince' = [sySince EXCEPT ![d] = d]
  /\ syCycle' = [syCycle EXCEPT ![c] = SyNoCycle]
  /\ UNCHANGED <<syRow, syUnread>>

(* A pull, a merge, an extraction or a push that fails ends the cycle. *)
SyFail(c) ==
  /\ syCycle[c].at # "none"
  /\ syCycle' = [syCycle EXCEPT ![c] = SyNoCycle]
  /\ UNCHANGED <<syRow, syFile, sySince, syUnread>>

(* forget_peer on another device removes the device's file, and nothing    *)
(* tells the device.                                                       *)
SyForget(d) ==
  /\ SyDevices > 1 /\ syFile[d] # SyNone
  /\ syFile' = [syFile EXCEPT ![d] = SyNone]
  /\ UNCHANGED <<syRow, sySince, syCycle, syUnread>>

(* A new process: the device's cycles are gone. *)
SyRestart(d) ==
  /\ sySince' \in {[sySince EXCEPT ![d] = s] : s \in SySeed(d)}
  /\ syUnread' = syUnread \cup {i \in SyMakers : sySince'[i] = 0}
  /\ syCycle' = [c \in SyCycles |->
                   IF syCycle[c].dev = d THEN SyNoCycle ELSE syCycle[c]]
  /\ UNCHANGED <<syRow, syFile>>

SyCycleStep(c) ==
  SyPull(c) \/ SyPulled(c) \/ SyExtract(c) \/ SyPush(c) \/ SyFail(c)

SyNext ==
  \/ \E c \in SyCycles : SyCycleStep(c)
  \/ \E d \in SyDevice :
       \/ SyCreate(d) \/ SyForget(d) \/ SyRestart(d) \/ SyBegin(d)
       \/ \E i \in SyMakers : SySave(d, i)
       \/ \E i \in SyMakers, status \in 1..SyMaxStatus : SyDecide(d, i, status)

SySpec == SyInit /\ [][SyNext]_syVars

-----------------------------------------------------------------------------
(***************************************************************************)
(* Properties.                                                             *)
(***************************************************************************)

(* Type invariant of cross-device sync. *)
SyTypeOK ==
  /\ syRow \in [SyDevice -> [SyMakers -> SyRows]]
  /\ syFile \in [SyDevice -> [SyMakers -> SyRows]]
  /\ sySince \in [SyDevice -> 0..SyDevices]
  /\ syCycle \in [SyCycles -> SyCycleState]
  /\ syUnread \subseteq SyMakers

(* What a user decided about a suggestion is never undone by a changeset   *)
(* that was extracted before the decision and is merged after it, by any   *)
(* of the cycles the device runs; only saving the queue on that device     *)
(* does (sync_merger.rs:493-626, edge_intelligence/suggestions.rs:348-387).*)
SyDecisionsStay ==
  [][ \A d \in SyDevice, i \in SyMakers :
        syRow'[d][i].status < syRow[d][i].status => SySave(d, i) ]_syVars

(* How far rows travel while no write stamps their clock: a device's rows  *)
(* reach another only if the device once started without its watermark,    *)
(* and only devices with smaller ids (sync_engine.rs:62-81,                *)
(* sync_extractor.rs:71-107, file_transport.rs:181-254).                   *)
SyRowsFlowDown ==
  \A d \in SyDevice, i \in SyMakers :
    d # i /\ SyHas(d, i) => d < i /\ i \in syUnread
=============================================================================
