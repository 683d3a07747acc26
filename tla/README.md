# ONESHIM client: TLA+ specifications

ONESHIM is a desktop agent (Rust, Tauri) that watches what its user works on,
stores it locally, uploads it to a server when allowed to, obtains suggestions
in return, and updates itself. These modules specify the parts of the client
whose correctness depends on the order of things: tasks that share a queue, a
flag or a status without a common lock, credentials that rotate, files that
survive a crash halfway through an update, requests that take a lock twice with
an await in between. TLC checks them on small instances,
and TLAPS proves their safety properties for every instance.

Paths below are relative to the repository root.

## 1. The system

### Parts, their state and how they interact

| Part | Source | State | Operations | Meets |
|---|---|---|---|---|
| Capture loops | `src-tauri/src/scheduler/loops/events.rs` | none of their own | on each tick: gate, save the event, ask the egress policy, enqueue | storage, uploader |
| BatchUploader | `crates/oneshim-network/src/batch_uploader.rs` | `SegQueue`, `queue_size`, drop counters | `enqueue`, `drop_oldest`, `flush`, `requeue_failed_events`, `take_dropped_since_last` | capture loops, sync loop, breaker |
| CircuitBreaker | `crates/oneshim-network/src/circuit_breaker.rs` | Closed / Open until / HalfOpen, failures, cooldown | `check`, `record_success`, `record_failure` | uploader, analysis clients |
| Sync loop | `src-tauri/src/scheduler/loops/network.rs` | none | flush, mark rows as sent, report drops, retention; flush until empty at shutdown | uploader, SQLite |
| OAuthClient | `crates/oneshim-network/src/oauth/` | three secrets, `refresh_in_progress`, `active_flows` | `start_flow`, `flow_status`, `cancel_flow`, `get_access_token`, `refresh_access_token`, `revoke` | secret store, provider, commands |
| TokenRefreshCoordinator | `.../oauth/refresh_coordinator.rs` | failure count, backoff | `check_and_refresh`, `reset` | refresh loop, flow-status command |
| Updater | `src-tauri/src/updater/install.rs` | executable, backups, `.install_pending_*` | install and restart, rollback | coordinator, probe |
| HealthProbe | `src-tauri/src/updater/health_probe.rs`, `src-tauri/src/app_runtime_launch_health_probe.rs` | `.boot_count_pid_*`, `.self_healthy_*`, notices | judge a start, record it, declare healthy, sweep, scan notices | updater, status |
| Update coordinator | `src-tauri/src/update_coordinator.rs`, `update_runtime.rs`, `crates/oneshim-web/src/update_control.rs` | shared status (phase, pending), downloaded path, action channel | check, download, install, defer, re-check; startup check; rollback notice | web API, tray, updater |
| GUI sessions | `crates/oneshim-automation/src/gui_interaction/` | session map, tickets and used nonces, overlay handle | `create`, `highlight`, `confirm`, `execute`, `cancel`, sweep | overlay driver, focus probe |
| Automation command path | `crates/oneshim-automation/src/controller/`, `policy/` | policy cache, replay table, pending prompts, audit entries | `execute_command`, `submit_confirmation`, `update_policies`, `add_policy`, `remove_policy` | user, executor |
| Suggestion queue and deferral | `crates/oneshim-suggestion/src/queue.rs`, `deferred.rs`, the loops and commands around them | ordered items, fingerprints, deferral list, rows | push with eviction, answer, defer, resurface, save, restore | SSE, chat, SQLite |
| Feedback and its retries | `.../feedback.rs`, `feedback_retry.rs`, `src-tauri/src/scheduler/loops/suggestions.rs` | retry queue, one row per suggestion | send, enqueue, retry, give up, clean up, restore | server, SQLite |
| Integration runtime | `crates/oneshim-network/src/integration/`, `crates/oneshim-storage/src/integration_state_store/` | registry (session, outbox, inbox, cursor, checkpoint) in memory and in a file | connect, heartbeat, produce, flush, refresh, answer a prompt | integration server, web API |
| Cross-device sync | `src-tauri/src/sync_engine.rs`, `crates/oneshim-storage/src/sync_*.rs`, `file_transport.rs` | push watermark, rows, one changeset file per device | pull and merge, extract and push, forget a peer | other devices |
| TokenManager | `crates/oneshim-network/src/auth.rs` | token state behind a lock | login, `get_token` with refresh, logout | HTTP and SSE clients |
| AI sessions | `src-tauri/src/session_manager/`, `commands/ai_session.rs` | session map: state, retries, tokens used | create and admit, send, fail, recover, kill, reap | providers, desktop and web API |
| Others | see `PROJECT.json`, `components` | | | |

### What is hard, and what makes each part right

*Upload.* Queue and length are two lock-free objects, changed by several tasks
in separate operations. The counter must not drift, no event may vanish between
a pop and a push, a drop must be counted once although the counter is swapped
concurrently, and an open circuit must not strand the queue. A crash takes the
queue and leaves the database.

*Credentials.* With rotating refresh tokens a second refresh at the same time, or
one more use of an old token, can cost the user the session. The guard, the
double check, the three stores and the mutex a flow holds over its code exchange
are spread over many awaits and early returns.

*Installing.* Every file operation may be the last one before a crash, and
whatever is in the directory then is what the next start judges. A rollback must
restore the right binary, a good version must not be rolled back, and a failing
one must.

*Coordinating updates.* The coordinator's phase is shared with two other writers
and read by the user, whose actions arrive later. The installer must have its
file, it must be the one shown, and no phase may be a dead end.

*Automation.* A GUI request awaits the screen between two holds of the session
lock, so two executes, a cancel and the sweeper can each see a state that is gone
when they write. A ticket must run once, a policy token once within its lifetime,
and a command the user has to confirm only after a yes to its own prompt.

*Suggestions and feedback.* Queue, fingerprints, deferral list and rows live
behind separate locks and are saved apart. A fingerprint left behind mutes a
suggestion, a row deleted too early loses feedback with the process.

*Integration and sync.* Memory changes before a save that may fail; the loop and
the web API refresh at the same time; changesets arrive after what they describe
has changed again. Receipts, insights, prompts and decisions must survive that.

*Sessions.* Refreshes are not serialised, and the token budget is checked long
before it is charged.

`PROJECT.json` lists the hazards line by line with the properties that cover
them.

## 2. Modules

| Module | Models | Run by | Proofs |
|---|---|---|---|
| `CircuitBreaker` | breaker state and its three operations, as operators | through `UploadPipeline` | lemma `BreakerTypes` |
| `UploadPipeline` (extends it) | capture loops, uploader, sync loop, events table, restart | `MCUpload` | `UploadPipelineProofs` |
| `OAuth` | client, flows, refresh coordinator, refresh loop, commands | `MCOAuth` | `OAuthProofs` |
| `UpdateInstall` | install, probe, healthy writer, rollback, notices, crash | itself | `UpdateInstallProofs` |
| `UpdateCoordinator` | coordinator task, actions, startup check, rollback notice | itself | `UpdateCoordinatorProofs` |
| `EventLedger` | abstract: what becomes of each captured event | as a property of `UploadPipeline` | refined in `UploadPipelineProofs` |
| `GuiInteraction` | one GUI session, its requests, tickets and overlays | `MCServices` | `ServiceProofs` |
| `AutomationGate` | confirmation, policy validation, execution gate, policy changes | `MCServices` | `ServiceProofs` |
| `SuggestionQueue` | queue, fingerprints, deferral, rows, restart | `MCServices` | `SuggestionProofs` |
| `FeedbackRetry` | feedback commands, retry queue and loop, rows, restart | `MCServices` | `SuggestionProofs` |
| `IntegrationExchange` | session, outbox, inbox, producer, registry file, restart | `MCServices` | `ExchangeProofs` |
| `CrossDeviceSync` | sync cycles of several devices over a folder | `MCServices` | `ExchangeProofs` |
| `TokenManager` | server session tokens and a server that may rotate them | `MCServices` | `ServiceProofs` |
| `AiSessions` | AI sessions, their commands, the reaper, the token budget | `MCServices` | `ServiceProofs` |
| `Filters` | `Vec::retain` and its like, shared by three of the services | through them | `FilterProofs` |
| `MCServices` (extends all eight) | one service at a time | itself | `ServiceProofs`: the theorems carry over |

`PROJECT.json`, `map`, gives the source lines of every definition.

**Grain of atomicity.** A step ends where another actor can come in. In
`UploadPipeline` that is every access to the queue and every access to the
counter; in `OAuth` every await on the store, the network or a mutex; in
`UpdateInstall` every file operation; in `UpdateCoordinator` every hold of the
status lock and every answer from the network; in the service modules every hold
of a lock, every file or database write and every answer from outside.

**Abstractions.** Events are numbers in timestamp order; `queue_size` is kept
unwrapped in `size` and read modulo `Width`, which is what wrapping `usize`
arithmetic does. Time is relative: a cooldown counts down, a backoff elapses, a
token ages, a marker becomes stale, each as a step that may come at any moment.
Tokens are numbered by the grant that issued them, and a token response either
carries a new refresh token or not, an expiry or not. A version is a number, a
backup is named by the number of its install. A release is a version with the
kind of its asset, full or patch. Messages, progress, PKCE, checksums and
signatures decide nothing here beyond success or failure.

**History variables.** `lost` and `acked` (`UploadPipeline`), `spent`, `stranded`
and `revoked` (`OAuth`), `attempts`, `mixed` and `torn` (`UpdateInstall`), `guiRuns`,
`gateApproved` and `gateAccepted`, `ixSeen`, `ixLost` and `ixForgot`, `syUnread`, `tmLost`
and `tmRaced` are read by properties only; `spent` holds tokens whose replacement has arrived.

Operators whose comment says *mutant* are not part of the specification. Each is
a plausible slip in the definition that follows it, and exists to show that a
property would notice.

### UploadPipeline

`Capture(p)` is a capture loop's tick. `LoadSize`, `DropOldest`, `SubtractDrop`,
`Push` and `CountPush` are the shared accesses of `enqueue`. `Tick`,
`FlushStart`, `DrainPop`, `DrainEnd`, `SendOk`, `SendFails` are the sync loop's
`select!` and `flush`; the five `Requeue` actions are `requeue_failed_events`;
`MarkSent` and `Housekeep` finish the tick. `Returned` is what the loop does with
flush's result, in a tick and in the shutdown branch. `Restart` keeps the table
and forgets the rest: nothing in the product reads unsent rows back.

### OAuth

A task of `Callers` runs `get_access_token`; `LoopTask` runs `check_and_refresh`.
Both share the steps of a refresh (`TakeGuard` to the last store); the loop takes
the guard before it looks at the expiry, a caller after. A flow's background
task goes from `starting` through `listening`, the lock and the exchange to its
three stores. `PollFlow` is the flow-status command, which resets the coordinator
in a later step; `RevokeDelete` and `RevokeFlows` are the two halves of `revoke`.

### UpdateInstall

The variables of `dir` are the install directory, those of `proc` the one running
process: its main line (startup, then coordinator), the notice scan and the
healthy writer, which run side by side. `Crash` can end the process between any
two steps, also halfway through a sweep. `Armed` is whether the caller passes
`Some(new_version)`, `MayFail` whether writes, renames, reads and spawns can
fail.

### UpdateCoordinator

`Coordinator` collects the steps of the task itself, `Serve` takes an action from
the channel, `RecheckTick` is the interval. `StartupAnswered`, `StartupPublishes`
and `SetRolledBack` are the other writers of the status. Whether `auto_install`
is on is chosen at the start (`auto`).

### EventLedger

An event is in the future, held by the client, withheld by the egress policy,
acknowledged, or gone (dropped or lost with the process), and only a held event
moves on. `UploadPipeline` implements it: `Fate` computes an event's fate from
the producers, the queue, the batch and the history variables, and
`ImplementsLedger` is the ledger's specification under that mapping. Pops, pushes,
requeues and the counter are stuttering steps; the server's answer to a batch is
one `Acknowledge`, a restart one `GiveUp`.

### The service modules

Each prefixes its names (`Gui`, `Gate`, `Sq`, `Fb`, `Ix`, `Sy`, `Tm`, `As`), so that
`MCServices` can extend all of them. In each, a request, command, cycle or caller
is a record that says at which await it stands and what it read before.

- `GuiInteraction`: `GuiHighlightBegin`, `Clear`, `Show`, `Keep` are
  `highlight_session` between its two locks; `GuiConfirmBegin`, `GuiConfirm` and
  `GuiExecuteBegin`, `GuiFocus`, `GuiStart`, `GuiComplete` the confirmation and the
  execution of a ticket; `GuiCancel` and `GuiSweep` end in `GuiClear`;
  `GuiDropped` is a request whose connection is gone at an await.
- `AutomationGate`: `GateExecute` to `GateUnask` are the prompt, `GateStamp`,
  `GateFresh`, `GateLookup`, `GateClaim` the four parts of `validate_command`,
  `GateStart` and `GateFinish` the gate. A second command under the same id takes
  the prompt's place and closes the first one's channel.
- `SuggestionQueue`: a suggestion is its rank. `SqPush` is the queue's push as an
  operator on items and fingerprints; `SqReceive`, `SqExtract`, `SqAnswer`,
  `SqDeferTakes` and `SqDeferAdds`, `SqCollect` and `SqResurface` are its users;
  `SqSaveQueue`, `SqSaveDeferred` and `SqRestart` the way through SQLite.
- `FeedbackRetry`: `FbSubmit`, `FbAccepted`, `FbFailed`, `FbEnqueue` are a command
  and the task it spawns, `FbCollect` to `FbGiveUp` the maintenance loop's round.
- `IntegrationExchange`: `IxSave` is the registry file's write, which may fail and
  leave memory ahead; refresh is `IxRefreshAsk`, `Got`, `Upsert`, `Cursor`; flush is
  `IxFlushSend` and `IxFlushDelete`, with any part of a batch acknowledged.
- `CrossDeviceSync`: `SyBegin`, `SyPull`, `SyPulled`, `SyExtract`, `SyPush` are a
  cycle; `SyCreate`, `SyDecide` and `SySave` the writes to the table it carries.
- `TokenManager`: login, refresh (with its retries) and logout, each a request and
  the store that follows it; a server that rotates refresh tokens or does not.
- `AiSessions`: `AsBuild` and `AsAdmit` create; `AsSend`, `AsGet`, `AsTouch`, then
  `AsResult`, `AsStreamEnds` or `AsStreamFails` are a message; `AsCollect` and
  `AsEndCollected` are the two halves of the reaper.

## 3. Runs

| Run | Instance | Shows |
|---|---|---|
| `upload_safety` | 2 capture loops, 3 events (one withholdable, one unsaveable), capacity and batch 1, 1 retry, 1 restart | `TypeOK`, `CounterAccounting`, `NoEventLostOrDuplicated`, `DropsAccounted`, `ShutdownDrains`, `ImplementsLedger` |
| `upload_liveness` | 1 capture loop, 4 events, no retry | `BoundedOvershoot`, `HandedEventsLeave` |
| `oauth_safety` | loop, 2 callers, 1 flow, 2 grants, 1 revocation, failing store, every shape of response | `TypeOK`, `SingleRefreshInFlight`, `NoSpentTokenSent`, `BackoffMatchesFailures`, `LockFollowsFlow` |
| `update_safety` | 3 versions, 2 installs, 2 pids, failing operations | `TypeOK`, `RollbackNeedsThreeBoots`, `HealthyLeavesNoResidue`, `BackupIsPrevious`, `RollbackRestoresPrevious` |
| `update_liveness` | 2 versions, the second bad, 2 installs, 3 pids | `FailingVersionLeaves` |
| `coordinator` | 2 versions, 3 actions, 1 change of the offer, `auto_install` on and off | `TypeOK`, `InstallHasFile`, `InstallsWhatIsShown`, `TransientPhasesEnd`, `ActionsAreServed` |
| `services` | one of the eight services at a time, see below | `ServicesTypeOK`, `GuiTicketRunsOnce`, `GuiOverlayLostOnlyByRace`, `GateTokenOncePerTtl`, `GateRunsOnlyIfApproved`, `SqPrintsExact`, `FbOneCopy`, `FbRowOutlivesFailure`, `IxNothingForgotten`, `IxCursorCoversSeen`, `IxOneReceipt`, `IxDeadSessionStays`, `SyDecisionsStay`, `SyRowsFlowDown`, `TmRenewable`, `AsBudgetOvershoot` |
| `upload_sent_rows` | 1 capture loop, 2 events | violates `SentRowsWereUploaded` |
| `oauth_revoke` | loop, 1 caller, 1 flow, 1 revocation | violates `RevokedStaysRevoked` |
| `update_unarmed` | 2 versions, the second bad, 1 install, not armed | violates `BadVersionRolledBack` |
| `coordinator_auto_stall` | 1 release, no action | violates `DetectedUpdatesProceed` |
| `coordinator_delta` | 1 release, 2 actions | violates `InstallsFullBinary` |

**Why the bounds are enough.** With capacity 1 and three events, two producers can
both pass the capacity test, drop, and race a drain and a requeue; the counter
goes below zero, the third event finds the queue overfull, and a batch of two
(the double batch) occurs. Four events are what it takes to fill the queue behind
a failed batch and pass a bound that is one too high. Breaker thresholds are 1:
every failed flush opens the circuit, and its half-open state is reached. Two
grants give a token a successor and let a flow and a refresh overlap; three
consecutive failures need no grant. Three versions with two installs allow an
update, a rollback and another update, and two pids make three starts reuse one.
Two approvals drive a release through download and install, and the third action
finds a superseded file.

**The `services` run.** The services share no variable, lock or call, so checking
their product adds nothing to checking each alone. `MCServices` chooses one at
the start (`part`) and moves only that one. The integration runtime appears in
two instances, because all of it at once is too large: `inbox`, with two
refreshes that overlap and no insights, and `outbox`, with insights and the
loop's refresh. The third prompt, the one that overflows the inbox, is offered in
the first while none is answered and in the second while there is no insight.
What each bound lets happen:

| Part | Instance | Enough for |
|---|---|---|
| gui | 2 requests, 2 tickets, 2 overlays, 1 focus retry | two executes of one ticket, a second highlight, a cancel or sweep in between |
| gate | 2 commands, 1 id, 1 token, lifetime 2, 2 s | one prompt replacing the other, a claim stamped before a tick, reuse at the end of the lifetime |
| queue | 3 suggestions, two with one content, queue and list of 1, 2 rows read back | eviction, duplicate content, a full deferral list, a truncated restore |
| feedback | 2 suggestions, 3 feedbacks, queue of 2, 1 attempt, 1 restart | two feedbacks on one suggestion, a full queue, giving up |
| inbox, outbox | 2 refreshes, 3 prompts, 1 insight, 2 messages, batch and inbox of 2, 1 failed save, 1 restart | cursors stored in either order, pruning after a failed save, a receipt sent twice, partial acknowledgement |
| sync | 2 devices, 1 row, 1 decision, 2 cycles at once | a changeset extracted before a decision and merged after it |
| tokens | 2 callers, 4 tokens, 1 retry | overlapping refreshes, one overtaking the other |
| chat | 2 commands, 2 ids, 1 retry, budget 1, usage 1 | two messages past the budget check, a session reaped under a message |

`SyRowsFlowDown` and `IxDeadSessionStays` state what the code does and not what
one would wish: see section 5.

Deadlock is checked in all runs except the coordinator's, whose process is gone
once an install succeeded, and `services`, where a part stops when its bounds are
used up.

**Fairness.** `UploadPipeline`: an enqueue that began and the flusher's loop go
on, because tokio keeps polling ready tasks, and time passes. Nothing is assumed
of captures, server or schedule; `HandedEventsLeave` puts a server that stays up,
an open schedule and the absence of a shutdown in its hypothesis.
`UpdateInstall`: the application is started again, not always under a pid that
has left a marker; a bad version ends before its 30 s; a process is not killed
for ever before its probe or inside its rollback (strong fairness on those
steps, since each start offers them anew). `UpdateCoordinator`: tasks run, the timer
ticks, `select!` picks randomly among ready branches and so does not starve the
channel (strong fairness on `Serve`), and the network answers or breaks. The HTTP
client has no timeout, so that last one is an assumption on the peer and not a
guarantee of the code. `OAuth` has no liveness: a token request is not bounded in
time either, and nothing follows without that.

**Conditions inside properties.** `NoSpentTokenSent` excludes the time after the
store failed to keep a rotated token (`stranded`): the code then has the spent
one only. `BackupIsPrevious` and `RollbackRestoresPrevious` exclude a process
that installs again after its own executable was replaced (`mixed`), see section
5. `InstallsWhatIsShown` excludes the time after the startup check has written
its own finding over the status, which it may do in the middle of an
installation. `FailingVersionLeaves` starts from a marker whose backup is there.
`RollbackNeedsThreeBoots` excludes a version whose healthy marker a sweep removed
while its attempts stayed (`torn`), `IxCursorCoversSeen` prompts that a prune took
from memory before they had been in the file (`ixLost`), see section 5.
`TmRenewable` excludes the time after an answer with a new token was lost
(`tmLost`) or a logout overlapped another call (`tmRaced`), `IxOneReceipt` prompts
whose answer the registry has forgotten (`ixForgot`), `GuiOverlayLostOnlyByRace`
names the three races in which an overlay is lost.

## 4. Proofs

TLAPS checks 44 theorems, for every value of the constants that satisfies the
named assumptions of the modules (finite producers, positive capacities, a loop
that is not one of the callers, and the like). Every safety invariant and every
action property of a passing run is stated by one of them, and so is the
refinement of the ledger. Unless the table says otherwise a theorem has the form
`Spec => []P`, with an inductive invariant that contains or implies `P`.

| Module | Theorems | Invariant |
|---|---|---|
| `UploadPipelineProofs` | `TypeCorrect`, `CounterNeverDrifts`, `EachEventInOnePlace`, `EveryDropCounted`, `PipelineImplementsLedger` (refinement), `QueueBounded`, `ShutdownLeavesUncounted` (action) | `TypeOK`, `CounterInv`, `Placed`, `QueueInv` |
| `OAuthProofs` | `TypeCorrect`, `OneRefreshAtATime`, `BackoffCorrect`, `MutexFollowsFlow`, `SpentTokensStayUnsent` | `GuardInv`, `BackoffInv`, `LockInv`, `RetryInv`, `SpentInv` |
| `UpdateInstallProofs` | `TypeCorrect`, `MarkersNameTheirBackup`, `RollbackIsExact` (action), `RollbackOnThirdStart`, `SweepLeavesNothing` | `Inv`, `RecordInv`, `ResidueInv` |
| `UpdateCoordinatorProofs` | `TypeCorrect`, `InstallerFindsItsFile`, `ShownIsInstalled` | `FileInv`, `ShownInv` |
| `ServiceProofs` | `GuiTypeCorrect`, `TicketsRunOnce`, `OverlaysLostOnlyByRace` (action); `GateTypeCorrect`, `TokensOncePerTtl` (action), `RunsOnlyIfApproved` (action); `TmTypeCorrect`, `SessionRenewable`; `AsTypeCorrect`, `BudgetOvershootBounded`; `ServicesTypeCorrect` | `GuiInv`, `GateInv`, `TmInv`, `AsInv` |
| `ExchangeProofs` | `SyTypeCorrect`, `RowsFlowDown`, `DecisionsStay` (action); `IxTypeCorrect`, `NothingForgotten`, `CursorCoversSeen`, `OneReceipt`, `DeadSessionStays` (action) | `SyInv`, `IxInv`, `IxBounds` |
| `SuggestionProofs` | `SqTypeCorrect`, `PrintsExact`; `FbTypeCorrect`, `OneCopy`, `RowOutlivesFailure` (action) | `SqInv`, `FbInv` |
| `FilterProofs` | lemmas only: least numbers, what `Keeping` keeps, the elements of a sequence | |

The proofs go action by action along the groups of `Next`, and under an action by
the parts of the invariant that it can disturb.

**Upload.** `CounterInv` adds `BatchOnlyInFlush` to the accounting: the batch weighs
only during the drain, so it must be empty when a drain starts. For the rest every
step is first reduced to one of eight ways in which events move (`Moves`: a
capture, a drop, a push, a pop into the batch, the server's answer, a requeue, a
restart, or none). `Placed` says that hands, queue, batch and the four fates
partition the events captured so far, and that no sequence holds one twice; the
moves keep it, `NoEventLostOrDuplicated` and `DropsAccounted` follow, and under
`Fate` each move is one step of `EventLedger` or a stutter. The overshoot needs
`RoomInv`, which counts queue, batch and the pushes still owed together: an
enqueue that passed the capacity test has read a counter that owed at most the
others' pushes. `WidthAssumption` says that a `usize` does not wrap at the true
length; without it the capacity test would read a small number from a full queue.

**Credentials.** `SingleRefreshInFlight` and `LockFollowsFlow` are inductive with
their types; every early return of a refresh is a case of `CallAndGuard`. The
bound on consecutive failures in `TypeOK` needs that the loop works only below it
(`RetryInv`). For `NoSpentTokenSent`, a stored token can be spent only while the
holder of the guard is about to store its successor, and a response still to be
stored, of a refresh or of a flow, carries a token nobody has read.

**Installing.** `BackupIsPrevious` alone is not inductive: that a new backup holds
the running version needs the executable to be the running version while a
process has installed nothing (`InSync`); that the marker written next names this
backup needs the backup to be untouched or gone between copy and marker
(`InstallInv`); that an older marker does not come to name a newer backup needs
markers to name installs that have happened (`MarkerInv`, which also says that
the previous version is the older one); and the rollback needs its marker and
backup to be still there between judgement and swap (`StartupInv`), which holds
because the healthy writer has not started yet. `RecordInv` bounds the recorded
attempts of a version that is neither healthy nor `torn` by its starts, strictly
while a start has not recorded itself yet. `ResidueInv` says that from the moment
the sweep has its list, whatever it has to remove is on it, although the main line
may install meanwhile.

**Coordinating.** While the phase is ReadyToInstall, and at every place from which
the coordinator installs, a file was downloaded; nobody else enters that phase
(`FileInv`). File, path and wanted release agree with the pending one until the
startup check publishes (`ShownInv`).

**Services.** `GuiInv`: a ticket that ran has its nonce in the table, or its session
has expired and is not created again. `GateInv`: the replay table has the last
acceptance of a token or its lifetime is over, and a yes in a channel is its own
user's. `TmInv`: a stored token that the server no longer accepts is about to be
overwritten or cleared. `AsInv`: the tokens spent, and one answer for every message
that has passed the check and is not charged, stay below the budget and one answer
per caller. `SyInv`: what a device holds, publishes and carries of another's rows
has the form that flowing down requires. `IxInv` states the same of the registry
in memory and of the file, since a failed save lets them differ: an answered
prompt's receipt, and every insight up to the checkpoint, is in the outbox or with
the server; a queue id names one message; a receipt that is not forgotten is the
only one. That pruning keeps the inbox within its limit (`IxBounds`) is a counting
argument: in a strict order at least k positions have fewer than k before them
(`LowRanks`). `FbInv`: command, task, queue and round hold different feedback.
`ServicesCompose` shows that `MCServices!Spec` implies the specification of each
service, so that the theorems hold where they are checked together.

**Recursion.** `Keeping`, `SqPushAll` and `FbEnqueueAll` are recursive functions. The
library's induction rules take an operator as parameter, which the provers cannot
instantiate, so these proofs argue by the least number for which a step fails
(`FilterProofs!LeastNat`), with the function's defining equation as a hypothesis
and its existence as a lemma (`KeptExists`).

**What proving changed.** Two properties that TLC had accepted turned out not to be
invariants. A sweep can remove another version's healthy marker and end before it
removes that version's attempts: `RollbackNeedsThreeBoots` now excludes `torn`
versions; the case takes four installs, more than `update_safety` has. A save can fail, and a prune
before the next save take a prompt that the cursor passes: `IxCursorCoversSeen`
now names the prompts in `ixLost`, and `services` has prompts enough to reach it.

Only model-checked: liveness (`HandedEventsLeave`, `FailingVersionLeaves`,
`TransientPhasesEnd`, `ActionsAreServed`), because fairness and ENABLED are outside
this prover, and the runs that expect a violation.

## 5. What the models show beyond the properties that hold

Five runs exhibit behaviour that a document or a comment of the repository
contradicts; `PROJECT.json`, `findings`, quotes both sides.

1. After one flush that uploaded anything, every row older than now is marked as
   sent, those of queued, dropped or withheld events too (`upload_sent_rows`).
2. `revoke` deletes the secrets before it waits for the flows, and a flow in its
   exchange stores new ones meanwhile (`oauth_revoke`).
3. The coordinator calls the install variant that writes no marker, so nothing is
   ever rolled back (`update_unarmed`).
4. With `auto_install`, a release the startup check found waits for ever
   (`coordinator_auto_stall`).
5. A patch asset is installed as if it were the binary (`coordinator_delta`).

Seen while modelling, each an ordinary behaviour of the specifications, without a
run of its own:

- the queue passes its capacity by a requeued batch too, where
  `batch_uploader.rs:109-110` speaks of one event per concurrent caller;
- the schedule's suppression is tested when a flush starts (`:215`), and the
  uploads of that flush go on when a window opens;
- a loop that loses the race for the guard reports the token as fresh
  (`oauth/mod.rs:418`), and the failure count is cleared;
- the outcome of a refresh that began before `reset()` can stop the loop for a
  year after it (`refresh_coordinator.rs:165-181`);
- the healthy writer's sweep can remove the backup an install of the same process
  has just made (`health_probe.rs:410`);
- a sweep that ends between another version's healthy marker and its attempts
  leaves the attempts, and that version, installed again, is rolled back before
  its third start (`health_probe.rs:410`); it takes four installs;
- a rollback leaves the failed version's attempts, which count when the same
  version is installed again (`health_probe.rs:292`);
- the failing process's own notice scan can consume the notice of its rollback
  (`app_runtime_launch_health_probe.rs:47`, `:155`);
- when a marker cannot be written the new binary stays in place, and the next
  install of that process records it as the backup of the old version
  (`install.rs:508`): the `mixed` condition;
- an approval is judged by the phase in which it is served, so two early ones
  install a release nobody has seen ready (`update_coordinator.rs:191`);
- a session the integration server has forgotten is never replaced: its stored
  status counts as ready, in this process and after restarts
  (`integration/runtime_loop.rs:112`);
- two refreshes of the inbox can overlap, and the later cursor may be the older
  one (`inbox_coordinator.rs:181`); the prompts between are fetched again;
- a prompt pruned from memory after a failed save was never in the file, and the
  cursor stored later passes it (`integration_state_store/inner.rs:174`);
- no write stamps a row's clock, so a device's rows reach others only after a
  start that failed to read the watermark, and only devices with smaller ids
  (`sync_extractor.rs:71`);
- saving the suggestion queue replaces the row and with it the decision
  (`edge_intelligence/suggestions.rs:348`); an answered suggestion keeps its
  pending row and returns after a restart;
- a second highlight that overlaps the first overwrites its handle, and the first
  overlay stays on the screen (`gui_interaction/service.rs:310`);
- a command under an id in use closes the other command's prompt, and the timeout
  of one removes the prompt of the other (`controller/mod.rs:131`);
- the success of one feedback deletes the row of a newer one on the same
  suggestion (`scheduler/loops/suggestions.rs:133`);
- two refreshes of the server session may run at once (`auth.rs:180`); with a
  server that rotates, the slower one is refused and the faster one's token stays;
- the token budget counts the sessions that exist, so ending one gives its tokens
  back and nothing resets it by the day; the web API neither checks nor charges it
  (`session_manager/mod.rs:141`, `handlers/ai_session.rs:71`);
- a session the reaper has collected is ended although a message touched it in
  between (`session_manager/mod.rs:194`).

## 6. Not modelled

Uploading when the policy disables it (nothing happens), `enqueue_many` and
`ConnectivityManager` (no caller in the product), frames and their retention,
heartbeats, the Windows rollback (a stub), torn marker files, release selection,
rollout buckets and signature checks, and everything below the transport, secret
store and SQLite interfaces.

Of the services: scenes, candidates and signatures (data), process isolation and
the audit buffer's upload, presets and intents, the LAN and remote sync
transports and their encryption, provider processes and stored messages of AI
sessions, consent, which nothing in the product changes at run time.

Most of the repository is code for which a state machine says little: the web
dashboard and its handlers, generated protocol code, screen and window capture,
audio, OCR, embeddings and clustering, coaching and focus statistics, prompt
construction, PII filters, provider catalogues, configuration types, SQL
migrations and queries. It reads and transforms data and holds no state that
several steps compete for, so the modelled share of all lines is small.
`components` gives the reason for each part.

## 7. Plan

Done: the four core components, first because losing data, losing a session and
losing a working binary are what the client must not do; the event ledger and its
refinement; the eight services.

The proofs of every safety property that the runs check, the refinement included.

Next, in this order:

1. Composition of `UpdateCoordinator` and `UpdateInstall`, with the coordinator's
   installer steps refined by the install steps.
2. The breaker registry with several clients that record outcomes concurrently,
   and a theorem on what `check` admits while the circuit is open.
3. An abstract specification for the retry queue and one for the integration
   outbox (a message is new, stored, delivered), refined as the ledger is.

## 8. Running

    tlc -config upload_safety.cfg MCUpload
    tlapm UpdateInstallProofs.tla

`PROJECT.json`, `runs`, names module and configuration of each run. On two
workers `services` takes about three minutes, each of the others about a minute or
less; the proofs of a module take from seconds to several
minutes.
