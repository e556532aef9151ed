# Codex Desktop for Arch: a verification development

TLA+ models of the concurrent core of the GTK client in `src/src`, checked
with TLC on small instances and, where the system matters most, proved with
TLAPS for every instance.  File and line numbers refer to the repository.

## 1. The system

| Component | State it keeps | Operations |
|---|---|---|
| **Controller** (`ui/mod.rs`, `model.rs`) | `AppState`: connection, open task, `resumed_threads`, `pending` (one entry per JSON-RPC request in flight), tasks and the turns they run; the composer; the Remote flags | user actions (open, new, send, steer, fork, approve), `poll_backend` on a GTK timer → `handle_backend_event` → `handle_response` / `apply_notification` |
| **Transcript store and view** (`model.rs`, `ui/mod.rs`) | the open task's turns and items, pending copies of steered messages, a page cursor; rows of widgets with a fingerprint each | merging notifications, pages, full turns and rollout messages; reconciling the rows |
| **AppServerHub** (`backend.rs` 120-445) | a bounded command channel (256), a bounded event channel (1024), which transport is in use | `request`, `respond`, `reconnect`, `drain_events`; the `supervise` loop with back-off |
| **Direct transport** (497-615) | a child `codex app-server`, `initialized` | initialize, write requests, forward messages |
| **Managed transport** (617-982) | a WebSocket to the daemon shared with iOS clients, pending Remote requests, heartbeat | the same, plus Remote status requests and their time-outs |
| **AccountHub and profiles** (236-369) | one hub per profile, the index of all profiles' tasks | `switch_profile`, adding a profile, bulk actions on tasks |
| **Remote host and recovery** (`ui/mod.rs` 5998-6073, `backend.rs`, `host.rs`) | unhealthy samples, pending, in-progress, cooldown; systemd services | observe, recover when idle, start, stop, restart, hand off |
| **One-time reset watcher** (`ui/mod.rs` 97-250, 16862-16891) | one guard file, an in-memory copy, two outstanding request ids | `--watch-one-time-reset PERCENT KEY` |
| **One-time reset of the window** (`ui/mod.rs`) | `one_time_reset_guard` of the stored state, `reset_credit_in_flight` | reading the limits, spending by the guard or by hand |
| **Approvals** | the queue of the server's requests, a dialog | queue, resolve, answer |
| **Buddy turns, turn records** (`ui/mod.rs`, `qwen.rs`, `routing.rs`) | turns only this window knows; routes, usage, receipts, samples | start, progress, finish, store |
| **Context** (`context.rs`, `ui/mod.rs`) | metrics, checkpoints and evidence of a task, generations | checkpoint, compact, measure |
| **Goals**, **Extensions page** | a copy of what the server keeps | ask, answer, notification, listing |
| **Automations** (`automation.rs`) | history and definitions on disk, systemd units | add, edit, switch, delete, run, record |
| **Rollout monitor, history repair** (`activity.rs`, `history.rs`) | which tasks other processes run; the projection database and its cursor | scan rollout files, prove and project |
| **Macro executor** (`macro_executor.rs`) | macros, their steps, locks, a read cache | a scheduler over asynchronous tasks |
| **Stored state** (`persistence.rs`) | `state.json`, guard and automation files | load, `write_json_atomic` |
| **Host actions, scripts, shell, web view** | systemd units, child processes, widgets | mostly I/O |

The controller runs on the GTK main thread.  Each hub runs its supervisor on a
Tokio runtime.  The two share no state but the two channels and one flag
(`managed_transport`), so the controller's picture of the connection is always
old by the events it has not drained, and a command it issues may be executed
on a later connection than the one it was meant for.  The app-server is a
third actor: a child process that dies with a direct transport, or a daemon
that outlives a managed one and serves other clients meanwhile.

What is hard, and what correctness means:

* **Session.**  `resumed_threads` must be true of *this* connection, no
  `pending` entry may outlive the last chance of an answer (sends and the
  handoff wait for them), no message may start two turns, the task on the
  screen must end up resumed, and the handoff must not kill a running turn.
* **Transcript.**  Pages, live items, full turns, pending copies and rollout
  messages name one message by different ids and arrive in any order: each is
  shown once, and the rows show what the store holds.
* **Reset credits.**  Money: a credit must be spent at most once over crashes,
  restarts, lost answers and retries; what the file records must be true; the
  attempt must be finished.
* **Remote recovery.**  Restart only when idle, at most once per cooldown,
  never a healthy host, and never get stuck "in progress".
* **Profiles.**  Nothing of one account may reach another.
* **Local work.**  Macros must not write over each other; scheduled runs must
  not lose their records; the monitor and the repair must not lose a marker or
  a record; a checkpoint must not vouch for what it did not see.

`PROJECT.json` lists every component with its status and every hazard at the
line where it bites.

## 2. Modules

| Module | What it is |
|---|---|
| `ResetGuard`, `ResetGuard_proofs` | the headless reset watcher, its hub, the credit service; theorems about it |
| `OneCredit` | what a one-time reset promises: the abstract specification |
| `ResetWindow` | the window's own reset guard, which implements `OneCredit` |
| `ClientSession` | one controller, one hub and one app-server: the task session |
| `ManagedRequests` | the requests the hub makes of the managed daemon for itself |
| `RemoteHost` | the Remote host of each profile, its recovery and everyone who restarts it |
| `ProfileSwitch` | account profiles and the index of all their tasks |
| `TurnLifecycle` | what the window takes for running |
| `Transcript`, `TranscriptView` | how a task's messages come together; how they reach the screen |
| `TurnLedger` | routes, receipts, savings and samples of turns |
| `BuddyTurns` | turns answered by a Buddy model |
| `Approvals` | requests the server makes of the user |
| `TaskGoal`, `Extensions` | the goal selector; the extensions page |
| `ContextManager` | checkpoints, compactions and their measurements |
| `Automations` | one scheduled task, its units and its runs |
| `RolloutMonitor`, `HistoryRepair` | the monitor of rollout files; the repair of the projection |
| `MacroExecutor` | the macro scheduler, its locks, cache and jobs |
| `WindowParts`, `WindowParts_proofs` | approvals, managed requests, profiles, goals, Buddies and a scheduled task beside the window's reset; theorems about each |
| `ServerParts`, `ServerParts_proofs` | what runs, context, ledger and extensions page beside each other; theorems about each |
| `ClientSession_proofs`, `MacroExecutor_proofs`, `HistoryRepair_proofs`, `RemoteHost_proofs` | theorems about those modules |
| `Desk_proofs` | the theorems of all parts of `MCDesk`, for their composition |
| `MCResetGuard`, `MCClientSession`, `MCMacroExecutor`, `MCTranscript`, `MCDesk` | the instances TLC checks |

`MCDesk` and `MCTranscript` hold several modules side by side: each is an
`INSTANCE` with its own bounds and its own copies of the variables whose names
two modules share; the first state chooses which part moves, the others stay.
`MCDesk` extends `ResetWindow`, `WindowParts` and `ServerParts`, where most of
its instances are, so that what is proved of them there can be cited of it.
The parts share no state, so nothing is lost by not interleaving them, and the
run asks each part its own questions.  `HistoryRepair` and `RemoteHost` come
in through the modules with their proofs, so that `Desk_proofs` can cite their
theorems for the instances.  Where components do interact, they are
in one module: controller, hub and server in `ClientSession`; profiles, hubs,
daemons and recovery in `RemoteHost`; the monitor, the loader and Codex's own
projector in `HistoryRepair`; the live stream, the pages and the rollout
reader in `Transcript`.

A few rules hold for all of them.  A handler is one action with everything it
calls: the GTK thread runs nothing in between.  An `await`, a thread, a
process, a channel or a file another process reads is where an action ends.
The app-server, systemd, Codex's own database writer and the credit service
are external: they are modelled from how the code uses them, and answer and
notify in one order per connection unless said otherwise.  Dialogs are modal
where GTK makes them so.  What is only displayed, logged or formatted is left
out.  Where a property name is followed by a quotation in its comment, the
quotation is the repository's own promise.

### ResetGuard

`disk` is `one-time-reset-guard.json`; `guard`, `ready`, `rateReq` and
`consumeReq` are the locals of `run_one_time_reset_watch`; `pc` says where a
watcher is between two effects another process or a crash could see: after
reading the file (`arming`), in the loop (`watching`), after deciding to spend
(`deciding`: the file is not written yet; `sending`: it is), after the answer
(`completing`).  `Start`, `Arm`, `OnReady`, `OnDisconnected`, `OnRate`,
`PersistPending`, `SendConsume`, `OnConsume`, `Complete`, `OnStale` and `Poll`
are the statements of that function in order.  `write_json_atomic` writes a
temporary file and renames it, so a write either happens or does not.  `Crash`
is a kill at any point and also the `?` of a failed write.

The service (`Redeem`) is external: idempotent per key, it may fail, and a
request whose sender lost the connection may still be executed later
(`ServeOrphan`).  A request still in the command channel when the transport is
lost is written to the next connection; `LinkDown` chooses which ones those
are.  `weekly` moves at will.  Time is left out: a poll may come at any moment
its guard allows.

### ResetWindow and OneCredit

The window has a guard of its own in the stored state, armed by hand.
`OnLimits` is the answer to a read of the limits with
`maybe_consume_one_time_reset` in it; `confirm_use_reset_credit` and
`UseCredit` are the dialog of the user; `OnConsumed` is the answer to either
kind of request, and settles the guard whichever it was.  `Disconnect`,
`Restart` and `SwitchProfile` lose the answers and not the requests.  The
guard is on disk whenever a handler ends (a failing write of `state.json` is
not modelled).  `OneCredit` knows two things: whether a spending is authorized
and what was spent under it.  The refinement mapping takes the window as
authorized while its guard is armed or a request of its is still to be
carried out.  The promise is one credit, whichever account it is of.  A user
who leaves an account while the guard is pending there (`strayed`) excuses it:
the guard goes with the window, and may then spend a credit of each account.
`OneShot` asks for the promise without that excuse, and is refuted.

### ClientSession

`ui` is the part of `AppState` the session handlers read and write: `conn`,
`active`, `resumed` (`resumed_threads`), `pending`, `running` (the tasks
`thread_is_running` says run), the composer, `handoff`
(`remote_handoff_pending`) and `listed` (tasks have been listed once).  `cmds`
and `evq` are the hub's channels, `phase`, `mode` and `losses` its supervisor,
`wire` the requests written to the present connection, and `subs`, `existing`,
`turns`, `delivered` the app-server.  Its `TypeOK` documents these shapes and
is proved (`SessionTyped`); the runs ask for deeper properties.

* User and machine: `Type`, `OpenTask` (`open_timeline_thread`), `NewTask`,
  `SendComposer`, `ForkThread`, `RemoteActive` (`handle_remote_result`),
  `RemoteRestarted`.
* `handle_backend_event` and `handle_response`: one action per event or kind
  of answer, `OnConnecting` to `OnGivenUp`.  Every handler is whole: the calls
  it makes that issue requests (`open_thread_live`, `unsubscribe_idle_threads`,
  `start_turn`, `maybe_handoff_to_managed_transport`) are helpers on a pair of
  a controller state and the commands issued so far.
* The hub: `Connect`, `InitOk`, `Lost`, `WriteRequest`, `DropRequest` (the
  direct transport discards what arrives before its handshake ends),
  `Reconnect` (a commanded reconnect, which emits no `Disconnected`).
* The app-server, external: it answers requests about one task in order and
  requests about different tasks in any order; it may refuse, answer without
  a usable task, or answer with a frame too large to read.

A handler's requests go down the channel as one batch, written in any order:
they concern different tasks.  JSON-RPC ids are `Stamps`, reused when nothing
in flight carries them.

### The hub's own requests, the Remote host, the profiles

`ManagedRequests` is `run_managed_transport` as far as its own requests go:
`pending` with ages, the two-request refresh, coalescing, expiry on the
heartbeat, and status notifications while a refresh is under way.

`RemoteHost` has one hub per profile shown so far, each with a command queue,
spawned tasks and an event queue.  `Tick` and `Handle` are the controller's
timer and event handlers, `HubStep` the loop that takes commands once
connected, `Spawned` the asynchronous service actions.  `since` counts time to
the cooldown.  A daemon changes its health by itself, which also covers what
the watchdog of a profile does to it.  The recovery's condition
`remote_transition_is_busy` is read from what the window knows of turns, which
`turn` keeps apart from what runs.  A turn is bound to the hub it was sent to
(`turn[p].hub`): after a switch away and back a profile has another hub, and
only the transport a turn was written to takes it along when it ends.
`SwitchProfile` shuts the old hub down as `AccountHub::switch_profile` does:
its receiver is dropped with the events in it, and what its tasks still emit
goes nowhere (`Emit`).

`ProfileSwitch` keeps the tasks' true owners (`born`) beside the window's
index (`owner`), so that `Isolated` can compare them.

### Turns and transcripts

`TurnLifecycle` has the sources of "running" (`active_turn_id`, statuses of
turns, `turn_progress`, `status` notifications) for two tasks, with turns of
another client.  Steered and new messages go by `activeTurn`.

`Transcript` is the merge: `merge_thread_turn_page`,
`merge_thread_turn_details`, `merge_local_recovery_items` and the pending
copies, against a rollout that holds every message and pages that hold
summaries.  A message is a number; its id is the live or the projected one.
`TranscriptView` is `render_transcript`, `reconcile_transcript_rows` and the
streaming paths, for one turn of each of two tasks; it takes the store's
operations as given and asks whether the screen follows.

`TurnLedger` records, per turn, the route it was sent on, the tokens the
server said it took and what its helpers saved, with sends, settings and
notifications in any legal order.

`BuddyTurns`, `Approvals`, `TaskGoal` and `Extensions` are small: one copy of
something kept elsewhere, and everything that rewrites it.  In `TaskGoal` a
`GoalRead` is taken to be answered.  `BuddyTurns!Troubles` names what else may
happen while a Buddy works; the passing run leaves the rollout monitor's
snapshots out, because with them the property fails (`buddy_lost`).

### Files and processes

`ContextManager` separates what the window asks, what the host worker does in
steps (`Identify`, `ReadFile`, `Verify` of one file of evidence) and what the
server compacts.  `Automations` has the page's operations, each a sequence of
host actions (validation, files, `daemon-reload`, `enable --now` or
`disable --now`) of which any may fail: `Installs` and `Removals` are the sets
of what they may leave and report.  A removal ignores a failed disable and an
edit a failed removal, as the code does.  The run processes each read, change
and replace the history, or start from an empty one if it cannot be read.
`RolloutMonitor` has files of bytes, chunks and overlap, with truncation (a
rewritten file is scanned before it is longer than it was), the repairs of the
projection by the monitor and by others (`ProjectElsewhere`), and the window's
side: snapshots polled and ends of turns heard of (`Completed`).
`HistoryRepair` has repairers in three steps (read, write the marker, commit)
beside Codex's own cursor; an `odd` record is an item that a repair counts and
skips; `Upgrade` changes the schema.

`MacroExecutor` has one state per macro and step: the coordinator's state, the
task's place (`pc`), the locks it holds, and the job (a thread or process) it
waits for.  An aborted task gives its locks back and leaves its job, an
`orphan`, running.  `Refused` are the requests the validation turns away,
`Replace` is one atomic replacement of a file.

## 3. Runs

| Run | Shows | Bounds |
|---|---|---|
| `reset_single` | `TypeOK`, `AtMostOneCredit`, `AttemptOnDiskFirst`, `RecordedResetHappened`, `CompletedIsFinal`, `AttemptFinishes` | 1 watcher, started any number of times under 2 keys; 2 credits, so a second could be spent; 3 ids (two in flight and a stale one); 2 undrained events |
| `session_managed` | `ResumedIsLive`, `NoOrphanedPending`, `AtMostOnce` | 2 tasks, one of them new; 1 message; 1 lost connection or handshake; 3 ids; 2 commands, 2 events; refusals and malformed answers |
| `session_handoff` | `HandoffInterruptsNoTurn` | both transports, no lost connection, 1 commanded reconnect, host restarts, oversized frames, other clients' turns, 2 ids |
| `session_live` | `OpenTaskResumed` | 2 tasks, no messages, 1 lost connection, 4 ids |
| `macro_mixed` | `MutationsExclusive`, `CompletedMeansDone`, `StepsInOrder`, `NeverStuck`, `StaleWriteRefused` | 2 macros of 7 kinds (two of them refused or dry) of at most 3 steps, 2 files, a cache of 1, failing renames and commands |
| `transcript` | `ShowsTheRollout`, `NoTwin`, `Drawn` | 2 turns, 3 messages, 1 visit elsewhere, 1 click; 2 tasks, texts of 2, 4 changes |
| `desk` | 21 properties, below | per part, in `MCDesk` and `Desk.cfg` |
| `session_stale` | **violates** `ResumedIsLive` | 1 commanded reconnect |
| `macro_branch` | **violates** `ConditionsHonoured` | 1 macro of 3 steps |
| `buddy_lost` | **violates** `NoAnswerLost` | 2 tasks, 2 turns, snapshots of the monitor |
| `turn_foreign` | **violates** `EveryMarkCleared` | 2 tasks, 2 turns, 3 moves |
| `recovery_left` | **violates** `RecoveryHasAnAnswer` | 2 profiles, 2 hubs |

The bounds are small because the hazards are: each needs one loss or one
reconnect, two tasks or two turns (one displaced while the other starts) and
two or three requests in flight.  One lost connection suffices for "survives
into the next connection"; a second lets nothing survive that the first did
not already clear.  Two turns, two messages of which one is steered, and one
visit elsewhere make every pair of sources of a transcript meet.  Two macros
suffice for every conflict of locks, which are between two tasks; the longer
waits are chains of such pairs, which sorted locks rule out.
`MaxQueued` bounds the channels by making the sender wait; the code's 1024 and
256 entries are never reached at this size, and what it does there (drop) is
not modelled.  `Slack` keeps some ids from the user's steps so that a handler
that must issue a request is never blocked by the bound.  Every run that may
stop by exhausting such a bound has `CHECK_DEADLOCK FALSE`; that macros do not
hang is a property, `NeverStuck`.

### What the passing runs say

Reset watcher (`reset_single`):

* `AtMostOneCredit`: no order of crashes, restarts under another key, lost or
  late answers spends a second credit through one guard file.  It needs the
  attempt on disk before the request, and the key check at start.
* `AttemptOnDiskFirst`: wherever a consume request is (queued, written,
  orphaned, executed) the file already holds its key and an attempt.
* `RecordedResetHappened`, `CompletedIsFinal`: what the file claims is true
  and, once completed, final, for every later start of the command.
* `AttemptFinishes`: a living watcher on a living transport does not sit on a
  forgotten request or a low week.

Session (`session_managed`, `session_handoff`, `session_live`):

* `ResumedIsLive`: once the controller has drained the `Ready` of the present
  connection, every task it believes resumed is streamed there, or the answer
  to its release is in the queue.
* `NoOrphanedPending`: every pending request can still be answered, or the
  `Disconnected` that clears it is on its way.
* `AtMostOnce`: lost, refused or restored, a message starts at most one turn.
* `HandoffInterruptsNoTurn`: when the controller decides to leave the direct
  app-server, no turn runs on it and no message is on its way to it.
* `OpenTaskResumed`: a task that stays on the screen is resumed on the
  connection that lasts, also when its release was under way when it was
  opened.

Macros (`macro_mixed`):

* `MutationsExclusive`: of two living jobs that touch one file neither changes
  it, searches excepted, which take no file lock.
* `StaleWriteRefused`: a checked write replaces only what it expects, whoever
  was ahead of it for the locks, as long as no aborted job runs on.
* `StepsInOrder`, `CompletedMeansDone`, `NeverStuck`: the order of
  dependencies, no work left behind a success, no deadlock of locks.

Transcript (`transcript`): `ShowsTheRollout` (at rest every recorded message
is shown), `NoTwin` (no optimistic copy stands beside its message), `Drawn`
(row by row gives what drawing everything would).

Desk:

* `MarkersFollowed`, `WindowFollows` (monitor): running is what the last marker
  says, however reads and chunks cut it; and a window that polled all that was
  sent shows the tasks the last scan found running, but for those whose end it
  heard of since.  One of these that runs again at the next scan changes no
  snapshot, so it stays unmarked until another does.
* `ProjectionFaithful` (repair): the database holds exactly the turns and items
  before its cursor that a repair can project, over races, crashes and a change
  of schema.
* `NoAnswerLost` (Buddy), `NoRequestStranded` (approvals), `NoRefreshLost`
  (managed requests): nothing somebody waits for is dropped.
* `IdleLooksIdle` (turns): a task that runs nothing shows nothing running.
* `RecoveryKeepsItsAnswer`, `RestartsSpaced`, `HealthyHostSpared`,
  `KnownTurnsSpared` (Remote host): a recovery keeps the answer it waits for
  until another profile is shown, keeps its cooldown, leaves a host that came
  back alone and kills no turn it knew of when it asked; turns sent while the
  restart is on its way are not spared.
* `Isolated` (profiles): no request about a task goes to another account.
* `TimerRunsStored`, `EndedRunsRecorded` (automations): systemd runs what the
  page reported saved, whatever failed before, except a timer whose disable
  failed unseen; runs that do not overlap keep their records while the history
  can be read.
* `OneCheckpointEach`, `EvidenceTrue` (context): one checkpoint a generation;
  a hash is that of the file it names.
* `EndsAccounted`, `LedgerTrue` (ledger): each turn is accounted once, with
  its own route and tokens.
* `GoalTrue`, `PageTrue`: once everything is answered, the selector and the
  page agree with the server, or know that they may not.  `PageTrue` is for a
  server that answers in order: a full listing that a change overtakes
  (`ui/mod.rs:5519`) is left out.
* `KeepsPromise`: `ResetWindow` implements `OneCredit`: over lost answers,
  restarts and manual spending one guard spends one credit, unless the account
  was left while it was pending; once settled it stays so.

### What the violations show

* `session_stale`: a commanded reconnect (`hub.reconnect`, after a handoff or
  a host restart) emits no `Disconnected`, so the controller keeps tasks as
  resumed that the new connection never resumed, and does not resume them.
* `macro_branch`: a step whose condition names a step skipped in the same pass
  is launched with its condition unchecked.
* `buddy_lost`: a snapshot of the monitor unmarks a task whose Buddy works;
  opening another task then drops the turn, and the answer.
* `turn_foreign`: a turn started in a background task becomes the turn of the
  open one, and its end does not clear that.
* `recovery_left`: a profile switched while a restart is on its way drops the
  hub that would answer; nothing resets `remote_recovery_in_progress`, and
  neither the button nor the recovery restarts a host until the program is
  started again.

### Seen on the way, with no run of its own

TLC refutes the following statements too, in instances a little larger or
freer than the runs', or they follow from reading a handler while modelling
it.  The modules state the ones with a name; `ResetGuard_two.cfg`,
`ResetWindow_switched.cfg`, `Automations_swallowed.cfg`,
`RolloutMonitor_moved.cfg` and `Transcript_twice.cfg` show the first five to
whoever runs them.

* Two watchers started under two keys at one moment both pass the check for
  another authorization (`ui/mod.rs:106`), since check and write are separate
  steps without a lock, and each spends a credit.  `AtMostOneCredit` holds of
  one watcher at a time.
* `ResetWindow!OneShot`: a guard that is pending when the window moves to
  another account goes with it and asks again, under a key that has redeemed
  nothing there (`ui/mod.rs:5252`).  If the first request was carried out and
  its answer lost, one guard has spent a credit of each account.
* `Automations!SavingReplaces`: an edit that disables an item is reported saved
  while its old timer runs on, for the failed `disable --now` is ignored
  (`automation.rs:192`).
* `RolloutMonitor!MaintenanceAdvances`: a repair that finds its cursor moved by
  another is recorded as finished (`history.rs:260`, `activity.rs:125`); the
  lines still lacking wait until the file grows.
* `Transcript!NothingTwice`: recovery inserts a message that the transcript
  shows already, before the anchor its search starts from (`model.rs:1241`).
* `Transcript!ReopenedShowsTheRollout`: a resumed task brings its own page,
  which nothing re-merges with a rollout whose fingerprint did not change.
  `Transcript!LoadingEnds`: a request for details lost with its connection
  leaves "Loading activity…" on the button (`ui/mod.rs:4376`).
* An edit that fails between removing the old units and installing the new
  ones loses the timer (`ui/mod.rs:15101`), and two overlapping runs lose a
  record (`automation.rs:317`).
* `ContextManager!MeasuresItsOwn` (two compactions and an outage): the end of
  a compaction missed in an outage leaves its measurement, which the next one
  completes (`ui/mod.rs:10335`).
* A recovery that waits for idle tasks restarts a host that was disabled
  meanwhile (`ui/mod.rs:5143`); foreign rows with an old "active" hold a
  recovery back; the account label comes from the hub that is shown only.
* A partial answer stays over the full one after an outage, for
  `streaming_text` is not cleared on disconnect (`model.rs:475`); a streamed
  answer keeps its plain label because the completed message has the same
  fingerprint; `status` idle alone leaves the progress pill drawn.
* `plugins_full_catalog_loading` and `extensions_bootstrapped` survive a lost
  connection: the page stays as it was until it is refreshed by hand.
* `has_current_profile_direct_running_work` does not count a message that is
  sent and not answered; `shared_task_history` is never pruned; the reason a
  goal stopped survives a read that finds it active.

### Fairness

`ResetGuard!Fairness`: the watcher's loop never stops (it sleeps 200 ms), the
hub reconnects for ever with a bounded back-off, the service answers consume
requests and does not fail every rate-limit read for ever (strong, since the
transport may go down in between).  Nothing obliges a watcher to be started.

`ClientSession!Fairness`: `poll_backend` is a GTK timer; the supervisor never
gives up; the handshake eventually succeeds (strong, and the bound on losses
lets the last connection stand); the select loop takes every command; the
server answers every request and every turn ends.  No user step is fair.

The other modules state no fairness.  What must eventually happen is put as a
safety property there: whoever waits has somebody who will answer
(`NoRefreshLost`, `RecoveryKeepsItsAnswer`, `NoRequestStranded`), somebody can
move (`NeverStuck`), or what is shown at rest is right (`ShowsTheRollout`,
`GoalTrue`, `PageTrue`, `IdleLooksIdle`).

## 4. Proofs

`ResetGuard_proofs`, for any sets of watchers, keys and ids and any number of
credits and events:

* `TypeCorrect`: `Spec => []TypeOK`, from the inductive `TypeOK /\ KeyKnown`
  (a running watcher works under a key from its command line).
* Under `SoleWatcher` (at most one watcher process uses the file, in any
  number of incarnations; without it the check for another key and the write
  of the file may be separated by another watcher's): `OneCredit`,
  `AttemptPersisted`, `RecordTruthful`, `CompletionFinal`.

The argument: `AtMostOneCredit` alone is not inductive, because a request in
flight under another key would break it in the next step.  `IInv` adds that
every consume request anywhere, live or orphaned, and every redeemed key is
the key on disk with an attempt recorded (`AttemptOnDiskFirst`); that the
watcher's copy agrees with the file as far as its position in the code
requires (`CopyAgrees`: before `Arm` it may differ, between decision and write
it is ahead, with nothing sent); and that an answer in the queue that claims a
spent credit is true (`AnswersTruthful`).  `StepIInv` proves it kept, one step
per action; the four theorems follow from it and temporal logic.  Assumptions
on the constants: `NoKey` is no key, `NoId` is no id, the credits and the
bound on events are natural numbers.

`ClientSession_proofs`.  Two theorems hold for all constants, with the one
assumption that there is a JSON-RPC id (`StampAssumption`):

* `SessionTyped`: `Spec => []TypeOK`.
* `SentOnce`: `Spec => []AtMostOnce`.

Their invariant is `Base` and `Messages`.  `Base` adds to the types that a
request is in one place (`Placed`: queued, written, or answered in `evq`) and
that what it is about exists (`About`).  `Messages` says where a message is: in
the composer, or with one carrier (a request that will start its turn, or the
draft that waits for one), or it has started a turn, and never two of these.
Every handler that gives a message back (a refusal, a lost connection) is then
seen to take it from its carrier first.  Three more have hypotheses:

* `NothingOrphaned`: `[]NoOrphanedPending` under `Delivering`: only the managed
  transport, no commanded reconnect, no oversized frame.  Each hypothesis names
  a way in which the program does leave a request without an answer: the direct
  transport discards what it is sent before its handshake ends
  (`DropRequest`); a commanded reconnect says nothing of what was written; an
  answer too large to read answers nothing.  The invariant `Reaching` says where
  the answer or the `Disconnected` of every entry is.
* `ResumedLive`: `[]ResumedIsLive` when `MaxReconnects = 0`, which is what
  `session_stale` shows to be needed.  What shapes the invariant `Living` is a
  task released and opened again: `Leaving` and `Granted` follow the release
  and the resumption down the channels, `Newborn` a task whose creation the
  window has not heard of, and `Overtaken` says that a release issued before a
  disconnection is served before the task is opened again.
* `HandoffIdle`: `HandoffInterruptsNoTurn` when `MaxLosses = 0`, as in
  `session_handoff`; commanded reconnects and restarts of the host are allowed.
  A lost connection breaks the property: `OnDisconnected` forgets the pending
  message while the command that carries it stays in the hub's channel and is
  written to the next connection.  The invariant `Informed` says how old the
  controller's picture may be: a turn of the direct app-server is shown as
  running with no end of it on its way, or the answer that tells of it is in
  `evq` with no end behind it (`Known`); all that is on its way is still pending
  (`Expected`), for which an answer must come once (`AnsweredOnce`).

`WindowParts_proofs`, for any accounts, tasks, matters and bounds:

* `PromiseKept`, `Spec => KeepsPromise`, the refinement of `OneCredit`.  The
  invariant is `ResetInv`: what the argument needs of the types (`ResetTyped`);
  `OneKey`: every request of the guard, wherever it is, bears the guard's key,
  and an account that spent a credit for the guard has that key among its
  redeemed ones; `FreshKeys`: a guard that is not pending has not asked; and
  `AtHome`: until an account is left while the guard is pending, all it asks for
  and spends is of one account.  So a second credit would be spent under a key
  that this account has redeemed already, and the service answers
  `alreadyRedeemed`.  A step then spends a credit as `OneCredit` allows
  (`ServeStep`), leaves the account (`LeaveStep`), or is `Unspent`: it spends
  nothing and does not authorize anew.
* `RequestsAnswerable` (`NoRequestStranded`): a connection gives an id once
  (`OncePerId`), and a "resolved" that is still to be read concerns a request
  that the window has been told of before (`OldNews`).
* `RefreshesAsked` (`NoRefreshLost`): inductive with the shape of the entries.
* `AccountsApart` (`Isolated`): `RowsLead` (a row that names a task names its
  owner) and `ActsHere` (a task that is acted on belongs to the hub shown).
* `GoalsAgree` (`GoalTrue`): of the events on their way that set the window's
  copy, the last sets it to what the server has (`Told`), or the window knows
  that it has to ask (`ToRead`).
* `AnswersKept` (`NoAnswerLost`), without the two `Troubles` that break it: a
  task has one delegate (`OneDelegate`), the delegate's turn is where its
  answer will look for it (`Awaited`), and what is in progress is being worked
  on (`Working`).
* `TimersStored` (`TimerRunsStored`): whatever the operations before it have
  left, each outcome that an operation may report as done is right: an install
  that started the timer has it run the new schedule, and after a removal it is
  `Halted`, stopped or running unseen, which an install that enables nothing
  keeps (`InstallRuns`, `RemovalQuiet`, `EditRight`).
* `RunsRecorded` (`EndedRunsRecorded`): a run that overlaps no other stores the
  history it read, which is the one on disk or was misread (`RunsInv`).

`ServerParts_proofs`, for any tasks, models, files and bounds:

* `IdleTasks` (`IdleLooksIdle`): whatever still marks an idle task as running
  has something on its way that clears it (`Cleared`, `TurnsCleared`); a turn
  that is steered too late is cleared by the refusal.  It needs that the window
  hears of the tasks it watches (`Subscribed`) and gets one answer per question.
* `OneCheckpoint`, `HashesTrue` (`OneCheckpointEach`, `EvidenceTrue`): a
  generation is made by one job (`OneJob`, `Generations`); what a job has
  verified so far was read from the file it names (`Evidenced`).
* `EndsReceipted` (`EndsAccounted`): the end of a turn is told once and after
  all that was said of its start (`Ordered`, `EndsFresh`), nothing of a turn
  that has not ended is recorded (`NothingYet`), and when an end arrives nothing
  waits any more, because a start has cleared it (`Waits`).
* `LedgerKept` (`LedgerTrue`): a record's route is the one the turn was sent on
  (`RoutesTrue`; no model is called `"none"`, `ModelAssumption`).  While no
  connection is lost there is a total for the start of each turn, the next one
  higher by what the turn took, that all notices on their way agree with
  (`Counts`): a start finds that total known, or none (`Knows`), and a usage
  counts nothing after the turn that the window has last seen start (`Follows`).
* `ExtensionsTrue` (`PageTrue`): a listing that is out of date has a later
  listing, or the reload that asks for one, behind it (`Waiting`).
* `SnapshotsShown` (`WindowFollows`): the newest of the snapshots not polled is
  the last sent, and with none the window shows it but for the ends it has heard
  of (`Following`).
* `MarkersRead` (`MarkersFollowed`), for any chunk and any overlap in `1..Chunk` (`ChunkAssumption`): what is kept of a
  rollout is the bytes read last, so a marker cut by two chunks is found whole
  in the chunk with its overlap, and markers that are found twice do not change
  which is the last (`Followed`).  A read is modelled by the last chunk in which
  a marker is found; every marker of the text read ends in one of the chunks
  (`Blocks`).

`MacroExecutor_proofs`, for any macros, requests, files, texts and cache:
`ExclusionHolds`, `OrderHolds`, `CompletionHolds`, `FreshnessHolds` and
`ProgressHolds` (the five properties of `macro_mixed`), all from `Invariance`,
`Spec => []IInv`.  None of the five is inductive.  `IInv` relates the four
places that know of a step: the coordinator's state of it (`Scheduled`: a
living task belongs to a running step, and all it depends on has ended), the
task (`Ordered`: it holds a prefix, in the order of the locks, of what it
wants, and all of it while it works), the job (`Jobs`: one per step, awaited by
its task unless it is an orphan) and other tasks' locks (`Excluded`).
`MutationsExclusive` is then `Excluded` of two tasks that work;
`StaleWriteRefused` needs that what an unfinished checked write has still to
replace is what it read (`WritesFresh`), which no other job changes while the
locks are held.  `NeverStuck` takes, of all tasks that wait for a file, the one that waits for
the greatest: whoever holds that file waits for none, or for a greater one.
Assumptions on the constants: files are finitely many numbers (the order of
the locks), requests have the fields that parsing gives them, and `AnyText` is no content.
A request that names one file by two paths is not modelled.  The attempt to prove them showed what the properties had left out: a lock belongs
to a project root (`macro_executor.rs:1891`), so two saved projects of which
one lies in the other have two locks for one file.  `MutationsExclusive` is
therefore about jobs under one root and `StaleWriteRefused` about roots that
are apart (`RootsApart`); the run has macros under two roots.

`HistoryRepair_proofs`, for any repairers, any `Batch` in `Nat`, any gap and
any number of records and crashes: `FaithHolds`, `Spec => []ProjectionFaithful`.
A repair reads in one transaction and commits in another; in between Codex
appends and projects, and the other repairer commits.  The invariant says why
comparing the cursor at the commit is enough (`Sound`): a plan was made at a
cursor of the past, cursors only move forward (`NotAfter`), so if the cursor
is where the plan was made it has been there all along; and what the plan says
of the lines behind it cannot be undone by lines appended after them.
`PlanRead`, `PlanExtended` and `PlanOutlived` are those three steps.

`RemoteHost_proofs`, for any profiles, any cooldown in `Nat` and any bounds on
hubs, queues, tasks, events and moves: `AnswersCome`, `HealthySpared`,
`TurnsSpared` and `CooldownKept` (the four properties of the Remote host),
under `RemoteAssumption` (the first profile is one; the cooldown is a natural
number).  The core of `IInv` is `Lone`: there is one restart at most, in one
queue, one task or one event, of whatever hub, and `inProgress` holds while
there is one (and for ever after a switch has dropped the hub that owed the
answer).  While the same profile stays shown no step takes the restart away
but its own answer (`Kept`).  With it `Cooling` (unless the answer is waiting to be
handled, the controller's countdown covers what `since` still lacks) makes
`Spaced`, that an automatic restart on its way is a cooldown from the last.
`Unknown` says that no turn of the host was known when the restart was asked;
`Turned` keeps it so: a queued turn is the only one of its profile, nothing
that reconnects is queued behind a turn the controller knows of, and while it
knows of one it is busy or has a `Ready` before it that will tell (`Fresh`).
What shaped it are the switch of profile, which abandons a hub with what is
queued there and with a restart on its way, and the turns of an abandoned
direct transport, for which a turn had to name its hub.  The proof is a lemma per action, with the queues' operations
(append, tail, concatenation) as lemmas of their own.

`Desk_proofs`: in `MCDesk` a step moves one part and leaves the others as they
are, so a behaviour of the composition is one of each part (`RemoteAlone` and
its like), and the theorems of `RemoteHost_proofs`, `HistoryRepair_proofs`,
`WindowParts_proofs` and `ServerParts_proofs` carry over to the formulas that
the run `desk` checks.

Only model-checked:

* liveness (`AttemptFinishes`, `OpenTaskResumed`): the backends here prove no
  fairness argument;
* `ShowsTheRollout`, `NoTwin`, `Drawn`: the merge of a transcript is a fold over
  lists of messages, whose results need induction over data.

## 5. Not modelled

`PROJECT.json` says it per component.

* Full channels: `emit` and `send` use `try_send` and drop at capacity
  (`backend.rs:1861`); a managed transport awaits its writes in the loop that
  also drains the frames (`backend.rs:627`); the hub reads commands only while
  a transport is connected (`backend.rs:371`).  A model that shows these needs
  queues of the real length or a property about a bound of the model.
* An expired `Revoke` is never asked again (`backend.rs:889`), and an answer to
  `thread/start` without a usable task loses the draft (`ui/mod.rs:4789`):
  each is one line that says so, with nothing to explore.
* The watchdog of each profile (`backend.rs:1296`), which acts on samples
  taken before an `await`; `RemoteHost` lets a daemon change at any time.
* In modelled components: partial frames, the text of messages and
  checkpoints, paths and their checks, the sandbox's arguments, previews and
  artifacts, token usage and plans in a transcript, the automatic choice of a
  Buddy route, names and search on the extensions page.
* Host actions, the remote scripts, Markdown, tray, shell, web view and wire
  types: I/O, rendering and serialization, with no state several actors share.

## 6. Plan

1. `Transcript` with its merge as a function of sets of positions instead of
   folds, so that `NoTwin` can be proved.
2. An abstract specification for the headless watcher like `OneCredit`, which
   adds that the outcome on disk is true, refined by `ResetGuard`.
3. The profile watchdogs, as a second actor of `RemoteHost`.
