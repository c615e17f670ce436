# Nova Tweaks: a verification project

Nova Tweaks is an Electron application that changes a Windows machine on purpose
(registry tweaks, services, display settings) and promises to be able to take
every change back. Most of what can go wrong with it goes wrong in the promise:
the application is one Node.js process whose operations interleave at every
`await`, it starts other processes (PowerShell scripts, an administrator broker,
a native display helper, a detached recovery guard) that may be slow, fail, be
killed or outlive it, it keeps its promises in JSON journals whose writes may
fail, and it may be ended at any point. This project models the parts that keep
the promises, checks them with TLC on small instances, and proves the most
important of them with TLAPS.

All paths below are relative to `src/`; `services/` is `electron/services/`.

## 1. Inventory

### 1.1 The components that change the system and give it back

| Component | State | Operations | Talks to |
|---|---|---|---|
| **Execution gate** `services/tweaks/executionGate.js` | the holder's token, the set of running calls | `beginRestore`, `endRestore`, `enter`, `release` | shared by the tweak runner, the restore and Game Mode |
| **Restore of Nova backups** `services/backups/restoreService.js`, `restoreJournal.js` | records of the jobs in memory, one journal file per job, the active job | loading at the start, `start`, `resume`, `execute` | gate, tweak runner, settings service, broker |
| **Tweak runner** `services/tweaks/tweakRunner.js` | none (the gate, and scripts in flight) | `runTweak`, `readTweak` | gate, PowerShell, broker |
| **Settings service** `services/settings/settingsService.js` | settings in memory, `settings.json` | get, save, import, export | called by the restore and the settings page |
| **Game Mode background services** `services/gamemode/backgroundMinimizationService.js`, `backgroundServiceControl.js` | journal in memory and on disk, `recoveryRequired`, the operation in flight | `prepare`, `apply`, `restore`/`recover`, `shutdown` | gate, control script (PowerShell, possibly in the broker), applications to close |
| **Display profiles** `services/displayProfiles/displayProfileService.js`, `displayProfileProvider.js` | profiles, the transaction in memory and in `recovery.json`, guards, the serialised operation, the game's suppression | `capture`, `configure`, `remove`, `activate`, `confirm`, `restore`, `keepCurrent`, `handleProcesses`, `shutdown` | native helper (a call each), recovery guard (a process each), process watcher |
| **Native recovery guard** `tools/nvidia-display-helper/src/display_profiles.h` | its deadline, its owner, whether it was confirmed | the loop of `profile-watch`: `confirm`, `disarm`, deadline, death of the owner | pipes to the service, the display |
| **Administrator broker** `services/admin/adminBrokerManager.js`, `adminBrokerWorker.js` | the session and its socket, the start in progress, requests in flight; in the elevated process the worker's queue | `ensureReady`, `execute`, `shutdown`, the socket's and the prompt's events; hello, requests, exit | elevated worker over a named pipe |
| **Rule automation** `services/automation/ruleAutomationService.js`, `automaticTweakRuleAction.js` | rules, pending executions, what waits for approval, automatic attempts in flight, history | `fire`, `tryExecuteAutomatic`, `resumePendingAutomaticActions`, `execute`, `complete`, `dismiss`, `clearHistory` | process watcher, tweak runner, broker, renderer |
| **Scheduled maintenance** `services/automation/scheduledMaintenanceService.js` | schedule, `lastRunAt`, `deferredUntil`, `running`, the state file | `tick`, `run`, `updateSchedule` | tweak runner, broker, game sessions |
| **Process watcher** `services/automation/processWatcherService.js` | last snapshot, worker | start, stop, subscribe | worker thread, rules, display profiles |
| **Application shutdown** `services/appShutdown.js` | whether it has begun | ordered tasks within budgets of 28 s and 2 s | all of the above |
| **Game sessions, frame capture** `services/gamemode/gameSessionManager.js`, `presentMon*.js` | sessions, capture process | start, stop, collect | PresentMon |

The rest is data or presentation with little state of its own: monitoring and
network tests, storage of backups (file formats, hashing, retention), the
catalogue of tweaks and its remote artifacts, the inventory of applications, the
IPC layer, the React renderer, the native sensor and NVIDIA helpers, and
vendored code. They are listed in `PROJECT.json` with the reason they are left
out.

### 1.2 How they interact, and which behaviours are hard

* **One gate, three kinds of users.** A restore and a Game Mode operation hold
  the gate alone; tweak calls share it. The restore's own tweak calls must get
  in with the restore's token while everybody else is refused. Every path out of
  `start`, `execute` and `exclusive` must give it back.
* **Write-ahead journals.** The restore, Game Mode and the display profiles each
  write what they are about to do before they do it, in memory first and then in
  a file that is replaced whole. When the write fails, the exception unwinds
  with the change in memory done: memory and file disagree until the next
  successful write. A restart knows the file only.
* **Workers over one journal.** `mapThree` runs three workers that each mark
  entries of one journal object and write all of it, so a failed write of one is
  silently repaired by the next write of another.
* **Scripts of several system changes.** A control call stops a service, waits,
  and sets its start mode; it is killed after 22 s with any prefix done.
* **Competing restorers.** A display session is ended by the service, by the
  guard at its deadline, by the guard because Nova died, by the game watcher, by
  shutdown, or by the user who changes the display. Guards are replaced while
  sessions switch, and their exits are reported as events whenever the event
  loop gets to them.
* **Sessions that come and go under their users.** The elevated worker of the
  broker lives as long as one pipe; approvals are given late, declined or lost,
  events of an old session arrive in a new one, a call that timed out is still
  in the worker's queue, and rules and maintenance wait for rights or are
  refused for want of them.
* **Checks that age.** A rule's automatic action and a maintenance run check
  something, await, and act; the user dismisses, the schedule changes, a second
  run starts meanwhile.
* **Crash and restart at every point**, with the shutdown itself limited by a
  budget, so that a clean exit may end half way as well.

### 1.3 What makes each component correct

* *Gate*: a holder is alone; only the holder's token gives it back.
* *Restore*: whatever a run may have touched is not "pending" in the journal;
  steps are done in order and the first error stops; a step recorded completed
  is at its target; a completed job is final; the gate is freed; a start closes
  the records left open.
* *Game Mode*: a service that differs from its baseline by Nova's doing is
  pending in the journal file with that baseline; Nova's own half-done changes
  are never taken for someone else's; no baseline is taken of a state of Nova's
  own making; "restored" means restored; applications are closed only after
  every service change succeeded; operations end.
* *Display profiles*: the way back is on disk while a profile is on the display;
  between operations every open session has a guard, or its guard's end is yet to
  be heard of; a guard never acts without a journal; a confirmed session is not
  reverted; a preview does not stay.
* *Broker*: a call is answered once, with its own result, and every call is
  answered; a refused one never runs; operations do not overlap or overtake each
  other, those whose callers gave up included; no elevated process stays behind.
* *Rules*: an execution that has left the list is decided for good; who waits for
  approval has been announced, is taken up when it comes, and does not outlive
  its session.
* *Maintenance*: the timer runs what is owed and only that; while Nova is open and
  the computer awake within the catch-up window of an occurrence, it is not passed
  over in silence; `running` is not left behind.
* *Watcher*: a stopped worker is not heard any more.
* *Shutdown*: nothing is closed under a task that needs it, or the task's own
  journal takes over at the next start.

The hazards behind these, each at its line, are in `PROJECT.json`.

## 2. Plan

The order is by what a failure costs: first what may leave the machine changed
with nobody knowing.

1. **Done.** `ExecutionGate`; `RestoreService` on top of it with the abstract
   `WriteAheadRestore`; proofs in `RestoreServiceProofs`.
2. **Done.** `GameModeBackground` with the gate; proofs in `GameModeProofs`.
3. **Done.** `DisplayProfiles`; proofs in `DisplayProofs` and, on top of them,
   `DisplayGuardProofs`. Left: an abstract specification of a session that is
   open or closed with one original and that several parties may end.
4. **Done.** `AdminBroker` with the abstract `PrivilegedCall`; proofs, the
   refinement included, in `AdminBrokerProofs`.
5. **Done.** `RuleAutomation`; proofs in `RuleAutomationProofs`.
6. **Done.** `ScheduledMaintenance`; proofs in `ScheduledMaintenanceProofs`.
7. Left: `AppShutdown`, its order and budgets, composed with the broker (a
   cleanup's privileged call is not cut off before the budget has run out);
   `GameSession` with the capture provider; `ProcessWatcher`.

A module keeps its constants and their assumptions, one action per stretch of
code between two awaits, and no recursive operator, so that it can be proved
about. Runs ask one question each, and are merged where one instance can answer
several.

## 3. Modules and the code

### 3.1 `ExecutionGate`

`owner` is the token (`"none"`, `"restore"`, `"background"`), `running` the set
of calls inside. `BeginRestore`, `EndRestore`, `Enter` and `Release` are the four
functions of `executionGate.js`. The module is extended by the two that use the
gate and has no Next of its own.

### 3.2 `RestoreService`, `WriteAheadRestore`

`jobs` is the map of records, `disk` the journal directory, `active` and `pc` the
call of `execute()` in flight and the await it is suspended at, `current` the
index of its loop. An action runs from one await to the next, so a synchronous
stretch such as "find it in place, mark it completed, begin the write" is one
action, and every await has an action for its success and one for its failure.

| Code | Actions |
|---|---|
| loading, `ready` 64-75 | `LoadTerminal`, `LoadInProgress`, `LoadFails`, `Ready` |
| `start()` 185-217 | `Start`, `Resume`, `PrepareDone`, `PrepareFails`, `SavePrepared`, `SavePreparedFails` |
| `execute()` 138-184 | `Admin*`, `SaveRunning`, `PassiveStep`, `AlreadyThere`, `NeedsChange`, `SaveStarted`, `ApplySettings*`, `EnterScript`, `Script*`, `Verify`, `SaveStep`, `AllStepsDone`, `SaveCompleted`, and `Catch` for every failing await |
| other calls | `CallerEnters/Changes/Leaves` (`runTweak`), `BackgroundBegins/Ends` (Game Mode), `SettingsPage`, `Drift` (Windows, the user), `Restart` |

`world` has one abstract value per step, only ever compared with the backup's
target. A script that fails or is killed leaves any value (`ScriptFails(v)`),
and one that reports success may leave any value too (`ScriptSucceeds(v)`): that
is what the verification after it is for.

`touched` and `drifted` are history variables: what the last run of a job may
have changed, and what others changed during a run. No action reads them.

`WriteAheadRestore` is the promise alone: a job is opened, steps are announced
and only then touched, it is stopped and may be opened again, or done for ever.
`ImplementsWriteAhead` is the refinement; its mapping reads the journal only.

### 3.3 `GameModeBackground`

`svc` is Windows' view of the services (start mode and status, with the two
transitional statuses), `mem` and `dsk` the journal, `op` and `stage` the
operation inside `exclusive()`, `work[s]` what a worker does with the entry of
`s`, `dead` the workers that threw, `script[s]` the control script, which goes
through compare, stop, mode, start and verify, each a system change of its own.
The last script step and the synchronous continuation of its caller are one
action (`Disabled`, `Restored`, ...); a script may fail or be killed at any step,
and the service may then still be in transition.

`prepare` is `PrepareCalled`, `Prepared`, `ReadFails`; `apply` is `ApplyCalled`,
`Skip`, `Disable`, `Disabled`, `DisableRefused`, `DisableFails`, `RollBack`,
`RereadFails`, `ApplyPartial`, `AskGames`, `CloseApps`, `Applied`; `restore` and
`recover` are `RestoreCalled`, `RestoreRead`, `RestoreNext`, `Restored`,
`RestoreRefused`, `RestoreFails`, `RestoreDone`; `shutdown` is `ShutdownCalled`,
`ShutdownRestores`, `ShutdownGivesUp`. `Restart` takes memory from the file.

`base` and `ext` are history: the state Game Mode answers for, and the services
others changed since. `fresh` states the renderer's protocol, which is an
assumption of the module: the panel prepares before every apply
(`GameModePanel.jsx` 2189, 2279), while `apply()` itself checks the phase of the
journal only.

### 3.4 `DisplayProfiles`

`tx` and `file` are the transaction in memory and in `recovery.json`; `guard`,
`guards` and `stop` what the service and the provider remember of guards (`stop`
is the promise `disarmAndWait` makes once); `proc[g]` the native process, its
owner dead or alive, its messages, and what it saved; `call` the operation
inside `exclusive()` and its await; `pending` the guard restore heard of during
an operation; `closing` the shutdown.

`activate` runs through inspect, list, secure, guard, retire, apply and
readback; `restore` through current, yield, put, check, clear; `confirm`, `keep`,
the verification of a guard's restore and the shutdown share these stages. The
operations on stored profiles only occupy `exclusive()` and are one action,
`OtherCalled`. `Guard(g)` is the native loop, `GuardDies(g)` the end of its process
at any moment while it watches, `Events(g)` the provider's handling of its exit,
`Late` the passing of the deadline.

A configuration of the monitor is a value that is compared; a profile is the
configuration it stores. `owed` is history: the configuration before the first
profile of a session, as long as neither a restore, the user's "keep", nor an
outside change has settled it. So is `missed` of a guard: the service heard of its
failure during an automatic operation. No action reads them.

### 3.5 `AdminBroker`, `PrivilegedCall`

The manager's variables have the names of the code (`socket`, `server`,
`startPromise`, `sessionId`, `pending` for `pendingRequests`); `waiting` are the
calls that await `startPromise`, `call[r]` is what the promise of a call has come
to. `conn[s]` is the main process' end of a session's connection, whose close
event comes some time after its end, `worker[s]` the elevated process. The pipe
is `written[s]`, of which the worker has begun `taken[s]`, and `replies[s]` on
the way back; `effect[r]` is how far the operation itself has come.

| Code | Actions |
|---|---|
| `ensureReady` 264-348, `launchBroker` 182-262 | `Approve`, `LaunchFails`, `StartTimesOut`, `Connect` |
| the server's and socket's callbacks 302-335, `handleMessage` 136-180 | `GreetingRefused`, `Hello`, `HelloRefused`, `StartupError`, `Response`, `CloseEvent`, `PeerGone` |
| `execute` 353-387, `shutdown` 389-396 | `Call`, `CallTimesOut`, `Shutdown` |
| the worker 497-583 | `Begin`, `End`, `SeesClose`, `WorkerEnds` |

`closeTransport` and `finishReject` are the operators of these names. They act on
*the* socket, whichever session it belongs to, as the code does. An action is one
callback together with the promise continuations that run before the next one:
a hello settles the start and writes every call that waited for it.

`PrivilegedCall` is the promise to a single caller: a call is issued, refused
without its operation ever running, answered after its operation has ended, or
lost, in which case the operation may have run, be running or still run.

### 3.6 `RuleAutomation`

`pending` is the list (newest first, cut to `Limit`), `status[e]` the entry in
`history`, `blocked` the pending entries with `blockedReason` "awaitingAdmin",
`stored` the file. `attempt[e]` is a `tryExecuteAutomatic(e)` in flight, at the
preparation of the tweak, its backup, or the tweak itself; `user[e]` an
`executeAutomationRuleAction(e)` of the renderer. `ready` is the broker as others
see it and `wasReady` main.js' `adminBrokerWasReady`.

`Fire` is `fire`, with the attempt it begins; `Prepared`, `RightsMissing`,
`Apply`, `BrokerRefuses` and `AttemptEnds` are the attempt; `MarkAwaitingAdmin`,
`Resume` (`resumePendingAutomaticActions`) and `Leave` (`complete`, `expire`,
`dismiss`) are the operators they and the others use, the last with `Without` for
`pending.filter()`, which says by rank where each kept entry comes to stand;
`BrokerReady`,
`BrokerLost` and `ApproveAdminPending` are main.js' handlers; `Execute`,
`ExecuteRefused`, `CloseEnds`, `RendererCompletes`, `Dismiss` and `ClearHistory`
the renderer's calls; `Restart` the end of the process and the load of the file.
Whether a rule matches and whether an execution is still valid is a free choice
at each place where the code evaluates it (`lapsed`). `told` and `stale` are
history.

### 3.7 `ScheduledMaintenance`

`schedule`, `lastRunAt`, `deferredUntil` and `running` are the service's fields,
`stored` its file, `run[i]` a call of `run()`: awaiting `canRun` ("asking") or
at a task. `RunNow` and `Tick` are the user's and the timer's call up to the
await, `Refused` and `Start` its continuation, `TaskEnds` a task with, after the
last one, the end of the run. `UpdateSchedule` and `Restart` come at any time.
`awake` says that Nova is open and the computer not asleep: `Sleep` ends that,
`Wake` is the resumption after a sleep, with all of the memory, and `Restart`
the start after a downtime, with what the file has; while neither has come
nothing happens but that time passes, as much of it as may be. `now` counts a
unit of which a deferral (15 minutes in the code), the catch-up window and the
day are multiples; `PreviousOccurrence` is `getPreviousOccurrence`. The
conditions of `canRun` are main.js': `ready` is the broker, `recording` the game
session. `GameState` is the record `getState()` of the game session manager
returns, and `GameActive` looks in it for the fields `canRun` looks for, which
is the point of a finding below. `served`, `changed` and `refused` are history.

## 4. What is checked

Every run below is one question; "S" is distinct states.

| Run | Instance | Shows | S |
|---|---|---|---|
| `RestorePlan` | 1 job, 3 steps (settings, passive, tweak), 2 values, 1 caller, fairness | write-ahead (`TouchedIsJournaled`, `ImplementsWriteAhead`), `FirstErrorStops`, `CompletedStaysRestored`, `CompletedIsFinal`, `ExclusiveRestore`, `RestoreEnds`, `StartupSettlesJournal`, through failed writes, drift, restarts and resumes | 112 168 |
| `GameModeOne` | 1 service, 3 start modes, others change it too, 1 tweak call | `AlteredIsJournaled`, `ConflictIsForeign`, `RestoredMeansBaseline`, `BaselineIsKept` | 2 847 546 |
| `GameModeTwo` | 2 services, 2 workers, 1 tweak call, fairness | `AppsCloseAfterServices`, `ScriptsUnderGate`, `OperationEnds` | 1 176 291 |
| `DisplaySession` | 3 configurations, 2 profiles, 2 guards, every fault | `ChangeIsJournaled`, `GuardHasEvidence`, `ConfirmedIsKept` | 1 492 953 |
| `DisplayGame` | 2 configurations, the game watcher, failing and dying guards | `ChangeIsJournaled`, `ChangeIsGuarded` | 3 656 738 |
| `DisplayProgress` | 2 configurations, 1 profile, 2 guards, failing helpers and guards, fairness | `OperationEnds`, `PreviewEnds` | 233 348 |
| `Broker` | 2 sessions, 2 calls, fairness | `LaterCallsRunAfter`, `PendingHasConnection`, `ImplementsPrivilegedCall`, `CallEnds`, `AbandonedWorkerEnds` | 131 810 |
| `RuleAutomation` | 4 executions of 4 kinds, a list of 2 | `AwaitingIsAnnounced`, `ReadyMeansResumed`, `EarlierSessionNeverRuns`, `DecidedIsFinal` | 787 026 |
| `Maintenance` | 2 runs at once, 3 task lists, 2 times of day, a clock of 8 with a period of 5, sleep and downtime | `RunningMeansTask`, `TimerAsksForOwed`, `MissedOnlyWhenRefused` | 2 780 856 |

Each module's `TypeOK` is checked in the first of its runs.

`ChangeIsGuarded` exempts two cases: a session whose "keep" could not stop a guard
(`KeepFailed`), and one whose guard's death was heard of during an automatic
operation (`DeathMissed`). Without either exemption TLC finds it violated in
`DisplayGame`, with behaviours that section 5 describes. `ScriptsUnderGate` is
about the time a script runs, not about who set the gate: it relates the scripts
to the workers that await them, to the operation in progress, and to the gate; a
worker that throws must not end the operation under another's script.

**Why the bounds are enough.** *Restore*: three steps give a step before and one
after the current one and every kind of step; which step is current is all the
loop depends on. One job may be run, resumed and interrupted any number of
times; a second one would be refused by the gate while the first is active, and
the proofs are for any number of them. Two values tell "at the target" from
"not". The proofs below lift these bounds for safety. *Game Mode*: an entry's
life does not depend on other entries except through the shared file, the phase
of the journal and the number of workers left, which two services and two
workers exercise (a worker that dies with work left, one that repairs another's
failed write); one service with three modes covers an original, the target and a
third state someone else chose. *Display*: two identities are a session and the
one that replaces it, and are reused once their guard is gone; three
configurations are the original, a profile and another profile (or a state of
the user's). *Broker*: two sessions are the present one and the one before,
whose events come late; two calls are one that is being run and one behind it.
*Rules*: the four executions have the four kinds of action the service treats
differently (a fifth, an optimisation of the renderer's, takes a subset of the
steps of "confirmed" without rights), two of them need rights, so that one can
be blocked while another already is; with a list of two, a third pushes one out.
*Maintenance*: two occurrences of a period of 5; two runs are the timer's and
the user's; with a window of 3 and a deferral of 2 an occurrence can be refused
and tried again within its window, be met late by a Nova that wakes or starts
inside it, and be slept through whole. Symmetry is used in runs without liveness
only, for guard identities, for the calls of a maintenance run and, where no
game is configured, for the stored profiles, which the code then treats alike.
No run has a state constraint: the bounds are the constants, of which `Horizon`
(the clock of `Maintenance`) is one that guards an action. Deadlock is checked
everywhere.

**Fairness.** *Restore*: loading and the orchestrator go on, because file writes
end, detections and scripts have time-outs and so has the administrator prompt;
nobody has to start, resume or restart anything. *Game Mode*: an operation that
has begun goes on; reads, control scripts (22 s) and the application scan have
time-outs; the progress of the scripts themselves is not assumed, since the
caller gives up on them. *Display*: helper calls are killed after twelve seconds
and the wait for a guard ends after five; the native loop and Node's event loop
go on; the deadline passes. *Broker*: the main process handles its events and
timers, a prompt is answered or withdrawn by Windows, a worker whose pipe is
closed exits; that an operation ever ends is not assumed. *Maintenance*: instead
of fairness, time does not pass while Nova is awake and the timer, which ticks
every 30 seconds and at the start, has something to ask for; the time of a sleep
or a downtime passes freely. `MissedOnlyWhenRefused` rests on it, and is about
the times Nova is awake. *Rules*: none, no property of theirs is about progress.
`StartupSettlesJournal` holds unless the process is killed again and again, and
says so.

## 5. Where the code and its promises differ

Each of these is a run that must find its property violated.

* **Completed, though the settings were not saved** (`RestoreSettingsFile`,
  `CompletedSettingsPersisted`). `saveSettings` replaces the settings in memory
  before the file is written (`settingsService.js` 416). A save from the settings
  page whose write fails therefore leaves the new settings in memory and the old
  ones in the file. A restore that wants the same settings then finds them in
  place, since it compares the memory only (`restoreService.js` 149): it records
  the step and the job as completed without writing the settings, and the next
  start reads the old file.
* **A verified guard restore is refused** (`DisplayReap`,
  `VerifiedRecoveryIsReaped`). `disarmAndWait` keeps its first promise whatever
  its options. If an operation awaits it while the guard restores, the later
  call with `allowRestore: true` gets the remembered rejection, and neither
  restore nor keep can end the session before a restart.

* **Maintenance does not see the game** (`MaintenanceInGame`,
  `MaintenanceSparesGames`). `canRun` (`electron/main.js` 3094-3097) refuses when
  `activeGame` or `sessionStatus` of the game session manager's state says that a
  game is active. `getState()` (`gameSessionManager.js` 372-380) has neither: the
  status is `activeSession.sessionStatus`. Maintenance is never deferred for a
  game, though the panel says that it is (`locales/en.json` 313). `activeGame` is
  read in the same way in `main.js` 3195 and 3255, so the rules' condition on a
  running game sees none from there.

What the modelling showed besides, without a promise in the repository that it
contradicts, has no run:

* *Restore*: a resume whose first journal write fails leaves the record
  "prepared" in memory with nobody working on it (`restoreService.js` 207); the
  backup panel stays busy until the next start.
* *Game Mode*: a control script outlives a crashed main process by up to 22 s
  (`backgroundServiceControl.js` 81). The recovery of the next start may read the
  untouched service first, record "restored", and the script then disables the
  service with nothing pending. With `Orphans = TRUE` TLC finds
  `RestoredMeansBaseline` violated; the runs assume that scripts end with their
  process. With the elevated broker (`main.js` 3246-3258) the same can happen
  without a crash: a request that timed out or lost its connection rejects for its
  caller while the script is still queued or running in the worker, and the
  operation goes on. `~Orphans` assumes this away, too; section 3.5 models the
  broker's side of it (`LaterCallsRunAfter`, `PrivilegedCall`'s "lost").
* *Display*: `displayProfileService.js` 233 writes the journal of a new
  transaction outside the `try` block: a failed write leaves a preview in memory
  without its guard. `PreviewEnds` and `ChangeIsGuarded` are false when journal
  writes may fail, and their runs exclude that fault. A `keepCurrent()` (309) that
  cannot stop a guard fails and leaves the session open, but has told its guard to
  stop: until the next start nothing but the journal covers the session, and a game
  whose profile is switched to and back resumes it like that. This is the exemption
  `KeepFailed` of `ChangeIsGuarded`. With three identities the guard that does not
  stop may be one of an earlier session, while that of the present one is gone.
  A guard that dies during an automatic operation may be missed for good
  (`DeathMissed`): a game's activation over a confirmed manual session has
  journaled its new identity when the old guard dies, so `onFailure` drops the
  event (156); the new guard does not start, and 243 puts the old identity back.
  The session is then active, with a guard that is dead, until the next start. In
  the same way, the status "recovery" such an event sets during an automatic
  restore is overwritten by the resumed manual session (190). The test "automatic
  guard startup failure retains the previous guard and journal identity"
  (`displayProfileService.test.js` 425) has the old guard alive, and holds.
  An outside change between the read of the display (183) and the helper call that
  puts it back is overwritten; nothing in the code attempts to exclude this.
* *Broker*: the close event of an old socket closes the transport of the present
  session (`adminBrokerManager.js` 331-335), so a new start can be doomed before
  its prompt is answered; its calls still end, as `CallEnds` shows.
* *Rules*: an execution the user dismisses while its automatic attempt is being
  prepared gets its history entry back to "pending", or overwritten by the
  attempt's outcome; the entry an overfull list drops stays "pending" for good; a
  renderer that is told EXECUTION_NOT_FOUND reports a failure over an outcome
  that was recorded; a tweak the renderer is running may be run a second time by
  the resumption after an approval; an execution that waits again after approval
  was lost is not announced again. `DecidedIsFinal` says what remains true: none
  of this lists or begins an execution again.
* *Maintenance*: the timer's and the user's run may overlap, since `running` is
  read before and set after the await (174-190), and the first to end clears it
  for both; a schedule that is turned off or changed during `canRun` is still run,
  with its new tasks; a run asked for without explicit approval is refused at
  once rather than asking for rights (`main.js` 3119, 3135).
* *Game sessions* (read, not modelled): a retry of the capture that is awaited
  while the session stops spawns a helper nobody stops; the late exit of an old
  helper forgets the new one (`presentMonServiceProvider.js`); two starts that
  overlap, for instance across a remount of the panel, overwrite each other's
  session, which then has no report.

## 6. What is proved

### 6.1 Restore

`RestoreServiceProofs` proves the following of `RestoreService!Spec` for every
set of jobs, callers and values and for plans of every length and kind:

| Theorem | States |
|---|---|
| `TypeCorrect` | `[]TypeOK` |
| `Exclusive` | `[]ExclusiveRestore` |
| `WriteAhead` | `[]TouchedIsJournaled` |
| `Ordered` | `[]FirstErrorStops` |
| `StaysRestored` | `[]CompletedStaysRestored` |
| `Final` | `CompletedIsFinal`, an action property |
| `Refinement` | `ImplementsWriteAhead`: initial states map to initial states, each step to a step or a stutter |

**Assumptions.** `NoJob` is not a job; `N` is a natural number, `Kind` and
`Target` are functions on the steps; the restore's own call is not one of the
ordinary callers. Nothing is assumed of the number of jobs or callers, nor of
their being finite.

**The argument.** None of the properties but `TypeOK` and `ExclusiveRestore` is
inductive as it stands: that a touched step is not pending on disk depends on
what the memory holds when the next write comes, and on which of the two a
failed write or a restart keeps. The invariant `IInv` adds `RecordInv`. Its
first part, `AtAwait`, says for each await of the orchestrator how the record in
memory and the record in the journal stand to each other (equal in all steps;
equal but for the current one; completed up to here and pending from there on).
Its second, `JobOK`, says what holds of every job, whoever is active: a record
the journal calls completed is completed in memory or not loaded, touched steps
are not pending on disk, and both records are in order. `Invariance` is proved
by one lemma per group of actions: `OneJobChanges` reduces a step to the record
it changes, and `RecordStepTake`, `RecordStepOrchestrate` and `RecordStepOthers`
treat starting, running and everything else. `CompletedStaysRestored` is about
the world rather than the records and inductive relative to `IInv`
(`RestoredStep`): the gate keeps callers and Game Mode out while a restore is
active, the restore itself changes the current step's item only, which is not
completed then, and whatever else changes an item is recorded in `drifted`.

### 6.2 Administrator broker

`AdminBrokerProofs` proves the following of `AdminBroker!Spec` for every set of
calls and of sessions:

| Theorem | States |
|---|---|
| `TypeCorrect` | `[]TypeOK` |
| `LaterCallsRunAfterHolds` | `[]LaterCallsRunAfter` |
| `PendingHasConnectionHolds` | `[]PendingHasConnection` |
| `Implementation` | `ImplementsPrivilegedCall`: the broker refines the promise of a single call |

**Assumption.** `None` is not a session.

**The argument.** That an answer comes after the end of its operation, and that
nothing runs twice, depends on what is in the pipe, which no single property
mentions. `IInv` therefore has two parts besides the types. `Ledger` is about
each session's pipe: the worker has run exactly what it has taken but for the
last one, a request is written once and to one session, a call that is idle,
waits or was refused is in no pipe, and what is on the way back has ended. `Maps`
is about the manager: `pending` are the calls that were sent, `waiting` holds
each waiting call once, an open connection is the socket's, and every pending
call is in the pipe of a connection that is open or whose close event is still to
come; after a shutdown nothing is pending. `Moves` states what a step may do to
one call and its operation; it is proved together with the invariance
(`StepInv`, by one lemma per group of actions) and is what the refinement cites.

### 6.3 Scheduled maintenance

`ScheduledMaintenanceProofs` proves the following of
`ScheduledMaintenance!Spec` for any number of overlapping runs, every set of
task lists and times, and every period, window and deferral:

| Theorem | States |
|---|---|
| `TypeCorrect` | `[]TypeOK` |
| `RunningMeansTaskHolds` | `[]RunningMeansTask` |
| `TimerAsksForOwedHolds` | `TimerAsksForOwed`, an action property |
| `MissedOnlyWhenRefusedHolds` | `MissedOnlyWhenRefused`, an action property |

The last one says: while Nova is awake within the catch-up window of an occurrence
that no completed run has served and no change of the schedule has superseded, time
passes only during a run or for the time of a deferral. It does not matter for how
long Nova was closed or asleep before. An occurrence whose whole window is slept
through is lost, which is what the window is for.

**Assumptions.** `TimeAssumption`: the period is positive, the window shorter
than the period, a deferral not longer than the window, times of day within the
period.

**The argument.** The two action properties compare the service's two dates with
what has happened. `LastRunIsServed` says that `lastRunAt` is not before the
last completed run or the last change that starts anew, and is one of the two
(or the beginning); `DeferralIsRefusal` that a refusal is on disk with its
deferral, and that a deferral has a refusal behind it, or a run completed since.
A due occurrence then is owed. An owed one within its window that is not due is
being run (`running`, by `RunningMeansTask`), or waits for a deferral, which has
a refusal or a completed run less than a deferral ago behind it; and while one
is due and Nova awake, time does not pass before the timer has asked. `Sleep`,
`Wake` and the time between them touch no date, and `Restart` takes the dates
from the file, which agrees with the memory but for a deferral that a run in
progress has cleared.

### 6.4 Game Mode

`GameModeProofs` proves the following of `GameModeBackground!Spec` for any set of
services and of start modes, any number of workers and of tweak calls, and any set
of services that others change too:

| Theorem | States | Assumes besides |
|---|---|---|
| `TypeCorrect` | `[]TypeOK` | |
| `ScriptsStayUnderGate` | `[]ScriptsUnderGate` | `~Orphans` |
| `AlteredStaysJournaled` | `[]AlteredIsJournaled` | `~Orphans` |
| `ConflictsAreForeign` | `[]ConflictIsForeign` | `~Orphans` |
| `RestoredIsBaseline` | `[]RestoredMeansBaseline` | `~Orphans` |
| `AppsCloseLast` | `[]AppsCloseAfterServices` | `~Orphans` |
| `BaselineStays` | `BaselineIsKept`, an action property | `~Orphans` |

**Assumptions.** "Disabled" is a start mode and "missing" is none; there is at least one
worker; others change services only. `~Orphans` says that a control script ends with the
call that awaits it: killed with its time-out, and with the process that started it.
Where it does not (after a crash, or in the elevated worker after a request was given
up), the journal's promise is lost, as section 5 tells, and the theorems with it: TLC
finds `RestoredMeansBaseline` violated.

**The argument.** `CInv` is about control: which operation can be at which stage, that it
holds the gate, that no more than `Width` workers are in flight, dead ones included
(`Counted`, the one place where finite sets are counted), and that a script has a
service to work on. `IInv` adds, for the journal, that what is pending in memory or on
disk is pending with the baseline (`Answers`), and that a journal closed as "restored"
has nothing pending; for each service, in `Hand`, how its worker, its entry and its
script stand to each other; and in `Followed` what holds of a service that nobody else
has changed: it is as its baseline, stopped, or off; if it differs from its baseline it
is pending in both journals; an entry is "changed" only while the service is off; and a
script that has not begun compares with what the service still is. `MovesKeepIInv`
treats every step of a worker at once: such a step changes one entry of the memory and
writes either all of the memory or nothing, so a write of one worker that saves the
failed write of another leaves the invariant as it is.

### 6.5 Display profiles

`DisplayProofs` and, extending it, `DisplayGuardProofs` prove the following of
`DisplayProfiles!Spec` for any sets of configurations, profiles, game profiles and
transaction identities:

| Module | Theorem | States | Assumes besides |
|---|---|---|---|
| `DisplayProofs` | `TypeCorrect` | `[]TypeOK` | |
| | `JournalKnowsTheWayBack` | `[]ChangeIsJournaled` | |
| | `GuardsHaveEvidence` | `[]GuardHasEvidence` | |
| | `ConfirmationHolds` | `ConfirmedIsKept`, an action property | |
| `DisplayGuardProofs` | `SessionsAreGuarded` | `[]ChangeIsGuarded` | `"write" \notin Faults` |

**Assumptions.** A game's profile is a profile, a profile is a configuration, and `None`
is no configuration, identity or transaction. The first four theorems are for every
combination of faults. `SessionsAreGuarded` is for those without failing journal writes:
with them the property is false, by the write outside the `try` block of section 5. A
guard may die at any moment, and the property itself has the two exceptions section 5
describes: a "keep" that could not stop a guard (`KeepFailed`), and a death heard of
during an automatic operation (`DeathMissed`). What is left says that no other order of
failures, exits, events and operations leaves an open session without a guard between
operations; a death the service hears of between operations, or during one of the
user's, is not lost.

**The argument.** `JInv` is about the journal. `StagesOf`, `InSession` and `Equipped`
say where an operation can be and what it has by then; `SameOriginal` that the file
never names another original than the memory; `Unsaved` what a session is like whose
first write failed (it has no guard, so nothing has been applied for it); `KnownGuards`
that every guard that can change the display while Nova runs is one the service will
wait for before it clears the journal, and returns to the original of the session;
`Owing` that what has to be given back is in the file. `Confirming` follows the guard of
a session through its confirmation: a guard that leaves its loop to restore does so when
the deadline has passed, so `confirm()`, which looks at the deadline before and after
its read of the display, tells a guard that is still in its loop or has died.
`Switching` carries that over to the session before, which a failed switch may return
to. Each conjunct has one lemma over all actions; what actions may do to the session and
to a guard is stated once (`SessionEffect`, `GuardEffect`, `DisplayEffect`) and cited by
the others.

`GInv` follows the guard of a session from one operation into the next. `Counting` lists
the places where the session counts on its guard, `Watches` says that the guard would
restore, or has restored or died and is yet to be heard of, `Replacing` that in a switch
the old guard watches until the new one does, `Closing` that a shutdown leaves no
session open, and `Fates` what the service has been told of guards that ended. Where a
guard may have been lost, `Excused` has the two exceptions, which last as long as the
guard they are about is the session's (`ExcusedStays`). An old guard that a switch may
return to does not leave its loop to restore, its session being confirmed (`Switching`),
so what happens to it in the middle of the switch is a death, and the switch an
automatic one (`OldAlone`, `OldWatches`). TLC found the first statement of
`ChangeIsGuarded` false with three identities, which no run has, while this invariant
was being looked for: the exemption for a failed `keepCurrent()` was missing, and the
property was weaker than meant in what it asked of a guard. `GInv` itself was checked by
TLC over the 3 656 738 states of `DisplayGame`, and by simulation with three identities
and with failing guards, helpers and outside changes, before it was proved.

### 6.6 Rules

`RuleAutomationProofs` proves the following of `RuleAutomation!Spec` for any sets of
rules and executions, every assignment of kinds to rules, and every length of the list:

| Theorem | States |
|---|---|
| `TypeCorrect` | `[]TypeOK` |
| `WaitingIsAnnounced` | `[]AwaitingIsAnnounced` |
| `ApprovalResumes` | `[]ReadyMeansResumed` |
| `EarlierSessionIsOver` | `[]EarlierSessionNeverRuns` |
| `DecisionIsFinal` | `DecidedIsFinal`, an action property |

**Assumption.** `RuleAssumption`: every execution has a rule and every rule a kind, those
that need rights are tweaks, and the list has room for at least one execution.

**The argument.** `IInv` adds three parts to the types and `AwaitingIsAnnounced`. What
is blocked needs rights, and while the broker is ready it is in flight (`Approving`);
what main.js remembers of the broker is what the broker is (`Remembered`), so that an
approval is seen as one; what waited for an earlier session is decided and not in
flight (`Settled`). The order of the list matters to the type only, which says that no
execution is listed twice: `Filtered` proves it of `Without`, from the fact that ranks
number a set of indices (`Ranks`), and `Pushed` of a list that is cut to its limit.
`KeepsDecided`, what a step may not do to a decided execution, is proved with the
invariance, by one lemma per group of actions.

## 7. What is only model-checked

Every invariant and every action property that a passing run checks is a theorem, and so
are both refinements. TLC alone checks liveness: `RestoreEnds`,
`StartupSettlesJournal`, both `OperationEnds`, `PreviewEnds`, `CallEnds` and
`AbandonedWorkerEnds`. They rest on fairness, with which the prover does not deal. The
runs of section 5 are counterexamples, for which there is nothing to prove.

## 8. What is not modelled, and why

* *Restore*: the notification of windows; how a plan is prepared from a backup
  file (it can be, or it fails).
* *Tweak runner*: parameters, plans and parsing, which are functions of their
  input without state.
* *Game Mode*: a corrupt journal file (Nova's writes replace the file whole); the
  delayed-start flag is part of the start mode; the read of all services at the
  start of an operation is one step; which applications are closed. The change of
  the start mode and the write of the delayed-start flag after it are one step. A
  privileged script that goes on in the worker after its request was given up is
  assumed away with `~Orphans` (section 5).
* *Display*: several monitors and games, the merging of vibrance values,
  fingerprints, a corrupt file. A message to the guard counts from when it is
  written. That is slightly more than the code gives: the guard reads at most 128
  bytes a pass, about every 100 ms, before it looks at the clock
  (`display_profiles.h` 349-362), so a message may lie in the pipe for a pass, and
  one longer than that for several. The reuse of process ids is left out. The
  guard's own deadline expires no earlier than the service's.
* *Broker*: malformed and oversized messages, the validation of payloads, what
  each privileged operation does, several hellos on one connection, a main
  process that is elevated itself.
* *Rules*: the conditions, holds, cooldowns and expiries themselves (free
  choices), a failing write of the state file, the text of notifications. An
  attempt is marked as waiting for approval where it finds the broker not ready;
  `automaticTweakRuleAction.js` 248-263 also turns an `ADMIN_REQUIRED` or
  `ADMIN_BROKER_CANCELLED` that comes from a later step, while the broker may be
  ready, into the same mark. `ReadyMeansResumed` does not speak of that.
* *Maintenance*: the history of runs, the notification, a corrupt state file,
  changes of the clock (it only goes forward, and its jumps are sleeps), and what a
  task does. That the timer's tick comes before the unit of time in which Nova is
  awake has passed is an assumption: a process that gets no turn for that long
  counts as asleep.
* *Durability*: a journal write that returned is on disk. Power loss beyond what
  an atomic rename gives is not considered.
* *Components*: the shutdown's order and budgets, game sessions and the process
  watcher have a place in the plan (section 2). Monitoring, storage formats,
  catalogue, remote artifacts, application inventory, IPC, renderer and helpers
  are input and output, parsing or presentation; where the order of the
  renderer's calls matters it is stated as an assumption of the module concerned.
* *Most of the repository by volume* is none of the program's own logic: the
  vendored sensor application with its web pages, the React views, the inventory
  of applications and the catalogue of tweaks. The modules stand for the parts
  with state that several parties change; the share of all lines they map to is
  small and stays so.
