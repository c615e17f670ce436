--------------------------- MODULE RestoreService ---------------------------
(***************************************************************************)
(* The restore of a Nova backup: restoreService.js with its journal        *)
(* (restoreJournal.js) and the execution gate, among everything that runs  *)
(* beside it: ordinary tweak calls, Game Mode's background operations, the *)
(* settings page, Windows and the user changing things behind the          *)
(* application's back, failing journal writes, and a main process that may *)
(* stop at any point and start again.                                      *)
(*                                                                         *)
(* The orchestrator is sequential: `pc` is the await it is suspended at,   *)
(* and one action runs from one await to the next. A value of the system   *)
(* is compared with a step's target and never looked into, so each step    *)
(* stands for one item (a tweak or the settings) with a value of its own.  *)
(***************************************************************************)
EXTENDS ExecutionGate, Integers

CONSTANTS
    Job,      \* identities a restore can be given (crypto.randomUUID)
    NoJob,    \* no restore is active
    N,        \* number of steps of the plan, in the order prepare() sorts them
    Kind,     \* Kind[s]: "settings", "tweak" or "passive" (never replayed)
    Value,    \* values an item of the system can have
    Target    \* Target[j][s]: the value job j's backup holds for step s

Step == 1..N

ASSUME NoJobAssumption == NoJob \notin Job
ASSUME PlanAssumption ==
    /\ N \in Nat
    /\ Kind \in [Step -> {"settings", "tweak", "passive"}]
    /\ Target \in [Job -> [Step -> Value]]

VARIABLES
    process,      \* "loading" (await ready), "ready", or "broken" (ready rejected)
    jobs,         \* jobs[j]: the in-memory record, status "absent" if not there
    disk,         \* disk[j]: the record in the journal directory
    active,       \* the job the orchestrator works for
    pc,           \* the await the orchestrator is suspended at
    current,      \* the step the loop of execute() is at
    world,        \* world[s]: the live value of the item of step s
    settingsFile, \* settingsFile[s]: what settings.json holds, for settings steps
    touched,      \* history: steps the last run of a job may have changed
    drifted       \* history: items changed by others since the run began

processVars == <<process, jobs, active, pc, current>>
systemVars == <<world, settingsFile>>
historyVars == <<touched, drifted>>
vars == <<gateVars, processVars, disk, systemVars, historyVars>>

JobStatus == {"absent", "prepared", "running", "completed", "failed", "interrupted"}
StepStatus == {"pending", "started", "completed", "failed"}
Terminal == {"completed", "failed", "interrupted"}

JobRecord == [status : JobStatus, steps : [Step -> StepStatus]]

AbsentJob == [status |-> "absent", steps |-> [s \in Step |-> "pending"]]

\* The awaits of the orchestrator. "save..." are journal writes in flight.
Await == {"idle", "prepare", "savePrepared", "admin", "saveRunning", "step",
          "saveStarted", "change", "script", "verify", "saveStep",
          "saveCompleted", "saveFailed"}

TypeOK ==
    /\ GateTypeOK
    /\ process \in {"loading", "ready", "broken"}
    /\ jobs \in [Job -> JobRecord]
    /\ disk \in [Job -> JobRecord]
    /\ active \in Job \cup {NoJob}
    /\ pc \in Await
    /\ current \in 1..(N + 1)
    /\ world \in [Step -> Value]
    /\ settingsFile \in [Step -> Value]
    /\ touched \in [Job -> SUBSET Step]
    /\ drifted \subseteq Step

Init ==
    /\ GateInit
    /\ process = "loading"
    /\ jobs = [j \in Job |-> AbsentJob]
    /\ disk = [j \in Job |-> AbsentJob]
    /\ active = NoJob
    /\ pc = "idle"
    /\ current = 1
    /\ world \in [Step -> Value]
    /\ settingsFile = world
    /\ touched = [j \in Job |-> {}]
    /\ drifted = {}

-----------------------------------------------------------------------------
(***************************************************************************)
(* Initialisation: the records found in the journal directory are loaded,  *)
(* and one that was still in progress is marked interrupted, durably. A    *)
(* failure on the way rejects `ready`, and with it every later call.       *)
(***************************************************************************)
Loaded(j) == jobs[j].status # "absent"
OnDisk(j) == disk[j].status # "absent"

LoadTerminal(j) ==
    /\ process = "loading"
    /\ OnDisk(j) /\ ~Loaded(j)
    /\ disk[j].status \in Terminal
    /\ jobs' = [jobs EXCEPT ![j] = disk[j]]
    /\ UNCHANGED <<gateVars, process, active, pc, current, disk, systemVars, historyVars>>

\* Mutant of LoadInProgress: the record is loaded as it was left.
LoadInProgressUnchanged(j) ==
    /\ process = "loading"
    /\ OnDisk(j) /\ ~Loaded(j)
    /\ disk[j].status \notin Terminal
    /\ jobs' = [jobs EXCEPT ![j] = disk[j]]
    /\ UNCHANGED <<gateVars, process, active, pc, current, disk, systemVars, historyVars>>

LoadInProgress(j) ==
    /\ process = "loading"
    /\ OnDisk(j) /\ ~Loaded(j)
    /\ disk[j].status \notin Terminal
    /\ LET interrupted == [disk[j] EXCEPT !.status = "interrupted"]
       IN  /\ disk' = [disk EXCEPT ![j] = interrupted]
           /\ jobs' = [jobs EXCEPT ![j] = interrupted]
    /\ UNCHANGED <<gateVars, process, active, pc, current, systemVars, historyVars>>

\* The directory or a record cannot be read, or the closing write fails.
LoadFails ==
    /\ process = "loading"
    /\ process' = "broken"
    /\ UNCHANGED <<gateVars, jobs, active, pc, current, disk, systemVars, historyVars>>

Ready ==
    /\ process = "loading"
    /\ \A j \in Job : OnDisk(j) => Loaded(j)
    /\ process' = "ready"
    /\ UNCHANGED <<gateVars, jobs, active, pc, current, disk, systemVars, historyVars>>

-----------------------------------------------------------------------------
(***************************************************************************)
(* start(payload) and resume(id), up to the await of prepare(). A rejected *)
(* call (busy, unknown or not resumable) takes and frees the gate at once. *)
(***************************************************************************)
Take(j) ==
    /\ process = "ready"
    /\ active = NoJob
    /\ BeginRestore("restore")
    /\ active' = j
    /\ pc' = "prepare"
    /\ current' = 1
    /\ drifted' = {}
    /\ UNCHANGED <<process, jobs, disk, systemVars, touched>>

Start(j) == jobs[j].status = "absent" /\ Take(j)

\* Mutant of Resume: every terminal job is resumable, completed ones too.
ResumeAny(j) == jobs[j].status \in Terminal /\ Take(j)

Resume(j) == jobs[j].status \in {"failed", "interrupted"} /\ Take(j)

\* Leaving start() with an error, or execute() in its finally block.
Leave ==
    /\ EndRestore("restore")
    /\ active' = NoJob
    /\ pc' = "idle"

\* The backup cannot be read, a step has no target or no script, or the source
\* is not the one the interrupted run was started from.
PrepareFails ==
    /\ pc = "prepare"
    /\ Leave
    /\ UNCHANGED <<process, jobs, current, disk, systemVars, historyVars>>

\* Every step starts over as pending, so that a resumed run detects each live
\* state again. Nothing is on disk yet.
Rearmed(r) == [r EXCEPT !.status = "prepared",
                        !.steps = [s \in Step |-> "pending"]]

PrepareDone ==
    /\ pc = "prepare"
    /\ jobs' = [jobs EXCEPT ![active] = Rearmed(@)]
    /\ pc' = "savePrepared"
    /\ UNCHANGED <<gateVars, process, active, current, disk, systemVars, historyVars>>

\* journal.write: an exclusive temporary file, fsync, rename. The record is
\* replaced whole or not at all.
Write == disk' = [disk EXCEPT ![active] = jobs[active]]

SavePrepared ==
    /\ pc = "savePrepared"
    /\ Write
    /\ touched' = [touched EXCEPT ![active] = {}]
    /\ pc' = "admin"
    /\ UNCHANGED <<gateVars, process, jobs, active, current, systemVars, drifted>>

\* A new job was never entered in the map; a resumed one was changed in place.
SavePreparedFails ==
    /\ pc = "savePrepared"
    /\ jobs' = [jobs EXCEPT ![active] = IF OnDisk(active) THEN @ ELSE AbsentJob]
    /\ Leave
    /\ UNCHANGED <<process, current, disk, systemVars, historyVars>>

-----------------------------------------------------------------------------
(***************************************************************************)
(* execute(job, token)                                                     *)
(***************************************************************************)

\* Mutant of Failed: a status the journal does not know.
FailedAsError(r) == [r EXCEPT !.status = "error"]

\* The catch block up to its own save: the run is failed, and so is the step
\* that was in flight. It needs `jobs[active]` only, whatever was being saved.
Failed(r) == [r EXCEPT !.status = "failed",
                       !.steps = [s \in Step |-> IF r.steps[s] = "started"
                                                 THEN "failed" ELSE r.steps[s]]]

\* Mutant of Catch: the step is failed and the loop goes on.
CatchAndContinue ==
    /\ jobs' = [jobs EXCEPT ![active].steps[current] = "failed"]
    /\ current' = current + 1
    /\ pc' = "saveStep"
    /\ UNCHANGED <<process, active, disk, historyVars>>

Catch ==
    /\ jobs' = [jobs EXCEPT ![active] = Failed(@)]
    /\ pc' = "saveFailed"
    /\ UNCHANGED <<process, active, current, disk, historyVars>>

\* A save inside the try block that fails.
SaveFails ==
    /\ pc \in {"saveRunning", "saveStarted", "saveStep", "saveCompleted"}
    /\ Catch
    /\ UNCHANGED <<gateVars, systemVars>>

AdminGranted ==
    /\ pc = "admin"
    /\ jobs' = [jobs EXCEPT ![active].status = "running"]
    /\ pc' = "saveRunning"
    /\ UNCHANGED <<gateVars, process, active, current, disk, systemVars, historyVars>>

AdminRefused ==
    /\ pc = "admin"
    /\ Catch
    /\ UNCHANGED <<gateVars, systemVars>>

SaveRunning ==
    /\ pc = "saveRunning"
    /\ Write
    /\ pc' = "step"
    /\ UNCHANGED <<gateVars, process, jobs, active, current, systemVars, historyVars>>

\* The loop reaches a step and records in memory what it found.
Mark(status) ==
    /\ jobs' = [jobs EXCEPT ![active].steps[current] = status]
    /\ UNCHANGED <<gateVars, process, active, current, disk, systemVars, historyVars>>

AtStep == pc = "step" /\ current \in Step
Matches == world[current] = Target[active][current]

PassiveStep ==
    /\ AtStep
    /\ Kind[current] = "passive"
    /\ Mark("completed")
    /\ pc' = "saveStep"

AlreadyThere ==
    /\ AtStep
    /\ Kind[current] # "passive"
    /\ Matches
    /\ Mark("completed")
    /\ pc' = "saveStep"

NeedsChange ==
    /\ AtStep
    /\ Kind[current] # "passive"
    /\ ~Matches
    /\ Mark("started")
    /\ pc' = "saveStarted"

\* getCurrentState fell back, checked is not true: RESTORE_STATE_UNAVAILABLE.
\* The verification after a script is the same detection.
DetectionFails ==
    /\ (AtStep /\ Kind[current] = "tweak") \/ pc = "verify"
    /\ Catch
    /\ UNCHANGED <<gateVars, systemVars>>

\* Mutant of SaveStarted: the change does not wait for the journal.
SaveStartedLater ==
    /\ pc = "saveStarted"
    /\ pc' = "change"
    /\ UNCHANGED <<gateVars, process, jobs, active, current, disk, systemVars, historyVars>>

SaveStarted ==
    /\ pc = "saveStarted"
    /\ Write
    /\ pc' = "change"
    /\ UNCHANGED <<gateVars, process, jobs, active, current, systemVars, historyVars>>

Touching == touched' = [touched EXCEPT ![active] = @ \cup {current}]

\* updateSettings replaces the settings in memory, then writes the file; both
\* are synchronous, and so is the completion of the step.
ApplySettings ==
    /\ pc = "change"
    /\ Kind[current] = "settings"
    /\ world' = [world EXCEPT ![current] = Target[active][current]]
    /\ settingsFile' = [settingsFile EXCEPT ![current] = Target[active][current]]
    /\ Touching
    /\ jobs' = [jobs EXCEPT ![active].steps[current] = "completed"]
    /\ pc' = "saveStep"
    /\ UNCHANGED <<gateVars, process, active, current, disk, drifted>>

\* The settings are refused, or their file cannot be written when those in
\* memory have changed already, or applying them throws after both.
ApplySettingsFails ==
    /\ pc = "change"
    /\ Kind[current] = "settings"
    /\ LET inMemory == [world EXCEPT ![current] = Target[active][current]]
           inFile == [settingsFile EXCEPT ![current] = Target[active][current]]
       IN  \E outcome \in {<<world, settingsFile>>, <<inMemory, settingsFile>>,
                           <<inMemory, inFile>>} :
              world' = outcome[1] /\ settingsFile' = outcome[2]
    /\ Touching
    /\ jobs' = [jobs EXCEPT ![active] = Failed(@)]
    /\ pc' = "saveFailed"
    /\ UNCHANGED <<gateVars, process, active, current, disk, drifted>>

\* runTweak with the restore's token: from here on the script may act.
EnterScript ==
    /\ pc = "change"
    /\ Kind[current] = "tweak"
    /\ Enter(RestoreCall, "restore")
    /\ Touching
    /\ pc' = "script"
    /\ UNCHANGED <<process, jobs, active, current, disk, systemVars, drifted>>

\* The script reports success, which is not yet the target state.
ScriptSucceeds(v) ==
    /\ pc = "script"
    /\ world' = [world EXCEPT ![current] = v]
    /\ Release(RestoreCall)
    /\ pc' = "verify"
    /\ UNCHANGED <<process, jobs, active, current, disk, settingsFile, historyVars>>

\* The script fails, having changed something or not, or was never started
\* (RESTORE_SOURCE_CHANGED, no administrator): v may be the value it had.
ScriptFails(v) ==
    /\ pc = "script"
    /\ world' = [world EXCEPT ![current] = v]
    /\ Release(RestoreCall)
    /\ Catch
    /\ UNCHANGED settingsFile

Verify ==
    /\ pc = "verify"
    /\ Matches
    /\ Mark("completed")
    /\ pc' = "saveStep"

VerificationFails ==
    /\ pc = "verify"
    /\ ~Matches
    /\ Catch
    /\ UNCHANGED <<gateVars, systemVars>>

\* Mutant of SaveStep: the loop does not advance.
SaveStepSameStep ==
    /\ pc = "saveStep"
    /\ Write
    /\ pc' = "step"
    /\ UNCHANGED <<gateVars, process, jobs, active, current, systemVars, historyVars>>

SaveStep ==
    /\ pc = "saveStep"
    /\ Write
    /\ current' = current + 1
    /\ pc' = "step"
    /\ UNCHANGED <<gateVars, process, jobs, active, systemVars, historyVars>>

\* Mutant of AllStepsDone: off by one at the end of the plan.
AllStepsDoneEarly ==
    /\ pc = "step"
    /\ current = N
    /\ jobs' = [jobs EXCEPT ![active].status = "completed"]
    /\ pc' = "saveCompleted"
    /\ UNCHANGED <<gateVars, process, active, current, disk, systemVars, historyVars>>

AllStepsDone ==
    /\ pc = "step"
    /\ current = N + 1
    /\ jobs' = [jobs EXCEPT ![active].status = "completed"]
    /\ pc' = "saveCompleted"
    /\ UNCHANGED <<gateVars, process, active, current, disk, systemVars, historyVars>>

SaveCompleted ==
    /\ pc = "saveCompleted"
    /\ Write
    /\ Leave
    /\ UNCHANGED <<process, jobs, current, systemVars, historyVars>>

SaveFailed ==
    /\ pc = "saveFailed"
    /\ Write
    /\ Leave
    /\ UNCHANGED <<process, jobs, current, systemVars, historyVars>>

\* The write of the failure itself fails: logged, and the run still ends.
SaveFailedFails ==
    /\ pc = "saveFailed"
    /\ Leave
    /\ UNCHANGED <<process, jobs, current, disk, systemVars, historyVars>>

-----------------------------------------------------------------------------
(***************************************************************************)
(* Everything else in the application and on the machine.                  *)
(***************************************************************************)

\* tweaks:run, the maintenance plan and the rules call runTweak without token.
CallerEnters(c) ==
    /\ c \notin running
    /\ Enter(c, "nobody")
    /\ UNCHANGED <<processVars, disk, systemVars, historyVars>>

CallerChanges(c, s, v) ==
    /\ c \in running
    /\ Kind[s] = "tweak"
    /\ world' = [world EXCEPT ![s] = v]
    /\ UNCHANGED <<gateVars, processVars, disk, settingsFile, historyVars>>

CallerLeaves(c) ==
    /\ c \in running
    /\ Release(c)
    /\ UNCHANGED <<processVars, disk, systemVars, historyVars>>

\* backgroundMinimizationService.exclusive holds the gate for its operation.
BackgroundBegins ==
    /\ BeginRestore("background")
    /\ UNCHANGED <<processVars, disk, systemVars, historyVars>>

BackgroundEnds ==
    /\ owner = "background"
    /\ EndRestore("background")
    /\ UNCHANGED <<processVars, disk, systemVars, historyVars>>

\* The settings page saves through the same SettingsService, outside the gate;
\* its write may fail after the settings in memory have changed.
SettingsPage(s, v) ==
    /\ Kind[s] = "settings"
    /\ world' = [world EXCEPT ![s] = v]
    /\ settingsFile' \in {settingsFile, [settingsFile EXCEPT ![s] = v]}
    /\ drifted' = drifted \cup {s}
    /\ UNCHANGED <<gateVars, processVars, disk, touched>>

\* Windows, another program, the user, or a script that outlived its caller.
Drift(s, v) ==
    /\ Kind[s] = "tweak"
    /\ world' = [world EXCEPT ![s] = v]
    /\ drifted' = drifted \cup {s}
    /\ UNCHANGED <<gateVars, processVars, disk, settingsFile, touched>>

\* The main process ends at any point (a crash, or a quit: the shutdown handler
\* does not wait for a restore) and is started again. Settings are read back
\* from their file.
Restart ==
    /\ process' = "loading"
    /\ jobs' = [j \in Job |-> AbsentJob]
    /\ active' = NoJob
    /\ pc' = "idle"
    /\ current' = 1
    /\ owner' = "none"
    /\ running' = {}
    /\ world' = [s \in Step |-> IF Kind[s] = "settings"
                                THEN settingsFile[s] ELSE world[s]]
    /\ UNCHANGED <<disk, settingsFile, historyVars>>

-----------------------------------------------------------------------------
Load ==
    \/ \E j \in Job : LoadTerminal(j) \/ LoadInProgress(j)
    \/ LoadFails \/ Ready

\* What the orchestrator does once the gate is its own.
Orchestrate ==
    \/ PrepareFails \/ PrepareDone \/ SavePrepared \/ SavePreparedFails
    \/ AdminGranted \/ AdminRefused \/ SaveRunning \/ SaveFails
    \/ PassiveStep \/ AlreadyThere \/ NeedsChange \/ DetectionFails
    \/ SaveStarted \/ ApplySettings \/ ApplySettingsFails \/ EnterScript
    \/ \E v \in Value : ScriptSucceeds(v) \/ ScriptFails(v)
    \/ Verify \/ VerificationFails \/ SaveStep
    \/ AllStepsDone \/ SaveCompleted \/ SaveFailed \/ SaveFailedFails

Environment ==
    \/ \E c \in Caller : CallerEnters(c) \/ CallerLeaves(c)
    \/ \E c \in Caller, s \in Step, v \in Value : CallerChanges(c, s, v)
    \/ BackgroundBegins \/ BackgroundEnds
    \/ \E s \in Step, v \in Value : SettingsPage(s, v) \/ Drift(s, v)
    \/ Restart

Next ==
    \/ Load
    \/ \E j \in Job : Start(j) \/ Resume(j)
    \/ Orchestrate
    \/ Environment

Spec == Init /\ [][Next]_vars

\* Journal writes, detections and scripts end (scripts and the administrator
\* prompt have timeouts), and so does the loading of the journal. Nobody is
\* obliged to start, resume, call, change or restart anything.
FairSpec == Spec /\ WF_vars(Load) /\ WF_vars(Orchestrate)

-----------------------------------------------------------------------------
(***************************************************************************)
(* Properties                                                              *)
(***************************************************************************)

\* The gate is held exactly as long as a restore is active, alone, and the
\* restore's own runTweak is inside it exactly while its script runs: no path
\* through start() or execute() keeps the token or gives it back early.
ExclusiveRestore ==
    /\ HolderIsAlone
    /\ owner = "restore" <=> active # NoJob
    /\ active # NoJob <=> pc # "idle"
    /\ RestoreCall \in running <=> pc = "script"

\* "A started entry must be saved before changing settings or executing a
\* tweak": whatever a run may have changed is not pending in the journal, at
\* any later moment, through failing writes, restarts and failed resumes.
TouchedIsJournaled ==
    \A j \in Job : \A s \in touched[j] : disk[j].steps[s] # "pending"

\* A step recorded as completed is at its target for as long as the restore
\* runs (prepare() still has the record of the run before), whatever other Nova
\* operations are asked for meanwhile, unless
\* something outside the gate changed the item: the settings page, Windows.
CompletedStaysRestored ==
    (active # NoJob /\ pc # "prepare") =>
        \A s \in Step \ drifted :
            (jobs[active].steps[s] = "completed" /\ Kind[s] # "passive")
                => world[s] = Target[active][s]

\* "The first error stops execution": in memory and in the journal, a step is
\* past pending only if every step before it is completed, so nothing is ever
\* done beyond the step that failed or was in flight.
InOrder(r) ==
    \A s, t \in Step :
        (s < t /\ r.steps[t] # "pending") => r.steps[s] = "completed"
FirstErrorStops == \A j \in Job : InOrder(jobs[j]) /\ InOrder(disk[j])

\* A restore the journal calls completed has completed every step, and is never
\* run again: its record does not change any more, restarts included.
CompletedIsFinal ==
    [][\A j \in Job : disk[j].status = "completed" =>
          /\ \A s \in Step : disk[j].steps[s] = "completed"
          /\ disk'[j] = disk[j]]_disk

\* A restore that began ends and frees the gate, or the process restarts.
RestoreEnds == active # NoJob ~> active = NoJob

\* Unless the process is killed again and again, every record that one before it
\* left in progress is closed, or the start has found the journal unwritable and
\* refuses restores.
StartupSettlesJournal ==
    <>[][~Restart]_vars => \A j \in Job :
        (process = "loading" /\ disk[j].status \in {"prepared", "running"})
            ~> (disk[j].status \in Terminal \/ process = "broken")

\* The detailed specification implements the write-ahead promise of the journal.
JournalState(d) ==
    CASE d.status = "absent" -> "absent"
      [] d.status \in {"prepared", "running"} -> "open"
      [] d.status = "completed" -> "done"
      [] OTHER -> "stopped"
NotPending(d) == {s \in Step : d.steps[s] # "pending"}
WAL == INSTANCE WriteAheadRestore WITH
    state <- [j \in Job |-> JournalState(disk[j])],
    announced <- [j \in Job |-> NotPending(disk[j])]
ImplementsWriteAhead == WAL!WALSpec

\* "Settings, theme and language are persisted through SettingsService": a
\* restore that ends completed leaves its settings in the file as well, unless
\* the settings page changed them during the run.
CompletedSettingsPersisted ==
    \A j \in Job, s \in Step :
        (pc = "saveCompleted" /\ active = j /\ Kind[s] = "settings" /\ s \notin drifted)
            => settingsFile[s] = Target[j][s]
=============================================================================
