------------------------ MODULE ScheduledMaintenance ------------------------
(***************************************************************************)
(* Scheduled maintenance: scheduledMaintenanceService.js, with the         *)
(* conditions main.js gives it (canRun: the state of the game session and  *)
(* of the administrator broker).                                           *)
(*                                                                         *)
(* A run is a chain of asynchronous steps: it reads `running`, awaits      *)
(* canRun(), and works off the schedule's tasks. The timer and the user    *)
(* start runs independently, and the schedule can change under them. One   *)
(* action is what runs between two awaits. Time is an integer: occurrences *)
(* are Period apart, a deferral lasts Defer, a missed occurrence is caught *)
(* up for Window. Time also passes while Nova is closed or the computer is *)
(* asleep, for as long as it may be, and nothing else happens then.        *)
(***************************************************************************)
EXTENDS Integers, Sequences, SequencesExt

CONSTANTS
    Run,        \* the runs that can be in progress at the same time
    TaskList,   \* what schedule.tasks can be
    AdminTask,  \* tasks whose tweaks require administrator rights
    Time,       \* the times of day a schedule can have
    Period, Window, Defer,
    Horizon     \* bound on the clock

ASSUME TimeAssumption ==
    /\ Period \in Nat \ {0} /\ Window \in 1 .. Period - 1 /\ Defer \in 1 .. Window
    /\ Time \subseteq 0 .. Period - 1 /\ Horizon \in Nat

VARIABLES
    now,
    schedule,       \* [enabled, time, tasks]
    lastRunAt,
    deferredUntil,
    running,
    stored,         \* the state file: schedule, lastRunAt, deferredUntil
    run,            \* run[i]: a call of run(), while it is in progress
    ready,          \* the administrator broker's state
    recording,      \* a game session is being recorded
    awake,          \* Nova is open and the computer is not asleep
    \* What has been done, for the properties:
    served,         \* when the last run was completed
    changed,        \* when the schedule was last turned on or moved
    refused         \* when a scheduled run was last refused since then

memory == <<schedule, lastRunAt, deferredUntil, running>>
environment == <<now, ready, recording, awake>>
history == <<served, changed, refused>>
vars == <<memory, stored, run, environment, history>>

Schedule == [enabled : BOOLEAN, time : Time, tasks : TaskList]
NoRun == [pc |-> "none"]
Runs == {NoRun}
    \cup [pc : {"asking"}, source : {"manual", "scheduled"}, admin : BOOLEAN]
    \cup [pc : {"task"}, index : Nat \ {0}]
Never == -Period - Defer

TypeOK ==
    /\ now \in 0 .. Horizon
    /\ schedule \in Schedule
    /\ lastRunAt \in 0 .. now /\ deferredUntil \in 0 .. now + Defer
    /\ running \in BOOLEAN
    /\ ready \in BOOLEAN /\ recording \in BOOLEAN /\ awake \in BOOLEAN
    /\ run \in [Run -> Runs]
    /\ stored.schedule = schedule /\ stored.lastRunAt = lastRunAt
    /\ ~running => stored.deferredUntil = deferredUntil
    /\ {served, changed, refused} \subseteq {Never} \cup 0 .. now

Init ==
    /\ now = 0
    /\ \E t \in Time, l \in TaskList : schedule = [enabled |-> FALSE, time |-> t, tasks |-> l]
    /\ lastRunAt = 0 /\ deferredUntil = 0 /\ running = FALSE
    /\ stored = [schedule |-> schedule, lastRunAt |-> 0, deferredUntil |-> 0]
    /\ run = [i \in Run |-> NoRun]
    /\ ready = FALSE /\ recording = FALSE /\ awake = TRUE
    /\ served = Never /\ changed = Never /\ refused = Never

\* getPreviousOccurrence() of the schedule.
PreviousOccurrence == now - ((now - schedule.time) % Period)

\* tick() finds an occurrence to run.
Due ==
    /\ schedule.enabled /\ ~running /\ deferredUntil <= now
    /\ lastRunAt < PreviousOccurrence
    /\ now - PreviousOccurrence <= Window

\* persist(), with what the step has assigned.
Persist == stored' = [schedule |-> schedule', lastRunAt |-> lastRunAt',
                      deferredUntil |-> deferredUntil']

NeedsAdmin(tasks) == ToSet(tasks) \cap AdminTask # {}

\* getState() of the game session manager, and what canRun() looks for in it.
GameState == [activeSession |-> recording, lastReport |-> {}, autoTracking |-> {},
              capture |-> {}, captureAvailability |-> {}]
GameActive == {"activeGame", "sessionStatus"} \cap DOMAIN GameState # {}

-----------------------------------------------------------------------------
\* Mutant of DefersFor: a refused manual run defers the scheduled one, too.
DefersAlways(source) == TRUE

DefersFor(source) == source = "scheduled"

\* canRun() says no: a scheduled run is deferred.
Refuse(source) ==
    /\ IF DefersFor(source)
       THEN /\ deferredUntil' = now + Defer
            /\ UNCHANGED <<schedule, lastRunAt, running>>
            /\ Persist
       ELSE UNCHANGED <<memory, stored>>
    /\ refused' = IF source = "scheduled" THEN now ELSE refused
    /\ UNCHANGED <<environment, served, changed>>

\* Mutant of Ask: `running` is set before the await, and a refusal forgets it.
AskRunning(i, source) ==
    /\ awake /\ run[i] = NoRun
    /\ ~running /\ schedule.tasks # <<>>
    /\ running' = TRUE
    /\ run' = [run EXCEPT ![i] = [pc |-> "asking", source |-> source,
                                  admin |-> NeedsAdmin(schedule.tasks)]]
    /\ UNCHANGED <<schedule, lastRunAt, deferredUntil, stored, environment, history>>

\* run() up to the await of canRun(), which looks at the game at once.
Ask(i, source) ==
    /\ awake /\ run[i] = NoRun
    /\ ~running /\ schedule.tasks # <<>>
    /\ IF GameActive
       THEN Refuse(source) /\ UNCHANGED run
       ELSE /\ run' = [run EXCEPT ![i] = [pc |-> "asking", source |-> source,
                                          admin |-> NeedsAdmin(schedule.tasks)]]
            /\ UNCHANGED <<memory, stored, environment, history>>

RunNow(i) == Ask(i, "manual")
Tick(i) == Due /\ Ask(i, "scheduled")

\* The preflight fails, or rights are missing: ensureReady() refuses at once when
\* no approval is in progress, since main.js asks for explicit ones.
Refused(i) ==
    /\ awake /\ run[i].pc = "asking"
    /\ Refuse(run[i].source)
    /\ run' = [run EXCEPT ![i] = NoRun]

\* Mutant of Complete: the run is not written down.
CompleteUnsaved(i) ==
    /\ run' = [run EXCEPT ![i] = NoRun]
    /\ lastRunAt' = now /\ running' = FALSE
    /\ served' = now /\ refused' = Never
    /\ UNCHANGED <<schedule, stored>>

\* The end of run(), whatever became of its tasks.
Complete(i) ==
    /\ run' = [run EXCEPT ![i] = NoRun]
    /\ lastRunAt' = now /\ running' = FALSE
    /\ served' = now /\ refused' = Never
    /\ UNCHANGED schedule
    /\ Persist

\* canRun() says yes. The tasks are those the schedule has now.
Start(i) ==
    /\ awake /\ run[i].pc = "asking"
    /\ run[i].admin => ready
    /\ deferredUntil' = 0
    /\ IF schedule.tasks = <<>>
       THEN Complete(i)
       ELSE /\ run' = [run EXCEPT ![i] = [pc |-> "task", index |-> 1]]
            /\ running' = TRUE
            /\ UNCHANGED <<schedule, lastRunAt, stored, served, refused>>
    /\ UNCHANGED <<environment, changed>>

\* executeTask() is over, well or not.
TaskEnds(i) ==
    /\ awake /\ run[i].pc = "task"
    /\ IF run[i].index < Len(schedule.tasks)
       THEN /\ run' = [run EXCEPT ![i].index = @ + 1]
            /\ UNCHANGED <<memory, stored, served, refused>>
       ELSE UNCHANGED deferredUntil /\ Complete(i)
    /\ UNCHANGED <<environment, changed>>

\* Mutant of StartsAnew: only a move of the schedule counts.
StartsAnewMoved(old, new) == old.time # new.time

\* The occurrences before the change are not caught up.
StartsAnew(old, new) == (~old.enabled /\ new.enabled) \/ old.time # new.time

UpdateSchedule(new) ==
    /\ awake /\ new # schedule
    /\ schedule' = new
    /\ lastRunAt' = IF StartsAnew(schedule, new) THEN now ELSE lastRunAt
    /\ deferredUntil' = 0
    /\ Persist
    /\ changed' = IF (new.enabled /\ ~schedule.enabled) \/ new.time # schedule.time
                  THEN now ELSE changed
    /\ refused' = Never
    /\ UNCHANGED <<running, run, environment, served>>

\* The application starts again with its file, after it ended at any moment: at
\* once, or after it was down for a time.
Restart ==
    /\ schedule' = stored.schedule /\ lastRunAt' = stored.lastRunAt
    /\ deferredUntil' = stored.deferredUntil
    /\ running' = FALSE
    /\ run' = [i \in Run |-> NoRun]
    /\ ready' = FALSE /\ recording' = FALSE
    /\ awake' = TRUE
    /\ UNCHANGED <<stored, now, history>>

-----------------------------------------------------------------------------
\* The timer ticks every 30 seconds while Nova is open and the computer awake, and
\* at the start: a unit of time, much longer, does not pass before a tick has asked
\* for what is due. No timer holds up the time of a sleep or a downtime.
Scheduled(i) == run[i].pc = "asking" /\ run[i].source = "scheduled"
TimePasses ==
    /\ now < Horizon
    /\ awake => (~(Due /\ schedule.tasks # <<>>) \/ \E i \in Run : Scheduled(i))
    /\ now' = now + 1
    /\ UNCHANGED <<memory, stored, run, ready, recording, awake, history>>

\* The computer falls asleep, or Nova ends; Wake is the end of a sleep, with all of
\* Nova's memory, Restart that of a downtime.
Sleep ==
    /\ awake /\ awake' = FALSE
    /\ UNCHANGED <<memory, stored, run, now, ready, recording, history>>

Wake ==
    /\ ~awake /\ awake' = TRUE
    /\ UNCHANGED <<memory, stored, run, now, ready, recording, history>>

BrokerChanges ==
    /\ awake /\ ready' = ~ready
    /\ UNCHANGED <<memory, stored, run, now, recording, awake, history>>

\* startSession() and finishSession() of the game session manager.
SessionChanges ==
    /\ awake /\ recording' = ~recording
    /\ UNCHANGED <<memory, stored, run, now, ready, awake, history>>

Next ==
    \/ \E i \in Run : RunNow(i) \/ Tick(i) \/ Refused(i) \/ Start(i) \/ TaskEnds(i)
    \/ \E new \in Schedule : UpdateSchedule(new)
    \/ Restart \/ Sleep \/ Wake
    \/ TimePasses \/ BrokerChanges \/ SessionChanges

Spec == Init /\ [][Next]_vars

-----------------------------------------------------------------------------
(***************************************************************************)
(* Properties                                                              *)
(***************************************************************************)

\* `running` is never left behind: as long as it is set, a run is at a task. (Two
\* runs may be, and the first to end clears it for both.)
RunningMeansTask == running => \E i \in Run : run[i].pc = "task"

\* The timer asks for a run only when one is owed: for an occurrence of the
\* schedule as it was last turned on or moved, that no completed run has served,
\* within the catch-up window, and not while a refusal still counts; over
\* restarts, overlapping runs and changes of the schedule.
Owed ==
    /\ PreviousOccurrence > served /\ PreviousOccurrence > changed
    /\ now <= PreviousOccurrence + Window
    /\ now >= refused + Defer
TimerAsksForOwed ==
    [][\A i \in Run : (Scheduled(i)' /\ ~Scheduled(i)) => Owed]_vars

\* An occurrence is passed over in silence only by a Nova that is closed or asleep:
\* while it is awake within the window of an occurrence that is owed, be it that it
\* slept or was closed until then, no time passes but during a run, or for the time
\* of a deferral after a refusal (or after the run that ended beside a refusal). An
\* occurrence whose whole window is slept through is lost: that is what
\* CATCH_UP_WINDOW_MS says.
MissedOnlyWhenRefused ==
    [][(/\ now' # now /\ awake
        /\ schedule.enabled /\ schedule.tasks # <<>>
        /\ now <= PreviousOccurrence + Window
        /\ PreviousOccurrence > served /\ PreviousOccurrence > changed)
       => \/ now < refused + Defer \/ now < served + Defer
          \/ \E i \in Run : run[i].pc = "task" \/ Scheduled(i)]_vars

\* "Maintenance is deferred for 15 minutes while a game is active." (the note in
\* the panel): no run is carried on past the check made during a recording.
MaintenanceSparesGames ==
    [][\A i \in Run : (run'[i].pc = "asking" /\ run[i].pc # "asking") => ~recording]_vars
=============================================================================
