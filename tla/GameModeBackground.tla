------------------------- MODULE GameModeBackground -------------------------
(***************************************************************************)
(* Game Mode's background services: backgroundMinimizationService.js with  *)
(* the control script of backgroundServiceControl.js. A baseline of the    *)
(* services is journaled, services are disabled by a few workers at a time *)
(* and put back later, through failing journal writes, failing or killed   *)
(* scripts, services that change outside Nova, and crashes.                *)
(*                                                                         *)
(* A service's state is its start mode (the delayed flag is part of it)    *)
(* and its status. A control call is a script of several system changes;   *)
(* its last step and the continuation of the caller are one action, as are *)
(* the synchronous statements between two awaits.                          *)
(***************************************************************************)
EXTENDS ExecutionGate, Integers

CONSTANTS
    Service,   \* the services Game Mode knows
    Mode,      \* start modes of a service, "Disabled" among them
    Width,     \* workers of mapThree: 3 in the code
    Outside,   \* services something else than Nova may change
    Orphans    \* a control script may outlive the process that started it

ASSUME ModeAssumption == "Disabled" \in Mode /\ "missing" \notin Mode
ASSUME WidthAssumption == Width \in Nat \ {0}
ASSUME OutsideAssumption == Outside \subseteq Service

VARIABLES
    svc,       \* svc[s]: the service as Windows has it
    mem,       \* the journal in memory
    dsk,       \* the journal file
    recovery,  \* recoveryRequired
    op,        \* the operation inside exclusive(), or "none"
    stage,     \* what the operation waits for
    work,      \* work[s]: where a worker is with the entry of s
    dead,      \* workers of this operation that have thrown
    seen,      \* seen[s]: the state the restore has read
    script,    \* script[s]: the control script running for s
    shutting,  \* shutdown(): "no", "waiting", "restoring" or "done"
    fresh,     \* history: the last call was a prepare() that returned ok
    base,      \* history: the state Game Mode answers for
    ext        \* history: services changed by others since the baseline

opVars == <<op, stage, work, dead, seen>>
journalVars == <<mem, dsk>>
windowsVars == <<svc, base, ext>>
vars == <<gateVars, svc, mem, dsk, recovery, opVars, script, shutting, fresh, base, ext>>

Stable == [mode : Mode, status : {"Running", "Stopped"}]
Missing == [mode |-> "missing", status |-> "Stopped"]
Off == [mode |-> "Disabled", status |-> "Stopped"]
ServiceState == [mode : Mode, status : {"Running", "Stopped", "Stopping", "Starting"}]
                  \cup {Missing}

\* "none" is an entry the journal does not have; `dependents` says whether other
\* services that need this one were running.
EntryPhase == {"none", "untouched", "intent", "changed", "restoring", "restored",
               "skipped", "conflict"}
Entry == [phase : EntryPhase, original : Stable \cup {Missing}, dependents : BOOLEAN]
Journal == [phase : {"none", "prepared", "active", "partial", "restored"},
            entry : [Service -> Entry]]
NoJournal == [phase |-> "none",
              entry |-> [s \in Service |-> [phase |-> "none", original |-> Missing,
                                         dependents |-> FALSE]]]

\* A script: its next step, what it must find and what it must leave.
NoScript == [step |-> "none", expected |-> Missing, target |-> Missing]
Script == [step : {"none", "compare", "stop", "mode", "start", "verify"},
           expected : Stable \cup {Missing}, target : Stable \cup {Missing}]

TypeOK ==
    /\ GateTypeOK
    /\ svc \in [Service -> ServiceState]
    /\ mem \in Journal /\ dsk \in Journal
    /\ recovery \in BOOLEAN
    /\ op \in {"none", "prepare", "apply", "restore"}
    /\ stage \in {"idle", "read", "work", "games", "apps"}
    /\ work \in [Service -> {"none", "todo", "disabling", "reread", "restoring"}]
    /\ dead \in 0..Width
    /\ seen \in [Service -> Stable \cup {Missing}]
    /\ script \in [Service -> Script]
    /\ shutting \in {"no", "waiting", "restoring", "done"}
    /\ fresh \in BOOLEAN
    /\ base \in [Service -> ServiceState]
    /\ ext \subseteq Service

Pending(entry) == entry.phase \in {"intent", "changed", "restoring", "conflict"}
AnyPending(journal) == \E s \in Service : Pending(journal.entry[s])

Init ==
    /\ GateInit
    /\ svc \in [Service -> Stable]
    /\ mem = NoJournal /\ dsk = NoJournal
    /\ recovery = FALSE
    /\ op = "none" /\ stage = "idle"
    /\ work = [s \in Service |-> "none"]
    /\ dead = 0
    /\ seen = [s \in Service |-> Missing]
    /\ script = [s \in Service |-> NoScript]
    /\ shutting = "no"
    /\ fresh = FALSE
    /\ base = svc
    /\ ext = {}

-----------------------------------------------------------------------------
(***************************************************************************)
(* The journal file is written whole and synchronously after every change  *)
(* in memory; a write that fails throws, with the change in memory done.   *)
(***************************************************************************)
Marked(s, phase) == [mem EXCEPT !.entry[s].phase = phase]
Saved(journal) == mem' = journal /\ dsk' = journal
SaveThrows(journal) == mem' = journal /\ UNCHANGED dsk

\* exclusive(): one operation at a time, with the whole gate. A refused call
\* changes nothing.
Begin(name, firstStage) ==
    /\ op = "none"
    /\ BeginRestore("background")
    /\ op' = name
    /\ stage' = firstStage
    /\ dead' = 0

\* The finally block.
End ==
    /\ op' = "none"
    /\ stage' = "idle"
    /\ work' = [s \in Service |-> "none"]
    /\ EndRestore("background")
    /\ shutting' = IF shutting = "restoring" THEN "done" ELSE shutting
    /\ UNCHANGED <<dead, seen, script>>

\* Mutant of Readable: a snapshot is taken as it comes.
ReadableAlways == TRUE

\* readStates() refuses a snapshot with a service between two states.
Readable == \A s \in Service : svc[s] \in Stable \cup {Missing}

\* Mutant of ReadFails: a read that is refused is waited for.
ReadFailsWaits ==
    /\ stage = "read" /\ Readable
    /\ End
    /\ UNCHANGED <<windowsVars, journalVars, recovery, fresh>>

\* The read fails (no administrator, a timeout) or is refused: the operation throws.
ReadFails ==
    /\ stage = "read"
    /\ End
    /\ UNCHANGED <<windowsVars, journalVars, recovery, fresh>>

-----------------------------------------------------------------------------
(***************************************************************************)
(* prepare()                                                               *)
(***************************************************************************)

\* Mutant of PrepareCalled: a pending baseline does not stop a new one.
PrepareCalledAlways ==
    /\ shutting = "no"
    /\ Begin("prepare", "read")
    /\ fresh' = FALSE
    /\ UNCHANGED <<work, seen, windowsVars, journalVars, recovery, script, shutting>>

PrepareCalled ==
    /\ shutting = "no"
    /\ ~recovery /\ ~AnyPending(mem)
    /\ Begin("prepare", "read")
    /\ fresh' = FALSE
    /\ UNCHANGED <<work, seen, windowsVars, journalVars, recovery, script, shutting>>

\* Once saved, the states it has read are those Game Mode answers for.
Prepared ==
    /\ op = "prepare" /\ stage = "read"
    /\ Readable
    /\ \E needed \in SUBSET Service :
          LET snapshot == [phase |-> "prepared",
                           entry |-> [s \in Service |->
                               [phase |-> IF svc[s] = Missing THEN "none" ELSE "untouched",
                                original |-> svc[s],
                                dependents |-> s \in needed]]]
          IN \/ Saved(snapshot) /\ fresh' = TRUE /\ base' = svc /\ ext' = {}
             \/ SaveThrows(snapshot) /\ fresh' = FALSE /\ UNCHANGED <<base, ext>>
    /\ End
    /\ UNCHANGED <<svc, recovery>>

-----------------------------------------------------------------------------
(***************************************************************************)
(* The workers of mapThree. One that throws is gone; the others go on, and *)
(* the operation throws when all have stopped.                             *)
(***************************************************************************)
InFlight == {s \in Service : work[s] \in {"disabling", "reread", "restoring"}}
Todo == {s \in Service : work[s] = "todo"}
FreeWorker == Cardinality(InFlight) < Width - dead

GoesOn(s) == work' = [work EXCEPT ![s] = "none"] /\ UNCHANGED dead
Dies(s) == work' = [work EXCEPT ![s] = "none"] /\ dead' = dead + 1

\* The worker is through with an entry: its phase is set and saved. apply()
\* saves once more after a rollback, which may throw with the phase on disk.
Settle(s, phase) ==
    \/ Saved(Marked(s, phase)) /\ GoesOn(s)
    \/ Saved(Marked(s, phase)) /\ op = "apply" /\ work[s] \in {"reread", "restoring"} /\ Dies(s)
    \/ SaveThrows(Marked(s, phase)) /\ Dies(s)

Run(s, expected, target) ==
    script' = [script EXCEPT ![s] = [step |-> "compare", expected |-> expected, target |-> target]]
Stopped(s) == script' = [script EXCEPT ![s] = NoScript]

\* Mutant of Interrupted: only the final state of a change is recognised.
InterruptedNever(entry, actual) == FALSE

\* An interrupted write may have stopped the service before changing its mode.
Interrupted(entry, actual) ==
    /\ entry.phase \in {"intent", "restoring"}
    /\ actual.status = "Stopped"
    /\ actual.mode \in {"Disabled", entry.original.mode}

\* restoreEntry(entry, actual)
RestoreEntry(s, actual) ==
    LET entry == mem.entry[s]
        ours == actual = Off \/ Interrupted(entry, actual)
    IN \/ /\ actual = Missing
          /\ Settle(s, "conflict") /\ UNCHANGED script
       \/ /\ actual # Missing /\ actual = entry.original
          /\ Settle(s, "restored") /\ UNCHANGED script
       \/ /\ actual # Missing /\ actual # entry.original /\ ~ours
          /\ Settle(s, "conflict") /\ UNCHANGED script
       \/ /\ actual # Missing /\ actual # entry.original /\ ours
          /\ Saved(Marked(s, "restoring"))
          /\ work' = [work EXCEPT ![s] = "restoring"]
          /\ Run(s, actual, entry.original)
          /\ UNCHANGED dead
       \* The write before the script fails and is caught: no script runs.
       \/ /\ actual # Missing /\ actual # entry.original /\ ours
          /\ Settle(s, "restoring") /\ UNCHANGED script

-----------------------------------------------------------------------------
(***************************************************************************)
(* apply()                                                                 *)
(***************************************************************************)
InJournal(s) == mem.entry[s].phase # "none"

\* The panel prepares before every apply (GameModePanel.jsx:2189 and 2279).
ApplyCalled ==
    /\ shutting = "no"
    /\ ~recovery /\ mem.phase = "prepared"
    /\ fresh
    /\ Begin("apply", "work")
    /\ work' = [s \in Service |-> IF InJournal(s) THEN "todo" ELSE "none"]
    /\ fresh' = FALSE
    /\ UNCHANGED <<seen, windowsVars, journalVars, recovery, script, shutting>>

\* Already disabled, or with dependents running when the baseline was taken.
LeftAlone(entry) == entry.original.mode = "Disabled" \/ entry.dependents

Skip(s) ==
    /\ op = "apply" /\ work[s] = "todo" /\ FreeWorker
    /\ LeftAlone(mem.entry[s])
    /\ Settle(s, "skipped")
    /\ UNCHANGED <<gateVars, op, stage, seen, windowsVars, recovery, script, shutting, fresh>>

\* Mutant of Disable: the script does not wait for its intent to be durable.
DisableFirst(s) ==
    /\ op = "apply" /\ work[s] = "todo" /\ FreeWorker
    /\ ~LeftAlone(mem.entry[s])
    /\ mem' = Marked(s, "intent") /\ UNCHANGED dsk
    /\ work' = [work EXCEPT ![s] = "disabling"]
    /\ Run(s, mem.entry[s].original, Off)
    /\ UNCHANGED <<gateVars, op, stage, dead, seen, windowsVars, recovery, shutting, fresh>>

\* "durable intent before the first system write"
Disable(s) ==
    /\ op = "apply" /\ work[s] = "todo" /\ FreeWorker
    /\ ~LeftAlone(mem.entry[s])
    /\ \/ /\ Saved(Marked(s, "intent"))
          /\ work' = [work EXCEPT ![s] = "disabling"]
          /\ Run(s, mem.entry[s].original, Off)
          /\ UNCHANGED dead
       \/ SaveThrows(Marked(s, "intent")) /\ Dies(s) /\ UNCHANGED script
    /\ UNCHANGED <<gateVars, op, stage, seen, windowsVars, recovery, shutting, fresh>>

Disabled(s) ==
    /\ work[s] = "disabling" /\ script[s].step = "verify"
    /\ svc[s] = Off
    /\ Settle(s, "changed") /\ Stopped(s)
    /\ UNCHANGED <<gateVars, op, stage, seen, windowsVars, recovery, shutting, fresh>>

\* The script found another state, or dependents running, and wrote nothing.
DisableRefused(s) ==
    /\ work[s] = "disabling" /\ script[s].step = "compare"
    /\ Settle(s, "skipped") /\ Stopped(s)
    /\ UNCHANGED <<gateVars, op, stage, seen, windowsVars, recovery, shutting, fresh>>

\* The script throws, is killed after 22 s or leaves something else; or the
\* administrator broker is gone before it ran.
DisableFails(s) ==
    /\ work[s] = "disabling"
    /\ Stopped(s)
    /\ work' = [work EXCEPT ![s] = "reread"]
    /\ UNCHANGED <<gateVars, op, stage, dead, seen, windowsVars, journalVars, recovery, shutting, fresh>>

RollBack(s) ==
    /\ work[s] = "reread"
    /\ Readable
    /\ RestoreEntry(s, svc[s])
    /\ UNCHANGED <<gateVars, op, stage, seen, windowsVars, recovery, shutting, fresh>>

RereadFails(s) ==
    /\ work[s] = "reread"
    /\ Dies(s)
    /\ UNCHANGED <<gateVars, op, stage, seen, windowsVars, journalVars, recovery, script, shutting, fresh>>

\* Mutant of WorkersDone: as with Promise.all, the first worker that throws ends it.
WorkersDoneAtFirstThrow == stage = "work" /\ (dead > 0 \/ (InFlight = {} /\ Todo = {}))

\* mapThree is over when nothing is in flight and nobody is left for the rest.
WorkersDone == stage = "work" /\ InFlight = {} /\ (Todo = {} \/ dead = Width)

\* mapThree rethrows; exclusive() reports the failure and changes nothing.
WorkersFailed ==
    /\ WorkersDone /\ dead > 0
    /\ End
    /\ UNCHANGED <<windowsVars, journalVars, recovery, fresh>>

Failures(journal) ==
    \E s \in Service : /\ journal.entry[s].phase \notin {"none", "changed"}
                       /\ ~(/\ journal.entry[s].phase = "skipped"
                            /\ journal.entry[s].original.mode = "Disabled")

Phased(phase) == [mem EXCEPT !.phase = phase]

\* A service could not be changed: partial, and applications stay open.
ApplyPartial ==
    /\ WorkersDone /\ dead = 0 /\ op = "apply"
    /\ Failures(mem)
    /\ Saved(Phased("partial")) \/ SaveThrows(Phased("partial"))
    /\ End
    /\ UNCHANGED <<windowsVars, recovery, fresh>>

\* Mutant of AskGames: failures are not looked at.
AskGamesAlways ==
    /\ WorkersDone /\ dead = 0 /\ op = "apply"
    /\ Saved(Phased("partial"))
    /\ stage' = "games"
    /\ UNCHANGED <<gateVars, op, work, dead, seen, windowsVars, recovery, script, shutting, fresh>>

AskGames ==
    /\ WorkersDone /\ dead = 0 /\ op = "apply"
    /\ ~Failures(mem)
    /\ \/ Saved(Phased("partial")) /\ stage' = "games"
          /\ UNCHANGED <<gateVars, op, work, dead, seen, script, shutting>>
       \/ SaveThrows(Phased("partial")) /\ End
    /\ UNCHANGED <<windowsVars, recovery, fresh>>

CloseApps ==
    /\ stage = "games" /\ shutting = "no"
    /\ stage' = "apps"
    /\ UNCHANGED <<gateVars, op, work, dead, seen, windowsVars, journalVars, recovery, script, shutting, fresh>>

\* The applications are closed, or some are not, or none was asked to close.
Applied ==
    /\ stage \in {"games", "apps"}
    /\ \E phase \in {"partial", "active"} :
          /\ phase = "active" => stage = "apps"
          /\ Saved(Phased(phase)) \/ SaveThrows(Phased(phase))
    /\ End
    /\ UNCHANGED <<windowsVars, recovery, fresh>>

-----------------------------------------------------------------------------
(***************************************************************************)
(* restore(), which is also recover() and the end of shutdown()            *)
(***************************************************************************)
ToRestore == mem.phase \notin {"none", "restored"}

\* Mutant of Conclude: whatever is left, the journal is closed.
ConcludeRestored ==
    /\ recovery' = FALSE
    /\ Saved(Phased("restored")) \/ SaveThrows(Phased("restored"))

\* The end of restore(): what is still pending keeps the journal open.
Conclude ==
    /\ recovery' = AnyPending(mem)
    /\ LET concluded == Phased(IF AnyPending(mem) THEN "partial" ELSE "restored")
       IN Saved(concluded) \/ SaveThrows(concluded)

RestoreCalled ==
    /\ shutting # "waiting"
    /\ ToRestore
    /\ \/ AnyPending(mem) /\ Begin("restore", "read")
          /\ UNCHANGED <<journalVars, recovery>>
       \* Nothing to put back: no await before the end.
       \/ ~AnyPending(mem) /\ op = "none" /\ CanBegin /\ Conclude
          /\ UNCHANGED <<gateVars, op, stage, dead>>
    /\ fresh' = FALSE
    /\ UNCHANGED <<work, seen, windowsVars, script, shutting>>

RestoreRead ==
    /\ op = "restore" /\ stage = "read"
    /\ Readable
    /\ seen' = svc
    /\ work' = [s \in Service |-> IF Pending(mem.entry[s]) THEN "todo" ELSE "none"]
    /\ stage' = "work"
    /\ UNCHANGED <<gateVars, op, dead, windowsVars, journalVars, recovery, script, shutting, fresh>>

\* The state compared is the one read at the start, however long ago.
RestoreNext(s) ==
    /\ op = "restore" /\ work[s] = "todo" /\ FreeWorker
    /\ RestoreEntry(s, seen[s])
    /\ UNCHANGED <<gateVars, op, stage, seen, windowsVars, recovery, shutting, fresh>>

Restored(s) ==
    /\ work[s] = "restoring" /\ script[s].step = "verify"
    /\ svc[s] = mem.entry[s].original
    /\ Settle(s, "restored") /\ Stopped(s)
    /\ UNCHANGED <<gateVars, op, stage, seen, windowsVars, recovery, shutting, fresh>>

RestoreRefused(s) ==
    /\ work[s] = "restoring" /\ script[s].step = "compare"
    /\ svc[s] # script[s].expected
    /\ Settle(s, "conflict") /\ Stopped(s)
    /\ UNCHANGED <<gateVars, op, stage, seen, windowsVars, recovery, shutting, fresh>>

RestoreFails(s) ==
    /\ work[s] = "restoring"
    /\ Settle(s, "restoring") /\ Stopped(s)
    /\ UNCHANGED <<gateVars, op, stage, seen, windowsVars, recovery, shutting, fresh>>

RestoreDone ==
    /\ WorkersDone /\ dead = 0 /\ op = "restore"
    /\ Conclude
    /\ End
    /\ UNCHANGED <<windowsVars, fresh>>

\* shutdown(): nothing new from here on; what runs is awaited, then restored.
ShutdownCalled ==
    /\ shutting = "no"
    /\ shutting' = "waiting"
    /\ UNCHANGED <<gateVars, opVars, windowsVars, journalVars, recovery, script, fresh>>

ShutdownRestores ==
    /\ shutting = "waiting" /\ ToRestore
    /\ \/ /\ AnyPending(mem) /\ Begin("restore", "read")
          /\ shutting' = "restoring"
          /\ UNCHANGED <<journalVars, recovery>>
       \/ /\ ~AnyPending(mem) /\ op = "none" /\ CanBegin /\ Conclude
          /\ shutting' = "done"
          /\ UNCHANGED <<gateVars, op, stage, dead>>
    /\ UNCHANGED <<work, seen, windowsVars, script, fresh>>

\* Nothing to restore, or the gate is held by somebody: the application quits.
ShutdownGivesUp ==
    /\ shutting = "waiting" /\ op = "none"
    /\ ~ToRestore \/ ~CanBegin
    /\ shutting' = "done"
    /\ UNCHANGED <<gateVars, opVars, windowsVars, journalVars, recovery, script, fresh>>

-----------------------------------------------------------------------------
(***************************************************************************)
(* The control script and Windows                                          *)
(***************************************************************************)
ScriptGoes(s, step) == script' = [script EXCEPT ![s].step = step]
ScriptOnly == UNCHANGED <<gateVars, mem, dsk, recovery, opVars, shutting, fresh, base, ext>>

Compare(s) ==
    /\ script[s].step = "compare"
    /\ svc[s] = script[s].expected
    /\ ScriptGoes(s, IF script[s].target.status = "Stopped" /\ svc[s].status # "Stopped"
                     THEN "stop" ELSE "mode")
    /\ UNCHANGED svc
    /\ ScriptOnly

\* Stop-Service -NoWait; the script then waits for the service to have stopped.
StopService(s) ==
    /\ script[s].step = "stop"
    /\ svc[s].status = "Running"
    /\ svc' = [svc EXCEPT ![s].status = "Stopping"]
    /\ ScriptGoes(s, "mode")
    /\ ScriptOnly

SetMode(s) ==
    /\ script[s].step = "mode"
    /\ svc[s] # Missing
    /\ script[s].target.status = "Stopped" => svc[s].status = "Stopped"
    /\ svc' = [svc EXCEPT ![s].mode = script[s].target.mode]
    /\ ScriptGoes(s, IF script[s].target.status = "Running" THEN "start" ELSE "verify")
    /\ ScriptOnly

StartService(s) ==
    /\ script[s].step = "start"
    /\ svc[s].status = "Stopped" /\ svc[s].mode \notin {"Disabled", "missing"}
    /\ svc' = [svc EXCEPT ![s].status = "Starting"]
    /\ ScriptGoes(s, "verify")
    /\ ScriptOnly

\* A service leaves a transitional state, the way it was asked or not.
WindowsSettles(s) ==
    /\ svc[s].status \in {"Stopping", "Starting"}
    /\ \E status \in {"Running", "Stopped"} : svc' = [svc EXCEPT ![s].status = status]
    /\ UNCHANGED script
    /\ ScriptOnly

\* The user, Windows or an installer.
OthersChange(s, state) ==
    /\ s \in Outside
    /\ svc[s] \in Stable \cup {Missing}
    /\ svc' = [svc EXCEPT ![s] = state]
    /\ ext' = ext \cup {s}
    /\ UNCHANGED <<gateVars, mem, dsk, recovery, opVars, script, shutting, fresh, base>>

-----------------------------------------------------------------------------
\* Tweak calls and restores, which hold the gate at times.
OthersUseGate ==
    /\ \/ BeginRestore("restore")
       \/ owner = "restore" /\ EndRestore("restore")
       \/ \E c \in Caller : c \notin running /\ Enter(c, "nobody")
       \/ \E c \in running : Release(c)
    /\ UNCHANGED <<svc, mem, dsk, recovery, opVars, script, shutting, fresh, base, ext>>

\* The process ends, by a crash or after its shutdown budget, and starts again.
Restart ==
    /\ mem' = dsk
    /\ recovery' = AnyPending(dsk)
    /\ owner' = "none" /\ running' = {}
    /\ op' = "none" /\ stage' = "idle" /\ dead' = 0 /\ seen' = [s \in Service |-> Missing]
    /\ work' = [s \in Service |-> "none"]
    /\ script' = IF Orphans THEN script ELSE [s \in Service |-> NoScript]
    /\ shutting' = "no" /\ fresh' = FALSE
    /\ UNCHANGED <<dsk, windowsVars>>

Calls == PrepareCalled \/ ApplyCalled \/ RestoreCalled \/ ShutdownCalled

\* What goes on by itself once an operation or a shutdown has begun.
Proceed ==
    \/ ReadFails \/ Prepared \/ RestoreRead
    \/ WorkersFailed \/ ApplyPartial \/ AskGames \/ CloseApps \/ Applied \/ RestoreDone
    \/ ShutdownRestores \/ ShutdownGivesUp
    \/ \E s \in Service :
          \/ Skip(s) \/ Disable(s) \/ Disabled(s) \/ DisableRefused(s) \/ DisableFails(s)
          \/ RollBack(s) \/ RereadFails(s)
          \/ RestoreNext(s) \/ Restored(s) \/ RestoreRefused(s) \/ RestoreFails(s)

Windows ==
    \E s \in Service :
        \/ Compare(s) \/ StopService(s) \/ SetMode(s) \/ StartService(s)
        \/ WindowsSettles(s)
        \/ \E state \in Stable \cup {Missing} : OthersChange(s, state)

Next == Calls \/ Proceed \/ Windows \/ OthersUseGate \/ Restart

Spec == Init /\ [][Next]_vars

\* Reads, scripts and the application scan end: each has a timeout.
FairSpec == Spec /\ WF_vars(Proceed)

-----------------------------------------------------------------------------
(***************************************************************************)
(* Properties                                                              *)
(***************************************************************************)

\* A service that is not as it was when Game Mode took its baseline, and that
\* nobody else has changed, is pending in the journal file with the state it
\* must get back: through failed writes, killed scripts and crashes, no change
\* of Game Mode's is ever forgotten.
AlteredIsJournaled ==
    \A s \in Service \ ext :
        svc[s] # base[s] => Pending(dsk.entry[s]) /\ dsk.entry[s].original = base[s]

\* Only a change by others makes a conflict, which Game Mode cannot resolve by
\* itself: its own interrupted changes are all recognised.
ConflictIsForeign ==
    \A s \in Service : mem.entry[s].phase = "conflict" => s \in ext

\* A journal that says restored leaves nothing of Game Mode's behind.
RestoredMeansBaseline ==
    dsk.phase = "restored" => ~AnyPending(dsk) /\ \A s \in Service \ ext : svc[s] = base[s]

\* "Do not close apps when a service change failed or was refused".
AppsCloseAfterServices ==
    stage = "apps" => \A s \in Service \ ext :
                          svc[s] = Off \/ base[s].mode \in {"Disabled", "missing"}

\* A pending entry leaves the journal file, or gets another baseline, only when
\* its service is back at the baseline it had: no prepare() records a state of
\* Game Mode's own making as the one to return to.
BaselineIsKept ==
    [][\A s \in Service \ ext :
          LET was == dsk.entry[s]
          IN (Pending(was) /\ ~(Pending(dsk'.entry[s]) /\ dsk'.entry[s].original = was.original))
                => svc[s] = was.original]_dsk

\* A control script changes services only under the gate of the operation whose
\* worker awaits it, with no tweak call and no restore beside it: whatever throws
\* first, the gate is given back after the last script (mapThree settles all its
\* workers before it rethrows). ~Orphans is assumed: a script ends with its call.
ScriptsUnderGate ==
    \A s \in Service : script[s].step # "none" =>
        /\ work[s] \in {"disabling", "restoring"} /\ op \in {"apply", "restore"}
        /\ owner = "background" /\ running = {}

\* Every operation ends, and with it the gate is free again.
OperationEnds == op # "none" ~> op = "none"
=============================================================================
