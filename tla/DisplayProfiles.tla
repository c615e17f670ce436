--------------------------- MODULE DisplayProfiles ---------------------------
(***************************************************************************)
(* Display profiles: displayProfileService.js with displayProfileProvider  *)
(* .js and the loop of the native recovery guard (display_profiles.h).     *)
(*                                                                         *)
(* A profile is put on the display inside a session: the state to return   *)
(* to is journaled, a detached guard process is started that restores it   *)
(* when Nova dies or when a preview is not confirmed in time, and only     *)
(* then is the display changed. The service, its guards, the deadline, the *)
(* game watcher, outside changes, failing helpers and journal writes, and  *)
(* crashes interleave.                                                     *)
(*                                                                         *)
(* One monitor. A configuration of it is compared and never looked into,   *)
(* and a profile is the configuration it holds. `call` is the operation    *)
(* inside exclusive() with the await it waits at.                          *)
(***************************************************************************)
EXTENDS Naturals

CONSTANTS
    Value,       \* configurations of the monitor
    Profile,     \* those that are stored as profiles
    GameProfile, \* profiles bound to the game, confirmed and automatic
    Id,          \* identities of transactions (randomUUID), and of their guards
    Sightings,   \* what a process snapshot may show: whether the game runs
    None,
    Faults       \* what may go wrong: "helper", "guard", "write", "outside"

ASSUME ProfileAssumption == GameProfile \subseteq Profile /\ Profile \subseteq Value
ASSUME NoneAssumption == None \notin Value \cup Id
ASSUME SightingsAssumption == Sightings \subseteq BOOLEAN
ASSUME FaultsAssumption == Faults \subseteq {"helper", "guard", "write", "outside"}

VARIABLES
    display,  \* the live configuration
    file,     \* the transaction in recovery.json, or None
    tx,       \* the transaction in memory, or None
    late,     \* its deadline has passed
    guard,    \* the guard of the session, or None
    guards,   \* the guards the service has not seen stop
    stop,     \* stop[g]: the promise of disarmAndWait, made once for a guard
    proc,     \* proc[g]: the native process of guard g
    call,     \* the operation in progress
    pending,  \* pendingGuardRestore: the transaction whose guard has restored
    sight,    \* what the process snapshots have shown of the game
    closing,  \* shutdown(): "no", "waiting", "closing" or "closed"
    owed      \* history: what Nova has to give back, None when nothing

sessionVars == <<file, tx, late>>
guardVars == <<guard, guards, stop, proc>>
callVars == <<call, pending, sight, closing>>
vars == <<display, sessionVars, guardVars, callVars, owed>>

\* `back` is returnTo: the manual setup an automatic session goes back to.
Transaction == [id : Id, original : Value, applied : Value,
                status : {"confirming", "active", "recovery", "conflict"},
                game : BOOLEAN, back : Value \cup {None}]
ASSUME TransactionAssumption == None \notin Transaction

\* A guard process. "leaving" has left its loop; "restored", "exited" (disarmed)
\* and "failed" have ended. `told`: the service has had the event of its end.
\* `missed`, history: it had that of a failure during an automatic operation.
Process == [state : {"none", "watching", "leaving", "restored", "exited", "failed"},
            orphan : BOOLEAN, confirmed : BOOLEAN, disarmed : BOOLEAN, told : BOOLEAN,
            missed : BOOLEAN,
            saved : Value \cup {None}, expected : Value \cup {None}]
NoProcess == [state |-> "none", orphan |-> FALSE, confirmed |-> FALSE, disarmed |-> FALSE,
              told |-> FALSE, missed |-> FALSE, saved |-> None, expected |-> None]

Call == [op : {"none", "activate", "restore", "confirm", "keep", "verify", "shutdown", "other"},
         stage : {"idle", "inspect", "list", "secure", "guard", "retire", "apply", "readback",
                  "current", "yield", "put", "check", "clear", "reap", "confirm", "other"},
         target : Value \cup {None}, auto : BOOLEAN, game : BOOLEAN, force : BOOLEAN,
         resume : BOOLEAN, seen : Value \cup {None}, old : Id \cup {None},
         oldId : Id \cup {None}]
Idle == [op |-> "none", stage |-> "idle", target |-> None, auto |-> FALSE, game |-> FALSE,
         force |-> FALSE, resume |-> FALSE, seen |-> None, old |-> None, oldId |-> None]

Init ==
    /\ display \in Value
    /\ file = None /\ tx = None /\ late = FALSE
    /\ guard = None /\ guards = {}
    /\ stop = [g \in Id |-> "none"]
    /\ proc = [g \in Id |-> NoProcess]
    /\ call = Idle /\ pending = None
    /\ sight = [sees |-> FALSE, missed |-> FALSE, suppressed |-> 0]
    /\ closing = "no"
    /\ owed = None

-----------------------------------------------------------------------------
(***************************************************************************)
(* The journal, the end of an operation, and stopping guards               *)
(***************************************************************************)

\* What a later start makes of a transaction it finds.
AsLoaded(t) == IF t = None THEN None ELSE [t EXCEPT !.status = "recovery"]

\* The transaction in memory; nobody looks at the deadline of one that is not open.
Becomes(t) == tx' = t /\ late' = (late /\ t # None /\ t.status = "confirming")

\* saveJournal() after the change in memory; a write that fails throws.
Saved(t) == Becomes(t) /\ file' = AsLoaded(t)
SaveThrows(t) == "write" \in Faults /\ Becomes(t) /\ UNCHANGED file
SavedOrNot(t) == Saved(t) \/ SaveThrows(t)

Recovery(t) == [t EXCEPT !.status = "recovery"]
Previewing == tx # None /\ tx.status = "confirming"

InProgress == call.op # "none"
Free == ~InProgress /\ closing = "no"
At(op, stage) == call.op \in op /\ call.stage = stage
Goes(stage) == call' = [call EXCEPT !.stage = stage]

VerifyCall == [Idle EXCEPT !.op = "verify", !.stage = "current"]

\* The finally block of exclusive(), with `t` the transaction by then: a restore
\* of the guard that came in the meantime is now verified. Behind a shutdown that
\* waits, exclusive() refuses that (see ShutdownBegins).
End(t) ==
    /\ call' = IF pending # None /\ t # None /\ t.id = pending /\ closing = "no"
               THEN VerifyCall ELSE Idle
    /\ pending' = IF closing = "waiting" THEN pending ELSE None
    /\ closing' = IF call.op = "shutdown" THEN "closed" ELSE closing

\* A call, and a step that only goes on to the next await.
Begins(next) == /\ Free /\ call' = next
                /\ UNCHANGED <<display, sessionVars, guardVars, pending, sight, closing, owed>>
Moves(op, from, to) ==
    /\ At(op, from) /\ Goes(to)
    /\ UNCHANGED <<display, sessionVars, guardVars, pending, sight, closing, owed>>

\* The game is not switched for again until it has been gone.
Suppress(when) == sight' = IF when THEN [sight EXCEPT !.suppressed = 2] ELSE sight

Automatic == call.op = "activate" /\ call.auto

\* The operation throws: what restores leaves the transaction for recovery, and
\* an automatic activation is not tried again for the same game.
Throws ==
    /\ IF tx # None /\ tx.status # "conflict" /\ call.op \notin {"keep", "confirm"}
       THEN SavedOrNot(Recovery(tx)) ELSE UNCHANGED sessionVars
    /\ End(tx)
    /\ Suppress(Automatic)

Running(g) == proc[g].state \in {"watching", "leaving"}

\* A message in the pipe of a guard that reads it. A guard empties its pipe
\* before it looks at the clock, so the message counts from when it is written.
Told(g, p) == IF g # None /\ proc[g].state = "watching" THEN [proc EXCEPT ![g] = p] ELSE proc

\* disarm() and disarmAndWait(): the promise of the first call serves all later.
Awaited(S, how) ==
    /\ proc' = [g \in Id |-> IF g \in S THEN [proc[g] EXCEPT !.disarmed = TRUE] ELSE proc[g]]
    /\ stop' = [g \in Id |-> IF g \in S /\ stop[g] = "none" THEN how ELSE stop[g]]
    /\ UNCHANGED <<guard, guards>>

TheGuard == IF guard = None THEN {} ELSE {guard}

\* The process has ended and its output is read: disarmed cleanly or, for a
\* caller that expects it, after a restore. disarmGuard() then forgets it.
StopResolves(g) ==
    /\ stop[g] \in {"waiting", "lax"}
    /\ \/ proc[g].state = "exited"
       \/ stop[g] = "lax" /\ proc[g].state = "restored" /\ proc[g].told
    /\ stop' = [stop EXCEPT ![g] = "none"]
    /\ guards' = guards \ {g}
    /\ guard' = IF guard = g THEN None ELSE guard
    /\ proc' = [proc EXCEPT ![g] = NoProcess]
    /\ UNCHANGED <<display, sessionVars, callVars, owed>>

\* Mutant of StopRejects: only the timer rejects.
StopRejectsByTimer(g) ==
    /\ stop[g] \in {"waiting", "lax"} /\ "guard" \in Faults /\ Running(g)
    /\ stop' = [stop EXCEPT ![g] = "failed"]
    /\ UNCHANGED <<display, sessionVars, guard, guards, proc, callVars, owed>>

\* It ended otherwise, or not within five seconds.
StopRejects(g) ==
    /\ stop[g] \in {"waiting", "lax"}
    /\ \/ proc[g].state = "failed"
       \/ stop[g] = "waiting" /\ proc[g].state = "restored" /\ proc[g].told
       \/ "guard" \in Faults /\ Running(g)
    /\ stop' = [stop EXCEPT ![g] = "failed"]
    /\ UNCHANGED <<display, sessionVars, guard, guards, proc, callVars, owed>>

\* Nova puts `value` on the display.
Puts(value) ==
    /\ display' = value
    /\ owed' = IF value = tx.original THEN None ELSE IF owed = None THEN tx.original ELSE owed

\* The helper failed, having done so or not.
HalfPuts(value) == "helper" \in Faults /\ (Puts(value) \/ UNCHANGED <<display, owed>>)

-----------------------------------------------------------------------------
(***************************************************************************)
(* activateInternal()                                                      *)
(***************************************************************************)
MayActivate == tx # None => tx.status = "active"

Fresh(g) == /\ proc[g].state = "none" /\ g \notin guards /\ stop[g] = "none"
            /\ (tx # None => tx.id # g) /\ (file # None => file.id # g)

\* Bound: an activation starts only while an identity is left for it.
IdLeft == \E g \in Id : Fresh(g)

Activation(p, auto, game) ==
    [Idle EXCEPT !.op = "activate", !.stage = IF tx = None THEN "list" ELSE "inspect",
                 !.target = p, !.auto = auto, !.game = game]

\* display-profiles:activate.
ActivateCalled(p) ==
    Begins(Activation(p, FALSE, sight.sees /\ p \in GameProfile)) /\ MayActivate /\ IdLeft

\* The applied profile must still be there before another one replaces it.
Inspected == Moves({"activate"}, "inspect", "list") /\ display = tx.applied

\* Mutant of Listed: what was read is not kept.
ListedOnly == Moves({"activate"}, "list", "secure")

\* provider.list(): what is read here is what the session returns to.
Listed ==
    /\ At({"activate"}, "list")
    /\ call' = [call EXCEPT !.stage = "secure", !.seen = display]
    /\ UNCHANGED <<display, sessionVars, guardVars, pending, sight, closing, owed>>

\* A read, merge or validation fails, or the display is not what was applied:
\* nothing has been changed yet.
ActivationRefused ==
    /\ call.op = "activate"
    /\ \/ call.stage = "inspect" /\ display # tx.applied
       \/ "helper" \in Faults /\ call.stage \in {"inspect", "list", "secure"}
    /\ End(tx)
    /\ Suppress(Automatic)
    /\ UNCHANGED <<display, sessionVars, guardVars, owed>>

\* Mutant of Original: what is seen now becomes the original.
OriginalSeen == call.seen

\* The first original is kept through switches.
Original == IF tx = None THEN call.seen ELSE tx.original

\* An automatic session started from a manual one remembers it.
NewTransaction(g) ==
    [id |-> g, original |-> Original, applied |-> call.target,
     status |-> IF call.auto THEN "active" ELSE "confirming", game |-> call.game,
     back |-> IF call.auto /\ tx # None /\ ~tx.game THEN call.seen ELSE None]

\* Everything is validated: the transaction is journaled. A write that fails is
\* outside the try block: the operation ends there.
Secured ==
    /\ At({"activate"}, "secure")
    /\ \E g \in Id :
          /\ Fresh(g)
          /\ \/ /\ Saved(NewTransaction(g))
                /\ call' = [Idle EXCEPT !.op = "activate", !.stage = "guard",
                                        !.auto = call.auto, !.old = guard,
                                        !.oldId = IF tx = None THEN None ELSE tx.id]
                /\ UNCHANGED <<pending, sight, closing>>
             \/ /\ SaveThrows(NewTransaction(g))
                /\ End(NewTransaction(g))
                /\ Suppress(Automatic)
    /\ UNCHANGED <<display, guardVars, owed>>

\* Mutant of Rollback: the transaction keeps the identity of the guard that failed.
RollbackAsNew ==
    /\ tx' = tx
    /\ call' = [Idle EXCEPT !.op = "activate", !.stage = "current", !.auto = call.auto,
                            !.force = TRUE, !.resume = call.auto]
    /\ UNCHANGED <<file, late, pending, sight, closing>>

\* The catch block. A guard that never started leaves the identity to the one
\* before it; the return state is put back by force.
Rollback ==
    /\ tx' = IF tx.back # None /\ guard = call.old THEN [tx EXCEPT !.id = call.oldId] ELSE tx
    /\ call' = [Idle EXCEPT !.op = "activate", !.stage = "current", !.auto = call.auto,
                            !.force = TRUE, !.resume = call.auto]
    /\ UNCHANGED <<file, late, pending, sight, closing>>

\* Mutant of NewGuard: the guard takes every session for confirmed.
NewGuardConfirmed ==
    [NoProcess EXCEPT !.state = "watching", !.confirmed = TRUE,
                      !.saved = tx.original, !.expected = tx.original]

NewGuard == [NoProcess EXCEPT !.state = "watching", !.confirmed = call.auto,
                              !.saved = tx.original, !.expected = tx.original]

\* "Keep the previous guard until its replacement is ready", then stop it.
GuardReady ==
    /\ At({"activate"}, "guard")
    /\ guard' = tx.id /\ guards' = guards \cup {tx.id}
    /\ IF call.old = None
       THEN proc' = [proc EXCEPT ![tx.id] = NewGuard] /\ Goes("apply") /\ UNCHANGED stop
       ELSE /\ proc' = [proc EXCEPT ![tx.id] = NewGuard, ![call.old].disarmed = TRUE]
            /\ stop' = [stop EXCEPT ![call.old] = IF @ = "none" THEN "waiting" ELSE @]
            /\ Goes("retire")
    /\ UNCHANGED <<display, sessionVars, pending, sight, closing, owed>>

GuardFailsToStart ==
    /\ At({"activate"}, "guard") /\ "guard" \in Faults
    /\ Rollback
    /\ UNCHANGED <<display, guardVars, owed>>

OldGuardRetired == Moves({"activate"}, "retire", "apply") /\ call.old \notin guards

OldGuardStays ==
    /\ At({"activate"}, "retire") /\ stop[call.old] = "failed"
    /\ Rollback
    /\ UNCHANGED <<display, guardVars, owed>>

Apply ==
    /\ At({"activate"}, "apply")
    /\ Puts(tx.applied)
    /\ Goes("readback")
    /\ UNCHANGED <<sessionVars, guardVars, pending, sight, closing>>

ApplyFails ==
    /\ At({"activate"}, "apply")
    /\ HalfPuts(tx.applied)
    /\ Rollback
    /\ UNCHANGED guardVars

\* guard.expect(): what a confirmed guard takes for the display of the session.
Expect(value) ==
    proc' = Told(guard, [proc[guard] EXCEPT !.expected = value])

Activated ==
    /\ At({"activate"}, "readback")
    /\ display = tx.applied /\ tx.status # "recovery" /\ pending = None
    /\ Expect(tx.applied)
    /\ \/ Saved(tx) /\ End(tx) /\ UNCHANGED sight
       \/ "write" \in Faults /\ Rollback
    /\ UNCHANGED <<display, guard, guards, stop, owed>>

\* The driver kept something else, the read fails, or the guard interfered.
ReadbackFails ==
    /\ At({"activate"}, "readback")
    /\ display # tx.applied \/ tx.status = "recovery" \/ pending # None \/ "helper" \in Faults
    /\ Rollback
    /\ UNCHANGED <<display, guardVars, owed>>

-----------------------------------------------------------------------------
(***************************************************************************)
(* confirm()                                                               *)
(***************************************************************************)
ConfirmCalled ==
    Begins([Idle EXCEPT !.op = "confirm", !.stage = "confirm"]) /\ Previewing /\ ~late

\* Mutant of StillOpen: the deadline is looked at before the read only.
StillOpenAnyway == Previewing

\* Checked again: the display has been read in between.
StillOpen == Previewing /\ ~late /\ pending = None

\* The guard is told through its pipe. A write that fails throws with the
\* session confirmed in memory.
Confirmed ==
    /\ At({"confirm"}, "confirm")
    /\ StillOpen /\ display = tx.applied /\ guard # None
    /\ proc' = Told(guard, [proc[guard] EXCEPT !.confirmed = TRUE])
    /\ SavedOrNot([tx EXCEPT !.status = "active"]) /\ End(tx)
    /\ UNCHANGED <<display, guard, guards, stop, sight, owed>>

ConfirmRefused ==
    /\ At({"confirm"}, "confirm")
    /\ ~StillOpen \/ display # tx.applied \/ guard = None \/ "helper" \in Faults
    /\ End(tx)
    /\ UNCHANGED <<display, sessionVars, guardVars, sight, owed>>

-----------------------------------------------------------------------------
(***************************************************************************)
(* restoreInternal(): restore, game exit, failed activation, shutdown      *)
(***************************************************************************)
Restoring == {"restore", "activate", "shutdown"}

RestoreCalled(force) ==
    Begins([Idle EXCEPT !.op = "restore", !.stage = "current", !.force = force]) /\ tx # None

Resumes == call.resume /\ tx.back # None
Returns == IF Resumes THEN tx.back ELSE tx.original
Untouched == display \in {tx.applied, tx.original}

CurrentRead == Moves(Restoring, "current", "put") /\ (call.force \/ Untouched)

\* Changed outside Nova: the guard is stopped, and then it is the user's turn.
ForeignFound ==
    /\ At(Restoring, "current")
    /\ ~call.force /\ ~Untouched
    /\ Awaited(TheGuard, "waiting")
    /\ Goes("yield")
    /\ UNCHANGED <<display, sessionVars, pending, sight, closing, owed>>

Yields ==
    /\ At(Restoring, "yield")
    /\ guard = None
    /\ SavedOrNot([tx EXCEPT !.status = "conflict"]) /\ End(tx)
    /\ UNCHANGED <<display, guardVars, sight, owed>>

\* "Always persist the requested return state", whatever is on the display.
PutBack ==
    /\ At(Restoring, "put")
    /\ Puts(Returns)
    /\ Goes("check")
    /\ UNCHANGED <<sessionVars, guardVars, pending, sight, closing>>

\* A read, a validation or the helper fails; what was asked for is not there; a
\* guard has not stopped; the display is not what the guard should have restored.
RestoreFails ==
    /\ \/ At(Restoring, "put") /\ HalfPuts(Returns)
       \/ /\ \/ "helper" \in Faults /\ call.stage \in {"current", "check"}
             \/ At(Restoring, "check") /\ display # Returns
             \/ At(Restoring, "yield") /\ guard # None /\ stop[guard] = "failed"
             \/ At({"verify"}, "current") /\ display # tx.original
          /\ UNCHANGED <<display, owed>>
    /\ Throws
    /\ UNCHANGED guardVars

\* The setup from before the game is back: the session goes on with it.
Resumed ==
    /\ At(Restoring, "check") /\ display = Returns /\ Resumes
    /\ Expect(Returns)
    /\ LET t == [tx EXCEPT !.applied = Returns, !.game = FALSE, !.status = "active",
                           !.back = None]
       IN \/ Saved(t)
          \/ "write" \in Faults /\ Becomes(Recovery(t)) /\ file' \in {file, AsLoaded(t)}
    /\ End(tx)
    /\ Suppress(Automatic)
    /\ UNCHANGED <<display, guard, guards, stop, owed>>

\* The original is back: the session ends, after its guards.
RestoreVerified ==
    /\ At(Restoring, "check") /\ display = Returns /\ ~Resumes
    /\ Suppress(call.op = "restore" /\ ~call.auto /\ tx.game)
    /\ Awaited(guards, "waiting")
    /\ Goes("clear")
    /\ UNCHANGED <<display, sessionVars, pending, closing, owed>>

-----------------------------------------------------------------------------
(***************************************************************************)
(* clearTransaction(), and what ends with it                               *)
(***************************************************************************)

\* Mutant of GuardsStopped: the journal does not wait for the guards.
GuardsStoppedAnyway == TRUE

GuardsStopped == guards = {}

\* "Commit the empty journal before dropping the in-memory recovery state."
Cleared ==
    /\ call.stage = "clear"
    /\ GuardsStopped
    /\ Saved(None) /\ End(None)
    /\ Suppress(Automatic)
    /\ UNCHANGED <<display, guardVars, owed>>

ClearFails ==
    /\ call.stage = "clear"
    /\ (\E g \in guards : stop[g] = "failed") \/ (guards = {} /\ "write" \in Faults)
    /\ Throws
    /\ UNCHANGED <<display, guardVars, owed>>

\* keepCurrent(): the session ends with the display as it is.
KeepCalled ==
    /\ Free /\ tx # None /\ ~Previewing
    /\ call' = [Idle EXCEPT !.op = "keep", !.stage = "clear"]
    /\ Awaited(guards, "waiting")
    /\ Suppress(tx.game)
    /\ owed' = None
    /\ UNCHANGED <<display, sessionVars, pending, closing>>

\* verifyGuardRestore(): the guard did restore, and is stopped expecting so.
GuardRestoreVerified ==
    /\ At({"verify"}, "current")
    /\ display = tx.original
    /\ Awaited(TheGuard, "lax")
    /\ Goes("reap")
    /\ UNCHANGED <<display, sessionVars, pending, sight, closing, owed>>

Reaped ==
    /\ At({"verify"}, "reap")
    /\ guard = None
    /\ Awaited(guards, "waiting")
    /\ Goes("clear")
    /\ UNCHANGED <<display, sessionVars, pending, sight, closing, owed>>

ReapFails ==
    /\ At({"verify"}, "reap")
    /\ guard # None /\ stop[guard] = "failed"
    /\ Throws
    /\ UNCHANGED <<display, guardVars, owed>>

-----------------------------------------------------------------------------
(***************************************************************************)
(* Other operations, the game watcher, shutdown                            *)
(***************************************************************************)

\* refresh, capture, configure, remove, validate: they occupy exclusive() and do
\* not touch the session.
OtherCalled == Begins([Idle EXCEPT !.op = "other", !.stage = "other"])

OtherEnds ==
    /\ At({"other"}, "other")
    /\ End(tx)
    /\ UNCHANGED <<display, sessionVars, guardVars, sight, owed>>

GameSession == tx # None /\ tx.game /\ tx.status = "active"

\* handleProcessSnapshot(): a game is gone after two snapshots without it, and so
\* is the suppression of one.
ProcessSnapshot(sees) ==
    LET suppressed == IF sees /\ sight.suppressed > 0 THEN 2
                      ELSE IF sight.suppressed = 0 THEN 0 ELSE sight.suppressed - 1
        gone == GameSession /\ ~sees /\ sight.missed
        wanted == sees /\ suppressed = 0 /\ MayActivate /\ ~GameSession /\ GameProfile # {}
    IN /\ closing = "no"
       /\ sight' = [sees |-> sees, suppressed |-> suppressed,
                    missed |-> IF InProgress \/ ~MayActivate THEN sight.missed
                               ELSE GameSession /\ ~sees /\ ~sight.missed]
       /\ \/ (InProgress \/ (~gone /\ ~wanted)) /\ UNCHANGED call
          \/ /\ ~InProgress /\ gone
             /\ call' = [Idle EXCEPT !.op = "restore", !.stage = "current", !.auto = TRUE,
                                     !.resume = TRUE]
          \/ /\ ~InProgress /\ wanted /\ IdLeft
             /\ \E p \in GameProfile : call' = Activation(p, TRUE, TRUE)
       /\ UNCHANGED <<display, sessionVars, guardVars, pending, closing, owed>>

\* shutdown() waits for the operation in progress.
ShutdownCalled ==
    /\ closing = "no" /\ InProgress
    /\ closing' = "waiting"
    /\ UNCHANGED <<display, sessionVars, guardVars, call, pending, sight, owed>>

\* Mutant of Unconfirmed: shutdown takes a preview for a confirmed session.
UnconfirmedNever == FALSE

Unconfirmed == Previewing

\* An unconfirmed session is reverted; a confirmed one ends as it is; a recovery
\* or a conflict stays in the journal, only the guards are stopped. A restore of
\* the guard that was waiting can no longer be verified.
ShutdownBegins ==
    /\ closing \in {"no", "waiting"} /\ ~InProgress
    /\ closing' = "closing" /\ pending' = None
    /\ IF Unconfirmed
       THEN /\ call' = [Idle EXCEPT !.op = "shutdown", !.stage = "current", !.auto = TRUE]
            /\ UNCHANGED guardVars
       ELSE /\ Awaited(guards, "waiting")
            /\ call' = [Idle EXCEPT !.op = "shutdown",
                           !.stage = IF tx = None \/ tx.status \in {"recovery", "conflict"}
                                     THEN "retire" ELSE "clear"]
    /\ IF tx # None /\ pending = tx.id THEN SavedOrNot(Recovery(tx)) ELSE UNCHANGED sessionVars
    /\ owed' = IF tx # None /\ tx.status = "active" THEN None ELSE owed
    /\ UNCHANGED <<display, sight>>

\* Guards of a session that is left for review have stopped, or one has not.
ShutdownRetires ==
    /\ At({"shutdown"}, "retire")
    /\ \/ guards = {} /\ End(tx) /\ UNCHANGED <<sessionVars, sight>>
       \/ (\E g \in guards : stop[g] = "failed") /\ Throws
    /\ UNCHANGED <<display, guardVars, owed>>

-----------------------------------------------------------------------------
(***************************************************************************)
(* The native guard and its events                                         *)
(***************************************************************************)
NativeVars == <<sessionVars, guard, guards, stop, callVars>>

\* The end of the process; nobody waits for the one of an orphan.
Ends(g, state) ==
    proc' = [proc EXCEPT ![g] = IF @.orphan THEN NoProcess ELSE [@ EXCEPT !.state = state]]

\* It has read "disarm".
GuardExits(g) ==
    /\ proc[g].state = "watching" /\ proc[g].disarmed
    /\ Ends(g, "exited")
    /\ UNCHANGED <<display, NativeVars, owed>>

\* Its fifteen seconds start after those of the transaction.
Expired(g) ==
    /\ ~proc[g].confirmed /\ ~proc[g].disarmed
    /\ Previewing /\ tx.id = g => late

\* Nova has died, or the preview was not confirmed in time.
GuardLeaves(g) ==
    /\ proc[g].state = "watching"
    /\ proc[g].orphan \/ Expired(g)
    /\ proc' = [proc EXCEPT ![g].state = "leaving"]
    /\ UNCHANGED <<display, NativeVars, owed>>

\* Confirmed, it does not touch a display that somebody else has changed.
Declines(g) == proc[g].confirmed /\ display \notin {proc[g].expected, proc[g].saved}

Reverts(g) == /\ display' = proc[g].saved
              /\ owed' = IF owed = proc[g].saved THEN None ELSE owed

GuardRestores(g) ==
    /\ proc[g].state = "leaving" /\ ~Declines(g)
    /\ Reverts(g)
    /\ Ends(g, "restored")
    /\ UNCHANGED NativeVars

GuardFails(g) ==
    /\ proc[g].state = "leaving"
    /\ \/ Declines(g) /\ UNCHANGED <<display, owed>>
       \/ "guard" \in Faults /\ (Reverts(g) \/ UNCHANGED <<display, owed>>)
    /\ Ends(g, "failed")
    /\ UNCHANGED NativeVars

\* The process may also die while it watches.
GuardDies(g) ==
    /\ proc[g].state = "watching" /\ "guard" \in Faults
    /\ Ends(g, "failed")
    /\ UNCHANGED <<display, NativeVars, owed>>

\* onRestore: verified now, or after the operation in progress.
RestoreTold(g) ==
    /\ proc[g].state = "restored" /\ ~proc[g].told
    /\ InProgress \/ closing # "waiting"
    /\ proc' = [proc EXCEPT ![g].told = TRUE]
    /\ IF tx = None \/ tx.id # g THEN UNCHANGED <<call, pending, sessionVars>>
       ELSE \/ InProgress /\ pending' = g /\ UNCHANGED <<call, sessionVars>>
            \/ Free /\ call' = VerifyCall /\ UNCHANGED <<pending, sessionVars>>
            \/ closing = "closed" /\ SavedOrNot(Recovery(tx)) /\ UNCHANGED <<call, pending>>
    /\ UNCHANGED <<display, guard, guards, stop, sight, closing, owed>>

\* onFailure, unless the guard was being disarmed.
FailureTold(g) ==
    /\ proc[g].state = "failed" /\ ~proc[g].told
    /\ proc' = [proc EXCEPT ![g].told = TRUE, ![g].missed = call.auto]
    /\ IF tx # None /\ tx.id = g /\ ~proc[g].disarmed
       THEN SavedOrNot(Recovery(tx)) ELSE UNCHANGED sessionVars
    /\ UNCHANGED <<display, guard, guards, stop, callVars, owed>>

-----------------------------------------------------------------------------
\* Fifteen seconds without a confirmation.
Late ==
    /\ Previewing /\ ~late
    /\ late' = TRUE
    /\ UNCHANGED <<display, tx, file, guardVars, callVars, owed>>

\* The user, a game, Windows or the driver's control panel; from then on it is
\* not Nova's change that is on the display.
OthersChange(value) ==
    /\ "outside" \in Faults /\ value # display
    /\ display' = value /\ owed' = None
    /\ UNCHANGED <<sessionVars, guardVars, callVars>>

\* The process ends, by a crash or after its shutdown, and starts again. The
\* guards that run lose their owner.
Restart ==
    /\ tx' = file /\ late' = FALSE
    /\ guard' = None /\ guards' = {}
    /\ stop' = [g \in Id |-> "none"]
    /\ proc' = [g \in Id |-> IF Running(g) THEN [proc[g] EXCEPT !.orphan = TRUE] ELSE NoProcess]
    /\ call' = Idle /\ pending' = None
    /\ sight' = [sees |-> FALSE, missed |-> FALSE, suppressed |-> 0]
    /\ closing' = "no"
    /\ UNCHANGED <<display, file, owed>>

Calls ==
    \/ \E p \in Profile : ActivateCalled(p)
    \/ \E force \in BOOLEAN : RestoreCalled(force)
    \/ ConfirmCalled \/ KeepCalled \/ OtherCalled \/ ShutdownCalled
    \/ \E sees \in Sightings : ProcessSnapshot(sees)

\* The operation in progress, and a shutdown that waited for one.
Proceeds ==
    \/ Inspected \/ Listed \/ ActivationRefused \/ Secured \/ GuardReady \/ GuardFailsToStart
    \/ OldGuardRetired \/ OldGuardStays \/ Apply \/ ApplyFails \/ Activated \/ ReadbackFails
    \/ Confirmed \/ ConfirmRefused
    \/ CurrentRead \/ ForeignFound \/ Yields \/ PutBack \/ RestoreFails \/ Resumed
    \/ RestoreVerified \/ Cleared \/ ClearFails
    \/ GuardRestoreVerified \/ Reaped \/ ReapFails
    \/ OtherEnds \/ ShutdownRetires

Guard(g) ==
    \/ GuardExits(g) \/ GuardLeaves(g) \/ GuardRestores(g) \/ GuardFails(g)

Events(g) ==
    \/ RestoreTold(g) \/ FailureTold(g) \/ StopResolves(g) \/ StopRejects(g)

Next ==
    \/ Calls
    \/ Proceeds
    \/ ShutdownBegins
    \/ \E g \in Id : Guard(g) \/ GuardDies(g) \/ Events(g)
    \/ Late
    \/ \E value \in Value : OthersChange(value)
    \/ Restart

Spec == Init /\ [][Next]_vars

\* Helper calls end (they are killed after twelve seconds), a guard's loop and
\* Node's event loop go on, and time passes. Nobody has to call anything.
FairSpec ==
    /\ Spec
    /\ WF_vars(Proceeds) /\ WF_vars(closing = "waiting" /\ ShutdownBegins) /\ WF_vars(Late)
    /\ \A g \in Id : WF_vars(Guard(g) \/ Events(g))

-----------------------------------------------------------------------------
(***************************************************************************)
(* Properties                                                              *)
(***************************************************************************)

\* The type invariant: every variable of the service, its guards and the display
\* keeps the shape the code gives it.
TypeOK ==
    /\ display \in Value
    /\ file \in Transaction \cup {None} /\ tx \in Transaction \cup {None}
    /\ late \in BOOLEAN
    /\ guard \in Id \cup {None} /\ guards \subseteq Id
    /\ stop \in [Id -> {"none", "waiting", "lax", "failed"}]
    /\ proc \in [Id -> Process]
    /\ call \in Call
    /\ pending \in Id \cup {None}
    /\ sight \in [sees : BOOLEAN, missed : BOOLEAN, suppressed : 0..2]
    /\ closing \in {"no", "waiting", "closing", "closed"}
    /\ owed \in Value \cup {None}

\* While a profile of Nova's is on the display that the user has neither kept nor
\* changed, the journal on disk knows what was there before the first profile of
\* the session: through switches, failed operations, shutdown and crashes.
ChangeIsJournaled == owed # None => file # None /\ file.original = owed

\* A guard that can still change the display acts on a session that is in the
\* journal, with its original: the journal is cleared, and a session ends, only
\* after every guard Nova knows of has stopped.
GuardHasEvidence ==
    \A g \in Id : Running(g) /\ ~proc[g].orphan
                     => file # None /\ file.original = proc[g].saved

\* keepCurrent() failed because a guard could not be stopped: the session is open
\* still, and the guard of it, told to stop by the same call, may be gone.
KeepFailed == (\E g \in Id : stop[g] = "failed") /\ (guard = None \/ proc[guard].disarmed)

\* The guard of the session died while an automatic operation was in progress. The
\* event is dropped when the session has a new identity by then (startGuard(),
\* :156), and the old one is put back if the new guard does not start (:243); or it
\* sets a status that the resumed manual session overwrites (:190).
DeathMissed == guard # None /\ proc[guard].missed

\* Between operations a preview or a confirmed session whose profile is on the
\* display has a guard of its own that would restore it, or one that has acted or
\* died and is yet to be heard of: the guards are exchanged without a gap, and the
\* death of one outside an automatic operation is never lost. Three failures aside:
\* a write of the journal that failed (the new transaction is then in memory, with
\* the guard of the one before or none at all; runs with "write" do not check
\* this), a keepCurrent() that failed, and a death that the code misses.
ChangeIsGuarded ==
    owed # None /\ ~InProgress /\ closing # "waiting" /\ tx # None /\ tx.status \in {"confirming", "active"}
        => \/ /\ guard = tx.id /\ proc[guard].saved = owed
              /\ \/ Running(guard) /\ ~proc[guard].disarmed
                 \/ proc[guard].state \in {"restored", "failed"} /\ ~proc[guard].told
           \/ KeepFailed \/ DeathMissed

\* A guard never reverts a session that was confirmed while Nova runs: the
\* confirmation, its read of the display and the deadline do not cross.
ConfirmedIsKept ==
    [][\A g \in Id : proc[g].state = "leaving" /\ proc'[g].state = "restored"
            => ~(tx # None /\ tx.id = g /\ tx.status = "active")]_vars

\* Every operation ends, whatever helper or guard fails.
OperationEnds == InProgress ~> ~InProgress

\* A preview does not stay: it is confirmed, reverted, or left for recovery.
PreviewEnds == Previewing ~> ~Previewing

\* A restore by the guard that is verified on the display ends the session: the
\* service accepts that this guard has restored instead of exiting.
VerifiedRecoveryIsReaped ==
    At({"verify"}, "reap") /\ guard # None /\ proc[guard].state = "restored"
        => stop[guard] # "failed"
=============================================================================
