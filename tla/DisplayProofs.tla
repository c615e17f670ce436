---------------------------- MODULE DisplayProofs ----------------------------
(***************************************************************************)
(* Proofs about DisplayProfiles, for every set of configurations, profiles *)
(* and transaction identities and every combination of faults. JInv is     *)
(* about the journal and what it answers for, Confirming about guards that *)
(* are sure not to fire, Switching about a change of session.              *)
(***************************************************************************)
EXTENDS DisplayProfiles, TLAPS

-----------------------------------------------------------------------------
(***************************************************************************)
(* Where an operation can be, and what it has by then                      *)
(***************************************************************************)
Opening == {"inspect", "list", "secure"}
Changing == {"guard", "retire", "apply", "readback"}
Returning == {"current", "put", "check", "yield", "clear"}

StagesOf(op) ==
    CASE op = "none" -> {"idle"}
      [] op = "activate" -> Opening \cup Changing \cup Returning
      [] op = "restore" -> Returning
      [] op = "shutdown" -> Returning \cup {"retire"}
      [] op = "confirm" -> {"confirm"}
      [] op = "keep" -> {"clear"}
      [] op = "verify" -> {"current", "reap", "clear"}
      [] op = "other" -> {"other"}

Staged == call.stage \in StagesOf(call.op)

\* Only an activation that opens a session runs without a transaction.
InSession ==
    /\ call.stage \in {"inspect", "guard", "apply", "readback", "current", "put", "check",
                       "yield", "clear", "reap", "confirm"} => tx # None
    /\ At({"activate"}, "retire") => tx # None

Equipped ==
    /\ call.op = "activate" /\ call.stage \in Opening =>
          call.target # None /\ (call.auto => call.game)
    /\ At({"activate"}, "secure") => call.seen # None
    /\ At({"activate"}, "retire") => call.old # None
    /\ call.op = "activate" /\ call.stage \in Changing =>
          /\ file # None
          /\ tx.back # None => call.oldId # None

-----------------------------------------------------------------------------
\* The file never names another original than the memory.
SameOriginal == file # None => tx # None /\ file.original = tx.original

\* A session the file does not have is one whose first write failed: it has no
\* guard, no setup to go back to, and cannot have been confirmed.
Unsaved ==
    tx # None /\ file = None =>
        /\ tx.back = None /\ guard = None
        /\ tx.status = "active" \/ (call.op = "activate" /\ call.stage \in Opening) => tx.game

\* The guards the service has not seen stop are those that can change the display
\* while Nova runs, and they all return to the original of the session.
KnownGuards ==
    /\ guard # None => guard \in guards
    /\ \A g \in guards : file # None /\ ~proc[g].orphan /\ proc[g].saved = file.original
    /\ \A g \in Id : proc[g].state # "none" =>
          proc[g].saved # None /\ (proc[g].orphan \/ g \in guards)

\* What has to be given back is not what is on the display.
Owing ==
    /\ owed # None => display # owed /\ file # None /\ file.original = owed
    /\ call.stage \in {"clear", "reap"} => owed = None
    /\ At(Restoring, "check") /\ ~Resumes => owed = None

JInv ==
    /\ TypeOK
    /\ Staged /\ InSession /\ Equipped
    /\ SameOriginal /\ Unsaved /\ KnownGuards /\ Owing

-----------------------------------------------------------------------------
\* The guard process `p` has left its loop to restore, or has done so.
Left(p) == p.state \in {"leaving", "restored"}

\* The guard process `p` will not restore while Nova runs: it has ended or will, or it
\* was told that the session is confirmed.
Sure(p) ==
    ~p.orphan => ~Left(p) /\ (p.state = "watching" => p.confirmed \/ p.disarmed)

Confirming ==
    tx # None =>
        /\ tx.status = "active" \/ tx.back # None => Sure(proc[tx.id])
        /\ tx.id \in guards => guard = tx.id
        /\ Previewing /\ Left(proc[tx.id]) /\ ~proc[tx.id].orphan => late
        /\ call.op = "activate" /\ call.stage \in Opening => Sure(proc[tx.id])

\* The guard of the session before this one, until the switch is over.
Switching ==
    /\ call.op = "activate" /\ call.stage \in Changing /\ call.oldId # None =>
          /\ Sure(proc[call.oldId]) /\ call.oldId # tx.id
          /\ call.oldId \in guards => call.old = call.oldId
    /\ At({"activate"}, "guard") /\ (tx.status = "active" \/ tx.back # None) => call.auto

IInv == JInv /\ Confirming /\ Switching
-----------------------------------------------------------------------------
(***************************************************************************)
(* What the shared pieces of the actions do                                *)
(***************************************************************************)
SessionType ==
    /\ file \in Transaction \cup {None} /\ tx \in Transaction \cup {None}
    /\ late \in BOOLEAN
GuardType ==
    /\ guard \in Id \cup {None} /\ guards \subseteq Id
    /\ stop \in [Id -> {"none", "waiting", "lax", "failed"}]
    /\ proc \in [Id -> Process]
CallType ==
    /\ call \in Call
    /\ pending \in Id \cup {None}
    /\ sight \in [sees : BOOLEAN, missed : BOOLEAN, suppressed : 0..2]
    /\ closing \in {"no", "waiting", "closing", "closed"}
DisplayType == display \in Value /\ owed \in Value \cup {None}

LEMMA TypeParts == TypeOK <=> SessionType /\ GuardType /\ CallType /\ DisplayType
BY DEF TypeOK, SessionType, GuardType, CallType, DisplayType

\* Marking a transaction for recovery, in memory or in the file, keeps the rest.
LEMMA Loaded ==
    ASSUME NEW t \in Transaction
    PROVE  /\ Recovery(t) \in Transaction /\ Recovery(t).id = t.id
           /\ Recovery(t).original = t.original /\ Recovery(t).applied = t.applied
           /\ Recovery(t).back = t.back /\ Recovery(t).game = t.game
           /\ Recovery(t).status = "recovery"
           /\ t # None /\ AsLoaded(t) = Recovery(t)
BY TransactionAssumption DEF Recovery, AsLoaded, Transaction
\* saveJournal(), whether it throws or not.
LEMMA Saves ==
    ASSUME SessionType, NEW t \in Transaction, SavedOrNot(t)
    PROVE  /\ tx' = t
           /\ late' => late /\ t.status = "confirming"
           /\ late /\ t.status = "confirming" => late'
           /\ file' = file \/ file' = Recovery(t)
           /\ SessionType' /\ tx' # None
           /\ file # None => file' # None
<1>1. Recovery(t) \in Transaction /\ Recovery(t) # None /\ t # None /\ AsLoaded(t) = Recovery(t)
  BY Loaded
<1>2. tx' = t /\ late' = (late /\ t # None /\ t.status = "confirming")
  BY DEF SavedOrNot, Saved, SaveThrows, Becomes
<1>3. file' = file \/ file' = Recovery(t)
  BY <1>1 DEF SavedOrNot, Saved, SaveThrows
<1>4. late' \in BOOLEAN
  BY <1>2
<1>5. SessionType'
  BY <1>1, <1>2, <1>3, <1>4 DEF SessionType
<1> QED
  BY <1>1, <1>2, <1>3, <1>5

LEMMA Calls0 == /\ Idle \in Call /\ VerifyCall \in Call
                /\ Idle.op = "none" /\ Idle.stage = "idle"
                /\ VerifyCall.op = "verify" /\ VerifyCall.stage = "current"
BY DEF Idle, VerifyCall, Call

LEMMA Ending ==
    ASSUME CallType, NEW t, End(t), t # None => t.id \in Id
    PROVE  /\ call' = Idle \/ (call' = VerifyCall /\ t # None /\ closing # "waiting")
           /\ pending' = pending \/ pending' = None
           /\ closing' = closing \/ (closing' = "closed" /\ call.op = "shutdown")
           /\ call' \in Call /\ pending' \in Id \cup {None}
           /\ closing' \in {"no", "waiting", "closing", "closed"}
BY Calls0 DEF End, CallType

LEMMA Suppresses ==
    ASSUME CallType, NEW when \in BOOLEAN, Suppress(when)
    PROVE  sight' \in [sees : BOOLEAN, missed : BOOLEAN, suppressed : 0..2]
BY DEF Suppress, CallType

\* An operation that throws at most marks the transaction for recovery.
LEMMA Throwing ==
    ASSUME SessionType, CallType, Throws
    PROVE  /\ \/ UNCHANGED <<tx, file, late>>
              \/ /\ tx # None /\ tx' = Recovery(tx) /\ late' = FALSE
                 /\ file' = file \/ file' = Recovery(tx')
                 /\ file # None => file' # None
           /\ SessionType' /\ (tx # None => tx' # None)
           /\ call' = Idle \/ (call' = VerifyCall /\ tx # None)
           /\ call' \in Call /\ pending' \in Id \cup {None}
           /\ closing' \in {"no", "waiting", "closing", "closed"}
           /\ sight' \in [sees : BOOLEAN, missed : BOOLEAN, suppressed : 0..2]
<1>1. End(tx) /\ Suppress(Automatic)
  BY DEF Throws
<1>2. /\ call' = Idle \/ (call' = VerifyCall /\ tx # None)
      /\ call' \in Call /\ pending' \in Id \cup {None}
      /\ closing' \in {"no", "waiting", "closing", "closed"}
  BY <1>1, Ending DEF SessionType, Transaction
<1>3. sight' \in [sees : BOOLEAN, missed : BOOLEAN, suppressed : 0..2]
  BY <1>1, Suppresses DEF Automatic, CallType, Call
<1>4. CASE UNCHANGED sessionVars
  BY <1>2, <1>3, <1>4 DEF sessionVars, SessionType
<1>5. CASE tx # None /\ SavedOrNot(Recovery(tx))
  <2>1. Recovery(tx) \in Transaction /\ Recovery(tx).status = "recovery"
    BY <1>5, Loaded DEF SessionType
  <2>2. /\ tx' = Recovery(tx) /\ late' = FALSE
        /\ file' = file \/ file' = Recovery(tx')
        /\ SessionType' /\ tx' # None /\ (file # None => file' # None)
    BY <1>5, <2>1, Saves DEF SessionType
  <2> QED
    BY <1>2, <1>3, <1>5, <2>2
<1> QED
  BY <1>4, <1>5 DEF Throws

\* A guard process keeps its state, its owner and what it would restore.
ProcKept ==
    \A g \in Id : /\ proc'[g].state = proc[g].state /\ proc'[g].orphan = proc[g].orphan
                  /\ proc'[g].saved = proc[g].saved
                  /\ proc[g].confirmed => proc'[g].confirmed
                  /\ proc[g].disarmed => proc'[g].disarmed

LEMMA Awaiting ==
    ASSUME GuardType, NEW S, NEW how \in {"waiting", "lax"}, Awaited(S, how)
    PROVE  /\ GuardType' /\ guard' = guard /\ guards' = guards
           /\ ProcKept
<1>0. ASSUME NEW g \in Id
      PROVE  /\ proc'[g] \in Process
             /\ proc'[g] = proc[g] \/ proc'[g] = [proc[g] EXCEPT !.disarmed = TRUE]
  <2>1. proc'[g] = proc[g] \/ proc'[g] = [proc[g] EXCEPT !.disarmed = TRUE]
    BY DEF Awaited
  <2>2. proc[g] \in Process
    BY DEF GuardType
  <2>3. [proc[g] EXCEPT !.disarmed = TRUE] \in Process
    BY <2>2 DEF Process
  <2> QED
    BY <2>1, <2>2, <2>3
<1>1. \A g \in Id : /\ proc'[g] \in Process
                    /\ proc'[g] = proc[g] \/ proc'[g] = [proc[g] EXCEPT !.disarmed = TRUE]
  BY <1>0
<1>2. proc' \in [Id -> Process]
  BY <1>0 DEF Awaited
<1>3. ProcKept
  <2> SUFFICES ASSUME NEW g \in Id
               PROVE  /\ proc'[g].state = proc[g].state /\ proc'[g].orphan = proc[g].orphan
                      /\ proc'[g].saved = proc[g].saved
                      /\ proc[g].confirmed => proc'[g].confirmed
                      /\ proc[g].disarmed => proc'[g].disarmed
    BY DEF ProcKept
  <2>1. proc[g] \in Process
    BY DEF GuardType
  <2> QED
    BY <2>1, <1>0 DEF Process
<1>4. stop' \in [Id -> {"none", "waiting", "lax", "failed"}]
  BY DEF Awaited, GuardType
<1> QED
  BY <1>2, <1>3, <1>4 DEF Awaited, GuardType

\* A message to the guard of the session.
LEMMA Telling ==
    ASSUME GuardType, NEW p \in Process, proc' = Told(guard, p), UNCHANGED <<guard, guards, stop>>,
           guard # None =>
              /\ p.state = proc[guard].state /\ p.orphan = proc[guard].orphan
              /\ p.saved = proc[guard].saved
              /\ proc[guard].confirmed => p.confirmed
              /\ proc[guard].disarmed => p.disarmed
    PROVE  /\ GuardType' /\ ProcKept
           /\ guard # None /\ proc[guard].state = "watching" => proc'[guard] = p
<1>1. CASE guard # None /\ proc[guard].state = "watching"
  <2>1. proc' = [proc EXCEPT ![guard] = p] /\ guard \in Id
    BY <1>1 DEF Told, GuardType
  <2>2. proc' \in [Id -> Process] /\ proc'[guard] = p /\ \A g \in Id \ {guard} : proc'[g] = proc[g]
    BY <2>1 DEF GuardType
  <2> QED
    BY <1>1, <2>2 DEF GuardType, ProcKept
<1>2. CASE ~(guard # None /\ proc[guard].state = "watching")
  <2>1. proc' = proc
    BY <1>2 DEF Told
  <2> QED
    BY <1>2, <2>1 DEF GuardType, ProcKept
<1> QED
  BY <1>1, <1>2
-----------------------------------------------------------------------------
(***************************************************************************)
(* What a step can do to the session                                       *)
(***************************************************************************)

\* The guard of the session, unless it has left its loop, is told of the confirmation.
Confirms ==
    /\ call.op = "confirm" /\ guard # None /\ Previewing /\ ~late
    /\ proc[guard].state = "watching" =>
          proc'[guard].confirmed /\ proc'[guard].state = "watching"

\* The same session with another status, or back at the setup from before a game.
Revised ==
    /\ tx # None /\ tx' # None
    /\ tx'.id = tx.id /\ tx'.original = tx.original
    /\ file' = file \/ file' = Recovery(tx')
    /\ file # None => file' # None
    /\ guard' = guard /\ guards' = guards
    /\ \/ /\ tx'.back = tx.back /\ tx'.game = tx.game
          /\ tx'.status = "active" => tx.status = "active" \/ Confirms
       \/ tx.back # None /\ tx'.back = None /\ (call' = Idle \/ call' = VerifyCall)
    /\ tx'.status = "confirming" => tx.status = "confirming" /\ (late => late')

\* A new session, or the next one of a switch.
Opened(g) ==
    /\ At({"activate"}, "secure") /\ Fresh(g) /\ call'.stage \notin Opening
    /\ tx' = NewTransaction(g) /\ tx' # None
    /\ file' = file \/ file' = Recovery(tx')
    /\ file # None => file' # None
    /\ UNCHANGED <<guardVars, display, owed>>

\* A switch that failed before its guard started is the session before it again.
Reverted ==
    /\ call.op = "activate" /\ call.stage \in Changing
    /\ tx # None /\ tx.back # None /\ guard = call.old
    /\ tx' = [tx EXCEPT !.id = call.oldId] /\ tx' # None
    /\ call'.stage = "current"
    /\ UNCHANGED <<file, late, guard, guards>>

Emptied ==
    /\ call.stage = "clear" /\ guards = {}
    /\ tx' = None /\ file' = None /\ UNCHANGED guardVars

SessionEffect ==
    \/ UNCHANGED <<file, tx>> /\ (Previewing /\ late => late')
    \/ Revised
    \/ \E g \in Id : Opened(g)
    \/ Reverted
    \/ Emptied
    \/ Restart

LEMMA RollingBack ==
    ASSUME JInv, call.op = "activate", call.stage \in Changing, Rollback, guard' = guard, guards' = guards
    PROVE  /\ SessionType'
           /\ UNCHANGED <<file, tx, late>> \/ Reverted
           /\ call' = [Idle EXCEPT !.op = "activate", !.stage = "current", !.auto = call.auto,
                                   !.force = TRUE, !.resume = call.auto]
           /\ UNCHANGED <<pending, sight, closing>>
<1>1. SessionType /\ tx # None /\ (tx.back # None => call.oldId \in Id)
  BY DEF JInv, TypeOK, SessionType, InSession, Equipped, Changing, At, Call, Staged
<1>2. UNCHANGED <<file, late, pending, sight, closing>>
  BY DEF Rollback
<1>3. CASE tx.back # None /\ guard = call.old
  <2>1. tx' = [tx EXCEPT !.id = call.oldId]
    BY <1>3 DEF Rollback
  <2>2. tx' \in Transaction /\ tx' # None
    BY <1>1, <1>3, <2>1, TransactionAssumption DEF SessionType, Transaction
  <2> QED
    BY <1>1, <1>2, <1>3, <2>1, <2>2 DEF Reverted, SessionType, Rollback, Idle
<1>4. CASE ~(tx.back # None /\ guard = call.old)
  <2>1. tx' = tx
    BY <1>4 DEF Rollback
  <2> QED
    BY <1>1, <1>2, <2>1 DEF SessionType, Rollback
<1> QED
  BY <1>3, <1>4

LEMMA ThrowingRevises ==
    ASSUME JInv, Throws, UNCHANGED <<guard, guards>>
    PROVE  SessionType' /\ SessionEffect
<1>1. SessionType /\ CallType
  BY TypeParts DEF JInv
<1>2. SessionType'
  BY <1>1, Throwing
<1>3. CASE UNCHANGED <<tx, file, late>>
  BY <1>2, <1>3 DEF SessionEffect
<1>4. CASE /\ tx # None /\ tx' = Recovery(tx)
           /\ file' = file \/ file' = Recovery(tx')
           /\ file # None => file' # None
  <2>1. tx \in Transaction
    BY <1>1, <1>4 DEF SessionType
  <2>2. /\ tx' # None /\ tx'.id = tx.id /\ tx'.original = tx.original /\ tx'.back = tx.back
        /\ tx'.game = tx.game /\ tx'.status = "recovery"
    BY <2>1, <1>4, Loaded
  <2>3. Revised
    BY <1>4, <2>2 DEF Revised
  <2> QED
    BY <1>2, <2>3 DEF SessionEffect
<1> QED
  BY <1>1, <1>3, <1>4, Throwing

\* A write of the same session.
LEMMA SavingRevises ==
    ASSUME JInv, tx # None, NEW t \in Transaction, SavedOrNot(t), UNCHANGED <<guard, guards>>,
           t.id = tx.id, t.original = tx.original,
           \/ /\ t.back = tx.back /\ t.game = tx.game
              /\ t.status = "active" => tx.status = "active" \/ Confirms
           \/ tx.back # None /\ t.back = None /\ (call' = Idle \/ call' = VerifyCall),
           t.status = "confirming" => tx.status = "confirming"
    PROVE  SessionType' /\ SessionEffect
<1>1. /\ tx' = t /\ tx' # None /\ SessionType'
      /\ late /\ t.status = "confirming" => late'
      /\ file' = file \/ file' = Recovery(t)
      /\ file # None => file' # None
  BY Saves, TypeParts DEF JInv
<1>2. Revised
  BY <1>1 DEF Revised
<1> QED
  BY <1>1, <1>2 DEF SessionEffect
\* Actions that leave the transaction, in memory and in the file, as it is.
SessionKept ==
    \/ Calls
    \/ Inspected \/ Listed \/ ActivationRefused \/ GuardReady \/ OldGuardRetired \/ Apply
    \/ ConfirmRefused \/ CurrentRead \/ ForeignFound \/ PutBack \/ RestoreVerified
    \/ GuardRestoreVerified \/ Reaped \/ OtherEnds
    \/ \E g \in Id : Guard(g) \/ GuardDies(g) \/ StopResolves(g) \/ StopRejects(g)
    \/ Late
    \/ \E value \in Value : OthersChange(value)
    \/ UNCHANGED vars

LEMMA KeepsSession ==
    ASSUME JInv, SessionKept
    PROVE  SessionType' /\ SessionEffect
<1>1. UNCHANGED <<file, tx>> /\ (late' = late \/ late' = TRUE)
  BY DEF SessionKept, Calls, ActivateCalled, RestoreCalled, ConfirmCalled, KeepCalled, OtherCalled,
     ShutdownCalled, ProcessSnapshot, Begins, Moves, Inspected, Listed, ActivationRefused, GuardReady,
     OldGuardRetired, Apply, ConfirmRefused, CurrentRead, ForeignFound, PutBack, RestoreVerified,
     GuardRestoreVerified, Reaped, OtherEnds, Guard, GuardExits, GuardLeaves, GuardRestores, GuardFails,
     GuardDies, NativeVars, StopResolves, StopRejects, Late, OthersChange, sessionVars, vars
<1>2. SessionType
  BY TypeParts DEF JInv
<1> QED
  BY <1>1, <1>2 DEF SessionType, SessionEffect

\* The transaction an activation is about to journal.
LEMMA NewTransactionType ==
    ASSUME JInv, At({"activate"}, "secure"), NEW g \in Id
    PROVE  NewTransaction(g) \in Transaction
<1>1. SessionType /\ CallType
  BY TypeParts DEF JInv
<1>2. /\ call.target \in Value /\ call.seen \in Value /\ call.auto \in BOOLEAN /\ call.game \in BOOLEAN
  BY <1>1 DEF JInv, Equipped, Opening, At, CallType, Call
<1>3. tx # None => tx.original \in Value
  BY <1>1 DEF SessionType, Transaction
<1>4. Original \in Value
  BY <1>2, <1>3 DEF Original
<1> QED
  BY <1>2, <1>4 DEF NewTransaction, Transaction

LEMMA SessionStep == JInv /\ [Next]_vars => SessionType' /\ SessionEffect
<1> SUFFICES ASSUME JInv, [Next]_vars PROVE SessionType' /\ SessionEffect
  OBVIOUS
<1>t. SessionType /\ CallType
  BY TypeParts DEF JInv
<1>r. ASSUME NEW t \in Transaction
      PROVE  /\ [t EXCEPT !.status = "active"] \in Transaction
             /\ [t EXCEPT !.status = "conflict"] \in Transaction
             /\ t.id \in Id /\ t.original \in Value /\ t.back \in Value \cup {None}
  BY DEF Transaction
<1>1. CASE SessionKept
  BY <1>1, KeepsSession
<1>2. CASE RestoreFails \/ ClearFails \/ ReapFails \/ (ShutdownRetires /\ Throws)
  <2>1. Throws /\ UNCHANGED guardVars
    BY <1>2 DEF RestoreFails, ClearFails, ReapFails, ShutdownRetires
  <2> QED
    BY <2>1, ThrowingRevises DEF guardVars
<1>3. CASE ShutdownRetires /\ UNCHANGED sessionVars
  BY <1>3, <1>t DEF sessionVars, SessionType, SessionEffect
<1>4. CASE GuardFailsToStart \/ OldGuardStays \/ ApplyFails \/ ReadbackFails \/ (Activated /\ Rollback)
  <2>1. /\ call.op = "activate" /\ call.stage \in Changing /\ Rollback
        /\ guard' = guard /\ guards' = guards
    BY <1>4 DEF GuardFailsToStart, OldGuardStays, ApplyFails, ReadbackFails, Activated, At, Changing, guardVars
  <2>2. SessionType' /\ (UNCHANGED <<file, tx, late>> \/ Reverted)
    BY <2>1, RollingBack
  <2> QED
    BY <2>2 DEF SessionEffect
<1>5. CASE Activated /\ Saved(tx)
  <2>1. tx # None /\ tx \in Transaction /\ SavedOrNot(tx) /\ UNCHANGED <<guard, guards>>
    BY <1>5, <1>t DEF Activated, JInv, InSession, At, SessionType, SavedOrNot
  <2> QED
    BY <2>1, SavingRevises
<1>6. CASE Confirmed
  <2>1. tx # None /\ tx \in Transaction /\ UNCHANGED <<guard, guards>>
    BY <1>6, <1>t DEF Confirmed, StillOpen, Previewing, SessionType
  <2>4. Confirms
    <3>1. /\ call.op = "confirm" /\ guard # None /\ guard \in Id /\ Previewing /\ ~late
          /\ proc' = Told(guard, [proc[guard] EXCEPT !.confirmed = TRUE])
          /\ proc \in [Id -> Process] /\ proc[guard] \in Process
      BY <1>6 DEF Confirmed, StillOpen, At, JInv, TypeOK
    <3>2. proc[guard].state = "watching" => proc'[guard] = [proc[guard] EXCEPT !.confirmed = TRUE]
      BY <3>1 DEF Told
    <3>3. /\ [proc[guard] EXCEPT !.confirmed = TRUE].confirmed
          /\ [proc[guard] EXCEPT !.confirmed = TRUE].state = proc[guard].state
      BY <3>1 DEF Process
    <3> QED
      BY <3>1, <3>2, <3>3 DEF Confirms
  <2> DEFINE t == [tx EXCEPT !.status = "active"]
  <2>2. /\ t \in Transaction /\ t.id = tx.id /\ t.original = tx.original /\ t.back = tx.back
        /\ t.game = tx.game /\ t.status = "active"
    BY <2>1, <1>r DEF Transaction
  <2>3. SavedOrNot(t)
    BY <1>6 DEF Confirmed
  <2> HIDE DEF t
  <2> QED
    BY <2>1, <2>2, <2>3, <2>4, SavingRevises
<1>7. CASE Yields
  <2>1. tx # None /\ tx \in Transaction /\ UNCHANGED <<guard, guards>>
    BY <1>7, <1>t DEF Yields, JInv, InSession, At, SessionType, guardVars
  <2> DEFINE t == [tx EXCEPT !.status = "conflict"]
  <2>2. /\ t \in Transaction /\ t.id = tx.id /\ t.original = tx.original /\ t.back = tx.back
        /\ t.game = tx.game /\ t.status = "conflict"
    BY <2>1, <1>r DEF Transaction
  <2>3. SavedOrNot(t)
    BY <1>7 DEF Yields
  <2> HIDE DEF t
  <2> QED
    BY <2>1, <2>2, <2>3, SavingRevises
<1>8. CASE Resumed
  <2>1. tx # None /\ tx \in Transaction /\ UNCHANGED <<guard, guards>> /\ tx.back # None /\ Returns \in Value
    BY <1>8, <1>t, <1>r DEF Resumed, Resumes, Returns, JInv, InSession, At, SessionType
  <2> DEFINE t == [tx EXCEPT !.applied = Returns, !.game = FALSE, !.status = "active", !.back = None]
  <2>2. /\ t \in Transaction /\ t.id = tx.id /\ t.original = tx.original /\ t.back = None
        /\ t.status = "active"
    BY <2>1, <1>r DEF Transaction
  <2>3. Saved(t) \/ (Becomes(Recovery(t)) /\ file' \in {file, AsLoaded(t)})
    BY <1>8 DEF Resumed
  <2>0. call' = Idle \/ call' = VerifyCall
    BY <1>8 DEF Resumed, End
  <2> HIDE DEF t
  <2>4. CASE Saved(t)
    BY <2>0, <2>1, <2>2, <2>4, SavingRevises DEF SavedOrNot
  <2>5. CASE Becomes(Recovery(t)) /\ file' \in {file, AsLoaded(t)}
    <3>1. /\ Recovery(t) \in Transaction /\ AsLoaded(t) = Recovery(t) /\ Recovery(t).id = tx.id
          /\ Recovery(t).original = tx.original /\ Recovery(t).back = None /\ Recovery(t).status = "recovery"
      BY <2>2, Loaded
    <3>2. Recovery(Recovery(t)) = Recovery(t) /\ Recovery(t) # None
      BY <2>2, <3>1, TransactionAssumption DEF Recovery, Transaction
    <3>3. tx' = Recovery(t) /\ late' \in BOOLEAN /\ (file' = file \/ file' = Recovery(t))
      BY <2>5, <3>1 DEF Becomes
    <3>4. Revised
      BY <2>0, <2>1, <3>1, <3>2, <3>3 DEF Revised
    <3> QED
      BY <3>1, <3>3, <3>4, <1>t DEF SessionType, SessionEffect
  <2> QED
    BY <2>3, <2>4, <2>5
<1>9. CASE Cleared
  <2>1. tx' = None /\ late' = FALSE /\ file' = None /\ call.stage = "clear" /\ guards = {} /\ UNCHANGED guardVars
    BY <1>9 DEF Cleared, Saved, Becomes, AsLoaded, GuardsStopped
  <2> QED
    BY <2>1 DEF SessionType, SessionEffect, Emptied
<1>10. CASE ShutdownBegins \/ \E g \in Id : RestoreTold(g) \/ FailureTold(g)
  <2>1. /\ UNCHANGED sessionVars \/ (tx # None /\ SavedOrNot(Recovery(tx)))
        /\ UNCHANGED <<guard, guards>>
    BY <1>10 DEF ShutdownBegins, RestoreTold, FailureTold, Awaited, guardVars, sessionVars
  <2>2. CASE UNCHANGED sessionVars
    BY <2>2, <1>t DEF sessionVars, SessionType, SessionEffect
  <2>3. CASE tx # None /\ SavedOrNot(Recovery(tx))
    <3>1. tx \in Transaction
      BY <2>3, <1>t DEF SessionType
    <3> QED
      BY <2>1, <2>3, <3>1, Loaded, SavingRevises
  <2> QED
    BY <2>1, <2>2, <2>3
<1>11. CASE Secured
  <2>1. PICK g \in Id : Fresh(g) /\ SavedOrNot(NewTransaction(g))
    BY <1>11 DEF Secured, SavedOrNot
  <2>2. At({"activate"}, "secure") /\ UNCHANGED <<display, guardVars, owed>>
    BY <1>11 DEF Secured
  <2>3. NewTransaction(g) \in Transaction
    BY <2>2, NewTransactionType
  <2>4. /\ tx' = NewTransaction(g) /\ tx' # None /\ SessionType'
        /\ file' = file \/ file' = Recovery(tx')
        /\ file # None => file' # None
    BY <2>1, <2>3, <1>t, Saves
  <2>5. call'.stage \notin Opening
    BY <1>11, Calls0 DEF Secured, End, Idle, Opening
  <2>6. Opened(g)
    BY <2>1, <2>2, <2>4, <2>5 DEF Opened
  <2> QED
    BY <2>4, <2>6 DEF SessionEffect
<1>12. CASE Restart
  BY <1>12, <1>t DEF Restart, SessionType, SessionEffect
<1> QED
  BY <1>1, <1>2, <1>3, <1>4, <1>5, <1>6, <1>7, <1>8, <1>9, <1>10, <1>11, <1>12
     DEF Next, Proceeds, Events, SessionKept, Activated, ShutdownRetires
-----------------------------------------------------------------------------
(***************************************************************************)
(* What a step can do to the guards                                        *)
(***************************************************************************)
OthersKept(g) ==
    \A h \in Id \ {g} : /\ proc'[h].state = proc[h].state /\ proc'[h].orphan = proc[h].orphan
                        /\ proc'[h].saved = proc[h].saved
                        /\ proc[h].confirmed => proc'[h].confirmed
                        /\ proc[h].disarmed => proc'[h].disarmed

\* The guard of a new session runs, and the one before it is told to stop.
Readied ==
    /\ At({"activate"}, "guard") /\ tx # None
    /\ guard' = tx.id /\ guards' = guards \cup {tx.id}
    /\ proc'[tx.id].state = "watching" /\ ~proc'[tx.id].orphan /\ proc'[tx.id].saved = tx.original
    /\ call.auto => proc'[tx.id].confirmed
    /\ OthersKept(tx.id)
    /\ UNCHANGED <<sessionVars, display, owed>>

Forgotten(g) ==
    /\ guards' = guards \ {g} /\ guard' = (IF guard = g THEN None ELSE guard)
    /\ proc'[g] = NoProcess /\ OthersKept(g)
    /\ UNCHANGED <<sessionVars, display, owed, call>>

\* A process goes on by itself: it leaves its loop for a reason, or it ends.
Advances(g) ==
    /\ Running(g) /\ OthersKept(g) /\ UNCHANGED <<guard, guards, stop, sessionVars, call>>
    /\ \/ proc[g].orphan /\ proc'[g] = NoProcess
       \/ /\ proc'[g].orphan = proc[g].orphan /\ proc'[g].saved = proc[g].saved
          /\ proc'[g].state # "watching"
          /\ proc'[g].state = "leaving" \/ ~proc[g].orphan
          /\ proc'[g].state = "leaving" => /\ proc[g].state = "watching"
                                           /\ proc[g].orphan \/ Expired(g)
          /\ proc'[g].state = "restored" => proc[g].state = "leaving"

GuardEffect ==
    \/ ProcKept /\ guard' = guard /\ guards' = guards
    \/ Readied
    \/ \E g \in Id : Forgotten(g) \/ Advances(g)
    \/ Restart

LEMMA NoProcessType == NoProcess \in Process /\ NoProcess.state = "none" /\ ~NoProcess.orphan
BY DEF NoProcess, Process

LEMMA Disarming ==
    ASSUME NEW p \in [Id -> Process], NEW g \in Id, NEW q, q = [p EXCEPT ![g].disarmed = TRUE]
    PROVE  /\ q \in [Id -> Process]
           /\ \A h \in Id : /\ q[h].state = p[h].state /\ q[h].orphan = p[h].orphan
                            /\ q[h].saved = p[h].saved /\ q[h].confirmed = p[h].confirmed
                            /\ p[h].disarmed => q[h].disarmed
<1>1. p[g] \in Process
  OBVIOUS
<1>2. q[g] = [p[g] EXCEPT !.disarmed = TRUE] /\ \A h \in Id \ {g} : q[h] = p[h]
  OBVIOUS
<1>3. /\ q[g] \in Process
      /\ q[g].state = p[g].state /\ q[g].orphan = p[g].orphan
      /\ q[g].saved = p[g].saved /\ q[g].confirmed = p[g].confirmed
      /\ q[g].disarmed
  BY <1>1, <1>2 DEF Process
<1>4. q \in [Id -> Process]
  BY <1>2, <1>3
<1> QED
  BY <1>2, <1>3, <1>4

GuardsKept ==
    \/ \E p \in Profile : ActivateCalled(p)
    \/ \E force \in BOOLEAN : RestoreCalled(force)
    \/ ConfirmCalled \/ OtherCalled \/ ShutdownCalled
    \/ \E sees \in Sightings : ProcessSnapshot(sees)
    \/ Inspected \/ Listed \/ ActivationRefused \/ Secured \/ GuardFailsToStart
    \/ OldGuardRetired \/ OldGuardStays \/ Apply \/ ApplyFails \/ ReadbackFails
    \/ ConfirmRefused \/ CurrentRead \/ Yields \/ PutBack \/ RestoreFails
    \/ Cleared \/ ClearFails \/ ReapFails
    \/ OtherEnds \/ ShutdownRetires
    \/ Late
    \/ \E value \in Value : OthersChange(value)
    \/ UNCHANGED vars

LEMMA KeepsGuards ==
    ASSUME JInv, GuardsKept
    PROVE  GuardType' /\ GuardEffect
<1>1. UNCHANGED guardVars
  BY DEF GuardsKept, ActivateCalled, RestoreCalled, ConfirmCalled, OtherCalled,
     ShutdownCalled, ProcessSnapshot, Begins, Moves, Inspected, Listed, ActivationRefused, Secured,
     GuardFailsToStart, OldGuardRetired, OldGuardStays, Apply, ApplyFails, ReadbackFails, ConfirmRefused,
     CurrentRead, Yields, PutBack, RestoreFails, Cleared, ClearFails, ReapFails, OtherEnds,
     ShutdownRetires, Late, OthersChange, vars
<1>2. GuardType
  BY TypeParts DEF JInv
<1> QED
  BY <1>1, <1>2 DEF GuardType, GuardEffect, ProcKept, guardVars

LEMMA GuardStep == JInv /\ [Next]_vars => GuardType' /\ GuardEffect
<1> SUFFICES ASSUME JInv, [Next]_vars PROVE GuardType' /\ GuardEffect
  OBVIOUS
<1>t. SessionType /\ GuardType /\ CallType
  BY TypeParts DEF JInv
<1>p. \A g \in Id : proc[g] \in Process
  BY <1>t DEF GuardType
<1>1. CASE GuardsKept
  BY <1>1, KeepsGuards
<1>2. CASE \E S : \E how \in {"waiting", "lax"} : Awaited(S, how)
  BY <1>2, <1>t, Awaiting DEF GuardEffect
<1>3. CASE KeepCalled \/ ForeignFound \/ RestoreVerified \/ GuardRestoreVerified \/ Reaped
  BY <1>3, <1>2 DEF KeepCalled, ForeignFound, RestoreVerified, GuardRestoreVerified, Reaped
<1>4. CASE ShutdownBegins
  <2>1. UNCHANGED guardVars \/ Awaited(guards, "waiting")
    BY <1>4 DEF ShutdownBegins
  <2> QED
    BY <2>1, <1>2, <1>t DEF GuardType, GuardEffect, ProcKept, guardVars
<1>5. CASE Activated \/ Resumed
  <2>1. /\ UNCHANGED <<guard, guards, stop>>
        /\ \E value \in Value : proc' = Told(guard, [proc[guard] EXCEPT !.expected = value])
    <3>1. tx # None /\ tx.applied \in Value /\ (Resumes => Returns \in Value)
      BY <1>5, <1>t DEF Activated, Resumed, JInv, InSession, At, SessionType, Transaction, Resumes, Returns
    <3> QED
      BY <1>5, <3>1 DEF Activated, Resumed, Expect
  <2>2. PICK value \in Value : proc' = Told(guard, [proc[guard] EXCEPT !.expected = value])
    BY <2>1
  <2>3. CASE guard = None
    BY <2>1, <2>2, <2>3, <1>t DEF Told, GuardType, GuardEffect, ProcKept
  <2>4. CASE guard # None
    <3> DEFINE p == [proc[guard] EXCEPT !.expected = value]
    <3>1. /\ p \in Process
          /\ p.state = proc[guard].state /\ p.orphan = proc[guard].orphan
          /\ p.saved = proc[guard].saved /\ p.confirmed = proc[guard].confirmed
          /\ p.disarmed = proc[guard].disarmed
      BY <2>4, <1>t, <1>p DEF GuardType, Process
    <3>2. proc' = Told(guard, p)
      BY <2>2
    <3> HIDE DEF p
    <3> QED
      BY <2>1, <3>1, <3>2, <1>t, Telling DEF GuardEffect
  <2> QED
    BY <2>3, <2>4
<1>6. CASE Confirmed
  <2> DEFINE p == [proc[guard] EXCEPT !.confirmed = TRUE]
  <2>1. guard # None /\ UNCHANGED <<guard, guards, stop>> /\ proc' = Told(guard, p)
    BY <1>6 DEF Confirmed
  <2>2. /\ p \in Process
        /\ p.state = proc[guard].state /\ p.orphan = proc[guard].orphan
        /\ p.saved = proc[guard].saved /\ p.confirmed
        /\ p.disarmed = proc[guard].disarmed
    BY <2>1, <1>t, <1>p DEF GuardType, Process
  <2> HIDE DEF p
  <2> QED
    BY <2>1, <2>2, <1>t, Telling DEF GuardEffect
<1>7. ASSUME NEW g \in Id, RestoreTold(g) \/ FailureTold(g) PROVE GuardType' /\ GuardEffect
  <2>1. /\ \/ proc' = [proc EXCEPT ![g].told = TRUE]
           \/ proc' = [proc EXCEPT ![g].told = TRUE, ![g].missed = call.auto]
        /\ UNCHANGED <<guard, guards, stop>>
    BY <1>7 DEF RestoreTold, FailureTold
  <2>0. call.auto \in BOOLEAN
    BY <1>t DEF CallType, Call
  <2>2. proc' \in [Id -> Process]
    <3>2. /\ \A h \in Id \ {g} : proc'[h] = proc[h]
          /\ \/ proc'[g] = [proc[g] EXCEPT !.told = TRUE]
             \/ proc'[g] = [proc[g] EXCEPT !.told = TRUE, !.missed = call.auto]
      BY <2>1, <1>t, <1>p DEF GuardType
    <3>3. proc'[g] \in Process
      BY <2>0, <3>2, <1>p DEF Process
    <3> QED
      BY <2>1, <3>2, <3>3, <1>t, <1>p DEF GuardType
  <2>3. ProcKept
    BY <2>1, <1>t, <1>p DEF GuardType, Process, ProcKept
  <2> QED
    BY <2>1, <2>2, <2>3, <1>t DEF GuardType, GuardEffect
<1>8. CASE GuardReady
  <2>1. /\ tx # None /\ tx.id \in Id /\ At({"activate"}, "guard")
        /\ guard' = tx.id /\ guards' = guards \cup {tx.id} /\ UNCHANGED <<sessionVars, display, owed>>
    BY <1>8, <1>t DEF GuardReady, JInv, InSession, At, SessionType, Transaction
  <2>2. /\ NewGuard \in Process /\ NewGuard.state = "watching" /\ ~NewGuard.orphan
        /\ NewGuard.saved = tx.original /\ NewGuard.confirmed = call.auto
    BY <2>1, <1>t DEF NewGuard, NoProcess, Process, SessionType, Transaction, CallType, Call
  <2>3. CASE call.old = None
    <3>1. proc' = [proc EXCEPT ![tx.id] = NewGuard] /\ stop' = stop
      BY <1>8, <2>3 DEF GuardReady
    <3> QED
      BY <2>1, <2>2, <3>1, <1>t DEF GuardType, GuardEffect, Readied, OthersKept
  <2>4. CASE call.old # None
    <3>1. /\ proc' = [proc EXCEPT ![tx.id] = NewGuard, ![call.old].disarmed = TRUE]
          /\ stop' = [stop EXCEPT ![call.old] = IF @ = "none" THEN "waiting" ELSE @]
      BY <1>8, <2>4 DEF GuardReady
    <3>2. call.old \in Id
      BY <2>4, <1>t DEF CallType, Call
    <3> DEFINE p1 == [proc EXCEPT ![tx.id] = NewGuard]
    <3>3. p1 \in [Id -> Process] /\ proc' = [p1 EXCEPT ![call.old].disarmed = TRUE]
          /\ p1[tx.id] = NewGuard /\ \A h \in Id \ {tx.id} : p1[h] = proc[h]
      BY <2>1, <2>2, <3>1, <1>t DEF GuardType
    <3> HIDE DEF p1
    <3>4. /\ proc' \in [Id -> Process]
          /\ \A h \in Id : /\ proc'[h].state = p1[h].state /\ proc'[h].orphan = p1[h].orphan
                           /\ proc'[h].saved = p1[h].saved /\ proc'[h].confirmed = p1[h].confirmed
                           /\ p1[h].disarmed => proc'[h].disarmed
      BY <3>2, <3>3, Disarming
    <3>5. stop' \in [Id -> {"none", "waiting", "lax", "failed"}]
      BY <3>1, <1>t DEF GuardType
    <3>6. GuardType'
      BY <2>1, <3>4, <3>5, <1>t DEF GuardType
    <3>7. OthersKept(tx.id)
      BY <3>3, <3>4 DEF OthersKept
    <3> QED
      BY <2>1, <2>2, <3>3, <3>4, <3>6, <3>7 DEF GuardEffect, Readied
  <2> QED
    BY <2>3, <2>4
<1>9. ASSUME NEW g \in Id, StopResolves(g) PROVE GuardType' /\ GuardEffect
  BY <1>9, <1>t, NoProcessType DEF StopResolves, GuardType, GuardEffect, Forgotten, OthersKept, callVars
<1>10. ASSUME NEW g \in Id, StopRejects(g) PROVE GuardType' /\ GuardEffect
  BY <1>10, <1>t DEF StopRejects, GuardType, GuardEffect, ProcKept
<1>11. ASSUME NEW g \in Id, Guard(g) \/ GuardDies(g) PROVE GuardType' /\ GuardEffect
  <2>1. /\ Running(g) /\ UNCHANGED <<guard, guards, stop, sessionVars, call>>
    BY <1>11 DEF Guard, GuardExits, GuardLeaves, GuardRestores, GuardFails, GuardDies, NativeVars, Running, callVars
  <2>2. /\ proc' \in [Id -> Process] /\ \A h \in Id \ {g} : proc'[h] = proc[h]
        /\ \/ proc[g].orphan /\ proc'[g] = NoProcess
           \/ /\ proc'[g].orphan = proc[g].orphan /\ proc'[g].saved = proc[g].saved
              /\ proc'[g].state # "watching"
              /\ proc'[g].state = "leaving" \/ ~proc[g].orphan
              /\ proc'[g].state = "leaving" => /\ proc[g].state = "watching"
                                               /\ proc[g].orphan \/ Expired(g)
              /\ proc'[g].state = "restored" => proc[g].state = "leaving"
    <3>1. ASSUME NEW state \in {"exited", "restored", "failed"}, Ends(g, state)
          PROVE  /\ proc' \in [Id -> Process] /\ \A h \in Id \ {g} : proc'[h] = proc[h]
                 /\ \/ proc[g].orphan /\ proc'[g] = NoProcess
                    \/ /\ proc'[g].orphan = proc[g].orphan /\ proc'[g].saved = proc[g].saved
                       /\ proc'[g].state = state /\ ~proc[g].orphan
      BY <3>1, <1>t, <1>p, NoProcessType DEF Ends, GuardType, Process
    <3>2. CASE GuardExits(g)
      BY <3>1, <3>2 DEF GuardExits
    <3>3. CASE GuardLeaves(g)
      BY <3>3, <1>t, <1>p DEF GuardLeaves, GuardType, Process
    <3>4. CASE GuardRestores(g)
      BY <3>1, <3>4 DEF GuardRestores
    <3>5. CASE GuardFails(g)
      BY <3>1, <3>5 DEF GuardFails
    <3>6. CASE GuardDies(g)
      BY <3>1, <3>6 DEF GuardDies
    <3> QED
      BY <1>11, <3>2, <3>3, <3>4, <3>5, <3>6 DEF Guard
  <2>3. GuardType'
    BY <2>1, <2>2, <1>t DEF GuardType
  <2>4. Advances(g)
    BY <2>1, <2>2 DEF Advances, OthersKept
  <2> QED
    BY <2>3, <2>4 DEF GuardEffect
<1>12. CASE Restart
  <2>1. proc' \in [Id -> Process]
    <3>1. ASSUME NEW p \in Process PROVE [p EXCEPT !.orphan = TRUE] \in Process
      BY <3>1 DEF Process
    <3> QED
      BY <1>12, <1>t, <1>p, <3>1, NoProcessType DEF Restart
  <2> QED
    BY <1>12, <2>1 DEF Restart, GuardType, GuardEffect
<1> QED
  BY <1>1, <1>3, <1>4, <1>5, <1>6, <1>7, <1>8, <1>9, <1>10, <1>11, <1>12
     DEF Next, Calls, Proceeds, Events, GuardsKept
-----------------------------------------------------------------------------
(***************************************************************************)
(* The operation                                                           *)
(***************************************************************************)
CallInv == CallType /\ Staged /\ InSession /\ Equipped

\* The other variables CallType speaks of.
RestType == /\ pending \in Id \cup {None}
            /\ sight \in [sees : BOOLEAN, missed : BOOLEAN, suppressed : 0..2]
            /\ closing \in {"no", "waiting", "closing", "closed"}

LEMMA CallEnded ==
    ASSUME RestType', call' = Idle \/ (call' = VerifyCall /\ tx' # None)
    PROVE  CallInv'
<1>1. CASE call' = Idle
  BY <1>1, Calls0 DEF RestType, CallInv, CallType, Staged, StagesOf, InSession, Equipped, At, Changing
<1>2. CASE call' = VerifyCall /\ tx' # None
  BY <1>2, Calls0 DEF RestType, CallInv, CallType, Staged, StagesOf, InSession, Equipped, At, Changing
<1> QED
  BY <1>1, <1>2

\* A session that is there stays there while an operation needs it.
LEMMA SessionStays ==
    ASSUME JInv, SessionEffect, ~Emptied, ~Restart
    PROVE  /\ tx # None => tx' # None
           /\ file # None => file' # None
           /\ call' = call /\ tx' # None /\ tx'.back # None => tx # None /\ tx.back # None
BY DEF SessionEffect, Revised, Opened, Reverted, JInv, TypeOK, Transaction, At, Opening

\* The operation goes on, without a write or beside one.
LEMMA CallContinues ==
    ASSUME JInv, RestType', SessionEffect, ~Emptied, ~Restart,
           NEW stage \in Opening \cup Changing \cup Returning \cup {"reap"},
           call' = call \/ call' = [call EXCEPT !.stage = stage],
           call' # call => UNCHANGED sessionVars,
           call' # call =>
              /\ stage \in StagesOf(call.op) /\ ~(stage \in Opening)
              /\ stage # "retire" \/ call.old # None
              /\ tx # None
              /\ stage \in Changing => call.stage \in Changing
    PROVE  CallInv'
<1>1. /\ call \in Call /\ call' \in Call
      /\ call'.op = call.op /\ call'.auto = call.auto /\ call'.game = call.game
      /\ call'.target = call.target /\ call'.seen = call.seen /\ call'.old = call.old
      /\ call'.oldId = call.oldId
      /\ call'.stage = call.stage \/ call'.stage = stage
  BY DEF JInv, TypeOK, Call, Opening, Changing, Returning
<1>2. Staged'
  BY <1>1 DEF JInv, Staged
<1>3. tx # None => tx' # None
  BY SessionStays
<1>4. InSession'
  <2>1. CASE call' = call
    BY <2>1, <1>3 DEF JInv, InSession, At
  <2>2. CASE call' # call
    BY <2>2, <1>3 DEF InSession
  <2> QED
    BY <2>1, <2>2
<1>5. Equipped'
  <2>1. CASE call' = call
    BY <2>1, SessionStays, <1>4 DEF JInv, Equipped, At, InSession, Changing
  <2>2. CASE call' # call
    BY <2>2, <1>1 DEF JInv, Equipped, At, sessionVars, Changing, Opening
  <2> QED
    BY <2>1, <2>2
<1> QED
  BY <1>1, <1>2, <1>4, <1>5 DEF CallInv, CallType, RestType
LEMMA RestStep == JInv /\ [Next]_vars => RestType'
<1> SUFFICES ASSUME JInv, [Next]_vars PROVE RestType'
  OBVIOUS
<1>t. SessionType /\ CallType /\ RestType
  BY TypeParts DEF JInv, CallType, RestType
<1>i. \A t \in Transaction \cup {None} : t # None => t.id \in Id
  BY DEF Transaction
<1>1. CASE UNCHANGED <<pending, sight, closing>>
  BY <1>1, <1>t DEF RestType
<1>2. CASE Throws
  BY <1>2, <1>t, Throwing DEF RestType
<1>3. ASSUME NEW t \in Transaction \cup {None}, End(t), UNCHANGED sight \/ Suppress(Automatic)
      PROVE  RestType'
  <2>1. pending' \in Id \cup {None} /\ closing' \in {"no", "waiting", "closing", "closed"}
    BY <1>3, <1>i, <1>t, Ending
  <2>2. Automatic \in BOOLEAN
    BY DEF Automatic
  <2>3. sight' \in [sees : BOOLEAN, missed : BOOLEAN, suppressed : 0..2]
    BY <1>3, <2>2, <1>t, Suppresses DEF RestType
  <2> QED
    BY <2>1, <2>3 DEF RestType
<1>4. CASE ActivationRefused \/ Confirmed \/ ConfirmRefused \/ Yields \/ Resumed \/ Cleared \/ OtherEnds
           \/ ShutdownRetires \/ (Activated /\ End(tx) /\ UNCHANGED sight)
  <2>1. CASE Cleared
    BY <2>1, <1>3 DEF Cleared
  <2>2. CASE ShutdownRetires
    BY <2>2, <1>2, <1>3, <1>t DEF ShutdownRetires, SessionType
  <2> QED
    BY <1>4, <2>1, <2>2, <1>3, <1>t DEF ActivationRefused, Confirmed, ConfirmRefused, Yields, Resumed,
       OtherEnds, SessionType
<1>5. CASE Secured
  <2>1. PICK g \in Id : \/ UNCHANGED <<pending, sight, closing>>
                        \/ End(NewTransaction(g)) /\ Suppress(Automatic)
    BY <1>5 DEF Secured
  <2>2. CASE End(NewTransaction(g)) /\ Suppress(Automatic)
    <3>1. NewTransaction(g).id \in Id
      BY DEF NewTransaction
    <3>2. pending' \in Id \cup {None} /\ closing' \in {"no", "waiting", "closing", "closed"}
      BY <2>2, <3>1, <1>t, Ending
    <3>3. sight' \in [sees : BOOLEAN, missed : BOOLEAN, suppressed : 0..2]
      BY <2>2, <1>t, Suppresses DEF Automatic
    <3> QED
      BY <3>2, <3>3 DEF RestType
  <2> QED
    BY <2>1, <2>2, <1>1
<1>6. CASE KeepCalled \/ RestoreVerified
  <2>1. tx # None /\ tx.game \in BOOLEAN
    BY <1>6, <1>t DEF KeepCalled, RestoreVerified, JInv, InSession, At, SessionType, Transaction
  <2>2. sight' \in [sees : BOOLEAN, missed : BOOLEAN, suppressed : 0..2]
    <3>1. CASE KeepCalled
      BY <3>1, <2>1, <1>t, Suppresses DEF KeepCalled
    <3>2. CASE RestoreVerified
      <4>1. (call.op = "restore" /\ ~call.auto /\ tx.game) \in BOOLEAN
        OBVIOUS
      <4> QED
        BY <3>2, <4>1, <1>t, Suppresses DEF RestoreVerified
    <3> QED
      BY <1>6, <3>1, <3>2
  <2>3. UNCHANGED <<pending, closing>>
    BY <1>6 DEF KeepCalled, RestoreVerified
  <2> QED
    BY <2>2, <2>3, <1>t DEF RestType
<1>7. ASSUME NEW sees \in Sightings, ProcessSnapshot(sees) PROVE RestType'
  <2>1. /\ sight'.sees = sees /\ UNCHANGED <<pending, closing>>
        /\ sight' = [sees |-> sight'.sees, suppressed |-> sight'.suppressed, missed |-> sight'.missed]
        /\ sight'.suppressed = 2 \/ sight'.suppressed = 0
           \/ (sight.suppressed # 0 /\ sight'.suppressed = sight.suppressed - 1)
        /\ sight'.missed = sight.missed \/ sight'.missed \in BOOLEAN
    BY <1>7 DEF ProcessSnapshot
  <2>2. sees \in BOOLEAN
    BY SightingsAssumption
  <2>3. sight.suppressed \in 0..2 /\ sight.missed \in BOOLEAN
    BY <1>t DEF CallType
  <2>4. sight'.suppressed \in 0..2
    BY <2>1, <2>3
  <2>5. sight'.missed \in BOOLEAN
    BY <2>1, <2>3
  <2> QED
    BY <2>1, <2>2, <2>4, <2>5, <1>t DEF RestType
<1>8. CASE ShutdownCalled \/ ShutdownBegins
  BY <1>8, <1>t DEF ShutdownCalled, ShutdownBegins, RestType
<1>9. CASE Restart
  BY <1>9 DEF Restart, RestType
<1>10. ASSUME NEW g \in Id, RestoreTold(g) PROVE RestType'
  BY <1>10, <1>t DEF RestoreTold, RestType
<1>11. CASE \/ \E p \in Profile : ActivateCalled(p)
            \/ \E force \in BOOLEAN : RestoreCalled(force)
            \/ ConfirmCalled \/ OtherCalled
            \/ Inspected \/ Listed \/ GuardReady \/ OldGuardRetired \/ Apply \/ CurrentRead
            \/ ForeignFound \/ PutBack \/ GuardRestoreVerified \/ Reaped \/ Late
            \/ (\E value \in Value : OthersChange(value)) \/ UNCHANGED vars
            \/ (\E g \in Id : FailureTold(g) \/ StopResolves(g) \/ StopRejects(g) \/ Guard(g) \/ GuardDies(g))
  BY <1>11, <1>1 DEF ActivateCalled, RestoreCalled, ConfirmCalled, OtherCalled, Begins, Moves, Inspected,
     Listed, GuardReady, OldGuardRetired, Apply, CurrentRead, ForeignFound, PutBack,
     GuardRestoreVerified, Reaped, Late, OthersChange, vars, callVars, FailureTold, StopResolves,
     StopRejects, Guard, GuardExits, GuardLeaves, GuardRestores, GuardFails, GuardDies, NativeVars
<1>12. CASE GuardFailsToStart \/ OldGuardStays \/ ApplyFails \/ ReadbackFails \/ (Activated /\ Rollback)
  BY <1>12, <1>1 DEF GuardFailsToStart, OldGuardStays, ApplyFails, ReadbackFails, Rollback
<1>13. CASE RestoreFails \/ ClearFails \/ ReapFails
  BY <1>13, <1>2 DEF RestoreFails, ClearFails, ReapFails
<1> QED
  BY <1>4, <1>5, <1>6, <1>7, <1>8, <1>9, <1>10, <1>11, <1>12, <1>13
     DEF Next, Calls, Proceeds, Events, Activated
\* A call that begins. What it needs of the session is there.
LEMMA CallBegins ==
    ASSUME RestType', call' \in Call, tx # None => tx' # None,
           \/ /\ call'.op = "activate" /\ call'.target # None /\ (call'.auto => call'.game)
              /\ call'.stage = "list" \/ (call'.stage = "inspect" /\ tx # None)
           \/ call'.op = "restore" /\ call'.stage = "current" /\ tx # None
           \/ call'.op = "confirm" /\ call'.stage = "confirm" /\ tx # None
           \/ call'.op = "keep" /\ call'.stage = "clear" /\ tx # None
           \/ call'.op = "other" /\ call'.stage = "other"
           \/ call'.op = "shutdown" /\ call'.stage \in {"current", "clear"} /\ tx # None
           \/ call'.op = "shutdown" /\ call'.stage = "retire"
    PROVE  CallInv'
<1>1. Staged'
  BY DEF Staged, StagesOf, Opening, Changing, Returning
<1>2. InSession' /\ Equipped'
  BY DEF InSession, Equipped, At, Opening, Changing
<1> QED
  BY <1>1, <1>2 DEF RestType, CallInv, CallType

LEMMA CallStep == JInv /\ [Next]_vars => CallInv'
<1> SUFFICES ASSUME JInv, [Next]_vars PROVE CallInv'
  OBVIOUS
<1>t. SessionType /\ CallType /\ SessionType' /\ SessionEffect /\ RestType'
  BY TypeParts, SessionStep, RestStep DEF JInv
<1>e. call.stage = "clear" => tx # None
  BY DEF JInv, InSession
<1>1. CASE Throws
  BY <1>1, <1>t, Throwing, CallEnded
<1>2. CASE UNCHANGED call /\ (UNCHANGED <<file, tx>> \/ (tx # None /\ SavedOrNot(Recovery(tx))))
  <2>1. CASE Restart
    BY <2>1, <1>t, CallEnded DEF Restart
  <2>2. CASE ~Restart
    <3>1. ~Emptied
      <4>1. CASE UNCHANGED <<file, tx>>
        BY <4>1, <1>e DEF Emptied
      <4>2. CASE tx # None /\ SavedOrNot(Recovery(tx))
        <5>1. tx' # None
          BY <4>2, <1>t, Loaded, Saves DEF SessionType
        <5> QED
          BY <5>1 DEF Emptied
      <4> QED
        BY <1>2, <4>1, <4>2
    <3>2. "current" \in Opening \cup Changing \cup Returning \cup {"reap"}
      BY DEF Returning
    <3> QED
      BY <1>2, <1>t, <2>2, <3>1, <3>2, CallContinues
  <2> QED
    BY <2>1, <2>2
<1>3. CASE \/ OldGuardRetired \/ Apply \/ CurrentRead \/ ForeignFound \/ PutBack
           \/ RestoreVerified \/ GuardRestoreVerified \/ Reaped \/ GuardReady
  <2>1. tx # None /\ UNCHANGED sessionVars /\ InProgress
    BY <1>3, <1>e DEF OldGuardRetired, Apply, CurrentRead, ForeignFound, PutBack, RestoreVerified,
       GuardRestoreVerified, Reaped, GuardReady, Moves, JInv, InSession, At, InProgress, Restoring
  <2>2. ~Emptied
    BY <2>1 DEF Emptied, sessionVars
  <2>3. PICK stage \in {"apply", "retire", "readback", "put", "yield", "check", "clear", "reap"} :
           /\ Goes(stage)
           /\ stage \in StagesOf(call.op)
           /\ stage # "retire" \/ call.old # None
           /\ stage \in Changing => call.stage \in Changing
    BY <1>3 DEF OldGuardRetired, Apply, CurrentRead, ForeignFound, PutBack, RestoreVerified,
       GuardRestoreVerified, Reaped, GuardReady, Moves, At, Restoring, StagesOf, Changing, Returning
  <2>4. call'.op = call.op
    BY <2>3, <1>t DEF Goes, CallType, Call
  <2>5. ~Restart
    BY <2>1, <2>4, Calls0 DEF Restart, InProgress
  <2>6. stage \in Opening \cup Changing \cup Returning \cup {"reap"} /\ ~(stage \in Opening)
    BY <2>3 DEF Opening, Changing, Returning
  <2>7. call' = [call EXCEPT !.stage = stage]
    BY <2>3 DEF Goes
  <2> QED
    BY <1>t, <2>1, <2>2, <2>3, <2>5, <2>6, <2>7, CallContinues
<1>4. ASSUME End(tx), call.stage # "clear" PROVE CallInv'
  <2>1. call' = Idle \/ (call' = VerifyCall /\ tx # None)
    BY <1>4, <1>t, Ending DEF SessionType, Transaction
  <2>2. CASE call' = VerifyCall /\ tx # None
    <3>1. ~Restart /\ ~Emptied
      BY <2>2, <1>4, Calls0 DEF Restart, Emptied
    <3>2. tx' # None
      BY <2>2, <3>1, <1>t, SessionStays
    <3> QED
      BY <2>2, <3>2, <1>t, CallEnded
  <2> QED
    BY <2>1, <2>2, <1>t, CallEnded
<1>5. CASE ActivationRefused \/ Confirmed \/ ConfirmRefused \/ Yields \/ Resumed \/ OtherEnds
           \/ (Activated /\ End(tx)) \/ (ShutdownRetires /\ End(tx))
  <2>1. End(tx) /\ call.stage # "clear"
    <3>1. CASE ActivationRefused
      BY <3>1 DEF ActivationRefused, JInv
    <3> QED
      BY <1>5, <3>1 DEF Confirmed, ConfirmRefused, Yields, Resumed, OtherEnds, Activated,
         ShutdownRetires, At
  <2> QED
    BY <2>1, <1>4
<1>6. CASE Cleared
  <2>1. call' = Idle
    BY <1>6 DEF Cleared, End
  <2> QED
    BY <2>1, <1>t, CallEnded
<1>7. CASE Restart
  BY <1>7, <1>t, CallEnded DEF Restart
<1>8. CASE Secured
  <2>0. At({"activate"}, "secure")
    BY <1>8 DEF Secured
  <2>1. PICK g \in Id : \/ /\ Saved(NewTransaction(g))
                           /\ call' = [Idle EXCEPT !.op = "activate", !.stage = "guard",
                                                   !.auto = call.auto, !.old = guard,
                                                   !.oldId = IF tx = None THEN None ELSE tx.id]
                        \/ SaveThrows(NewTransaction(g)) /\ End(NewTransaction(g))
    BY <1>8 DEF Secured
  <2>2. /\ NewTransaction(g) \in Transaction /\ NewTransaction(g) # None
        /\ tx' = NewTransaction(g) /\ NewTransaction(g).id \in Id
    <3>1. NewTransaction(g) \in Transaction
      BY <2>0, NewTransactionType
    <3> QED
      BY <2>1, <3>1, TransactionAssumption DEF Saved, SaveThrows, Becomes, Transaction
  <2>3. CASE SaveThrows(NewTransaction(g)) /\ End(NewTransaction(g))
    <3>1. call' = Idle \/ call' = VerifyCall
      BY <2>2, <2>3, <1>t, Ending
    <3> QED
      BY <2>2, <3>1, <1>t, CallEnded
  <2>4. CASE /\ Saved(NewTransaction(g))
             /\ call' = [Idle EXCEPT !.op = "activate", !.stage = "guard",
                                     !.auto = call.auto, !.old = guard,
                                     !.oldId = IF tx = None THEN None ELSE tx.id]
    <3>1. /\ tx # None => tx.id \in Id /\ tx.id # None
          /\ guard \in Id \cup {None} /\ call.auto \in BOOLEAN
      BY <1>t, NoneAssumption DEF SessionType, Transaction, JInv, TypeOK, CallType, Call
    <3>2. /\ call' \in Call /\ call'.op = "activate" /\ call'.stage = "guard"
          /\ call'.oldId = (IF tx = None THEN None ELSE tx.id)
      BY <2>4, <3>1 DEF Idle, Call
    <3>3. file' # None
      BY <2>2, <2>4, Loaded, TransactionAssumption DEF Saved
    <3>4. tx'.back # None => tx # None
      BY <2>2 DEF NewTransaction
    <3> QED
      BY <1>t, <2>2, <3>1, <3>2, <3>3, <3>4
         DEF RestType, CallInv, CallType, Staged, StagesOf, InSession, Equipped, At, Changing, Opening
  <2> QED
    BY <2>1, <2>3, <2>4
<1>9. CASE GuardFailsToStart \/ OldGuardStays \/ ApplyFails \/ ReadbackFails \/ (Activated /\ Rollback)
  <2>1. /\ call.op = "activate" /\ call.stage \in Changing /\ Rollback
        /\ guard' = guard /\ guards' = guards
    BY <1>9 DEF GuardFailsToStart, OldGuardStays, ApplyFails, ReadbackFails, Activated, At, Changing, guardVars
  <2>2. tx' # None
    BY <2>1, RollingBack DEF Reverted, JInv, InSession, Changing, At
  <2>3. /\ call' \in Call /\ call'.op = "activate" /\ call'.stage = "current"
    <3>1. call' = [Idle EXCEPT !.op = "activate", !.stage = "current", !.auto = call.auto,
                               !.force = TRUE, !.resume = call.auto]
      BY <2>1, RollingBack
    <3>2. call.auto \in BOOLEAN
      BY <1>t DEF CallType, Call
    <3> QED
      BY <3>1, <3>2 DEF Idle, Call
  <2> QED
    BY <1>t, <2>2, <2>3
       DEF RestType, CallInv, CallType, Staged, StagesOf, InSession, Equipped, At, Changing, Opening, Returning
<1>10. CASE Inspected \/ Listed
  <2>1. /\ call.op = "activate" /\ call.stage \in Opening /\ UNCHANGED sessionVars /\ display \in Value
    BY <1>10 DEF Inspected, Listed, Moves, At, Opening, JInv, TypeOK
  <2>2. /\ call' \in Call /\ call'.op = "activate" /\ call'.target = call.target
        /\ call'.auto = call.auto /\ call'.game = call.game
        /\ call'.stage = "list" \/ (call'.stage = "secure" /\ call'.seen = display)
    <3>1. CASE Inspected
      BY <3>1, <2>1, <1>t DEF Inspected, Moves, Goes, CallType, Call
    <3>2. CASE Listed
      BY <3>2, <2>1, <1>t DEF Listed, CallType, Call
    <3> QED
      BY <1>10, <3>1, <3>2
  <2> QED
    BY <1>t, <2>1, <2>2, NoneAssumption
       DEF JInv, RestType, CallInv, CallType, Staged, StagesOf, InSession, Equipped, At, Changing, Opening
<1>a. ASSUME NEW p \in Profile, NEW auto \in BOOLEAN, NEW game \in BOOLEAN, auto => game,
             call' = Activation(p, auto, game), UNCHANGED sessionVars
      PROVE  CallInv'
  <2>1. p \in Value /\ p # None
    BY ProfileAssumption, NoneAssumption
  <2>2. /\ call' \in Call /\ call'.op = "activate" /\ call'.target = p
        /\ call'.auto = auto /\ call'.game = game
        /\ call'.stage = "list" \/ (call'.stage = "inspect" /\ tx # None)
    BY <1>a, <2>1 DEF Activation, Idle, Call
  <2> QED
    BY <1>t, <1>a, <2>1, <2>2, CallBegins DEF sessionVars
<1>11. ASSUME NEW p \in Profile, ActivateCalled(p) PROVE CallInv'
  <2>1. /\ call' = Activation(p, FALSE, sight.sees /\ p \in GameProfile) /\ UNCHANGED sessionVars
    BY <1>11 DEF ActivateCalled, Begins
  <2>2. (sight.sees /\ p \in GameProfile) \in BOOLEAN
    OBVIOUS
  <2> QED
    BY <2>1, <2>2, <1>a
<1>12. ASSUME NEW sees \in Sightings, ProcessSnapshot(sees) PROVE CallInv'
  <2>1. UNCHANGED sessionVars
    BY <1>12 DEF ProcessSnapshot
  <2>2. CASE UNCHANGED call
    BY <1>2, <2>1, <2>2 DEF sessionVars
  <2>3. CASE call' = [Idle EXCEPT !.op = "restore", !.stage = "current", !.auto = TRUE, !.resume = TRUE]
             /\ GameSession
    <3>1. call' \in Call /\ call'.op = "restore" /\ call'.stage = "current"
      BY <2>3 DEF Idle, Call
    <3> QED
      BY <1>t, <2>1, <2>3, <3>1, CallBegins DEF GameSession, sessionVars
  <2>4. CASE \E p \in GameProfile : call' = Activation(p, TRUE, TRUE)
    BY <2>1, <2>4, <1>a, ProfileAssumption
  <2> QED
    BY <1>12, <2>2, <2>3, <2>4 DEF ProcessSnapshot
<1>13. ASSUME NEW force \in BOOLEAN, RestoreCalled(force) PROVE CallInv'
  <2>1. call' \in Call /\ call'.op = "restore" /\ call'.stage = "current"
    BY <1>13 DEF RestoreCalled, Begins, Idle, Call
  <2> QED
    BY <1>t, <1>13, <2>1, CallBegins DEF RestoreCalled, Begins, sessionVars
<1>14. CASE ConfirmCalled \/ KeepCalled \/ OtherCalled
  <2>1. /\ call' \in Call /\ UNCHANGED sessionVars
        /\ \/ call'.op = "confirm" /\ call'.stage = "confirm" /\ tx # None
           \/ call'.op = "keep" /\ call'.stage = "clear" /\ tx # None
           \/ call'.op = "other" /\ call'.stage = "other"
    BY <1>14 DEF ConfirmCalled, KeepCalled, OtherCalled, Begins, Previewing, Idle, Call
  <2> QED
    BY <1>t, <2>1, CallBegins DEF sessionVars
<1>15. CASE ShutdownBegins
  <2>1. tx # None => tx' # None
    BY <1>15, <1>t, Loaded, Saves DEF ShutdownBegins, SessionType, sessionVars
  <2>2. /\ call' \in Call /\ call'.op = "shutdown"
        /\ call'.stage = "retire" \/ (call'.stage \in {"current", "clear"} /\ tx # None)
    <3>1. CASE Unconfirmed
      BY <1>15, <3>1 DEF ShutdownBegins, Unconfirmed, Previewing, Idle, Call
    <3>2. CASE ~Unconfirmed
      <4>1. PICK stage \in {"retire", "clear"} :
                /\ call' = [Idle EXCEPT !.op = "shutdown", !.stage = stage]
                /\ stage = "clear" => tx # None
        BY <1>15, <3>2 DEF ShutdownBegins
      <4> QED
        BY <4>1 DEF Idle, Call
    <3> QED
      BY <3>1, <3>2
  <2> QED
    BY <1>t, <2>1, <2>2, CallBegins
<1>16. ASSUME NEW g \in Id, RestoreTold(g) PROVE CallInv'
  <2>1. CASE UNCHANGED call
    BY <1>16, <2>1, <1>2 DEF RestoreTold, sessionVars
  <2>2. CASE call' = VerifyCall /\ tx # None /\ UNCHANGED sessionVars
    BY <2>2, <1>t, CallEnded DEF sessionVars
  <2> QED
    BY <1>16, <2>1, <2>2 DEF RestoreTold
<1>17. CASE \/ \E g \in Id : FailureTold(g) \/ StopResolves(g) \/ StopRejects(g) \/ Guard(g) \/ GuardDies(g)
            \/ ShutdownCalled \/ Late \/ (\E value \in Value : OthersChange(value)) \/ UNCHANGED vars
  <2>1. UNCHANGED call
    BY <1>17 DEF FailureTold, StopResolves, StopRejects, Guard, GuardExits, GuardLeaves, GuardRestores,
       GuardFails, GuardDies, NativeVars, ShutdownCalled, Late, OthersChange, vars, callVars
  <2>2. UNCHANGED <<file, tx>> \/ (tx # None /\ SavedOrNot(Recovery(tx)))
    BY <1>17 DEF FailureTold, StopResolves, StopRejects, Guard, GuardExits, GuardLeaves, GuardRestores,
       GuardFails, GuardDies, NativeVars, ShutdownCalled, Late, OthersChange, vars, sessionVars
  <2> QED
    BY <2>1, <2>2, <1>2
<1>18. CASE RestoreFails \/ ClearFails \/ ReapFails \/ (ShutdownRetires /\ Throws)
  BY <1>18, <1>1 DEF RestoreFails, ClearFails, ReapFails
<1> QED
  BY <1>3, <1>5, <1>6, <1>7, <1>8, <1>9, <1>10, <1>11, <1>12, <1>13, <1>14, <1>15, <1>16, <1>17, <1>18
     DEF Next, Calls, Proceeds, Events, Activated, ShutdownRetires
-----------------------------------------------------------------------------
(***************************************************************************)
(* What Nova has to give back                                              *)
(***************************************************************************)
DisplayEffect ==
    \/ owed' = None
    \/ UNCHANGED <<display, owed>>
    \/ /\ owed' # None /\ display' # owed' /\ file # None /\ owed' = file.original
       /\ owed # None \/ call.stage = "apply" \/ (call.stage = "put" /\ Resumes)

LEMMA Putting ==
    ASSUME JInv, tx # None, NEW value \in Value, Puts(value), value = tx.original \/ file # None,
           value = tx.original \/ call.stage = "apply" \/ (call.stage = "put" /\ Resumes)
    PROVE  DisplayType' /\ DisplayEffect
<1>1. tx.original \in Value /\ tx.original # None
  BY NoneAssumption DEF JInv, TypeOK, Transaction
<1>2. owed # None => owed = file.original /\ file # None
  BY DEF JInv, Owing
<1>3. file # None => file.original = tx.original
  BY DEF JInv, SameOriginal
<1>4. owed \in Value \cup {None}
  BY DEF JInv, TypeOK
<1>5. DisplayType'
  BY <1>1, <1>4 DEF Puts, DisplayType
<1>6. CASE value = tx.original
  BY <1>5, <1>6 DEF Puts, DisplayEffect
<1>7. CASE value # tx.original
  BY <1>1, <1>2, <1>3, <1>5, <1>7 DEF Puts, DisplayEffect
<1> QED
  BY <1>6, <1>7

LEMMA Reverting ==
    ASSUME JInv, NEW g \in Id, Running(g), Reverts(g)
    PROVE  DisplayType' /\ DisplayEffect
<1>1. proc[g].saved \in Value
  BY DEF JInv, TypeOK, KnownGuards, Running, Process
<1>2. owed # None => owed = file.original /\ file # None
  BY DEF JInv, Owing
<1>3. owed \in Value \cup {None}
  BY DEF JInv, TypeOK
<1> QED
  BY <1>1, <1>2, <1>3 DEF Reverts, DisplayType, DisplayEffect

LEMMA DisplayStep == JInv /\ [Next]_vars => DisplayType' /\ DisplayEffect
<1> SUFFICES ASSUME JInv, [Next]_vars PROVE DisplayType' /\ DisplayEffect
  OBVIOUS
<1>t. SessionType /\ CallType /\ DisplayType
  BY TypeParts DEF JInv
<1>1. CASE UNCHANGED <<display, owed>>
  BY <1>1, <1>t DEF DisplayType, DisplayEffect
<1>2. CASE owed' = None /\ (display' = display \/ display' \in Value)
  BY <1>2, <1>t DEF DisplayType, DisplayEffect
<1>3. ASSUME At({"activate"}, "apply"), Puts(tx.applied)
      PROVE  DisplayType' /\ DisplayEffect
  <2>1. tx # None /\ tx.applied \in Value /\ file # None
    BY <1>3, <1>t DEF JInv, InSession, Equipped, At, Changing, SessionType, Transaction
  <2> QED
    BY <1>3, <2>1, Putting DEF At
<1>4. ASSUME At(Restoring, "put"), Puts(Returns)
      PROVE  DisplayType' /\ DisplayEffect
  <2>1. tx # None /\ tx \in Transaction /\ (tx.back # None => file # None)
    BY <1>4, <1>t DEF JInv, InSession, Unsaved, At, SessionType
  <2>2. Returns \in Value /\ (Returns = tx.original \/ Resumes) /\ (Resumes => file # None)
    BY <2>1 DEF Returns, Resumes, Transaction
  <2> QED
    BY <1>4, <2>1, <2>2, Putting DEF At
<1>5. CASE Apply \/ ApplyFails
  BY <1>5, <1>1, <1>3 DEF Apply, ApplyFails, HalfPuts
<1>6. CASE PutBack \/ RestoreFails
  BY <1>6, <1>1, <1>4 DEF PutBack, RestoreFails, HalfPuts
<1>7. ASSUME NEW g \in Id, Guard(g) \/ GuardDies(g) PROVE DisplayType' /\ DisplayEffect
  BY <1>7, <1>1, Reverting DEF Guard, GuardExits, GuardLeaves, GuardRestores, GuardFails, GuardDies, Running
<1>8. CASE KeepCalled \/ ShutdownBegins \/ \E value \in Value : OthersChange(value)
  BY <1>8, <1>1, <1>2 DEF KeepCalled, ShutdownBegins, OthersChange
<1>9. CASE \/ \E p \in Profile : ActivateCalled(p)
           \/ \E force \in BOOLEAN : RestoreCalled(force)
           \/ ConfirmCalled \/ OtherCalled \/ ShutdownCalled
           \/ \E sees \in Sightings : ProcessSnapshot(sees)
           \/ Inspected \/ Listed \/ ActivationRefused \/ Secured \/ GuardReady \/ GuardFailsToStart
           \/ OldGuardRetired \/ OldGuardStays \/ Activated \/ ReadbackFails
           \/ Confirmed \/ ConfirmRefused \/ CurrentRead \/ ForeignFound \/ Yields \/ Resumed
           \/ RestoreVerified \/ Cleared \/ ClearFails \/ GuardRestoreVerified \/ Reaped \/ ReapFails
           \/ OtherEnds \/ ShutdownRetires
           \/ (\E g \in Id : Events(g)) \/ Late \/ Restart \/ UNCHANGED vars
  <2>1. UNCHANGED <<display, owed>>
    BY <1>9 DEF ActivateCalled, RestoreCalled, ConfirmCalled, OtherCalled, ShutdownCalled,
       ProcessSnapshot, Begins, Moves, Inspected, Listed, ActivationRefused, Secured, GuardReady,
       GuardFailsToStart, OldGuardRetired, OldGuardStays, Activated, ReadbackFails, Confirmed,
       ConfirmRefused, CurrentRead, ForeignFound, Yields, Resumed, RestoreVerified, Cleared, ClearFails,
       GuardRestoreVerified, Reaped, ReapFails, OtherEnds, ShutdownRetires, Events, RestoreTold,
       FailureTold, StopResolves, StopRejects, Late, Restart, vars
  <2> QED
    BY <2>1, <1>1
<1> QED
  BY <1>5, <1>6, <1>7, <1>8, <1>9 DEF Next, Calls, Proceeds

\* Where nothing is owed any more, nothing was owed on the way there.
LEMMA SettledStages ==
    ASSUME JInv, [Next]_vars
    PROVE  /\ call'.stage \in {"clear", "reap"} => call' = call \/ owed' = None
           /\ call'.stage = "check" => call' = call \/ Resumes' \/ owed' = None
<1>t. SessionType /\ CallType
  BY TypeParts DEF JInv
<1>i. /\ Idle.stage = "idle" /\ VerifyCall.stage = "current"
  BY Calls0
<1>1. CASE call' = call \/ call' = Idle \/ call' = VerifyCall
           \/ (call' \in Call /\ call'.stage \notin {"clear", "reap", "check"})
  BY <1>1, <1>i
<1>2. ASSUME NEW t, End(t) PROVE call' = Idle \/ call' = VerifyCall
  BY <1>2 DEF End
<1>3. CASE \/ Throws \/ ActivationRefused \/ Confirmed \/ ConfirmRefused \/ Yields \/ Resumed \/ Cleared
           \/ OtherEnds \/ Restart \/ ShutdownRetires \/ RestoreFails \/ ClearFails \/ ReapFails
  BY <1>3, <1>1, <1>2 DEF Throws, ActivationRefused, Confirmed, ConfirmRefused, Yields, Resumed, Cleared,
     OtherEnds, Restart, ShutdownRetires, RestoreFails, ClearFails, ReapFails
<1>4. ASSUME Rollback PROVE call'.stage = "current"
  BY <1>4 DEF Rollback, Idle
<1>5. CASE GuardFailsToStart \/ OldGuardStays \/ ApplyFails \/ ReadbackFails \/ Activated
  <2>1. Rollback \/ End(tx)
    BY <1>5 DEF GuardFailsToStart, OldGuardStays, ApplyFails, ReadbackFails, Activated
  <2> QED
    BY <2>1, <1>i, <1>2, <1>4
<1>6. CASE Secured
  <2>1. PICK g \in Id : call'.stage = "guard" \/ End(NewTransaction(g))
    BY <1>6 DEF Secured, Idle
  <2> QED
    BY <2>1, <1>i, <1>2
<1>7. CASE \/ \E p \in Profile : ActivateCalled(p)
           \/ \E force \in BOOLEAN : RestoreCalled(force)
           \/ ConfirmCalled \/ OtherCalled
           \/ \E sees \in Sightings : ProcessSnapshot(sees)
           \/ Inspected \/ Listed \/ OldGuardRetired \/ Apply \/ GuardReady
           \/ CurrentRead \/ ForeignFound
  <2>1. call' = call \/ call'.stage \in {"list", "inspect", "current", "confirm", "other", "secure",
                                         "apply", "readback", "put", "yield", "retire"}
    <3>1. ASSUME NEW stage, Goes(stage) PROVE call'.stage = stage
      BY <3>1, <1>t DEF Goes, CallType, Call
    <3>2. CASE Inspected \/ OldGuardRetired \/ Apply \/ GuardReady \/ CurrentRead \/ ForeignFound
      BY <3>1, <3>2 DEF Inspected, OldGuardRetired, Apply, GuardReady, CurrentRead, ForeignFound, Moves
    <3>3. CASE Listed
      BY <3>3, <1>t DEF Listed, CallType, Call
    <3>4. ASSUME NEW p \in Profile, NEW auto \in BOOLEAN, NEW game \in BOOLEAN,
                 call' = Activation(p, auto, game)
          PROVE  call'.stage \in {"list", "inspect"}
      <4>1. CASE tx = None
        BY <3>4, <4>1 DEF Activation, Idle
      <4>2. CASE tx # None
        BY <3>4, <4>2 DEF Activation, Idle
      <4> QED
        BY <4>1, <4>2
    <3>5. ASSUME NEW p \in Profile, ActivateCalled(p) PROVE call'.stage \in {"list", "inspect"}
      <4>1. call' = Activation(p, FALSE, sight.sees /\ p \in GameProfile)
        BY <3>5 DEF ActivateCalled, Begins
      <4>2. (sight.sees /\ p \in GameProfile) \in BOOLEAN
        OBVIOUS
      <4> QED
        BY <3>4, <4>1, <4>2
    <3>7. ASSUME NEW sees \in Sightings, ProcessSnapshot(sees)
          PROVE  call' = call \/ call'.stage \in {"list", "inspect", "current"}
      <4>1. CASE \E p \in GameProfile : call' = Activation(p, TRUE, TRUE)
        BY <3>4, <4>1, ProfileAssumption
      <4>2. CASE call' = [Idle EXCEPT !.op = "restore", !.stage = "current", !.auto = TRUE,
                                      !.resume = TRUE]
        BY <4>2 DEF Idle
      <4> QED
        BY <3>7, <4>1, <4>2 DEF ProcessSnapshot
    <3>6. CASE (\E force \in BOOLEAN : RestoreCalled(force)) \/ ConfirmCalled \/ OtherCalled
      BY <3>6 DEF RestoreCalled, ConfirmCalled, OtherCalled, Begins, Idle
    <3> QED
      BY <1>7, <3>2, <3>3, <3>5, <3>6, <3>7
  <2> QED
    BY <2>1
<1>8. CASE KeepCalled
  BY <1>8 DEF KeepCalled
<1>9. CASE ShutdownBegins
  <2>1. CASE Unconfirmed
    BY <1>9, <2>1 DEF ShutdownBegins, Idle
  <2>2. CASE ~Unconfirmed /\ (tx = None \/ tx.status \in {"recovery", "conflict"})
    BY <1>9, <2>2 DEF ShutdownBegins, Idle
  <2>3. CASE ~Unconfirmed /\ tx # None /\ tx.status \notin {"recovery", "conflict"}
    <3>1. tx.status = "active"
      BY <2>3, <1>t DEF Unconfirmed, Previewing, SessionType, Transaction
    <3> QED
      BY <1>9, <2>3, <3>1 DEF ShutdownBegins
  <2> QED
    BY <2>1, <2>2, <2>3
<1>10. CASE PutBack
  <2>1. /\ call'.stage = "check" /\ call'.resume = call.resume /\ tx' = tx /\ Puts(Returns)
    BY <1>10, <1>t DEF PutBack, Goes, CallType, Call, sessionVars
  <2>2. CASE Resumes
    BY <2>1, <2>2 DEF Resumes
  <2>3. CASE ~Resumes
    BY <2>1, <2>3 DEF Puts, Returns
  <2> QED
    BY <2>1, <2>2, <2>3
<1>11. CASE RestoreVerified \/ Reaped
  <2>1. owed = None /\ owed' = owed
    BY <1>11 DEF RestoreVerified, Reaped, JInv, Owing, At
  <2> QED
    BY <2>1
<1>12. CASE GuardRestoreVerified
  <2>1. owed = None
    BY <1>12 DEF GuardRestoreVerified, JInv, Owing, SameOriginal
  <2> QED
    BY <1>12, <2>1 DEF GuardRestoreVerified
<1>13. CASE \E g \in Id : RestoreTold(g)
  BY <1>13, <1>1 DEF RestoreTold
<1>14. CASE \/ (\E g \in Id : FailureTold(g) \/ StopResolves(g) \/ StopRejects(g) \/ Guard(g) \/ GuardDies(g))
            \/ Late \/ ShutdownCalled \/ (\E value \in Value : OthersChange(value)) \/ UNCHANGED vars
  BY <1>14, <1>1 DEF FailureTold, StopResolves, StopRejects, Guard, GuardExits, GuardLeaves,
     GuardRestores, GuardFails, GuardDies, NativeVars, Late, ShutdownCalled, OthersChange, vars, callVars
<1> QED
  BY <1>3, <1>5, <1>6, <1>7, <1>8, <1>9, <1>10, <1>11, <1>12, <1>13, <1>14
     DEF Next, Calls, Proceeds, Events
\* A session that has been in the file stays in it, with its original, until its end.
LEMMA OriginalStays ==
    ASSUME JInv, SessionEffect, SessionType', file # None
    PROVE  Emptied \/ (file' # None /\ file'.original = file.original)
<1>1. tx # None /\ file.original = tx.original
  BY DEF JInv, SameOriginal
<1>2. ASSUME NEW t \in Transaction PROVE Recovery(t).original = t.original
  BY <1>2, Loaded
<1>3. CASE Revised
  BY <1>1, <1>2, <1>3 DEF Revised, SessionType
<1>4. ASSUME NEW g \in Id, Opened(g) PROVE file' # None /\ file'.original = file.original
  <2>1. tx' \in Transaction /\ tx'.original = tx.original
    BY <1>4, <1>1 DEF Opened, NewTransaction, Original, SessionType
  <2> QED
    BY <1>1, <1>2, <1>4, <2>1 DEF Opened
<1> QED
  BY <1>3, <1>4 DEF SessionEffect, Reverted, Restart

LEMMA OwingStep == JInv /\ [Next]_vars => Owing'
<1> SUFFICES ASSUME JInv, [Next]_vars PROVE Owing'
  OBVIOUS
<1>t. /\ SessionType' /\ SessionEffect /\ DisplayEffect /\ Owing /\ CallType
  BY TypeParts, SessionStep, DisplayStep DEF JInv
<1>1. owed' # None => display' # owed' /\ file' # None /\ file'.original = owed'
  <2> SUFFICES ASSUME owed' # None
               PROVE  display' # owed' /\ file' # None /\ file'.original = owed'
    OBVIOUS
  <2>1. display' # owed' /\ file # None /\ file.original = owed'
    BY <1>t DEF DisplayEffect, Owing
  <2>2. ~Emptied
    BY <1>t DEF DisplayEffect, Owing, Emptied
  <2> QED
    BY <1>t, <2>1, <2>2, OriginalStays
<1>2. call'.stage \in {"clear", "reap"} => owed' = None
  BY <1>t, SettledStages DEF DisplayEffect, Owing
<1>3. At(Restoring, "check")' /\ ~Resumes' => owed' = None
  <2> SUFFICES ASSUME At(Restoring, "check")', ~Resumes', call' = call
               PROVE  owed' = None
    BY SettledStages DEF At
  <2>1. At(Restoring, "check") /\ tx # None
    BY DEF At, JInv, InSession
  <2>2. tx.back # None => tx' # None /\ tx'.back # None
    <3>1. CASE Revised
      BY <3>1, <2>1, Calls0 DEF Revised, At
    <3>2. ~Reverted /\ ~Emptied /\ ~Restart /\ \A g \in Id : ~Opened(g)
      BY <2>1, Calls0 DEF Reverted, Emptied, Restart, Opened, At, Changing, Opening
    <3> QED
      BY <3>1, <3>2, <2>1, <1>t DEF SessionEffect
  <2>3. ~Resumes
    BY <2>2 DEF Resumes
  <2>4. owed = None
    BY <2>1, <2>3, <1>t DEF Owing
  <2> QED
    BY <2>1, <2>4, <1>t DEF DisplayEffect, At
<1> QED
  BY <1>1, <1>2, <1>3 DEF Owing
-----------------------------------------------------------------------------
(***************************************************************************)
(* The session, in memory and in the file, and its guards                  *)
(***************************************************************************)

\* An activation starts from an idle service and from a session that allows one.
LEMMA Openings ==
    ASSUME JInv, [Next]_vars, call'.op = "activate", call'.stage \in Opening
    PROVE  \/ call.op = "activate" /\ call.stage \in Opening
           \/ MayActivate /\ UNCHANGED <<file, tx>>
<1>t. SessionType /\ CallType
  BY TypeParts DEF JInv
<1>1. CASE UNCHANGED call
  BY <1>1
<1>2. ~(call' = Idle \/ call' = VerifyCall \/ call'.op # "activate" \/ call'.stage \notin Opening)
  BY Calls0
<1>3. ASSUME NEW t, End(t) PROVE FALSE
  BY <1>2, <1>3 DEF End
<1>4. ~(Throws \/ ActivationRefused \/ Confirmed \/ ConfirmRefused \/ Yields \/ Resumed \/ Cleared
        \/ OtherEnds \/ Restart \/ ShutdownRetires \/ RestoreFails \/ ClearFails \/ ReapFails)
  BY <1>2, <1>3 DEF Throws, ActivationRefused, Confirmed, ConfirmRefused, Yields, Resumed, Cleared,
     OtherEnds, Restart, ShutdownRetires, RestoreFails, ClearFails, ReapFails
<1>5. ~Rollback
  BY <1>2 DEF Rollback, Idle, Opening
<1>6. ~(GuardFailsToStart \/ OldGuardStays \/ ApplyFails \/ ReadbackFails \/ Activated)
  BY <1>3, <1>5 DEF GuardFailsToStart, OldGuardStays, ApplyFails, ReadbackFails, Activated
<1>7. ~Secured
  <2> SUFFICES ASSUME Secured PROVE FALSE
    OBVIOUS
  <2>1. PICK g \in Id : call'.stage = "guard" \/ End(NewTransaction(g))
    BY DEF Secured, Idle
  <2> QED
    BY <2>1, <1>2, <1>3 DEF Opening
<1>8. CASE \E p \in Profile : ActivateCalled(p)
  BY <1>8 DEF ActivateCalled, Begins, sessionVars
<1>9. CASE \E sees \in Sightings : ProcessSnapshot(sees)
  <2>1. UNCHANGED <<file, tx>> /\ (call' = call \/ MayActivate \/ call'.op = "restore")
    BY <1>9 DEF ProcessSnapshot, Idle, sessionVars
  <2> QED
    BY <2>1, <1>1, <1>2
<1>10. CASE Inspected \/ Listed
  BY <1>10 DEF Inspected, Listed, Moves, At, Opening
<1>11. ~(\/ OldGuardRetired \/ Apply \/ GuardReady \/ CurrentRead \/ ForeignFound \/ PutBack
         \/ RestoreVerified \/ GuardRestoreVerified \/ Reaped)
  <2>1. ASSUME NEW stage, Goes(stage), stage \notin Opening PROVE FALSE
    <3>1. call'.stage = stage
      BY <2>1, <1>t DEF Goes, CallType, Call
    <3> QED
      BY <2>1, <3>1, <1>2
  <2> QED
    BY <2>1 DEF OldGuardRetired, Apply, GuardReady, CurrentRead, ForeignFound, PutBack, RestoreVerified,
       GuardRestoreVerified, Reaped, Moves, Opening
<1>12. ~((\E force \in BOOLEAN : RestoreCalled(force)) \/ ConfirmCalled \/ OtherCalled \/ KeepCalled)
  <2>1. ASSUME NEW force \in BOOLEAN, RestoreCalled(force) PROVE FALSE
    <3>1. call'.op = "restore"
      BY <2>1 DEF RestoreCalled, Begins, Idle
    <3> QED
      BY <3>1
  <2>2. ~(ConfirmCalled \/ OtherCalled \/ KeepCalled)
    BY DEF ConfirmCalled, OtherCalled, KeepCalled, Begins, Idle
  <2> QED
    BY <2>1, <2>2
<1>13. ~ShutdownBegins
  BY <1>2 DEF ShutdownBegins, Idle
<1>14. CASE \E g \in Id : RestoreTold(g)
  BY <1>14, <1>1, <1>2 DEF RestoreTold
<1>15. CASE \/ (\E g \in Id : FailureTold(g) \/ StopResolves(g) \/ StopRejects(g) \/ Guard(g) \/ GuardDies(g))
            \/ Late \/ ShutdownCalled \/ (\E value \in Value : OthersChange(value)) \/ UNCHANGED vars
  BY <1>15, <1>1 DEF FailureTold, StopResolves, StopRejects, Guard, GuardExits, GuardLeaves,
     GuardRestores, GuardFails, GuardDies, NativeVars, Late, ShutdownCalled, OthersChange, vars, callVars
<1> QED
  BY <1>4, <1>6, <1>7, <1>8, <1>9, <1>10, <1>11, <1>12, <1>13, <1>14, <1>15
     DEF Next, Calls, Proceeds, Events

LEMMA OriginalStep == JInv /\ [Next]_vars => SameOriginal'
<1> SUFFICES ASSUME JInv, [Next]_vars PROVE SameOriginal'
  OBVIOUS
<1>t. /\ SessionType' /\ SessionEffect /\ SameOriginal
  BY SessionStep DEF JInv
<1>1. ASSUME NEW t \in Transaction PROVE Recovery(t).original = t.original
  BY <1>1, Loaded
<1>2. CASE Revised
  BY <1>1, <1>2, <1>t DEF Revised, SessionType, SameOriginal
<1>3. ASSUME NEW g \in Id, Opened(g) PROVE SameOriginal'
  <2>1. /\ tx' \in Transaction /\ tx'.original = Original
    BY <1>3, <1>t DEF Opened, NewTransaction, SessionType
  <2> QED
    BY <1>1, <1>3, <1>t, <2>1 DEF Opened, SameOriginal, Original
<1>4. CASE Reverted
  BY <1>4, <1>t DEF Reverted, SameOriginal, JInv, TypeOK, Transaction
<1> QED
  BY <1>t, <1>2, <1>3, <1>4 DEF SessionEffect, Emptied, Restart, SameOriginal

LEMMA UnsavedStep == JInv /\ [Next]_vars => Unsaved'
<1> SUFFICES ASSUME JInv, [Next]_vars, tx' # None, file' = None
             PROVE  /\ tx'.back = None /\ guard' = None
                    /\ tx'.status = "active" \/ (call'.op = "activate" /\ call'.stage \in Opening)
                          => tx'.game
  BY DEF Unsaved
<1>t. /\ SessionEffect /\ GuardEffect /\ SessionType /\ SessionType' /\ Unsaved /\ KnownGuards
  BY SessionStep, GuardStep, TypeParts DEF JInv
<1>1. file = None /\ ~Emptied /\ ~Restart
  <2>1. ~Emptied /\ ~Restart
    BY DEF Emptied, Restart
  <2> QED
    BY <2>1, <1>t, SessionStays
<1>2. guard = None
  BY <1>1, <1>t DEF KnownGuards
<1>3. guard' = None
  <2>1. ~Readied
    BY <1>1 DEF Readied, JInv, Equipped, At, Changing
  <2> QED
    BY <1>1, <1>2, <1>t, <2>1 DEF GuardEffect, Forgotten, Advances
<1>4. call'.op = "activate" /\ call'.stage \in Opening =>
          (call.op = "activate" /\ call.stage \in Opening) \/ (MayActivate /\ UNCHANGED <<file, tx>>)
  BY Openings
<1>5. CASE UNCHANGED <<file, tx>> \/ Revised
  BY <1>1, <1>2, <1>3, <1>4, <1>5, <1>t DEF Revised, Confirms, Unsaved, MayActivate
<1>6. ASSUME NEW g \in Id, Opened(g)
      PROVE  /\ tx'.back = None
             /\ tx'.status = "active" \/ (call'.op = "activate" /\ call'.stage \in Opening) => tx'.game
  <2>1. call.op = "activate" /\ call.stage \in Opening /\ (call.auto => call.game)
    BY <1>6 DEF Opened, At, Opening, JInv, Equipped
  <2>2. tx # None => tx.game
    BY <1>1, <2>1, <1>t DEF Unsaved
  <2>3. tx'.back = None /\ tx'.game = call.game /\ (tx'.status = "active" => call.auto)
    BY <1>6, <2>2 DEF Opened, NewTransaction
  <2> QED
    BY <1>6, <2>1, <2>3 DEF Opened
<1>7. ~Reverted
  BY <1>1 DEF Reverted, JInv, Equipped
<1> QED
  BY <1>1, <1>3, <1>5, <1>6, <1>7, <1>t DEF SessionEffect

LEMMA KnownGuardsStep == JInv /\ [Next]_vars => KnownGuards'
<1> SUFFICES ASSUME JInv, [Next]_vars PROVE KnownGuards'
  OBVIOUS
<1>t. /\ SessionEffect /\ GuardEffect /\ SessionType /\ SessionType' /\ GuardType /\ KnownGuards
      /\ SameOriginal
  BY SessionStep, GuardStep, TypeParts DEF JInv
<1>1. CASE ProcKept /\ guard' = guard /\ guards' = guards
  <2>1. \A g \in guards : file' # None /\ file'.original = file.original
    <3> SUFFICES ASSUME NEW g \in guards PROVE file' # None /\ file'.original = file.original
      OBVIOUS
    <3>1. file # None /\ ~Emptied
      BY <1>t DEF KnownGuards, Emptied
    <3> QED
      BY <3>1, <1>t, OriginalStays
  <2> QED
    BY <1>1, <2>1, <1>t DEF ProcKept, KnownGuards, GuardType
<1>2. CASE Readied
  <2>1. /\ tx.id \in Id /\ tx.original \in Value /\ tx.original # None /\ file # None /\ tx # None
        /\ file' = file
    BY <1>2, <1>t, NoneAssumption DEF Readied, SessionType, Transaction, JInv, Equipped, At, Changing,
       sessionVars
  <2> QED
    BY <1>2, <2>1, <1>t DEF Readied, OthersKept, KnownGuards, SameOriginal, GuardType
<1>3. ASSUME NEW g \in Id, Forgotten(g) PROVE KnownGuards'
  <2>1. file' = file
    BY <1>3 DEF Forgotten, sessionVars
  <2> QED
    BY <1>3, <2>1, <1>t, NoProcessType DEF Forgotten, OthersKept, KnownGuards, GuardType
<1>4. ASSUME NEW g \in Id, Advances(g) PROVE KnownGuards'
  <2>1. file' = file
    BY <1>4 DEF Advances, sessionVars
  <2> QED
    BY <1>4, <2>1, <1>t, NoProcessType DEF Advances, Running, OthersKept, KnownGuards, GuardType
<1>5. CASE Restart
  <2>1. \A g \in Id : Running(g) => proc'[g].saved = proc[g].saved /\ proc'[g].orphan
    BY <1>5, <1>t DEF Restart, GuardType, Process
  <2>2. \A g \in Id : ~Running(g) => proc'[g].state = "none"
    BY <1>5, NoProcessType DEF Restart
  <2> QED
    BY <1>5, <2>1, <2>2, <1>t DEF Restart, KnownGuards, Running
<1> QED
  BY <1>1, <1>2, <1>3, <1>4, <1>5, <1>t DEF GuardEffect

LEMMA JInvStep == JInv /\ [Next]_vars => JInv'
BY SessionStep, GuardStep, DisplayStep, CallStep, OwingStep, OriginalStep, UnsavedStep, KnownGuardsStep,
   TypeParts DEF JInv, CallInv, TypeOK, SessionType, GuardType, CallType, DisplayType

LEMMA JInvInit == Init => JInv
<1> SUFFICES ASSUME Init PROVE JInv
  OBVIOUS
<1>1. TypeOK
  <2>1. SessionType /\ GuardType /\ DisplayType
    BY NoProcessType DEF Init, SessionType, GuardType, DisplayType
  <2>2. CallType
    <3>1. 0 \in 0..2
      OBVIOUS
    <3> QED
      BY <3>1, Calls0 DEF Init, CallType
  <2> QED
    BY <2>1, <2>2, TypeParts
<1>2. Staged /\ InSession /\ Equipped
  BY DEF Init, Staged, StagesOf, InSession, Equipped, At, Idle, Opening, Changing
<1>3. SameOriginal /\ Unsaved /\ KnownGuards /\ Owing
  BY NoProcessType DEF Init, SameOriginal, Unsaved, KnownGuards, Owing, Idle, At
<1> QED
  BY <1>1, <1>2, <1>3 DEF JInv
-----------------------------------------------------------------------------
(***************************************************************************)
(* A confirmed session and its guard                                       *)
(***************************************************************************)

\* An activation that changes the display goes on, or has just journaled its session.
LEMMA Changings ==
    ASSUME JInv, [Next]_vars, call'.op = "activate", call'.stage \in Changing
    PROVE  \/ /\ call.op = "activate" /\ call.stage \in Changing
              /\ call'.old = call.old /\ call'.oldId = call.oldId /\ call'.auto = call.auto
              /\ call'.stage = "guard" => call.stage = "guard"
           \/ /\ \E g \in Id : Opened(g)
              /\ call'.old = guard /\ call'.oldId = (IF tx = None THEN None ELSE tx.id)
              /\ call'.auto = call.auto
<1>t. SessionType /\ CallType
  BY TypeParts DEF JInv
<1>1. CASE UNCHANGED call
  BY <1>1
<1>2. ~(call' = Idle \/ call' = VerifyCall \/ call'.op # "activate" \/ call'.stage \notin Changing)
  BY Calls0
<1>3. ASSUME NEW t, End(t) PROVE FALSE
  BY <1>2, <1>3 DEF End
<1>4. ~(Throws \/ ActivationRefused \/ Confirmed \/ ConfirmRefused \/ Yields \/ Resumed \/ Cleared
        \/ OtherEnds \/ Restart \/ ShutdownRetires \/ RestoreFails \/ ClearFails \/ ReapFails)
  BY <1>2, <1>3 DEF Throws, ActivationRefused, Confirmed, ConfirmRefused, Yields, Resumed, Cleared,
     OtherEnds, Restart, ShutdownRetires, RestoreFails, ClearFails, ReapFails
<1>5. ~Rollback
  BY <1>2 DEF Rollback, Idle, Changing
<1>6. ~(GuardFailsToStart \/ OldGuardStays \/ ApplyFails \/ ReadbackFails \/ Activated)
  BY <1>3, <1>5 DEF GuardFailsToStart, OldGuardStays, ApplyFails, ReadbackFails, Activated
<1>7. CASE Secured
  <2>0. At({"activate"}, "secure") /\ UNCHANGED <<display, guardVars, owed>>
    BY <1>7 DEF Secured
  <2>1. PICK g \in Id :
           /\ Fresh(g) /\ Saved(NewTransaction(g))
           /\ call' = [Idle EXCEPT !.op = "activate", !.stage = "guard",
                                   !.auto = call.auto, !.old = guard,
                                   !.oldId = IF tx = None THEN None ELSE tx.id]
    BY <1>3, <1>7 DEF Secured
  <2>2. call'.old = guard /\ call'.oldId = (IF tx = None THEN None ELSE tx.id) /\ call'.auto = call.auto
        /\ call'.stage = "guard"
    BY <2>1 DEF Idle
  <2>3. NewTransaction(g) \in Transaction
    BY <2>0, NewTransactionType
  <2>4. /\ tx' = NewTransaction(g) /\ tx' # None
        /\ file' = file \/ file' = Recovery(tx')
        /\ file # None => file' # None
    BY <2>1, <2>3, <1>t, Saves DEF SavedOrNot
  <2>5. Opened(g)
    BY <2>0, <2>1, <2>2, <2>4 DEF Opened, Opening
  <2> QED
    BY <2>2, <2>5
<1>8. ASSUME call'.op = "activate", call'.stage \in Opening PROVE FALSE
  BY <1>8 DEF Opening, Changing
<1>9. CASE \E p \in Profile : ActivateCalled(p)
  <2>1. call'.stage \in {"list", "inspect"}
    <3>1. CASE tx = None
      BY <1>9, <3>1 DEF ActivateCalled, Begins, Activation, Idle
    <3>2. CASE tx # None
      BY <1>9, <3>2 DEF ActivateCalled, Begins, Activation, Idle
    <3> QED
      BY <3>1, <3>2
  <2> QED
    BY <2>1 DEF Changing
<1>10. CASE \E sees \in Sightings : ProcessSnapshot(sees)
  <2>1. CASE \E p \in GameProfile : call' = Activation(p, TRUE, TRUE)
    <3>1. CASE tx = None
      BY <2>1, <3>1 DEF Activation, Idle, Changing
    <3>2. CASE tx # None
      BY <2>1, <3>2 DEF Activation, Idle, Changing
    <3> QED
      BY <3>1, <3>2
  <2>2. CASE call' = [Idle EXCEPT !.op = "restore", !.stage = "current", !.auto = TRUE, !.resume = TRUE]
    BY <2>2 DEF Idle
  <2> QED
    BY <1>10, <1>1, <2>1, <2>2 DEF ProcessSnapshot
<1>11. CASE \/ Inspected \/ Listed \/ OldGuardRetired \/ Apply \/ GuardReady \/ CurrentRead \/ ForeignFound
            \/ PutBack \/ RestoreVerified \/ GuardRestoreVerified \/ Reaped
  <2>1. ASSUME NEW stage, Goes(stage)
        PROVE  /\ call'.stage = stage /\ call'.op = call.op /\ call'.old = call.old
               /\ call'.oldId = call.oldId /\ call'.auto = call.auto
    BY <2>1, <1>t DEF Goes, CallType, Call
  <2>2. CASE Listed
    <3>1. call'.stage = "secure"
      BY <2>2, <1>t DEF Listed, CallType, Call
    <3> QED
      BY <3>1 DEF Changing
  <2>3. ~(\/ Inspected \/ CurrentRead \/ ForeignFound
          \/ PutBack \/ RestoreVerified \/ GuardRestoreVerified \/ Reaped)
    BY <2>1 DEF Inspected, CurrentRead, ForeignFound, PutBack, RestoreVerified, GuardRestoreVerified,
       Reaped, Moves, Changing
  <2>4. CASE OldGuardRetired \/ Apply \/ GuardReady
    <3>1. \E stage \in {"apply", "readback", "retire"} : Goes(stage)
      BY <2>4 DEF OldGuardRetired, Apply, GuardReady, Moves
    <3>2. call.op = "activate" /\ call.stage \in Changing
      BY <2>4 DEF OldGuardRetired, Apply, GuardReady, Moves, At, Changing
    <3> QED
      BY <2>1, <3>1, <3>2
  <2> QED
    BY <1>11, <2>2, <2>3, <2>4
<1>12. ~((\E force \in BOOLEAN : RestoreCalled(force)) \/ ConfirmCalled \/ OtherCalled \/ KeepCalled)
  <2>1. ASSUME NEW force \in BOOLEAN, RestoreCalled(force) PROVE FALSE
    <3>1. call'.op = "restore"
      BY <2>1 DEF RestoreCalled, Begins, Idle
    <3> QED
      BY <3>1
  <2>2. ~(ConfirmCalled \/ OtherCalled \/ KeepCalled)
    BY DEF ConfirmCalled, OtherCalled, KeepCalled, Begins, Idle
  <2> QED
    BY <2>1, <2>2
<1>13. ~ShutdownBegins
  BY <1>2 DEF ShutdownBegins, Idle
<1>14. CASE \E g \in Id : RestoreTold(g)
  BY <1>14, <1>1, <1>2 DEF RestoreTold
<1>15. CASE \/ (\E g \in Id : FailureTold(g) \/ StopResolves(g) \/ StopRejects(g) \/ Guard(g) \/ GuardDies(g))
            \/ Late \/ ShutdownCalled \/ (\E value \in Value : OthersChange(value)) \/ UNCHANGED vars
  BY <1>15, <1>1 DEF FailureTold, StopResolves, StopRejects, Guard, GuardExits, GuardLeaves,
     GuardRestores, GuardFails, GuardDies, NativeVars, Late, ShutdownCalled, OthersChange, vars, callVars
<1> QED
  BY <1>4, <1>6, <1>7, <1>9, <1>10, <1>11, <1>12, <1>13, <1>14, <1>15
     DEF Next, Calls, Proceeds, Events

\* What is sure of a guard stays so, unless a new process takes its identity.
LEMMA SureStays ==
    ASSUME GuardType, GuardEffect, NEW g \in Id, Sure(proc[g]), Readied => tx.id # g
    PROVE  Sure(proc'[g])
<1>1. CASE ProcKept
  BY <1>1 DEF ProcKept, Sure, Left
<1>2. CASE Readied
  BY <1>2 DEF Readied, OthersKept, Sure, Left
<1>3. ASSUME NEW h \in Id, Forgotten(h) PROVE Sure(proc'[g])
  BY <1>3, NoProcessType DEF Forgotten, OthersKept, Sure, Left
<1>4. ASSUME NEW h \in Id, Advances(h) PROVE Sure(proc'[g])
  <2>1. CASE h # g
    BY <1>4, <2>1 DEF Advances, OthersKept, Sure, Left
  <2>2. CASE h = g
    BY <1>4, <2>2, NoProcessType DEF Advances, Sure, Left, Expired
  <2> QED
    BY <2>1, <2>2
<1>5. CASE Restart
  BY <1>5, NoProcessType DEF Restart, Running, Sure, Left, GuardType, Process
<1> QED
  BY <1>1, <1>2, <1>3, <1>4, <1>5 DEF GuardEffect

LEMMA RestartIsSure ==
    ASSUME GuardType, Restart, NEW g \in Id
    PROVE  Sure(proc'[g]) /\ (Left(proc'[g]) => proc'[g].orphan)
BY NoProcessType DEF Restart, Running, Sure, Left, GuardType, Process

\* A guard the service does not know of any more is no danger to the session.
LEMMA UnknownIsSure ==
    ASSUME KnownGuards, NEW g \in Id, g \notin guards
    PROVE  Sure(proc[g]) /\ (Left(proc[g]) => proc[g].orphan)
BY DEF KnownGuards, Sure, Left

\* The guard of the session leaves its loop only after the deadline, or as an orphan.
LEMMA LeavingIsLate ==
    ASSUME GuardType, GuardEffect, ~Readied, ~Restart, tx # None, tx.id \in Id,
           Previewing /\ Left(proc[tx.id]) /\ ~proc[tx.id].orphan => late,
           Previewing, Left(proc'[tx.id]), ~proc'[tx.id].orphan
    PROVE  late
<1>1. CASE ProcKept
  BY <1>1 DEF ProcKept, Left
<1>2. ASSUME NEW h \in Id, Forgotten(h) PROVE late
  BY <1>2, NoProcessType DEF Forgotten, OthersKept, Left
<1>3. ASSUME NEW h \in Id, Advances(h) PROVE late
  <2>1. CASE h # tx.id
    BY <1>3, <2>1 DEF Advances, OthersKept, Left
  <2>2. CASE h = tx.id
    BY <1>3, <2>2, NoProcessType DEF Advances, Expired, Left
  <2> QED
    BY <2>1, <2>2
<1> QED
  BY <1>1, <1>2, <1>3 DEF GuardEffect

LEMMA ConfirmingStep == IInv /\ [Next]_vars => Confirming'
<1> SUFFICES ASSUME IInv, [Next]_vars, tx' # None
             PROVE  /\ tx'.status = "active" \/ tx'.back # None => Sure(proc'[tx'.id])
                    /\ tx'.id \in guards' => guard' = tx'.id
                    /\ Previewing' /\ Left(proc'[tx'.id]) /\ ~proc'[tx'.id].orphan => late'
                    /\ call'.op = "activate" /\ call'.stage \in Opening => Sure(proc'[tx'.id])
  BY DEF Confirming
<1> DEFINE Goal == /\ tx'.status = "active" \/ tx'.back # None => Sure(proc'[tx'.id])
                   /\ tx'.id \in guards' => guard' = tx'.id
                   /\ Previewing' /\ Left(proc'[tx'.id]) /\ ~proc'[tx'.id].orphan => late'
                   /\ call'.op = "activate" /\ call'.stage \in Opening => Sure(proc'[tx'.id])
<1>t. /\ JInv /\ SessionEffect /\ GuardEffect /\ SessionType /\ SessionType' /\ GuardType
      /\ KnownGuards /\ Confirming /\ Switching
  BY SessionStep, GuardStep, TypeParts DEF IInv, JInv
<1>i. tx'.id \in Id /\ (tx # None => tx.id \in Id)
  BY <1>t DEF SessionType, Transaction
<1>o. call'.op = "activate" /\ call'.stage \in Opening =>
          (call.op = "activate" /\ call.stage \in Opening) \/ (MayActivate /\ UNCHANGED <<file, tx>>)
  BY <1>t, Openings
<1>1. CASE Restart
  BY <1>1, <1>i, <1>t, RestartIsSure DEF Restart
<1>2. CASE Readied
  <2>1. tx' = tx /\ tx # None /\ late' = late
    BY <1>2 DEF Readied, sessionVars
  <2>2. call.stage = "guard" /\ call.op = "activate"
    BY <1>2 DEF Readied, At
  <2>3. tx.status = "active" \/ tx.back # None => Sure(proc'[tx.id])
    <3>1. tx.status = "active" \/ tx.back # None => call.auto
      BY <2>2, <1>t DEF Switching, At
    <3> QED
      BY <3>1, <1>2 DEF Readied, Sure, Left
  <2>4. call'.op = "activate" /\ call'.stage \in Opening => tx.status = "active"
    BY <2>1, <2>2, <1>o DEF Opening, MayActivate
  <2> QED
    BY <2>1, <2>3, <2>4, <1>2 DEF Readied, Left
\* The guard of a session that goes on.
<1>3. ASSUME ~Restart, ~Readied, tx # None, tx'.id = tx.id
      PROVE  /\ Sure(proc[tx.id]) => Sure(proc'[tx.id])
             /\ tx.id \in guards' => guard' = tx.id
             /\ Previewing /\ Left(proc'[tx.id]) /\ ~proc'[tx.id].orphan => late
  <2>1. Sure(proc[tx.id]) => Sure(proc'[tx.id])
    BY <1>3, <1>i, <1>t, SureStays
  <2>2. tx.id \in guards' => guard' = tx.id
    BY <1>3, <1>t DEF Confirming, GuardEffect, Forgotten, Advances
  <2>3. Previewing /\ Left(proc'[tx.id]) /\ ~proc'[tx.id].orphan => late
    BY <1>3, <1>i, <1>t, LeavingIsLate DEF Confirming
  <2> QED
    BY <2>1, <2>2, <2>3
<1>4. CASE ~Restart /\ ~Readied /\ UNCHANGED <<file, tx>> /\ (Previewing /\ late => late')
  <2>1. call'.op = "activate" /\ call'.stage \in Opening => Sure(proc[tx.id])
    BY <1>4, <1>o, <1>t DEF Confirming, MayActivate
  <2>2. tx.status = "active" \/ tx.back # None => Sure(proc[tx.id])
    BY <1>4, <1>t DEF Confirming
  <2> QED
    BY <1>3, <1>4, <2>1, <2>2 DEF Previewing
<1>5. CASE ~Restart /\ ~Readied /\ Revised
  <2>1. /\ tx # None /\ tx'.id = tx.id /\ guard' = guard /\ guards' = guards
        /\ tx'.status = "confirming" => tx.status = "confirming" /\ (late => late')
    BY <1>5 DEF Revised
  <2>2. tx'.back # None => Sure(proc[tx.id])
    BY <1>5, <1>t DEF Revised, Confirming
  <2>3. tx'.status = "active" => Sure(proc'[tx.id])
    <3>1. CASE Confirms
      <4>1. CASE guard = tx.id
        <5>1. Left(proc[tx.id]) => proc[tx.id].orphan
          <6>1. Previewing /\ ~late
            BY <3>1 DEF Confirms
          <6>2. Previewing /\ Left(proc[tx.id]) /\ ~proc[tx.id].orphan => late
            BY <2>1, <1>t DEF Confirming
          <6> QED
            BY <6>1, <6>2
        <5>2. CASE proc[tx.id].state = "watching"
          BY <3>1, <4>1, <5>2 DEF Confirms, Sure, Left
        <5>3. CASE proc[tx.id].state # "watching"
          BY <5>1, <5>3, <2>1, <1>3, <1>5 DEF Sure, Left
        <5> QED
          BY <5>2, <5>3
      <4>2. CASE guard # tx.id
        <5>1. tx.id \notin guards
          BY <2>1, <4>2, <1>t DEF Confirming
        <5> QED
          BY <5>1, <2>1, <1>3, <1>5, <1>i, <1>t, UnknownIsSure
      <4> QED
        BY <4>1, <4>2
    <3>2. CASE ~Confirms
      <4>1. tx'.status = "active" => Sure(proc[tx.id])
        BY <1>5, <3>2, <1>t DEF Revised, Confirming
      <4> QED
        BY <4>1, <2>1, <1>3, <1>5
    <3> QED
      BY <3>1, <3>2
  <2>4. call'.op = "activate" /\ call'.stage \in Opening => Sure(proc[tx.id])
    BY <2>1, <1>o, <1>t DEF Confirming, MayActivate
  <2> QED
    BY <1>3, <1>5, <2>1, <2>2, <2>3, <2>4 DEF Previewing
<1>6. ASSUME NEW g \in Id, Opened(g) PROVE Goal
  <2>1. tx'.id = g /\ proc' = proc /\ guards' = guards /\ proc[g].state = "none" /\ g \notin guards
    BY <1>6 DEF Opened, NewTransaction, Fresh, guardVars
  <2> QED
    BY <2>1 DEF Sure, Left
<1>7. CASE ~Restart /\ Reverted
  <2>1. /\ tx.back # None /\ call.oldId # None /\ call.oldId \in Id
        /\ tx'.id = call.oldId /\ guard' = guard /\ guards' = guards /\ guard = call.old
    BY <1>7, <1>t DEF Reverted, JInv, Equipped, TypeOK, Call, SessionType, Transaction
  <2>2. /\ Sure(proc[call.oldId]) /\ call.oldId # tx.id
        /\ call.oldId \in guards => call.old = call.oldId
    BY <1>7, <2>1, <1>t DEF Reverted, Switching
  <2>3. Sure(proc'[call.oldId])
    BY <1>t, <2>1, <2>2, SureStays
  <2> QED
    BY <2>1, <2>2, <2>3 DEF Sure, Left
<1>8. ~Emptied
  BY DEF Emptied
<1> QED
  <2>1. CASE Readied
    BY <1>2, <2>1
  <2>2. CASE ~Readied
    BY <1>1, <1>4, <1>5, <1>6, <1>7, <1>8, <1>t, <2>2 DEF SessionEffect
  <2> QED
    BY <2>1, <2>2

LEMMA SwitchingStep == IInv /\ [Next]_vars => Switching'
<1> SUFFICES ASSUME IInv, [Next]_vars, call'.op = "activate", call'.stage \in Changing
             PROVE  /\ call'.oldId # None =>
                          /\ Sure(proc'[call'.oldId]) /\ call'.oldId # tx'.id
                          /\ call'.oldId \in guards' => call'.old = call'.oldId
                    /\ call'.stage = "guard" /\ (tx'.status = "active" \/ tx'.back # None) => call'.auto
  BY DEF Switching, At, Changing
<1>t. /\ JInv /\ SessionEffect /\ GuardEffect /\ SessionType /\ SessionType' /\ GuardType
      /\ KnownGuards /\ Confirming /\ Switching /\ CallType
  BY SessionStep, GuardStep, TypeParts DEF IInv, JInv
<1>1. CASE /\ call.op = "activate" /\ call.stage \in Changing
           /\ call'.old = call.old /\ call'.oldId = call.oldId /\ call'.auto = call.auto
           /\ call'.stage = "guard" => call.stage = "guard"
  <2>1. tx # None /\ ~Restart /\ ~Reverted /\ ~Emptied /\ \A g \in Id : ~Opened(g)
    BY <1>1, <1>t, Calls0 DEF JInv, InSession, At, Changing, Opened, Restart, Reverted, Emptied
  <2>2. /\ tx'.id = tx.id
        /\ tx'.status = "active" => tx.status = "active"
        /\ tx'.back # None => tx.back # None
    BY <1>1, <2>1, <1>t, Calls0 DEF SessionEffect, Revised, Confirms
  <2>3. call'.stage = "guard" /\ (tx'.status = "active" \/ tx'.back # None) => call'.auto
    BY <1>1, <2>2, <1>t DEF Switching, At
  <2>4. ASSUME call.oldId # None
        PROVE  /\ Sure(proc'[call.oldId]) /\ call.oldId # tx.id
               /\ call.oldId \in guards' => call.old = call.oldId
    <3>1. /\ Sure(proc[call.oldId]) /\ call.oldId # tx.id /\ call.oldId \in Id
          /\ call.oldId \in guards => call.old = call.oldId
      BY <1>1, <2>4, <1>t DEF Switching, CallType, Call
    <3>2. Sure(proc'[call.oldId])
      BY <3>1, <1>t, SureStays
    <3>3. call.oldId \in guards' => call.oldId \in guards
      BY <3>1, <2>1, <1>t DEF GuardEffect, Readied, Forgotten, Advances
    <3> QED
      BY <3>1, <3>2, <3>3
  <2> QED
    BY <1>1, <2>2, <2>3, <2>4
<1>2. ASSUME NEW g \in Id, Opened(g),
             call'.old = guard, call'.oldId = (IF tx = None THEN None ELSE tx.id), call'.auto = call.auto
      PROVE  /\ call'.oldId # None =>
                    /\ Sure(proc'[call'.oldId]) /\ call'.oldId # tx'.id
                    /\ call'.oldId \in guards' => call'.old = call'.oldId
             /\ call'.stage = "guard" /\ (tx'.status = "active" \/ tx'.back # None) => call'.auto
  <2>1. /\ call.op = "activate" /\ call.stage \in Opening /\ Fresh(g)
        /\ tx'.id = g /\ proc' = proc /\ guards' = guards
        /\ tx'.status = "active" => call.auto
        /\ tx'.back # None => call.auto
    BY <1>2 DEF Opened, NewTransaction, guardVars, At, Opening
  <2>2. tx # None => /\ Sure(proc[tx.id]) /\ tx.id # g
                     /\ tx.id \in guards => guard = tx.id
    BY <2>1, <1>t DEF Confirming, Fresh
  <2> QED
    BY <1>2, <2>1, <2>2
<1> QED
  BY <1>1, <1>2, <1>t, Changings

\* Every step keeps the invariant: by the lemmas above, one per part of it.
LEMMA Inductive == IInv /\ [Next]_vars => IInv'
BY JInvStep, ConfirmingStep, SwitchingStep DEF IInv

LEMMA Initially == Init => IInv
BY JInvInit DEF Init, IInv, Confirming, Switching, Idle, At, Changing

LEMMA Always == Spec => []IInv
BY Initially, Inductive, PTL DEF Spec

-----------------------------------------------------------------------------
(***************************************************************************)
(* Theorems                                                                *)
(***************************************************************************)

\* Every variable of the service, its guards and the display keeps its type.
THEOREM TypeCorrect == Spec => []TypeOK
<1>1. IInv => TypeOK
  BY DEF IInv, JInv
<1> QED
  BY <1>1, Always, PTL

\* While the display shows something of Nova's that has to be given back, recovery.json
\* names what was there before the first profile of the session: whatever helper, guard or
\* write fails, through switches, a shutdown, and a crash between any two steps.
THEOREM JournalKnowsTheWayBack == Spec => []ChangeIsJournaled
<1>1. IInv => ChangeIsJournaled
  BY DEF IInv, JInv, Owing, ChangeIsJournaled
<1> QED
  BY <1>1, Always, PTL

\* A guard that can still change the display, and that Nova has started in this run, acts
\* on the session of the journal: clearTransaction() waits for every guard it knows of.
THEOREM GuardsHaveEvidence == Spec => []GuardHasEvidence
<1>1. IInv => GuardHasEvidence
  BY DEF IInv, JInv, KnownGuards, GuardHasEvidence, Running
<1> QED
  BY <1>1, Always, PTL

\* confirm(), its read of the display, the deadline of the service and the clock of the
\* guard never cross so that a confirmed session is reverted while Nova runs.
THEOREM ConfirmationHolds == Spec => ConfirmedIsKept
<1> DEFINE Kept == \A g \in Id : proc[g].state = "leaving" /\ proc'[g].state = "restored"
                      => ~(tx # None /\ tx.id = g /\ tx.status = "active")
<1>1. IInv /\ [Next]_vars => Kept
  <2> SUFFICES ASSUME IInv, [Next]_vars, NEW g \in Id,
                      proc[g].state = "leaving", proc'[g].state = "restored",
                      tx # None, tx.id = g, tx.status = "active"
               PROVE  FALSE
    OBVIOUS
  <2>1. GuardEffect /\ GuardType
    BY GuardStep, TypeParts DEF IInv, JInv
  <2>2. proc[g].orphan
    BY DEF IInv, Confirming, Sure, Left
  <2>3. CASE ProcKept
    BY <2>3 DEF ProcKept
  <2>4. CASE Readied
    BY <2>4 DEF Readied, OthersKept
  <2>5. ASSUME NEW h \in Id, Forgotten(h) PROVE FALSE
    BY <2>5, NoProcessType DEF Forgotten, OthersKept
  <2>6. ASSUME NEW h \in Id, Advances(h) PROVE FALSE
    <3>1. CASE h # g
      BY <2>6, <3>1 DEF Advances, OthersKept
    <3>2. CASE h = g
      BY <2>6, <2>2, <3>2, <2>1, NoProcessType DEF Advances
    <3> QED
      BY <3>1, <3>2
  <2>7. CASE Restart
    BY <2>7, <2>1, NoProcessType DEF Restart, Running, GuardType, Process
  <2> QED
    BY <2>1, <2>3, <2>4, <2>5, <2>6, <2>7 DEF GuardEffect
<1>2. IInv /\ [Next]_vars => [Kept]_vars
  BY <1>1
<1> QED
  BY <1>2, Always, PTL DEF Spec, ConfirmedIsKept
=============================================================================
