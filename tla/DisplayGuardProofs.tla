-------------------------- MODULE DisplayGuardProofs --------------------------
(***************************************************************************)
(* ChangeIsGuarded, for every set of configurations, profiles and          *)
(* identities, where every write of the journal succeeds. The invariant    *)
(* follows the guard of a session from one operation into the next: it is  *)
(* awake wherever the session counts on it, or a keepCurrent() has failed, *)
(* or its death came while an automatic operation was in progress.         *)
(***************************************************************************)
EXTENDS DisplayProofs

Open == tx # None /\ tx.status \in {"confirming", "active"}

\* What was told of its end, what became of an orphan, and how a session is recorded.
Fate(g) ==
    /\ proc[g].told => proc[g].state \in {"restored", "failed"}
    /\ proc[g].missed => proc[g].state = "failed" /\ proc[g].told
    /\ proc[g].orphan => Running(g)
Fates ==
    /\ \A g \in Id : Fate(g)
    /\ file # None => file.status = "recovery"

\* A shutdown leaves no session open, and nothing to be verified outlives an operation.
Closing ==
    /\ ~InProgress /\ closing # "waiting" => pending = None
    /\ closing = "closing" <=> call.op = "shutdown"
    /\ closing = "closed" => ~InProgress /\ ~Open
    /\ At({"shutdown"}, "retire") => ~Open
    /\ call.op \in {"shutdown", "verify"} => ~call.resume
    /\ call.resume => call.auto

\* Guard `g` would restore, or its restore is yet to be told or verified.
Watches(g) ==
    /\ g # None /\ guard = g /\ stop[g] = "none" /\ ~proc[g].disarmed
    /\ \/ Running(g)
       \/ proc[g].state \in {"restored", "failed"} /\ ~proc[g].told
       \/ proc[g].state = "restored" /\ pending = g

\* What ChangeIsGuarded excepts.
Excused == KeepFailed \/ DeathMissed

\* Where the session counts on its guard.
Counting ==
    \/ Open /\ \/ call.op \in {"none", "other", "confirm"}
               \/ call.op = "activate" /\ call.stage \in Opening
    \/ call.op = "activate" /\ call.stage \in Opening /\ call.auto /\ tx # None
    \/ call.stage \in {"current", "put", "check"} /\ call.op # "verify" /\ tx # None /\ Resumes

\* The guards of a switch: the one before is kept until its replacement is ready.
Replacing ==
    call.op = "activate" /\ call.stage \in Changing =>
        /\ call.old # tx.id
        /\ tx.back # None => call.auto
        /\ call.stage = "guard" =>
              /\ stop[tx.id] = "none"
              /\ tx.back # None => (guard = call.old /\ Watches(call.oldId)) \/ Excused
        /\ call.stage # "guard" /\ (Open \/ tx.back # None) => Watches(tx.id) \/ Excused

Guarding ==
    /\ Counting => Watches(tx.id) \/ Excused
    /\ Replacing
    /\ call.op = "keep" /\ guard # None => proc[guard].disarmed

GInv == Fates /\ Closing /\ Guarding

-----------------------------------------------------------------------------
(***************************************************************************)
(* What a step can do to a guard that watches                              *)
(***************************************************************************)
LEMMA Facts ==
    ASSUME IInv
    PROVE  /\ SessionType /\ GuardType /\ CallType /\ KnownGuards
           /\ \A g \in Id : proc[g] \in Process
           /\ tx # None => tx \in Transaction /\ tx.id \in Id /\ tx.id # None
BY TypeParts, NoneAssumption DEF IInv, JInv, SessionType, GuardType, Transaction

LEMMA Quiet ==
    ASSUME UNCHANGED guardVars
    PROVE  /\ Excused' <=> Excused
           /\ \A g \in Id : pending' = pending => (Watches(g)' <=> Watches(g))
BY DEF guardVars, Excused, KeepFailed, DeathMissed, Watches, Running

\* What a step leaves of a process that it is not about.
Alike(g) ==
    /\ proc'[g].state = proc[g].state /\ proc'[g].orphan = proc[g].orphan
    /\ proc'[g].told = proc[g].told /\ proc'[g].missed = proc[g].missed
    /\ proc[g].disarmed => proc'[g].disarmed

\* Guards hear at most of a confirmation, or of what to expect.
Hears ==
    /\ \A g \in Id : Alike(g) /\ (proc'[g].disarmed => proc[g].disarmed)
    /\ UNCHANGED <<guard, stop>>

\* Guards are told to stop, because their session ends or is given up.
Disarms ==
    KeepCalled \/ ForeignFound \/ RestoreVerified \/ GuardRestoreVerified \/ Reaped \/ ShutdownBegins
Stops ==
    /\ Disarms
    /\ \A g \in Id : Alike(g) /\ (stop[g] = "failed" => stop'[g] = "failed")
    /\ guard' = guard

\* The process of guard `g` goes on or ends by itself.
Lives(g) ==
    /\ Running(g) /\ UNCHANGED <<guard, stop>>
    /\ \A h \in Id \ {g} : proc'[h] = proc[h]
    /\ \/ proc[g].orphan /\ proc'[g] = NoProcess
       \/ /\ proc'[g].orphan = proc[g].orphan /\ proc'[g].told = proc[g].told
          /\ proc'[g].disarmed = proc[g].disarmed /\ proc'[g].missed = proc[g].missed
          /\ \/ proc'[g].state = "leaving"
             \/ proc'[g].state \in {"restored", "failed"} /\ ~proc[g].orphan
             \/ proc'[g].state = "exited" /\ proc[g].disarmed /\ ~proc[g].orphan

\* The end of the process of `g` is told.
Tells(g) ==
    /\ RestoreTold(g) \/ FailureTold(g)
    /\ proc[g].state \in {"restored", "failed"} /\ ~proc[g].told
    /\ UNCHANGED <<guard, stop>>
    /\ \A h \in Id \ {g} : proc'[h] = proc[h]
    /\ proc'[g].told
    /\ proc'[g].state = proc[g].state /\ proc'[g].orphan = proc[g].orphan
    /\ proc'[g].disarmed = proc[g].disarmed
    /\ IF FailureTold(g) THEN proc'[g].missed = call.auto ELSE proc'[g].missed = proc[g].missed

GuardMove ==
    \/ Hears \/ Stops \/ GuardReady \/ Restart
    \/ \E g \in Id : StopResolves(g) \/ StopRejects(g) \/ Lives(g) \/ Tells(g)

LEMMA Expecting ==
    ASSUME GuardType, NEW value, Expect(value), UNCHANGED <<guard, guards, stop>>
    PROVE  Hears
<1> DEFINE p == [proc[guard] EXCEPT !.expected = value]
<1>1. guard # None => /\ p.state = proc[guard].state /\ p.orphan = proc[guard].orphan
                      /\ p.told = proc[guard].told /\ p.disarmed = proc[guard].disarmed
                      /\ p.missed = proc[guard].missed
  BY DEF GuardType, Process
<1>2. proc' = Told(guard, p)
  BY DEF Expect
<1> HIDE DEF p
<1> QED
  BY <1>1, <1>2 DEF Told, Hears, Alike, GuardType

LEMMA Stopping ==
    ASSUME GuardType, Disarms, NEW S, NEW how, Awaited(S, how)
    PROVE  Stops
<1>1. ASSUME NEW g \in Id PROVE Alike(g)
  <2>1. proc'[g] = proc[g] \/ proc'[g] = [proc[g] EXCEPT !.disarmed = TRUE]
    BY DEF Awaited
  <2>2. proc[g] \in Process
    BY DEF GuardType
  <2> QED
    BY <2>1, <2>2 DEF Alike, Process
<1>2. \A g \in Id : stop[g] = "failed" => stop'[g] = "failed"
  BY DEF Awaited, GuardType
<1> QED
  BY <1>1, <1>2 DEF Stops, Awaited

LEMMA GuardLives ==
    ASSUME IInv, NEW g \in Id, Guard(g) \/ GuardDies(g)
    PROVE  Lives(g)
<1>t. GuardType /\ \A h \in Id : proc[h] \in Process
  BY Facts
<1>1. Running(g) /\ UNCHANGED <<guard, stop>>
  BY DEF Guard, GuardExits, GuardLeaves, GuardRestores, GuardFails, GuardDies, NativeVars, Running
<1>2. ASSUME NEW state, Ends(g, state)
      PROVE  /\ \A h \in Id \ {g} : proc'[h] = proc[h]
             /\ \/ proc[g].orphan /\ proc'[g] = NoProcess
                \/ /\ proc'[g].orphan = proc[g].orphan /\ proc'[g].told = proc[g].told
                   /\ proc'[g].disarmed = proc[g].disarmed /\ proc'[g].missed = proc[g].missed
                   /\ proc'[g].state = state /\ ~proc[g].orphan
  BY <1>2, <1>t DEF Ends, GuardType, Process
<1>3. CASE GuardExits(g)
  BY <1>1, <1>2, <1>3 DEF GuardExits, Lives
<1>4. CASE GuardLeaves(g)
  <2>1. proc' = [proc EXCEPT ![g].state = "leaving"]
    BY <1>4 DEF GuardLeaves
  <2> QED
    BY <1>1, <2>1, <1>t DEF Lives, GuardType, Process
<1>5. CASE GuardRestores(g)
  BY <1>1, <1>2, <1>5 DEF GuardRestores, Lives
<1>6. CASE GuardFails(g) \/ GuardDies(g)
  BY <1>1, <1>2, <1>6 DEF GuardFails, GuardDies, Lives
<1> QED
  BY <1>3, <1>4, <1>5, <1>6 DEF Guard

LEMMA EndIsTold ==
    ASSUME GuardType, NEW g \in Id, RestoreTold(g) \/ FailureTold(g)
    PROVE  Tells(g)
<1>1. proc[g] \in Process /\ ~(RestoreTold(g) /\ FailureTold(g))
  BY DEF GuardType, RestoreTold, FailureTold
<1>2. CASE RestoreTold(g)
  <2>1. proc' = [proc EXCEPT ![g].told = TRUE]
    BY <1>2 DEF RestoreTold
  <2> QED
    BY <1>1, <1>2, <2>1 DEF Tells, RestoreTold, GuardType, Process
<1>3. CASE FailureTold(g)
  <2>1. proc' = [proc EXCEPT ![g].told = TRUE, ![g].missed = call.auto]
    BY <1>3 DEF FailureTold
  <2>2. /\ \A h \in Id \ {g} : proc'[h] = proc[h]
        /\ proc'[g] = [proc[g] EXCEPT !.told = TRUE, !.missed = call.auto]
    BY <2>1 DEF GuardType
  <2>3. /\ proc'[g].told /\ proc'[g].missed = call.auto
        /\ proc'[g].state = proc[g].state /\ proc'[g].orphan = proc[g].orphan
        /\ proc'[g].disarmed = proc[g].disarmed
    BY <1>1, <2>2 DEF Process
  <2>4. proc[g].state = "failed" /\ ~proc[g].told /\ UNCHANGED <<guard, stop>>
    BY <1>3 DEF FailureTold
  <2> QED
    BY <1>3, <2>2, <2>3, <2>4 DEF Tells
<1> QED
  BY <1>2, <1>3

LEMMA Moving == IInv /\ [Next]_vars => GuardMove
<1> SUFFICES ASSUME IInv, [Next]_vars PROVE GuardMove
  OBVIOUS
<1>t. GuardType /\ \A g \in Id : proc[g] \in Process
  BY Facts
<1>1. CASE UNCHANGED guardVars
  BY <1>1 DEF GuardMove, Hears, Alike, guardVars
<1>2. CASE GuardsKept
  BY <1>1, <1>2 DEF GuardsKept, ActivateCalled, RestoreCalled, ConfirmCalled, OtherCalled,
     ShutdownCalled, ProcessSnapshot, Begins, Moves, Inspected, Listed, ActivationRefused, Secured,
     GuardFailsToStart, OldGuardRetired, OldGuardStays, Apply, ApplyFails, ReadbackFails, ConfirmRefused,
     CurrentRead, Yields, PutBack, RestoreFails, Cleared, ClearFails, ReapFails, OtherEnds,
     ShutdownRetires, Late, OthersChange, vars
<1>3. CASE KeepCalled \/ ForeignFound \/ RestoreVerified \/ GuardRestoreVerified \/ Reaped
  <2>1. \E S, how : Awaited(S, how)
    BY <1>3 DEF KeepCalled, ForeignFound, RestoreVerified, GuardRestoreVerified, Reaped
  <2> QED
    BY <1>3, <1>t, <2>1, Stopping DEF GuardMove, Disarms
<1>4. CASE ShutdownBegins
  <2>1. UNCHANGED guardVars \/ Awaited(guards, "waiting")
    BY <1>4 DEF ShutdownBegins
  <2> QED
    BY <2>1, <1>1, <1>4, <1>t, Stopping DEF GuardMove, Disarms
<1>5. CASE Activated \/ Resumed
  BY <1>5, <1>t, Expecting DEF Activated, Resumed, GuardMove
<1>6. CASE Confirmed
  <2> DEFINE p == [proc[guard] EXCEPT !.confirmed = TRUE]
  <2>1. guard # None /\ UNCHANGED <<guard, guards, stop>> /\ proc' = Told(guard, p)
    BY <1>6 DEF Confirmed
  <2>2. /\ p.state = proc[guard].state /\ p.orphan = proc[guard].orphan
        /\ p.told = proc[guard].told /\ p.disarmed = proc[guard].disarmed
        /\ p.missed = proc[guard].missed
    BY <2>1, <1>t DEF GuardType, Process
  <2> HIDE DEF p
  <2> QED
    BY <2>1, <2>2, <1>t DEF Told, GuardMove, Hears, Alike, GuardType
<1>7. ASSUME NEW g \in Id, RestoreTold(g) \/ FailureTold(g) PROVE Tells(g)
  BY <1>7, <1>t, EndIsTold
<1>8. ASSUME NEW g \in Id, Guard(g) \/ GuardDies(g) PROVE Lives(g)
  BY <1>8, GuardLives
<1> QED
  BY <1>1, <1>2, <1>3, <1>4, <1>5, <1>6, <1>7, <1>8
     DEF Next, Calls, Proceeds, Events, GuardsKept, GuardMove
LEMMA ExcusedStays ==
    ASSUME IInv, Fates, GuardMove, ~GuardReady, ~Restart, Excused
    PROVE  Excused'
<1>t. GuardType /\ KnownGuards /\ \A g \in Id : proc[g] \in Process /\ Fate(g)
  BY Facts DEF Fates
<1>k. CASE KeepFailed
  <2>1. PICK f \in Id : stop[f] = "failed"
    BY <1>k DEF KeepFailed
  <2>2. guard = None \/ proc[guard].disarmed
    BY <1>k DEF KeepFailed
  <2>3. CASE Hears \/ Stops
    BY <2>1, <2>2, <2>3, <1>t DEF Hears, Stops, Alike, KeepFailed, Excused, GuardType
  <2>4. ASSUME NEW g \in Id, StopResolves(g) PROVE KeepFailed'
    <3>1. stop'[f] = "failed"
      BY <2>1, <2>4, <1>t DEF StopResolves, GuardType
    <3>2. guard' = None \/ proc'[guard'].disarmed
      BY <2>2, <2>4, <1>t DEF StopResolves, GuardType
    <3> QED
      BY <3>1, <3>2 DEF KeepFailed
  <2>5. ASSUME NEW g \in Id, StopRejects(g) PROVE KeepFailed'
    BY <2>1, <2>2, <2>5, <1>t DEF StopRejects, GuardType, KeepFailed
  <2>6. ASSUME NEW g \in Id, Lives(g) PROVE KeepFailed'
    BY <2>1, <2>2, <2>6, <1>t DEF Lives, KeepFailed, KnownGuards, GuardType
  <2>7. ASSUME NEW g \in Id, Tells(g) PROVE KeepFailed'
    <3>1. \A h \in Id : proc[h].disarmed => proc'[h].disarmed
      BY <2>7 DEF Tells
    <3> QED
      BY <2>1, <2>2, <2>7, <3>1, <1>t DEF Tells, KeepFailed, GuardType
  <2> QED
    BY <2>3, <2>4, <2>5, <2>6, <2>7 DEF GuardMove, Excused
<1>d. CASE DeathMissed
  <2>1. guard \in Id /\ guard # None /\ proc[guard].missed
    BY <1>d, <1>t DEF DeathMissed, GuardType
  <2>2. proc[guard].state = "failed" /\ proc[guard].told
    BY <2>1, <1>t DEF Fate
  <2>3. CASE Hears \/ Stops
    BY <2>1, <2>3 DEF Hears, Stops, Alike, DeathMissed, Excused
  <2>4. ASSUME NEW g \in Id, StopResolves(g) \/ StopRejects(g) PROVE DeathMissed'
    BY <2>1, <2>2, <2>4, <1>t DEF StopResolves, StopRejects, DeathMissed, GuardType
  <2>5. ASSUME NEW g \in Id, Lives(g) \/ Tells(g) PROVE DeathMissed'
    <3>1. g # guard
      BY <2>2, <2>5 DEF Lives, Tells, Running
    <3> QED
      BY <2>1, <2>5, <3>1 DEF Lives, Tells, DeathMissed
  <2> QED
    BY <2>3, <2>4, <2>5 DEF GuardMove, Excused
<1> QED
  BY <1>k, <1>d DEF Excused

LEMMA HeardExcused ==
    ASSUME GuardType, Hears, Excused
    PROVE  Excused'
BY DEF Hears, Alike, Excused, KeepFailed, DeathMissed, GuardType

LEMMA WatchGoesOn ==
    ASSUME IInv, Fates, NEW g \in Id, Watches(g), pending' = pending,
           Hears \/ \E h \in Id : StopResolves(h) \/ StopRejects(h) \/ Lives(h)
    PROVE  Watches(g)'
<1>t. GuardType /\ KnownGuards /\ \A h \in Id : proc[h] \in Process
  BY Facts
<1>1. CASE Hears
  BY <1>1 DEF Hears, Alike, Watches, Running
<1>2. ASSUME NEW h \in Id, StopResolves(h) \/ StopRejects(h) PROVE Watches(g)'
  <2>1. h # g
    BY <1>2 DEF StopResolves, StopRejects, Watches
  <2> QED
    BY <1>2, <2>1, <1>t DEF StopResolves, StopRejects, Watches, Running, GuardType
<1>3. ASSUME NEW h \in Id, Lives(h) PROVE Watches(g)'
  <2>1. CASE h # g
    BY <1>3, <2>1 DEF Lives, Watches, Running
  <2>2. CASE h = g
    <3>1. ~proc[g].orphan /\ ~proc[g].told /\ ~proc[g].disarmed
      BY <1>3, <2>2, <1>t DEF Lives, Watches, KnownGuards, Fates, Fate, Running
    <3> QED
      BY <1>3, <2>2, <3>1 DEF Lives, Watches, Running
  <2> QED
    BY <2>1, <2>2
<1> QED
  BY <1>1, <1>2, <1>3

\* At the end of an operation that leaves the session as it is.
LEMMA WatchEnds ==
    ASSUME IInv, tx # None, Watches(tx.id), Hears, End(tx), closing \in {"no", "waiting"},
           call'.op = "none", tx'.id = tx.id
    PROVE  Watches(tx.id)'
<1>1. pending' = pending \/ pending # tx.id
  BY Calls0 DEF End
<1>2. tx.id \in Id
  BY Facts
<1> QED
  BY <1>1, <1>2 DEF Hears, Alike, Watches, Running

\* A guard, or the promise of its end, goes on by itself.
OnItsOwn(g) ==
    \/ /\ StopResolves(g) \/ StopRejects(g) \/ Lives(g)
       /\ pending' = pending
    \/ Tells(g)

\* A guard that watches and is sure not to restore goes on so, unless the service is
\* told of its death and an automatic operation misses that.
LEMMA OldWatches ==
    ASSUME IInv, Fates, NEW g \in Id, Watches(g), Sure(proc[g]), call.auto, NEW h \in Id,
           OnItsOwn(h)
    PROVE  guard' = g /\ (Watches(g)' \/ DeathMissed')
<1>t. GuardType /\ KnownGuards /\ ~proc[g].orphan /\ g # None /\ guard = g
  BY Facts DEF Watches, KnownGuards, Fates, Fate
<1>1. CASE (StopResolves(h) \/ StopRejects(h) \/ Lives(h)) /\ pending' = pending
  <2>1. Watches(g)'
    BY <1>1, WatchGoesOn
  <2> QED
    BY <2>1 DEF Watches
<1>2. CASE Tells(h) /\ h # g
  BY <1>2, <1>t DEF Tells, Watches, Running, Sure, Left
<1>3. CASE Tells(h) /\ h = g
  <2>1. proc[g].state = "failed"
    BY <1>3, <1>t DEF Tells, Sure, Left
  <2>2. FailureTold(g)
    BY <1>3, <2>1 DEF Tells, RestoreTold
  <2> QED
    BY <1>3, <1>t, <2>2 DEF Tells, DeathMissed
<1> QED
  BY <1>1, <1>2, <1>3 DEF OnItsOwn

-----------------------------------------------------------------------------
(***************************************************************************)
(* Fates and Closing                                                       *)
(***************************************************************************)
LEMMA FatesStep == IInv /\ Fates /\ [Next]_vars => Fates'
<1> SUFFICES ASSUME IInv, Fates, [Next]_vars PROVE Fates'
  OBVIOUS
<1>t. /\ SessionType /\ GuardType /\ KnownGuards /\ GuardMove /\ SessionEffect /\ Confirming
      /\ \A g \in Id : proc[g] \in Process
      /\ SessionType' /\ (tx # None => tx \in Transaction /\ tx.id \in Id /\ tx.id # None)
  BY Facts, Moving, SessionStep DEF IInv
<1>1. ASSUME NEW g \in Id PROVE Fate(g)'
  <2>g. Fate(g)
    BY DEF Fates
  <2>1. CASE Hears \/ Stops
    BY <2>1, <2>g DEF Hears, Stops, Alike, Running, Fate
  <2>2. CASE GuardReady
    <3>1. tx.id \in Id /\ call.old \in Id \cup {None}
      BY <2>2, <1>t, Facts DEF GuardReady, IInv, JInv, InSession, At, CallType, Call
    <3>2. \/ proc' = [proc EXCEPT ![tx.id] = NewGuard]
          \/ /\ call.old \in Id
             /\ proc' = [proc EXCEPT ![tx.id] = NewGuard, ![call.old].disarmed = TRUE]
      BY <2>2, <3>1 DEF GuardReady
    <3>0. ~NewGuard.told /\ ~NewGuard.orphan /\ ~NewGuard.missed
      BY DEF NewGuard, NoProcess
    <3>3. NewGuard \in Process
      BY <2>2, <3>1, <1>t, Facts DEF NewGuard, NoProcess, Process, Transaction, CallType, Call, GuardReady, IInv,
         JInv, InSession, At
    <3> DEFINE p1 == [proc EXCEPT ![tx.id] = NewGuard]
    <3>4. p1 \in [Id -> Process] /\ (p1[g] = NewGuard \/ p1[g] = proc[g])
      BY <3>1, <3>3, <1>t DEF GuardType
    <3>5. proc' = p1 \/ (call.old \in Id /\ proc' = [p1 EXCEPT ![call.old].disarmed = TRUE])
      BY <3>2
    <3> HIDE DEF p1
    <3>6. p1[g] \in Process
      BY <3>4
    <3>7. proc'[g] = p1[g] \/ proc'[g] = [p1[g] EXCEPT !.disarmed = TRUE]
      BY <3>4, <3>5
    <3>8. /\ proc'[g].told = p1[g].told /\ proc'[g].state = p1[g].state
          /\ proc'[g].orphan = p1[g].orphan /\ proc'[g].missed = p1[g].missed
      BY <3>6, <3>7 DEF Process
    <3> QED
      BY <3>0, <3>4, <3>8, <2>g DEF Running, Fate
  <2>3. CASE Restart
    BY <2>3, <2>g, <1>t, NoProcessType DEF Restart, Running, NoProcess, Process, Fate
  <2>4. ASSUME NEW h \in Id, StopResolves(h) \/ StopRejects(h) PROVE Fate(g)'
    BY <2>4, <2>g, <1>t DEF StopResolves, StopRejects, NoProcess, Running, GuardType, Fate
  <2>5. ASSUME NEW h \in Id, Lives(h) \/ Tells(h) PROVE Fate(g)'
    <3>1. CASE h # g
      BY <2>5, <3>1, <2>g DEF Lives, Tells, Running, Fate
    <3>2. CASE h = g /\ Lives(h)
      BY <3>2, <2>g DEF Lives, Running, NoProcess, Fate
    <3>3. CASE h = g /\ Tells(h)
      <4>1. proc[g].state = "restored" => ~FailureTold(g)
        BY DEF FailureTold
      <4>2. proc[g].state = "restored" => ~proc[g].missed
        BY <2>g DEF Fate
      <4>3. proc'[g].missed => proc'[g].state = "failed"
        BY <3>3, <4>1, <4>2 DEF Tells
      <4> QED
        BY <3>3, <4>3, <2>g DEF Tells, Running, Fate
    <3> QED
      BY <2>5, <3>1, <3>2, <3>3
  <2> QED
    BY <2>1, <2>2, <2>3, <2>4, <2>5, <1>t DEF GuardMove
<1>2. file' # None => file'.status = "recovery"
  <2>1. ASSUME tx' # None, file' = Recovery(tx') PROVE file'.status = "recovery"
    BY <2>1, <1>t, Loaded DEF SessionType
  <2> QED
    BY <2>1, <1>t DEF Fates, SessionEffect, Revised, Opened, Reverted, Emptied, Restart
<1> QED
  BY <1>1, <1>2 DEF Fates
\* What the shared pieces of the actions do to what Closing speaks of.
LEMMA Endings ==
    ASSUME CallType, NEW t, End(t), InProgress, Closing, call.op = "shutdown" => ~Open'
    PROVE  Closing'
<1>1. CASE call.op = "shutdown"
  <2>1. closing = "closing" /\ closing' = "closed" /\ call' = Idle /\ pending' = None /\ ~call'.resume
    BY <1>1 DEF Closing, End, Idle
  <2> QED
    BY <1>1, <2>1, Calls0 DEF Closing, InProgress, At
<1>2. CASE call.op # "shutdown"
  <2>1. closing \notin {"closing", "closed"} /\ closing' = closing
    BY <1>2 DEF Closing, End
  <2>2. /\ call' \in {Idle, VerifyCall} /\ ~Idle.resume /\ ~VerifyCall.resume
        /\ closing # "waiting" => pending' = None
    BY DEF End, Idle, VerifyCall
  <2> QED
    BY <2>1, <2>2, Calls0 DEF Closing, InProgress, At
<1> QED
  BY <1>1, <1>2

LEMMA ClosingStep == IInv /\ Closing /\ [Next]_vars => Closing'
<1> SUFFICES ASSUME IInv, Closing, [Next]_vars PROVE Closing'
  OBVIOUS
<1>t. /\ SessionType /\ CallType /\ Staged
      /\ tx # None => tx \in Transaction
  BY Facts DEF IInv, JInv
<1>r. ASSUME tx # None, SavedOrNot(Recovery(tx)) PROVE ~Open'
  <2>1. tx' = Recovery(tx) /\ tx'.status = "recovery"
    BY <1>r, <1>t, Saves, Loaded
  <2> QED
    BY <2>1 DEF Open
<1>1. CASE UNCHANGED callVars /\ (Open' => Open)
  BY <1>1 DEF callVars, Closing, InProgress, At
<1>2. CASE UNCHANGED <<callVars, sessionVars>> \/ UNCHANGED <<callVars, tx>>
  BY <1>1, <1>2 DEF sessionVars, Open
<1>3. CASE /\ call'.op = call.op /\ call'.resume = call.resume /\ call'.auto = call.auto /\ InProgress
           /\ call'.stage # "retire" \/ call.op # "shutdown"
           /\ UNCHANGED <<tx, pending, closing>>
  BY <1>3 DEF Closing, InProgress, At, Open
<1>4. CASE /\ Free /\ UNCHANGED <<pending, closing>> /\ call'.op # "none"
           /\ call'.op \notin {"shutdown", "verify"} /\ (call'.resume => call'.auto)
  BY <1>4 DEF Closing, InProgress, At, Free
<1>5. CASE Throws /\ InProgress
  <2>1. End(tx)
    BY <1>5 DEF Throws
  <2>2. call.op = "shutdown" => ~Open'
    <3>1. CASE tx # None /\ SavedOrNot(Recovery(tx))
      BY <3>1, <1>r
    <3>2. CASE UNCHANGED tx /\ (tx = None \/ tx.status = "conflict")
      BY <3>2 DEF Open
    <3>3. CASE call.op \in {"keep", "confirm"}
      BY <3>3
    <3> QED
      BY <1>5, <3>1, <3>2, <3>3 DEF Throws, sessionVars
  <2> QED
    BY <1>5, <1>t, <2>1, <2>2, Endings
<1>6. CASE \/ Inspected \/ OldGuardRetired \/ Apply \/ GuardReady \/ CurrentRead \/ ForeignFound
           \/ PutBack \/ RestoreVerified \/ GuardRestoreVerified \/ Reaped
  <2>1. ASSUME NEW stage, Goes(stage)
        PROVE  /\ call'.op = call.op /\ call'.resume = call.resume /\ call'.auto = call.auto
               /\ call'.stage = stage
    BY <2>1, <1>t DEF Goes, CallType, Call
  <2>2. \/ \E stage \in {"list", "apply", "readback", "put", "yield", "check", "clear", "reap"} : Goes(stage)
        \/ Goes("retire") /\ call.op = "activate"
    BY <1>6 DEF Inspected, OldGuardRetired, Apply, GuardReady, CurrentRead, ForeignFound,
       PutBack, RestoreVerified, GuardRestoreVerified, Reaped, Moves, At
  <2>3. call.stage # "idle" /\ UNCHANGED <<tx, pending, closing>>
    BY <1>6 DEF Inspected, OldGuardRetired, Apply, GuardReady, CurrentRead, ForeignFound,
       PutBack, RestoreVerified, GuardRestoreVerified, Reaped, Moves, At, sessionVars
  <2>4. InProgress
    BY <2>3, <1>t DEF InProgress, Staged, StagesOf
  <2> QED
    BY <2>1, <2>2, <2>3, <2>4, <1>3
<1>7. CASE Listed
  <2>1. /\ call'.op = call.op /\ call'.resume = call.resume /\ call'.auto = call.auto
        /\ call'.stage = "secure"
        /\ InProgress /\ UNCHANGED <<tx, pending, closing>>
    BY <1>7, <1>t DEF Listed, CallType, Call, At, InProgress, sessionVars
  <2> QED
    BY <2>1, <1>3
<1>8. CASE RestoreFails \/ ClearFails \/ ReapFails
  <2>1. Throws /\ InProgress
    BY <1>8, <1>t DEF RestoreFails, ClearFails, ReapFails, At, Restoring, InProgress, Staged, StagesOf
  <2> QED
    BY <2>1, <1>5
<1>9. CASE ActivationRefused \/ Confirmed \/ ConfirmRefused \/ OtherEnds
  <2>1. End(tx) /\ InProgress /\ call.op # "shutdown"
    BY <1>9 DEF ActivationRefused, Confirmed, ConfirmRefused, OtherEnds, At, InProgress
  <2> QED
    BY <2>1, <1>t, Endings
<1>10. CASE Yields \/ Resumed
  <2>1. End(tx) /\ InProgress
    BY <1>10 DEF Yields, Resumed, At, Restoring, InProgress
  <2>2. call.op = "shutdown" => ~Open'
    <3>1. CASE Yields
      <4>1. tx' = [tx EXCEPT !.status = "conflict"]
        BY <3>1 DEF Yields, SavedOrNot, Saved, SaveThrows, Becomes
      <4>2. tx \in Transaction
        BY <3>1, <1>t DEF Yields, IInv, JInv, InSession, At
      <4> QED
        BY <4>1, <4>2 DEF Open, Transaction
    <3>2. CASE Resumed
      BY <3>2 DEF Resumed, Resumes, Closing
    <3> QED
      BY <1>10, <3>1, <3>2
  <2> QED
    BY <2>1, <2>2, <1>t, Endings
<1>11. CASE Cleared
  <2>1. End(None) /\ InProgress /\ ~Open'
    BY <1>11, <1>t DEF Cleared, Saved, Becomes, Open, InProgress, Staged, StagesOf
  <2> QED
    BY <2>1, <1>t, Endings
<1>12. CASE ShutdownRetires
  <2>1. CASE Throws
    BY <2>1, <1>5, <1>12 DEF ShutdownRetires, At, InProgress
  <2>2. CASE End(tx) /\ UNCHANGED <<sessionVars, sight>>
    BY <2>2, <1>12, <1>t, Endings DEF ShutdownRetires, At, InProgress, Closing, Open, sessionVars
  <2> QED
    BY <1>12, <2>1, <2>2 DEF ShutdownRetires
<1>13. CASE Secured
  <2>1. call.op = "activate" /\ InProgress
    BY <1>13 DEF Secured, At, InProgress
  <2>2. CASE \E t : End(t)
    BY <2>1, <2>2, <1>t, Endings
  <2>3. CASE call'.op = "activate" /\ ~call'.resume /\ UNCHANGED <<pending, closing>>
    BY <2>1, <2>3 DEF Closing, InProgress, At
  <2> QED
    BY <1>13, <2>2, <2>3 DEF Secured, Idle
<1>14. CASE GuardFailsToStart \/ OldGuardStays \/ ApplyFails \/ ReadbackFails \/ Activated
  <2>1. call.op = "activate" /\ InProgress
    BY <1>14 DEF GuardFailsToStart, OldGuardStays, ApplyFails, ReadbackFails, Activated, At, InProgress
  <2>2. CASE \E t : End(t)
    BY <2>1, <2>2, <1>t, Endings
  <2>3. CASE Rollback
    <3>1. call'.op = "activate" /\ call'.resume = call'.auto /\ UNCHANGED <<pending, closing>>
      BY <2>3 DEF Rollback, Idle
    <3> QED
      BY <2>1, <3>1 DEF Closing, InProgress, At
  <2> QED
    BY <1>14, <2>2, <2>3 DEF GuardFailsToStart, OldGuardStays, ApplyFails, ReadbackFails, Activated
<1>15. CASE (\E p \in Profile : ActivateCalled(p)) \/ (\E force \in BOOLEAN : RestoreCalled(force))
            \/ ConfirmCalled \/ KeepCalled \/ OtherCalled
  <2>1. /\ Free /\ UNCHANGED <<pending, closing>>
        /\ \/ \E p : call' = Activation(p, FALSE, sight.sees /\ p \in GameProfile)
           \/ call'.op \in {"restore", "confirm", "keep", "other"} /\ ~call'.resume
    BY <1>15 DEF ActivateCalled, RestoreCalled, ConfirmCalled, KeepCalled, OtherCalled, Begins, Idle
  <2>2. \A p, auto, game : Activation(p, auto, game).op = "activate" /\ ~Activation(p, auto, game).resume
    BY DEF Activation, Idle
  <2> QED
    BY <2>1, <2>2, <1>4
<1>16. CASE ShutdownCalled
  BY <1>16 DEF ShutdownCalled, Closing, InProgress, At, Open, sessionVars
<1>17. ASSUME NEW sees \in Sightings, ProcessSnapshot(sees) PROVE Closing'
  <2>1. CASE UNCHANGED call
    BY <1>17, <2>1 DEF ProcessSnapshot, Closing, InProgress, At, Open, sessionVars
  <2>2. CASE /\ Free /\ UNCHANGED <<pending, closing>> /\ call'.op \in {"restore", "activate"}
             /\ (call'.resume => call'.auto)
    BY <2>2, <1>4
  <2> QED
    BY <1>17, <2>1, <2>2 DEF ProcessSnapshot, Free, Activation, Idle
<1>18. CASE ShutdownBegins
  <2>1. call'.op = "shutdown" /\ ~call'.resume /\ closing' = "closing" /\ pending' = None
    BY <1>18 DEF ShutdownBegins, Idle
  <2>2. call'.stage = "retire" => tx = None \/ tx.status \in {"recovery", "conflict"}
    BY <1>18 DEF ShutdownBegins, Idle
  <2>3. (tx # None /\ SavedOrNot(Recovery(tx))) \/ UNCHANGED tx
    BY <1>18 DEF ShutdownBegins, sessionVars
  <2> QED
    BY <2>1, <2>2, <2>3, <1>r DEF Closing, InProgress, At, Open
<1>19. ASSUME NEW g \in Id, RestoreTold(g) PROVE Closing'
  <2>1. CASE UNCHANGED <<call, pending, sessionVars>>
    BY <2>1, <1>2, <1>19 DEF RestoreTold, callVars
  <2>2. CASE InProgress /\ UNCHANGED <<call, sessionVars>>
    BY <2>2, <1>19 DEF RestoreTold, Closing, InProgress, At, Open, sessionVars
  <2>3. CASE Free /\ call' = VerifyCall /\ UNCHANGED <<pending, sessionVars>>
    <3>1. ~call'.resume /\ call'.op = "verify"
      BY <2>3 DEF VerifyCall, Idle
    <3> QED
      BY <2>3, <3>1, <1>19 DEF RestoreTold, Closing, InProgress, At, Free
  <2>4. CASE tx # None /\ SavedOrNot(Recovery(tx)) /\ UNCHANGED <<call, pending>>
    BY <2>4, <1>r, <1>1, <1>19 DEF RestoreTold, callVars
  <2> QED
    BY <1>19, <2>1, <2>2, <2>3, <2>4 DEF RestoreTold
<1>20. ASSUME NEW g \in Id, FailureTold(g) PROVE Closing'
  BY <1>20, <1>r, <1>1, <1>2 DEF FailureTold
<1>21. ASSUME NEW g \in Id, StopResolves(g) \/ StopRejects(g) \/ Guard(g) \/ GuardDies(g) PROVE Closing'
  BY <1>21, <1>2 DEF StopResolves, StopRejects, Guard, GuardExits, GuardLeaves, GuardRestores, GuardFails,
     GuardDies, NativeVars, callVars
<1>22. CASE Late \/ (\E value \in Value : OthersChange(value)) \/ UNCHANGED vars
  BY <1>22, <1>2 DEF Late, OthersChange, vars
<1>23. CASE Restart
  BY <1>23 DEF Restart, Closing, InProgress, At, Idle
<1> QED
  BY <1>6, <1>7, <1>8, <1>9, <1>10, <1>11, <1>12, <1>13, <1>14, <1>15, <1>16, <1>17, <1>18, <1>19, <1>20,
     <1>21, <1>22, <1>23 DEF Next, Calls, Proceeds, Events
-----------------------------------------------------------------------------
(***************************************************************************)
(* Guarding                                                                *)
(***************************************************************************)
Covered == Watches(tx.id) \/ Excused

\* An operation that is over: the session, if it is open, is covered.
LEMMA Over ==
    ASSUME call' = Idle \/ call' = VerifyCall, Open' /\ call'.op = "none" => Covered'
    PROVE  Guarding'
<1>1. ~call'.resume /\ call'.op \in {"none", "verify"}
  <2>1. ~Idle.resume /\ ~VerifyCall.resume
    BY DEF Idle, VerifyCall
  <2> QED
    BY <2>1, Calls0
<1>2. Replacing' /\ ~(call'.op = "keep")
  BY <1>1 DEF Replacing
<1>3. Counting' => Open' /\ call'.op = "none"
  BY <1>1 DEF Counting, Resumes
<1> QED
  BY <1>2, <1>3 DEF Guarding, Covered

\* An operation that goes on where nothing counts on a guard.
LEMMA Elsewhere ==
    ASSUME call'.op \in {"activate", "restore", "shutdown", "verify", "keep"},
           \/ call'.stage \in {"clear", "yield", "reap"}
           \/ call'.op = "shutdown" /\ call'.stage = "retire"
           \/ call'.op # "activate" /\ ~call'.resume,
           call'.op = "keep" /\ guard' # None => proc'[guard'].disarmed
    PROVE  Guarding'
BY DEF Guarding, Counting, Replacing, Resumes, Opening, Changing

\* Nothing that Guarding is about has moved.
LEMMA Undisturbed ==
    ASSUME Guarding, UNCHANGED <<tx, guardVars, call, pending>>
    PROVE  Guarding'
<1>1. tx' = tx /\ guard' = guard /\ stop' = stop /\ proc' = proc /\ call' = call /\ pending' = pending
  BY DEF guardVars
<1>2. Guarding' <=> Guarding
  BY <1>1 DEF Guarding, Counting, Replacing, Resumes, Open, Watches, Running, Excused, KeepFailed,
     DeathMissed
<1> QED
  BY <1>2

\* An operation that is not a shutdown ends and leaves the session as it was covered.
LEMMA Ended ==
    ASSUME IInv, Closing, InProgress, call.op # "shutdown", tx # None => tx' # None /\ tx'.id = tx.id,
           tx = None => tx' = None, End(tx), Hears, Excused => Excused', Open' => Covered
    PROVE  Guarding'
<1>1. closing \in {"no", "waiting"}
  BY Facts DEF Closing, CallType
<1>2. call' = Idle \/ call' = VerifyCall
  BY DEF End
<1>3. ASSUME Open', call'.op = "none" PROVE Covered'
  <2>1. tx # None /\ tx'.id = tx.id
    BY <1>3 DEF Open
  <2>2. CASE Excused
    BY <2>2 DEF Covered
  <2>3. CASE Watches(tx.id)
    BY <2>1, <2>3, <1>1, <1>3, WatchEnds DEF Covered
  <2> QED
    BY <1>3, <2>2, <2>3 DEF Covered
<1> QED
  BY <1>2, <1>3, Over

LEMMA ConfirmHears ==
    ASSUME GuardType, Confirmed
    PROVE  Hears
<1> DEFINE p == [proc[guard] EXCEPT !.confirmed = TRUE]
<1>1. guard # None /\ UNCHANGED <<guard, guards, stop>> /\ proc' = Told(guard, p)
  BY DEF Confirmed
<1>2. /\ p.state = proc[guard].state /\ p.orphan = proc[guard].orphan
      /\ p.told = proc[guard].told /\ p.disarmed = proc[guard].disarmed
      /\ p.missed = proc[guard].missed
  BY <1>1 DEF GuardType, Process
<1> HIDE DEF p
<1> QED
  BY <1>1, <1>2 DEF Told, Hears, Alike, GuardType

\* The guard of a session that is about to be replaced, when a guard or the promise of
\* its end goes on by itself.
LEMMA OldAlone ==
    ASSUME IInv, Fates, Guarding, Excused => Excused', NEW h \in Id,
           OnItsOwn(h),
           call' = call, At({"activate"}, "guard"), tx.back # None
    PROVE  (guard' = call.old /\ Watches(call.oldId)') \/ Excused'
<1>1. (guard = call.old /\ Watches(call.oldId)) \/ Excused
  BY DEF Guarding, Replacing, Changing, At
<1>2. CASE guard = call.old /\ Watches(call.oldId)
  <2>1. call.oldId # None /\ call.oldId \in Id /\ guard = call.oldId
    BY <1>2, Facts DEF Watches, CallType, Call
  <2>2. Sure(proc[call.oldId]) /\ call.auto
    BY <2>1 DEF IInv, Switching, Changing, At
  <2>3. guard' = call.oldId /\ (Watches(call.oldId)' \/ DeathMissed')
    <3>1. PICK g \in Id : g = call.oldId
      BY <2>1
    <3>2. Watches(g) /\ Sure(proc[g]) /\ call.auto
      BY <1>2, <2>2, <3>1
    <3>3. guard' = g /\ (Watches(g)' \/ DeathMissed')
      BY <3>2, OldWatches
    <3> QED
      BY <3>1, <3>3 DEF Watches
  <2> QED
    BY <1>2, <2>1, <2>3 DEF Excused
<1> QED
  BY <1>1, <1>2

LEMMA GuardingAlone ==
    ASSUME IInv, Fates, Guarding, GuardMove, NEW h \in Id,
           OnItsOwn(h),
           UNCHANGED <<tx, call>>, ~GuardReady, ~Restart,
           tx # None /\ Watches(tx.id) => Covered'
    PROVE  Guarding'
<1>t. /\ GuardType /\ KnownGuards /\ CallType /\ SessionType
      /\ \A g \in Id : proc[g] \in Process
      /\ tx # None => tx \in Transaction /\ tx.id \in Id /\ tx.id # None
  BY Facts
<1>k. Excused => Excused'
  BY ExcusedStays
<1>1. Counting' => Covered'
  <2>1. Counting' => Counting /\ tx # None
    BY DEF Counting, Resumes, Open
  <2> QED
    BY <2>1, <1>k DEF Guarding, Covered
<1>2. Replacing'
  <2> SUFFICES ASSUME call.op = "activate", call.stage \in Changing
               PROVE  /\ call.old # tx.id
                      /\ tx.back # None => call.auto
                      /\ call.stage = "guard" =>
                            /\ stop'[tx.id] = "none"
                            /\ tx.back # None => (guard' = call.old /\ Watches(call.oldId)') \/ Excused'
                      /\ call.stage # "guard" /\ (Open' \/ tx.back # None) => Covered'
    BY DEF Replacing, Covered
  <2>1. tx # None /\ tx.id \in Id /\ tx.id # None
    BY <1>t DEF IInv, JInv, InSession, Changing, At
  <2>2. call.old # tx.id /\ (tx.back # None => call.auto)
    BY DEF Guarding, Replacing
  <2>3. call.stage # "guard" /\ (Open' \/ tx.back # None) => Covered'
    BY <2>1, <1>k DEF Guarding, Replacing, Open, Covered
  <2>4. ASSUME call.stage = "guard" PROVE stop'[tx.id] = "none"
    <3>1. stop[tx.id] = "none"
      BY <2>4 DEF Guarding, Replacing
    <3> QED
      BY <3>1, <2>1, <1>t DEF OnItsOwn, StopResolves, StopRejects, Lives, Tells, GuardType
  <2>5. ASSUME call.stage = "guard", tx.back # None
        PROVE  (guard' = call.old /\ Watches(call.oldId)') \/ Excused'
    BY <2>5, <1>k, OldAlone DEF At
  <2> QED
    BY <2>2, <2>3, <2>4, <2>5
<1>3. call'.op = "keep" /\ guard' # None => proc'[guard'].disarmed
  <2> SUFFICES ASSUME call.op = "keep", guard' # None PROVE proc'[guard'].disarmed
    OBVIOUS
  <2>1. guard' = guard
    BY DEF OnItsOwn, StopResolves, StopRejects, Lives, Tells
  <2>2. proc[guard].disarmed /\ guard \in Id /\ ~proc[guard].orphan
    BY <2>1, <1>t DEF Guarding, GuardType, KnownGuards
  <2> QED
    BY <2>1, <2>2, <1>t DEF OnItsOwn, StopResolves, StopRejects, Lives, Tells, GuardType, Process
<1> QED
  BY <1>1, <1>2, <1>3 DEF Guarding, Covered

\* The catch block of an activation goes back to a session that was covered.
LEMMA RolledBack ==
    ASSUME IInv, call.op = "activate", call.stage \in Changing, Rollback, UNCHANGED guardVars,
           tx.back # None => \/ Excused
                             \/ Watches(tx.id) /\ call.old # tx.id
                             \/ guard = call.old /\ Watches(call.oldId)
    PROVE  Guarding'
<1>1. tx # None /\ tx \in Transaction /\ (tx.back # None => call.oldId \in Id) /\ tx.id \in Id
  BY Facts DEF IInv, JInv, InSession, Equipped, Changing, At, CallType, Call, KnownGuards
<1>2. /\ call'.op = "activate" /\ call'.stage = "current" /\ pending' = pending
  BY DEF Rollback, Idle
<1>3. tx'.back = tx.back
  BY <1>1 DEF Rollback, Transaction
<1>4. ASSUME tx.back # None PROVE Covered'
  <2>1. Excused' <=> Excused
    BY Quiet
  <2>2. CASE Excused
    BY <2>1, <2>2 DEF Covered
  <2>3. CASE Watches(tx.id) /\ call.old # tx.id
    <3>1. tx' = tx
      BY <2>3 DEF Rollback, Watches
    <3>2. Watches(tx.id)'
      BY <1>1, <1>2, <2>3, <3>1, Quiet
    <3> QED
      BY <3>1, <3>2 DEF Covered
  <2>4. CASE guard = call.old /\ Watches(call.oldId)
    <3>1. tx'.id = call.oldId
      BY <1>1, <1>4, <2>4 DEF Rollback, Transaction
    <3>2. Watches(tx.id)'
      BY <1>1, <1>2, <1>4, <2>4, <3>1, Quiet DEF Watches, Running, guardVars
    <3> QED
      BY <3>2 DEF Covered
  <2> QED
    BY <1>4, <2>2, <2>3, <2>4
<1> QED
  BY <1>2, <1>3, <1>4 DEF Guarding, Counting, Replacing, Resumes, Covered, Opening, Changing

\* The operation goes on to its next await.
LEMMA MovesOn ==
    ASSUME IInv, Guarding, UNCHANGED <<tx, guardVars, pending>>,
           call'.op = call.op, call'.old = call.old, call'.oldId = call.oldId, call'.resume = call.resume,
           call'.auto = call.auto,
           \/ call.op = "activate" /\ call.stage \in Opening /\ call'.stage \in Opening
           \/ call.op = "activate" /\ call.stage \in {"retire", "apply"} /\ call'.stage \in {"apply", "readback"}
           \/ call.op \in Restoring /\ call.stage \in {"current", "put"} /\ call'.stage \in {"put", "check"}
    PROVE  Guarding'
<1>1. (Excused' <=> Excused) /\ \A g \in Id : Watches(g)' <=> Watches(g)
  BY Quiet
<1>2. tx # None => tx.id \in Id
  BY Facts
<1>3. Counting' => Counting /\ tx # None
  BY DEF Counting, Resumes, Open, Opening, Restoring
<1>4. Replacing'
  <2>1. CASE call.stage \in {"retire", "apply"}
    <3>1. tx # None
      BY <2>1 DEF IInv, JInv, InSession, At
    <3> QED
      BY <2>1, <3>1, <1>1, <1>2 DEF Guarding, Replacing, Changing, Opening, Open, Restoring
  <2>2. CASE call'.stage \in Opening \cup {"put", "check"}
    BY <2>2 DEF Replacing, Opening, Changing
  <2> QED
    BY <2>1, <2>2
<1> QED
  BY <1>1, <1>2, <1>3, <1>4 DEF Guarding, Covered, Restoring

LEMMA GuardingStep ==
    ASSUME "write" \notin Faults, IInv, Fates, Closing, Guarding, [Next]_vars
    PROVE  Guarding'
<1>t. /\ SessionType /\ GuardType /\ CallType /\ KnownGuards /\ Staged
      /\ tx # None => tx \in Transaction /\ tx.id \in Id /\ tx.id # None
      /\ IInv' /\ GuardMove
  BY Facts, Inductive, Moving DEF IInv, JInv
<1>s. ASSUME NEW t, SavedOrNot(t) PROVE tx' = t
  BY <1>s DEF SavedOrNot, Saved, SaveThrows, Becomes
<1>r. ASSUME tx # None, SavedOrNot(Recovery(tx)) PROVE ~Open'
  BY <1>r, <1>s, <1>t, Loaded DEF Open
<1>q. ASSUME UNCHANGED guardVars PROVE Hears /\ (Excused => Excused')
  BY <1>q, Quiet DEF Hears, Alike, guardVars
<1>1. CASE Inspected \/ OldGuardRetired \/ Apply \/ CurrentRead \/ PutBack
  <2>1. ASSUME NEW stage, Goes(stage)
        PROVE  /\ call'.op = call.op /\ call'.old = call.old /\ call'.oldId = call.oldId
               /\ call'.resume = call.resume /\ call'.auto = call.auto /\ call'.stage = stage
    BY <2>1, <1>t DEF Goes, CallType, Call
  <2>2. UNCHANGED <<tx, guardVars, pending>>
    BY <1>1 DEF Inspected, OldGuardRetired, Apply, CurrentRead, PutBack, Moves, sessionVars
  <2>3. CASE Inspected
    BY <2>1, <2>2, <2>3, MovesOn DEF Inspected, Moves, At, Opening
  <2>4. CASE OldGuardRetired \/ Apply
    BY <2>1, <2>2, <2>4, MovesOn DEF OldGuardRetired, Apply, Moves, At
  <2>5. CASE CurrentRead \/ PutBack
    BY <2>1, <2>2, <2>5, MovesOn DEF CurrentRead, PutBack, Moves, At
  <2> QED
    BY <1>1, <2>3, <2>4, <2>5
<1>2. CASE Listed
  <2>1. /\ call'.op = call.op /\ call'.old = call.old /\ call'.oldId = call.oldId
        /\ call'.resume = call.resume /\ call'.auto = call.auto /\ call'.stage = "secure"
    BY <1>2, <1>t DEF Listed, CallType, Call
  <2> QED
    BY <1>2, <2>1, MovesOn DEF Listed, At, Opening, sessionVars
<1>3. CASE ForeignFound \/ RestoreVerified \/ GuardRestoreVerified \/ Reaped
  <2>1. PICK stage \in {"yield", "clear", "reap"} : Goes(stage)
    BY <1>3 DEF ForeignFound, RestoreVerified, GuardRestoreVerified, Reaped
  <2>2. call'.op = call.op /\ call'.stage = stage
    BY <2>1, <1>t DEF Goes, CallType, Call
  <2>3. call.op \in Restoring \cup {"verify"}
    BY <1>3, <1>t DEF ForeignFound, RestoreVerified, GuardRestoreVerified, Reaped, At
  <2> QED
    BY <2>1, <2>2, <2>3, Elsewhere DEF Restoring
<1>4. CASE KeepCalled
  <2>1. call'.op = "keep" /\ call'.stage = "clear"
    BY <1>4 DEF KeepCalled, Idle
  <2>2. guard' = guard /\ Awaited(guards, "waiting")
    BY <1>4 DEF KeepCalled, Awaited
  <2>3. ASSUME guard # None PROVE proc'[guard].disarmed
    <3>1. guard \in guards /\ guard \in Id
      BY <2>3, <1>t DEF KnownGuards, GuardType
    <3>2. proc'[guard] = [proc[guard] EXCEPT !.disarmed = TRUE] /\ proc[guard] \in Process
      BY <2>2, <3>1, <1>t DEF Awaited, GuardType
    <3> QED
      BY <3>2 DEF Process
  <2> QED
    BY <2>1, <2>2, <2>3, Elsewhere
<1>5. CASE ShutdownBegins
  <2>1. call'.op = "shutdown" /\ ~call'.resume
    BY <1>5 DEF ShutdownBegins, Idle
  <2> QED
    BY <2>1, Elsewhere
<1>o. ASSUME UNCHANGED <<tx, guardVars, pending>>, call.op = "none", call'.op # "verify",
             call'.op # "keep",
             call'.op = "activate" => call'.stage \in Opening /\ (tx # None => Open),
             Resumes' => Open
      PROVE  Guarding'
  <2>1. Counting' => Open /\ tx # None
    BY <1>o DEF Counting, Open
  <2>2. Open => Covered
    BY <1>o DEF Guarding, Counting, Covered
  <2>3. Covered /\ tx # None => Covered'
    BY <1>o, <1>t, Quiet DEF Covered
  <2>4. Replacing'
    BY <1>o DEF Replacing, Opening, Changing
  <2> QED
    BY <2>1, <2>2, <2>3, <2>4, <1>o DEF Guarding, Covered
<1>6. CASE (\E p \in Profile : ActivateCalled(p)) \/ (\E force \in BOOLEAN : RestoreCalled(force))
           \/ ConfirmCalled \/ OtherCalled
  <2>1. UNCHANGED <<tx, guardVars, pending>> /\ call.op = "none"
    BY <1>6 DEF ActivateCalled, RestoreCalled, ConfirmCalled, OtherCalled, Begins, Free, InProgress, sessionVars
  <2>2. /\ ~call'.resume
        /\ call'.op \in {"activate", "restore", "confirm", "other"}
        /\ call'.op = "activate" => call'.stage \in Opening /\ (tx # None => Open)
    <3>1. ASSUME NEW p \in Profile, ActivateCalled(p)
          PROVE  /\ ~call'.resume /\ call'.op = "activate" /\ call'.stage \in Opening
                 /\ tx # None => Open
      BY <3>1 DEF ActivateCalled, Begins, Activation, Idle, Opening, MayActivate, Open
    <3>2. ASSUME NEW force \in BOOLEAN, RestoreCalled(force) PROVE ~call'.resume /\ call'.op = "restore"
      BY <3>2 DEF RestoreCalled, Begins, Idle
    <3>3. CASE ConfirmCalled \/ OtherCalled
      BY <3>3 DEF ConfirmCalled, OtherCalled, Begins, Idle
    <3> QED
      BY <1>6, <3>1, <3>2, <3>3
  <2> QED
    BY <2>1, <2>2, <1>o DEF Resumes
<1>7. ASSUME NEW sees \in Sightings, ProcessSnapshot(sees) PROVE Guarding'
  <2>1. UNCHANGED <<tx, guardVars, pending>>
    BY <1>7 DEF ProcessSnapshot, sessionVars
  <2>2. CASE UNCHANGED call
    BY <2>1, <2>2, Undisturbed
  <2>3. ASSUME call.op = "none", GameSession,
               call' = [Idle EXCEPT !.op = "restore", !.stage = "current", !.auto = TRUE, !.resume = TRUE]
        PROVE  Guarding'
    <3>1. call'.op = "restore" /\ Open
      BY <2>3 DEF Idle, GameSession, Open
    <3> QED
      BY <2>1, <2>3, <3>1, <1>o
  <2>4. ASSUME call.op = "none", MayActivate, NEW p, call' = Activation(p, TRUE, TRUE) PROVE Guarding'
    <3>1. call'.op = "activate" /\ call'.stage \in Opening /\ ~call'.resume /\ (tx # None => Open)
      BY <2>4 DEF Activation, Idle, Opening, MayActivate, Open
    <3> QED
      BY <2>1, <2>4, <3>1, <1>o DEF Resumes
  <2> QED
    BY <1>7, <2>2, <2>3, <2>4 DEF ProcessSnapshot, InProgress
<1>8. CASE ActivationRefused \/ ConfirmRefused \/ OtherEnds
  <2>1. /\ End(tx) /\ UNCHANGED <<tx, guardVars>>
        /\ \/ call.op = "activate" /\ call.stage \in Opening
           \/ call.op \in {"confirm", "other"}
    BY <1>8 DEF ActivationRefused, ConfirmRefused, OtherEnds, At, sessionVars, Opening
  <2>2. Open' => Covered
    BY <2>1 DEF Open, Guarding, Counting, Covered
  <2> QED
    BY <2>1, <2>2, <1>q, Ended DEF InProgress
<1>9. CASE Confirmed
  <2> DEFINE t == [tx EXCEPT !.status = "active"]
  <2>1. /\ End(tx) /\ SavedOrNot(t) /\ call.op = "confirm" /\ Open
        /\ stop' = stop /\ guard' = guard
    BY <1>9 DEF Confirmed, At, StillOpen, Previewing, Open
  <2>2. tx # None /\ t.id = tx.id /\ t # None
    BY <2>1, <1>t, TransactionAssumption DEF Open, Transaction
  <2>3. tx' = t
    BY <2>1, <1>s
  <2>4. Hears
    BY <1>9, <1>t, ConfirmHears
  <2>5. Excused => Excused'
    BY <1>t, <2>4, HeardExcused
  <2> HIDE DEF t
  <2> QED
    BY <2>1, <2>2, <2>3, <2>4, <2>5, Ended DEF InProgress, Guarding, Counting, Covered
<1>e. call' = Idle \/ call' = VerifyCall => (~Open' => Guarding')
  BY Over
<1>10. CASE Activated
  <2>1. /\ call.op = "activate" /\ call.stage = "readback" /\ Expect(tx.applied)
        /\ UNCHANGED <<guard, guards, stop>>
        /\ SavedOrNot(tx) /\ End(tx)
    BY <1>10 DEF Activated, At, SavedOrNot
  <2>2. tx # None /\ tx' = tx
    BY <2>1, <1>s DEF IInv, JInv, InSession
  <2>3. Open' => Covered
    BY <2>1, <2>2 DEF Open, Guarding, Replacing, Changing, Covered
  <2>4. Hears
    BY <2>1, <1>t, Expecting
  <2>5. Excused => Excused'
    BY <1>t, <2>4, HeardExcused
  <2> QED
    BY <2>1, <2>2, <2>3, <2>4, <2>5, Ended DEF InProgress
<1>11. CASE Resumed
  <2> DEFINE t == [tx EXCEPT !.applied = Returns, !.game = FALSE, !.status = "active", !.back = None]
  <2>1. /\ call.op \in Restoring /\ call.stage = "check" /\ Resumes /\ Expect(Returns)
        /\ UNCHANGED <<guard, guards, stop>>
        /\ SavedOrNot(t) /\ End(tx)
    BY <1>11 DEF Resumed, At, SavedOrNot
  <2>2. tx # None /\ tx' = t
    BY <2>1, <1>s DEF IInv, JInv, InSession
  <2>3. t.id = tx.id /\ t # None
    <3>1. tx \in Transaction /\ Returns \in Value
      BY <2>1, <2>2, <1>t DEF Returns, Resumes, Transaction
    <3>2. t \in Transaction /\ t.id = tx.id
      BY <3>1 DEF Transaction
    <3> QED
      BY <3>2, TransactionAssumption
  <2>4. Covered
    BY <2>1, <2>2 DEF Guarding, Counting, Covered, Restoring
  <2>5. Hears
    BY <2>1, <1>t, Expecting
  <2>6. call.op # "shutdown"
    BY <2>1 DEF Resumes, Closing
  <2>7. Excused => Excused'
    BY <1>t, <2>5, HeardExcused
  <2> HIDE DEF t
  <2> QED
    BY <2>1, <2>2, <2>3, <2>4, <2>5, <2>6, <2>7, Ended DEF InProgress, Restoring
<1>12. CASE Cleared
  <2>1. tx' = None /\ (call' = Idle \/ call' = VerifyCall)
    BY <1>12 DEF Cleared, Saved, Becomes, End
  <2> QED
    BY <2>1, <1>e DEF Open
<1>13. CASE Yields
  <2>1. tx' = [tx EXCEPT !.status = "conflict"] /\ (call' = Idle \/ call' = VerifyCall)
    BY <1>13, <1>s DEF Yields, End
  <2>2. tx \in Transaction
    BY <1>13, <1>t DEF Yields, At, IInv, JInv, InSession
  <2>3. ~Open'
    BY <2>1, <2>2 DEF Open, Transaction
  <2> QED
    BY <2>1, <2>3, <1>e
<1>14. CASE Throws /\ call.op \notin {"keep", "confirm"}
  <2>1. call' = Idle \/ call' = VerifyCall
    BY <1>14 DEF Throws, End
  <2>2. CASE tx # None /\ SavedOrNot(Recovery(tx))
    BY <2>1, <2>2, <1>r, <1>e
  <2>3. CASE UNCHANGED tx /\ (tx = None \/ tx.status = "conflict")
    BY <2>1, <2>3, <1>e DEF Open
  <2> QED
    BY <1>14, <2>2, <2>3 DEF Throws, sessionVars
<1>15. CASE RestoreFails \/ ReapFails
  <2>1. Throws /\ call.op \notin {"keep", "confirm"}
    BY <1>15, <1>t DEF RestoreFails, ReapFails, At, Restoring, Staged, StagesOf
  <2> QED
    BY <2>1, <1>14
<1>16. CASE ClearFails
  <2>1. CASE call.op = "keep"
    <3>1. End(tx) /\ UNCHANGED <<tx, guardVars>>
      BY <1>16, <2>1 DEF ClearFails, Throws, sessionVars
    <3>2. \E g \in Id : stop[g] = "failed"
      BY <1>16, <1>t DEF ClearFails, GuardType
    <3>3. Excused
      BY <2>1, <3>2 DEF KeepFailed, Excused, Guarding
    <3> QED
      BY <2>1, <3>1, <3>3, <1>q, Ended DEF InProgress, Covered
  <2>2. CASE call.op # "keep"
    <3>1. Throws /\ call.op # "confirm"
      BY <1>16, <1>t DEF ClearFails, Staged, StagesOf
    <3> QED
      BY <2>2, <3>1, <1>14
  <2> QED
    BY <2>1, <2>2
<1>17. CASE ShutdownRetires
  <2>1. CASE Throws
    BY <1>14, <1>17, <2>1 DEF ShutdownRetires, At
  <2>2. CASE End(tx) /\ UNCHANGED sessionVars
    BY <1>17, <1>e, <2>2 DEF ShutdownRetires, Closing, Open, End, sessionVars
  <2> QED
    BY <1>17, <2>1, <2>2 DEF ShutdownRetires
<1>18. CASE GuardFailsToStart \/ OldGuardStays \/ ApplyFails \/ ReadbackFails
  <2>1. /\ call.op = "activate" /\ Rollback /\ UNCHANGED guardVars
        /\ call.stage \in Changing
        /\ call.stage = "guard" => GuardFailsToStart
    BY <1>18 DEF GuardFailsToStart, OldGuardStays, ApplyFails, ReadbackFails, At, Changing
  <2>2. tx.back # None => \/ Excused
                          \/ Watches(tx.id) /\ call.old # tx.id
                          \/ guard = call.old /\ Watches(call.oldId)
    BY <2>1 DEF Guarding, Replacing
  <2> QED
    BY <2>1, <2>2, RolledBack
<1>19. CASE Secured
  <2>1. PICK g \in Id :
           /\ Fresh(g) /\ tx' = NewTransaction(g)
           /\ call' = [Idle EXCEPT !.op = "activate", !.stage = "guard",
                                   !.auto = call.auto, !.old = guard,
                                   !.oldId = IF tx = None THEN None ELSE tx.id]
           /\ UNCHANGED pending
    BY <1>19 DEF Secured, SaveThrows, Saved, Becomes
  <2>2. /\ call'.op = "activate" /\ call'.stage = "guard" /\ call'.old = guard
        /\ call'.oldId = (IF tx = None THEN None ELSE tx.id)
    BY <2>1 DEF Idle
  <2>3. UNCHANGED guardVars /\ call.op = "activate" /\ call.stage = "secure"
    BY <1>19 DEF Secured, At
  <2>4. /\ tx'.id = g /\ call'.auto = call.auto
        /\ tx'.back # None => tx # None /\ call.auto
    BY <2>1 DEF NewTransaction, Idle
  <2>5. call'.old # g /\ stop'[g] = "none"
    BY <2>1, <2>2, <2>3, <1>t, NoneAssumption DEF Fresh, KnownGuards, guardVars
  <2>6. ASSUME tx # None, call.auto
        PROVE  (guard' = call'.old /\ Watches(call.oldId)') \/ Excused'
    <3>1. Covered
      BY <2>3, <2>6 DEF Guarding, Counting, Covered, Opening
    <3>2. CASE Excused
      BY <2>3, <3>2, Quiet
    <3>3. CASE Watches(tx.id)
      <4>1. call'.oldId = tx.id /\ guard' = guard /\ stop' = stop /\ proc' = proc
        BY <2>2, <2>3, <2>6 DEF guardVars
      <4> QED
        BY <2>1, <2>2, <3>3, <4>1 DEF Watches, Running
    <3> QED
      BY <3>1, <3>2, <3>3 DEF Covered
  <2>7. Replacing'
    BY <2>2, <2>4, <2>5, <2>6 DEF Replacing
  <2> QED
    BY <2>2, <2>7 DEF Guarding, Counting, Opening
<1>20. CASE GuardReady
  <2>1. /\ call.op = "activate" /\ call.stage = "guard" /\ tx' = tx /\ guard' = tx.id
        /\ tx # None /\ tx.id \in Id /\ tx.id # None
    BY <1>20, <1>t DEF GuardReady, At, IInv, JInv, InSession, sessionVars
  <2>2. stop[tx.id] = "none" /\ call.old # tx.id /\ (tx.back # None => call.auto)
    BY <2>1 DEF Guarding, Replacing, Changing
  <2>3. /\ call'.op = "activate" /\ call'.stage \in {"apply", "retire"} /\ call'.old = call.old
        /\ call'.auto = call.auto
    <3>1. PICK stage \in {"apply", "retire"} : Goes(stage)
      BY <1>20 DEF GuardReady
    <3> QED
      BY <2>1, <3>1, <1>t DEF Goes, CallType, Call
  <2>4. proc'[tx.id] = NewGuard
    BY <1>20, <2>1, <2>2, <1>t DEF GuardReady, GuardType
  <2>5. stop'[tx.id] = "none"
    BY <1>20, <2>1, <2>2, <1>t DEF GuardReady, GuardType
  <2>6. ~proc'[tx.id].disarmed /\ proc'[tx.id].state = "watching"
    BY <2>4 DEF NewGuard, NoProcess
  <2>7. Watches(tx.id)'
    BY <2>1, <2>5, <2>6 DEF Watches, Running
  <2> QED
    BY <2>1, <2>2, <2>3, <2>7 DEF Guarding, Counting, Replacing, Opening
<1>21. CASE Restart
  <2>1. tx' = file /\ call' = Idle
    BY <1>21 DEF Restart
  <2> QED
    BY <2>1, <1>e DEF Fates, Open
<1>k. ~GuardReady /\ ~Restart /\ Excused => Excused'
  BY <1>t, ExcusedStays
<1>a. ASSUME NEW h \in Id,
             OnItsOwn(h), UNCHANGED <<tx, call>>, tx # None /\ Watches(tx.id) => Covered'
      PROVE  Guarding'
  BY <1>a, <1>t, <1>20, <1>21, GuardingAlone
<1>23. ASSUME NEW h \in Id, StopResolves(h) \/ StopRejects(h) PROVE Guarding'
  <2>1. UNCHANGED <<tx, call, pending>>
    BY <1>23 DEF StopResolves, StopRejects, sessionVars, callVars
  <2> QED
    BY <1>23, <2>1, <1>a, <1>t, WatchGoesOn DEF Covered, OnItsOwn
<1>24. ASSUME NEW h \in Id, Guard(h) \/ GuardDies(h) PROVE Guarding'
  <2>1. UNCHANGED <<tx, call, pending>>
    BY <1>24 DEF Guard, GuardExits, GuardLeaves, GuardRestores, GuardFails, GuardDies, NativeVars, sessionVars,
       callVars
  <2>2. Lives(h)
    BY <1>24, <1>t, GuardLives
  <2> QED
    BY <2>1, <2>2, <1>a, <1>t, WatchGoesOn DEF Covered, OnItsOwn
\* The end of another guard than that of the session is told.
<1>b. ASSUME NEW h \in Id, Tells(h), tx = None \/ tx.id # h, UNCHANGED <<tx, call, pending>>
      PROVE  Guarding'
  <2>1. tx # None /\ Watches(tx.id) => Watches(tx.id)'
    BY <1>b, <1>t DEF Tells, Watches, Running, GuardType
  <2> QED
    BY <1>b, <2>1, <1>a DEF Covered, OnItsOwn
<1>25. ASSUME NEW h \in Id, RestoreTold(h) PROVE Guarding'
  <2>1. Tells(h) /\ proc[h].state = "restored"
    BY <1>25, <1>t, EndIsTold DEF RestoreTold
  <2>2. CASE tx = None \/ tx.id # h
    BY <1>25, <2>1, <2>2, <1>b DEF RestoreTold, sessionVars
  <2>3. CASE tx # None /\ tx.id = h
    <3>1. CASE pending' = h /\ UNCHANGED <<call, sessionVars>>
      <4>1. Watches(tx.id) => Watches(tx.id)'
        <5>1. proc'[h].state = proc[h].state /\ proc'[h].disarmed = proc[h].disarmed
          BY <2>1 DEF Tells
        <5>2. tx' = tx
          BY <3>1 DEF sessionVars
        <5> QED
          BY <2>1, <2>3, <3>1, <5>1, <5>2 DEF Tells, Watches, Running
      <4> QED
        BY <2>1, <3>1, <4>1, <1>a DEF sessionVars, Covered, OnItsOwn
    <3>2. CASE call' = VerifyCall
      BY <3>2, Over, Calls0
    <3>3. CASE closing = "closed" /\ SavedOrNot(Recovery(tx)) /\ UNCHANGED <<call, pending>>
      <4>1. call'.op = "none" /\ call'.stage = "idle"
        BY <3>3, <1>t DEF Closing, InProgress, Staged, StagesOf
      <4>2. ~Open'
        BY <2>3, <3>3, <1>r
      <4> QED
        BY <4>1, <4>2 DEF Guarding, Counting, Replacing
    <3> QED
      BY <1>25, <2>3, <3>1, <3>2, <3>3 DEF RestoreTold
  <2> QED
    BY <2>2, <2>3
<1>26. ASSUME NEW h \in Id, FailureTold(h) PROVE Guarding'
  <2>1. Tells(h) /\ proc[h].state = "failed" /\ UNCHANGED <<call, pending>>
    BY <1>26, <1>t, EndIsTold DEF FailureTold, callVars
  <2>2. CASE tx = None \/ tx.id # h
    BY <1>26, <2>1, <2>2, <1>b DEF FailureTold, sessionVars
  <2>3. CASE tx # None /\ tx.id = h /\ proc[h].disarmed
    <3>1. UNCHANGED tx /\ ~Watches(tx.id)
      BY <1>26, <2>3 DEF FailureTold, sessionVars, Watches
    <3> QED
      BY <2>1, <3>1, <1>a DEF OnItsOwn
  <2>4. CASE tx # None /\ tx.id = h /\ ~proc[h].disarmed
    <3>1. tx' = Recovery(tx) /\ ~Open'
      BY <1>26, <2>4, <1>r, <1>s DEF FailureTold
    <3>2. tx'.id = tx.id /\ tx'.back = tx.back
      BY <2>4, <3>1, <1>t, Loaded
    <3> SUFFICES ASSUME ~GuardReady, ~Restart PROVE Guarding'
      BY <1>20, <1>21
    <3>3. Excused => Excused'
      BY <1>k
    <3>4. Covered /\ call.auto => Covered'
      <4>1. Watches(tx.id) /\ call.auto => DeathMissed'
        BY <1>26, <2>1, <2>4, <1>t DEF Watches, Tells, DeathMissed
      <4> QED
        BY <4>1, <3>3 DEF Covered, Excused
    <3>5. Counting' => Covered'
      <4>1. Counting' => Counting /\ call.auto
        BY <2>1, <2>4, <3>1, <3>2 DEF Counting, Resumes, Closing
      <4> QED
        BY <4>1, <3>4 DEF Guarding, Covered
    <3>7. Replacing'
      <4> SUFFICES ASSUME call.op = "activate", call.stage \in Changing
                   PROVE  /\ call.old # tx.id
                          /\ tx.back # None => call.auto
                          /\ call.stage = "guard" =>
                                /\ stop'[tx.id] = "none"
                                /\ tx.back # None => (guard' = call.old /\ Watches(call.oldId)') \/ Excused'
                          /\ call.stage # "guard" /\ tx.back # None => Covered'
        BY <2>1, <3>1, <3>2 DEF Replacing, Covered
      <4>1. /\ call.old # tx.id /\ (tx.back # None => call.auto)
            /\ call.stage = "guard" => stop'[tx.id] = "none"
            /\ call.stage # "guard" /\ tx.back # None => Covered
        BY <2>1 DEF Guarding, Replacing, Covered, Tells
      <4>2. ASSUME call.stage = "guard", tx.back # None
            PROVE  (guard' = call.old /\ Watches(call.oldId)') \/ Excused'
        BY <2>1, <4>2, <3>3, OldAlone DEF At, OnItsOwn
      <4> QED
        BY <3>4, <4>1, <4>2
    <3>6. call'.op = "keep" /\ guard' # None => proc'[guard'].disarmed
      BY <2>1, <1>t DEF Guarding, Tells, GuardType
    <3> QED
      BY <3>5, <3>6, <3>7 DEF Guarding, Covered
  <2> QED
    BY <2>2, <2>3, <2>4
<1>27. CASE Late \/ ShutdownCalled \/ (\E value \in Value : OthersChange(value)) \/ UNCHANGED vars
  BY <1>27, Undisturbed DEF Late, ShutdownCalled, OthersChange, vars, sessionVars, callVars
<1> QED
  BY <1>1, <1>2, <1>3, <1>4, <1>5, <1>6, <1>7, <1>8, <1>9, <1>10, <1>11, <1>12, <1>13, <1>15, <1>16, <1>17,
     <1>18, <1>19, <1>20, <1>21, <1>23, <1>24, <1>25, <1>26, <1>27
     DEF Next, Calls, Proceeds, Events

-----------------------------------------------------------------------------
(***************************************************************************)
(* The theorem                                                             *)
(***************************************************************************)
LEMMA GuardedInit == Init => GInv
BY NoProcessType DEF Init, GInv, Fates, Fate, Closing, Guarding, Counting, Replacing, Open, InProgress, At, Idle,
   NoProcess

LEMMA GuardedAlways ==
    ASSUME "write" \notin Faults
    PROVE  Spec => [](IInv /\ GInv)
<1>1. IInv /\ GInv /\ [Next]_vars => GInv'
  BY FatesStep, ClosingStep, GuardingStep DEF GInv
<1> QED
  BY <1>1, GuardedInit, Initially, Inductive, PTL DEF Spec

\* Between operations a session whose profile is on the display has its guard, or one that
\* has acted or died and is yet to be heard of: through switches, guards that do not start, do
\* not stop or die, failed helpers, the game watcher, outside changes and crashes, unless
\* keepCurrent() could not stop a guard or the death of the session's guard came while an
\* automatic operation was in progress. A write of the journal that fails would make this
\* false, so none does here.
THEOREM SessionsAreGuarded ==
    ASSUME "write" \notin Faults
    PROVE  Spec => []ChangeIsGuarded
<1>1. IInv /\ GInv => ChangeIsGuarded
  <2> SUFFICES ASSUME IInv, GInv, owed # None, ~InProgress, closing # "waiting", tx # None,
                      tx.status \in {"confirming", "active"}, ~KeepFailed, ~DeathMissed
               PROVE  /\ guard = tx.id /\ proc[guard].saved = owed
                      /\ \/ Running(guard) /\ ~proc[guard].disarmed
                         \/ proc[guard].state \in {"restored", "failed"} /\ ~proc[guard].told
    BY DEF ChangeIsGuarded
  <2>1. Watches(tx.id)
    BY DEF GInv, Guarding, Counting, Open, InProgress, Excused
  <2>2. pending # tx.id
    BY Facts DEF GInv, Closing
  <2>3. file # None /\ file.original = owed
    BY DEF IInv, JInv, Owing
  <2>4. proc[guard].saved = owed
    BY <2>1, <2>3 DEF Watches, IInv, JInv, KnownGuards
  <2> QED
    BY <2>1, <2>2, <2>4 DEF Watches
<1> QED
  BY <1>1, GuardedAlways, PTL
=============================================================================
