--------------------- MODULE ScheduledMaintenanceProofs ---------------------
(***************************************************************************)
(* Proofs about ScheduledMaintenance, for every number of overlapping runs *)
(* and every schedule, period, window and deferral. The inductive          *)
(* invariant relates the service's two dates, in memory and in its file,   *)
(* to what has really been done.                                           *)
(***************************************************************************)
EXTENDS ScheduledMaintenance, TLAPS

StoredOK == stored \in [schedule : Schedule, lastRunAt : Nat, deferredUntil : Nat]

\* lastRunAt is the last completion or the last change that starts anew.
LastRunIsServed ==
    /\ served <= lastRunAt /\ changed <= lastRunAt
    /\ lastRunAt \in {0, served, changed}
    /\ schedule.enabled => changed >= 0

\* A refusal is on disk with its deferral, and a deferral has a refusal behind
\* it, or a run that was completed after it.
DeferralIsRefusal ==
    /\ refused + Defer <= stored.deferredUntil
    /\ \A d \in {deferredUntil, stored.deferredUntil} :
          d <= refused + Defer \/ d <= served + Defer \/ d = 0

IInv ==
    /\ TypeOK /\ StoredOK
    /\ LastRunIsServed /\ DeferralIsRefusal /\ RunningMeansTask

-----------------------------------------------------------------------------
\* The dates and the clock are integers, and a deferral is not longer than the
\* window of an occurrence.
LEMMA Numbers ==
    ASSUME TypeOK
    PROVE  /\ Period \in Nat /\ Window \in Nat /\ Defer \in Nat /\ Never \in Int
           /\ Defer <= Window /\ Defer >= 1 /\ Never + Defer <= 0
           /\ now \in Nat /\ lastRunAt \in Nat /\ deferredUntil \in Nat
           /\ served \in Int /\ changed \in Int /\ refused \in Int
           /\ served <= now /\ changed <= now /\ refused <= now
           /\ lastRunAt <= now /\ deferredUntil <= now + Defer
           /\ PreviousOccurrence \in Int
<1>1. /\ Period \in Nat \ {0} /\ Window \in 1 .. Period - 1 /\ Defer \in 1 .. Window
      /\ Time \subseteq 0 .. Period - 1 /\ Horizon \in Nat
  BY TimeAssumption
<1>2. Never \in Int /\ Never + Defer <= 0
  BY <1>1 DEF Never
<1>3. now \in Nat /\ schedule.time \in Int
  <2>1. now \in Nat
    BY <1>1 DEF TypeOK
  <2>2. schedule.time \in Time
    BY DEF TypeOK, Schedule
  <2>3. schedule.time \in 0 .. Period - 1
    BY <1>1, <2>2
  <2> QED
    BY <1>1, <2>1, <2>3
<1>4. /\ served \in {Never} \cup 0 .. now /\ changed \in {Never} \cup 0 .. now
      /\ refused \in {Never} \cup 0 .. now
  BY DEF TypeOK
<1>5. PreviousOccurrence \in Int
  BY <1>1, <1>3 DEF PreviousOccurrence
<1>6. Never <= now
  BY <1>1, <1>2, <1>3
<1> QED
  BY <1>1, <1>2, <1>3, <1>4, <1>5, <1>6 DEF TypeOK

-----------------------------------------------------------------------------
\* What an action does to the calls of run(): each keeps to its forms, and a task
\* in progress is not lost.
TasksStay == \A i \in Run : run[i].pc = "task" => run'[i].pc = "task"

\* A refused call leaves a consistent schedule, on disk as in memory.
LEMMA RefusalKeeps ==
    ASSUME IInv, NEW source, Refuse(source), run' \in [Run -> Runs], TasksStay
    PROVE  IInv'
<1>n. /\ Defer \in Nat /\ Never \in Int /\ Never + Defer <= 0
      /\ now \in Nat /\ lastRunAt \in Nat /\ deferredUntil \in Nat
      /\ served \in Int /\ changed \in Int /\ refused \in Int /\ refused <= now
  BY Numbers DEF IInv
<1>1. TypeOK'
  BY <1>n DEF IInv, TypeOK, Refuse, Persist, memory, environment, StoredOK, Schedule
<1>2. StoredOK'
  BY <1>n DEF IInv, TypeOK, Refuse, Persist, memory, StoredOK
<1>3. LastRunIsServed'
  BY DEF IInv, LastRunIsServed, Refuse, memory
<1>4. DeferralIsRefusal'
  BY <1>n DEF IInv, TypeOK, StoredOK, DeferralIsRefusal, Refuse, DefersFor, Persist, memory
<1>5. RunningMeansTask'
  BY DEF IInv, RunningMeansTask, TasksStay, Refuse, memory
<1> QED
  BY <1>1, <1>2, <1>3, <1>4, <1>5 DEF IInv

\* A completed call leaves a consistent schedule, on disk as in memory; the first
\* of two to end clears `running` for both.
LEMMA CompletionKeeps ==
    ASSUME IInv, NEW i \in Run, Complete(i), deferredUntil' \in {0, deferredUntil},
           UNCHANGED <<environment, changed>>
    PROVE  IInv'
<1>n. /\ Defer \in Nat /\ Never \in Int /\ Never + Defer <= 0 /\ Never <= now
      /\ now \in Nat /\ lastRunAt \in Nat /\ deferredUntil \in Nat
      /\ served \in Int /\ changed \in Int /\ refused \in Int
      /\ changed <= now /\ refused <= now /\ deferredUntil <= now + Defer
  BY Numbers DEF IInv
<1>1. TypeOK'
  <2>1. run' \in [Run -> Runs]
    BY DEF IInv, TypeOK, Complete, Runs
  <2>2. /\ schedule' = schedule /\ now' = now /\ running' = FALSE
        /\ lastRunAt' = now /\ served' = now /\ refused' = Never /\ changed' = changed
        /\ ready' = ready /\ recording' = recording /\ awake' = awake
    BY DEF Complete, environment
  <2>3. deferredUntil' \in 0 .. now + Defer
    BY <1>n
  <2>4. /\ stored'.schedule = schedule' /\ stored'.lastRunAt = lastRunAt'
        /\ stored'.deferredUntil = deferredUntil'
    BY DEF Complete, Persist
  <2>5. /\ served' \in {Never} \cup 0 .. now' /\ changed' \in {Never} \cup 0 .. now'
        /\ refused' \in {Never} \cup 0 .. now'
    BY <1>n, <2>2 DEF IInv, TypeOK
  <2>6. /\ now' \in 0 .. Horizon /\ schedule' \in Schedule /\ lastRunAt' \in 0 .. now'
        /\ ready' \in BOOLEAN /\ recording' \in BOOLEAN /\ awake' \in BOOLEAN
    BY <1>n, <2>2 DEF IInv, TypeOK
  <2> QED
    BY <2>1, <2>2, <2>3, <2>4, <2>5, <2>6 DEF TypeOK
<1>2. StoredOK'
  BY <1>n DEF IInv, TypeOK, StoredOK, Complete, Persist
<1>3. LastRunIsServed'
  BY <1>n DEF IInv, LastRunIsServed, Complete
<1>4. DeferralIsRefusal'
  BY <1>n DEF DeferralIsRefusal, Complete, Persist, environment
<1>5. RunningMeansTask'
  BY DEF RunningMeansTask, Complete
<1> QED
  BY <1>1, <1>2, <1>3, <1>4, <1>5 DEF IInv

\* The dates that are possible now remain so.
LEMMA Later ==
    ASSUME NEW m \in Nat, NEW n \in Nat, m <= n, NEW d \in Nat
    PROVE  0 .. m \subseteq 0 .. n /\ 0 .. m + d \subseteq 0 .. n + d
OBVIOUS

\* A step that leaves the schedule, its dates and its file alone keeps IInv.
LEMMA QuietKeeps ==
    ASSUME IInv, UNCHANGED <<memory, stored, history>>, run' \in [Run -> Runs], TasksStay,
           now' \in 0 .. Horizon, now <= now', ready' \in BOOLEAN, recording' \in BOOLEAN,
           awake' \in BOOLEAN
    PROVE  IInv'
<1>n. /\ Defer \in Nat /\ Never \in Int
      /\ now \in Nat /\ lastRunAt \in Nat /\ deferredUntil \in Nat /\ now' \in Nat
      /\ served \in Int /\ changed \in Int /\ refused \in Int
  BY Numbers, TimeAssumption DEF IInv
<1>1. TypeOK'
  <2>1. /\ schedule' = schedule /\ lastRunAt' = lastRunAt /\ deferredUntil' = deferredUntil
        /\ running' = running /\ stored' = stored
        /\ served' = served /\ changed' = changed /\ refused' = refused
    BY DEF memory, history
  <2>2. /\ schedule' \in Schedule /\ running' \in BOOLEAN
        /\ stored'.schedule = schedule' /\ stored'.lastRunAt = lastRunAt'
        /\ ~running' => stored'.deferredUntil = deferredUntil'
    BY <2>1 DEF IInv, TypeOK
  <2>3. /\ lastRunAt \in 0 .. now /\ deferredUntil \in 0 .. now + Defer
        /\ served \in {Never} \cup 0 .. now /\ changed \in {Never} \cup 0 .. now
        /\ refused \in {Never} \cup 0 .. now
    BY DEF IInv, TypeOK
  <2>4. lastRunAt' \in 0 .. now' /\ deferredUntil' \in 0 .. now' + Defer
    <3>1. 0 .. now \subseteq 0 .. now' /\ 0 .. now + Defer \subseteq 0 .. now' + Defer
      BY <1>n, Later
    <3> QED
      BY <2>1, <2>3, <3>1
  <2>5. /\ served' \in {Never} \cup 0 .. now' /\ changed' \in {Never} \cup 0 .. now'
        /\ refused' \in {Never} \cup 0 .. now'
    <3>1. 0 .. now \subseteq 0 .. now'
      BY <1>n, Later
    <3> QED
      BY <2>1, <2>3, <3>1
  <2> QED
    BY <2>2, <2>4, <2>5 DEF TypeOK
<1> QED
  BY <1>1 DEF IInv, StoredOK, LastRunIsServed, DeferralIsRefusal, RunningMeansTask,
     TasksStay, memory, history, Schedule

-----------------------------------------------------------------------------
\* The two steps that start a call of run(), or refuse it on the spot.
LEMMA AskKeeps ==
    ASSUME IInv, NEW i \in Run, NEW source \in {"manual", "scheduled"}, Ask(i, source)
    PROVE  IInv'
<1>1. NeedsAdmin(schedule.tasks) \in BOOLEAN
  BY DEF NeedsAdmin
<1>2. now \in 0 .. Horizon /\ now <= now /\ ready \in BOOLEAN /\ recording \in BOOLEAN /\ awake \in BOOLEAN
  BY Numbers DEF IInv, TypeOK
<1>3. CASE GameActive
  <2>1. run' \in [Run -> Runs] /\ TasksStay /\ Refuse(source)
    BY <1>3 DEF Ask, IInv, TypeOK, TasksStay
  <2> QED
    BY <2>1, RefusalKeeps
<1>4. CASE ~GameActive
  <2>1. run' \in [Run -> Runs]
    BY <1>1, <1>4 DEF Ask, IInv, TypeOK, Runs
  <2>2. TasksStay
    BY <1>4 DEF Ask, IInv, TypeOK, TasksStay, NoRun
  <2>3. UNCHANGED <<memory, stored, history, environment>>
    BY <1>4 DEF Ask
  <2> QED
    BY <1>2, <2>1, <2>2, <2>3, QuietKeeps DEF environment
<1> QED
  BY <1>3, <1>4

LEMMA RefusedKeeps ==
    ASSUME IInv, NEW i \in Run, Refused(i) PROVE IInv'
<1>1. run' \in [Run -> Runs] /\ TasksStay
  BY DEF Refused, IInv, TypeOK, TasksStay, Runs
<1> QED
  BY <1>1, RefusalKeeps DEF Refused

LEMMA StartKeeps ==
    ASSUME IInv, NEW i \in Run, Start(i) PROVE IInv'
<1>1. CASE schedule.tasks = <<>>
  BY <1>1, CompletionKeeps DEF Start
<1>2. CASE schedule.tasks # <<>>
  <2>n. /\ Defer \in Nat /\ Never \in Int /\ now \in Nat
        /\ served \in Int /\ changed \in Int /\ refused \in Int
    BY Numbers DEF IInv
  <2>1. /\ UNCHANGED <<now, ready, recording, awake, schedule, lastRunAt, stored, served, refused, changed>>
        /\ running' = TRUE /\ deferredUntil' = 0
        /\ run' = [run EXCEPT ![i] = [pc |-> "task", index |-> 1]]
    BY <1>2 DEF Start, environment
  <2>2. TypeOK'
    BY <2>n, <2>1 DEF IInv, TypeOK, Runs, Schedule
  <2>3. StoredOK' /\ LastRunIsServed' /\ DeferralIsRefusal'
    BY <2>1 DEF IInv, StoredOK, LastRunIsServed, DeferralIsRefusal, Schedule
  <2>4. RunningMeansTask'
    BY <2>1 DEF RunningMeansTask, IInv, TypeOK
  <2> QED
    BY <2>2, <2>3, <2>4 DEF IInv
<1> QED
  BY <1>1, <1>2

LEMMA TaskEndsKeeps ==
    ASSUME IInv, NEW i \in Run, TaskEnds(i) PROVE IInv'
<1>1. CASE run[i].index < Len(schedule.tasks)
  <2>1. /\ UNCHANGED <<memory, stored, history, environment>>
        /\ run' = [run EXCEPT ![i].index = @ + 1]
    BY <1>1 DEF TaskEnds, history
  <2>2. run[i] \in [pc : {"task"}, index : Nat \ {0}]
    BY DEF TaskEnds, IInv, TypeOK, Runs, NoRun
  <2>3. run' \in [Run -> Runs]
    BY <2>1, <2>2 DEF IInv, TypeOK, Runs
  <2>4. TasksStay
    BY <2>1 DEF IInv, TypeOK, TasksStay, TaskEnds
  <2>5. now \in 0 .. Horizon /\ now <= now /\ ready \in BOOLEAN /\ recording \in BOOLEAN /\ awake \in BOOLEAN
    BY Numbers DEF IInv, TypeOK
  <2> QED
    BY <2>1, <2>3, <2>4, <2>5, QuietKeeps DEF environment
<1>2. CASE ~(run[i].index < Len(schedule.tasks))
  BY <1>2, CompletionKeeps DEF TaskEnds
<1> QED
  BY <1>1, <1>2

LEMMA UpdateKeeps ==
    ASSUME IInv, NEW new \in Schedule, UpdateSchedule(new) PROVE IInv'
<1>n. /\ Defer \in Nat /\ Never \in Int /\ Never + Defer <= 0 /\ Never <= now
      /\ now \in Nat /\ lastRunAt \in Nat /\ lastRunAt <= now
      /\ served \in Int /\ changed \in Int /\ refused \in Int
      /\ served <= now /\ changed <= now
  BY Numbers DEF IInv
<1>1. /\ schedule' = new /\ deferredUntil' = 0 /\ refused' = Never
      /\ UNCHANGED <<running, run, now, ready, recording, awake, served>>
      /\ stored' = [schedule |-> schedule', lastRunAt |-> lastRunAt',
                    deferredUntil |-> deferredUntil']
  BY DEF UpdateSchedule, Persist, environment
<1>2. \/ lastRunAt' = now /\ changed' = now
      \/ lastRunAt' = lastRunAt /\ changed' = changed /\ ~(new.enabled /\ ~schedule.enabled)
  BY DEF UpdateSchedule, StartsAnew
<1>3. TypeOK'
  BY <1>n, <1>1, <1>2 DEF IInv, TypeOK
<1>4. StoredOK'
  BY <1>n, <1>1, <1>2 DEF StoredOK
<1>5. LastRunIsServed'
  BY <1>n, <1>1, <1>2 DEF IInv, LastRunIsServed
<1>6. DeferralIsRefusal'
  BY <1>n, <1>1 DEF DeferralIsRefusal
<1>7. RunningMeansTask'
  BY <1>1 DEF IInv, RunningMeansTask
<1> QED
  BY <1>3, <1>4, <1>5, <1>6, <1>7 DEF IInv

\* The file holds all that a restart needs.
LEMMA RestartKeeps ==
    ASSUME IInv, Restart PROVE IInv'
<1>n. /\ Defer \in Nat /\ Never \in Int /\ now \in Nat
      /\ served \in Int /\ changed \in Int /\ refused \in Int /\ served <= now /\ refused <= now
  BY Numbers DEF IInv
<1>1. /\ schedule' = stored.schedule /\ lastRunAt' = stored.lastRunAt
      /\ deferredUntil' = stored.deferredUntil /\ running' = FALSE
      /\ run' = [i \in Run |-> NoRun] /\ ready' = FALSE /\ recording' = FALSE /\ awake' = TRUE
      /\ UNCHANGED <<stored, now, served, changed, refused>>
  BY DEF Restart, history
<1>2. schedule' = schedule /\ lastRunAt' = lastRunAt
  BY <1>1 DEF IInv, TypeOK
<1>3. deferredUntil' \in 0 .. now + Defer
  BY <1>n, <1>1 DEF IInv, StoredOK, DeferralIsRefusal
<1>4. run' \in [Run -> Runs]
  BY <1>1 DEF Runs
<1>5. TypeOK'
  BY <1>n, <1>1, <1>2, <1>3, <1>4 DEF IInv, TypeOK
<1>6. StoredOK' /\ LastRunIsServed' /\ DeferralIsRefusal' /\ RunningMeansTask'
  BY <1>1, <1>2 DEF IInv, StoredOK, LastRunIsServed, DeferralIsRefusal, RunningMeansTask
<1> QED
  BY <1>5, <1>6 DEF IInv

-----------------------------------------------------------------------------
LEMMA InitInv == Init => IInv
<1> SUFFICES ASSUME Init PROVE IInv
  OBVIOUS
<1>n. /\ Never \in Int /\ Never + Defer <= 0 /\ Never <= 0 /\ Defer \in Nat /\ Horizon \in Nat
  BY TimeAssumption DEF Never
<1>1. schedule \in Schedule /\ ~schedule.enabled
  BY DEF Init, Schedule
<1>2. stored = [schedule |-> schedule, lastRunAt |-> 0, deferredUntil |-> 0]
  BY DEF Init
<1>3. TypeOK
  <2>1. run \in [Run -> Runs]
    BY DEF Init, Runs
  <2>2. /\ now = 0 /\ lastRunAt = 0 /\ deferredUntil = 0 /\ running = FALSE
        /\ ready = FALSE /\ recording = FALSE /\ awake = TRUE
        /\ served = Never /\ changed = Never /\ refused = Never
    BY DEF Init
  <2>3. now \in 0 .. Horizon /\ lastRunAt \in 0 .. now /\ deferredUntil \in 0 .. now + Defer
    BY <1>n, <2>2
  <2>4. /\ stored.schedule = schedule /\ stored.lastRunAt = lastRunAt
        /\ stored.deferredUntil = deferredUntil
    BY <1>2, <2>2
  <2>5. {served, changed, refused} \subseteq {Never} \cup 0 .. now
    BY <2>2
  <2> QED
    BY <1>1, <2>1, <2>2, <2>3, <2>4, <2>5 DEF TypeOK
<1>4. StoredOK
  BY <1>1, <1>2 DEF StoredOK
<1> QED
  BY <1>n, <1>1, <1>2, <1>3, <1>4 DEF Init, IInv, LastRunIsServed, DeferralIsRefusal,
     RunningMeansTask

LEMMA StepInv == IInv /\ [Next]_vars => IInv'
<1> SUFFICES ASSUME IInv, [Next]_vars PROVE IInv'
  OBVIOUS
<1>n. /\ now \in Nat /\ now \in 0 .. Horizon /\ ready \in BOOLEAN /\ recording \in BOOLEAN /\ awake \in BOOLEAN
      /\ Horizon \in Nat
  BY Numbers, TimeAssumption DEF IInv, TypeOK
<1>1. ASSUME NEW i \in Run, RunNow(i) PROVE IInv'
  BY <1>1, AskKeeps DEF RunNow
<1>2. ASSUME NEW i \in Run, Tick(i) PROVE IInv'
  BY <1>2, AskKeeps DEF Tick
<1>3. ASSUME run' = run, UNCHANGED <<memory, stored, history>>, now' \in 0 .. Horizon,
             now <= now', ready' \in BOOLEAN, recording' \in BOOLEAN, awake' \in BOOLEAN
      PROVE  IInv'
  <2>1. run' \in [Run -> Runs] /\ TasksStay
    BY <1>3 DEF IInv, TypeOK, TasksStay
  <2> QED
    BY <1>3, <2>1, QuietKeeps
<1>4. CASE TimePasses
  BY <1>n, <1>3, <1>4 DEF TimePasses
<1>5. CASE BrokerChanges
  BY <1>n, <1>3, <1>5 DEF BrokerChanges
<1>6. CASE SessionChanges
  BY <1>n, <1>3, <1>6 DEF SessionChanges
<1>7. CASE Sleep
  <2>1. awake' \in BOOLEAN
    BY <1>7 DEF Sleep
  <2>2. now \in 0 .. Horizon /\ now <= now
    BY <1>n
  <2>3. /\ run' = run /\ UNCHANGED <<memory, stored, history>>
        /\ now' = now /\ ready' = ready /\ recording' = recording
    BY <1>7 DEF Sleep
  <2> QED
    BY <1>n, <1>3, <2>1, <2>2, <2>3
<1>8. CASE Wake
  BY <1>n, <1>3, <1>8 DEF Wake
<1>9. CASE UNCHANGED vars
  BY <1>n, <1>3, <1>9 DEF vars, environment
<1> QED
  BY <1>1, <1>2, <1>4, <1>5, <1>6, <1>7, <1>8, <1>9, RefusedKeeps, StartKeeps, TaskEndsKeeps,
     UpdateKeeps, RestartKeeps DEF Next

LEMMA Invariance == Spec => []IInv
  BY InitInv, StepInv, PTL DEF Spec

\* The variables of the schedule keep their types, the file is what memory says
\* whenever no run is at its tasks.
THEOREM TypeCorrect == Spec => []TypeOK
<1>1. IInv => TypeOK
  BY DEF IInv
<1> QED
  BY Invariance, <1>1, PTL

\* `running` is never left behind, for any number of overlapping calls of run().
THEOREM RunningMeansTaskHolds == Spec => []RunningMeansTask
<1>1. IInv => RunningMeansTask
  BY DEF IInv
<1> QED
  BY Invariance, <1>1, PTL

\* The timer asks only for what is owed, whatever the period, the window and the
\* deferral are: lastRunAt stands for every completed run and every change of the
\* schedule, and the deferral on disk outlives the refusal behind it.
THEOREM TimerAsksForOwedHolds == Spec => TimerAsksForOwed
<1>1. ASSUME IInv, [Next]_vars, NEW i \in Run, Scheduled(i)', ~Scheduled(i)
      PROVE  Owed
  <2>1. Due
    <3>1. /\ run' # run /\ run'[i] # run[i]
      BY <1>1 DEF Scheduled
    <3>2. run[i] \in Runs /\ run \in [Run -> Runs]
      BY <1>1 DEF IInv, TypeOK
    <3>3. ASSUME NEW j \in Run, RunNow(j) PROVE FALSE
      BY <1>1, <3>1, <3>2, <3>3 DEF RunNow, Ask, Scheduled
    <3>4. ASSUME NEW j \in Run, Refused(j) PROVE FALSE
      BY <1>1, <3>1, <3>2, <3>4 DEF Refused, Scheduled, NoRun
    <3>5. ASSUME NEW j \in Run, Start(j) PROVE FALSE
      BY <1>1, <3>1, <3>2, <3>5 DEF Start, Complete, Scheduled, NoRun
    <3>6. ASSUME NEW j \in Run, TaskEnds(j) PROVE FALSE
      <4>1. run' = [run EXCEPT ![j].index = @ + 1] \/ run' = [run EXCEPT ![j] = NoRun]
        BY <3>6 DEF TaskEnds, Complete
      <4>2. j = i /\ run[j].pc = "task"
        BY <3>1, <3>2, <3>6, <4>1 DEF TaskEnds
      <4>3. run[j] \in [pc : {"task"}, index : Nat \ {0}]
        BY <3>2, <4>2 DEF Runs, NoRun
      <4>4. run'[j].pc # "asking"
        BY <3>2, <4>1, <4>2, <4>3 DEF NoRun
      <4> QED
        BY <1>1, <4>2, <4>4 DEF Scheduled
    <3>7. ~Restart
      BY <1>1 DEF Restart, Scheduled, NoRun
    <3> QED
      BY <1>1, <3>1, <3>3, <3>4, <3>5, <3>6, <3>7 DEF Next, Tick, UpdateSchedule,
         TimePasses, Sleep, Wake, BrokerChanges, SessionChanges, vars
  <2>n. /\ Window \in Nat /\ Defer \in Nat /\ now \in Nat /\ lastRunAt \in Nat
        /\ deferredUntil \in Nat /\ served \in Int /\ changed \in Int /\ refused \in Int
        /\ PreviousOccurrence \in Int
    BY <1>1, Numbers DEF IInv
  <2>2. deferredUntil = stored.deferredUntil
    BY <1>1, <2>1 DEF Due, IInv, TypeOK
  <2>3. /\ served <= lastRunAt /\ changed <= lastRunAt
        /\ refused + Defer <= deferredUntil
    BY <1>1, <2>2 DEF IInv, LastRunIsServed, DeferralIsRefusal
  <2>4. /\ deferredUntil <= now /\ lastRunAt < PreviousOccurrence
        /\ now - PreviousOccurrence <= Window
    BY <2>1 DEF Due
  <2> QED
    BY <2>n, <2>3, <2>4 DEF Owed
<1>2. IInv /\ [Next]_vars =>
        [\A i \in Run : (Scheduled(i)' /\ ~Scheduled(i)) => Owed]_vars
  BY <1>1
<1> QED
  BY <1>2, Invariance, PTL DEF Spec, TimerAsksForOwed

\* A Nova that is awake passes no owed occurrence over in silence, however long it
\* was closed or asleep before, for any period, window and deferral.
THEOREM MissedOnlyWhenRefusedHolds == Spec => MissedOnlyWhenRefused
<1>1. ASSUME IInv, [Next]_vars, now' # now, awake,
             schedule.enabled, schedule.tasks # <<>>, now <= PreviousOccurrence + Window,
             PreviousOccurrence > served, PreviousOccurrence > changed
      PROVE  \/ now < refused + Defer \/ now < served + Defer
             \/ \E i \in Run : run[i].pc = "task" \/ Scheduled(i)
  <2>1. TimePasses
    BY <1>1 DEF Next, RunNow, Tick, Ask, Refuse, Refused, Start, TaskEnds, UpdateSchedule,
       Restart, Sleep, Wake, BrokerChanges, SessionChanges, vars, environment
  <2>2. CASE ~Due
    <3>n. /\ Window \in Nat /\ Defer \in Nat
          /\ now \in Nat /\ lastRunAt \in Nat /\ deferredUntil \in Nat
          /\ served \in Int /\ changed \in Int /\ refused \in Int
          /\ PreviousOccurrence \in Int
      BY <1>1, Numbers DEF IInv
    <3>1. lastRunAt < PreviousOccurrence
      <4>1. lastRunAt \in {0, served, changed} /\ changed >= 0 /\ changed <= lastRunAt
        BY <1>1 DEF IInv, LastRunIsServed
      <4> QED
        BY <1>1, <3>n, <4>1
    <3>2. now - PreviousOccurrence <= Window
      BY <1>1, <3>n
    <3>3. CASE running
      BY <1>1, <3>3 DEF IInv, RunningMeansTask
    <3>4. CASE ~(deferredUntil <= now)
      <4>1. deferredUntil <= refused + Defer \/ deferredUntil <= served + Defer
            \/ deferredUntil = 0
        BY <1>1 DEF IInv, DeferralIsRefusal
      <4> QED
        BY <3>n, <3>4, <4>1
    <3> QED
      BY <1>1, <2>2, <3>1, <3>2, <3>3, <3>4 DEF Due
  <2> QED
    BY <1>1, <2>1, <2>2 DEF TimePasses
<1> QED
  BY <1>1, Invariance, PTL DEF Spec, MissedOnlyWhenRefused
=============================================================================
