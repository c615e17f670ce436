------------------------ MODULE RestoreServiceProofs ------------------------
(***************************************************************************)
(* Proofs about RestoreService, for every set of jobs, callers and values, *)
(* every plan and every length of it. The inductive invariant IInv says,   *)
(* await by await, how the record in memory and the record in the journal  *)
(* stand to each other; the properties follow from it.                     *)
(***************************************************************************)
EXTENDS RestoreService, TLAPS

\* Two records agree on every step, or on every step but one.
SameSteps(r, q) == \A s \in Step : r.steps[s] = q.steps[s]
SameStepsBut(r, q, t) == \A s \in Step \ {t} : r.steps[s] = q.steps[s]

\* The loop has completed the steps before t and not begun those from u on.
Reached(r, t, u) ==
    /\ \A s \in Step : s < t => r.steps[s] = "completed"
    /\ \A s \in Step : s >= u => r.steps[s] = "pending"

\* How memory and journal stand at each await of the orchestrator.
AtAwait(r, d) ==
    /\ pc \in {"prepare", "savePrepared"} => d.status # "completed" /\ current = 1
    /\ pc = "savePrepared" => r.status = "prepared" /\ Reached(r, 1, 1)
    /\ pc = "admin" => /\ r.status = "prepared" /\ d.status = "prepared"
                       /\ SameSteps(r, d) /\ Reached(r, 1, 1) /\ current = 1
    /\ pc = "saveRunning" => /\ r.status = "running" /\ d.status = "prepared"
                             /\ SameSteps(r, d) /\ Reached(r, 1, 1) /\ current = 1
    /\ pc = "step" => /\ r.status = "running" /\ d.status = "running"
                      /\ SameSteps(r, d) /\ Reached(r, current, current)
    /\ pc \in {"saveStarted", "change", "script", "verify", "saveStep"} =>
          /\ r.status = "running" /\ d.status = "running" /\ current \in Step
          /\ SameStepsBut(r, d, current) /\ Reached(r, current, current + 1)
    /\ pc = "saveStarted" => r.steps[current] = "started"
    /\ pc \in {"change", "script", "verify"} => /\ r.steps[current] = "started"
                                                /\ d.steps[current] = "started"
    /\ pc = "saveStep" => r.steps[current] = "completed"
    /\ pc = "saveCompleted" => /\ r.status = "completed" /\ d.status = "running"
                               /\ SameSteps(r, d) /\ Reached(r, N + 1, N + 1)
    /\ pc = "saveFailed" =>
          /\ r.status = "failed" /\ d.status \in {"prepared", "running"}
          /\ \A s \in Step : d.steps[s] # "pending" => r.steps[s] # "pending"

ActiveInv == active # NoJob => AtAwait(jobs[active], disk[active])

\* What memory and journal know of a job, whoever is active: p is the state of
\* the process, r and d its two records, T the steps its run has touched.
JobOK(p, r, d, T) ==
    /\ p = "ready" /\ d.status # "absent" => r.status # "absent"
    /\ d.status = "completed" => r.status \in {"absent", "completed"}
    /\ d.status = "completed" => \A s \in Step : d.steps[s] = "completed"
    /\ \A s \in T : d.steps[s] # "pending"
    /\ InOrder(r) /\ InOrder(d)

RecordInv ==
    /\ process # "ready" => active = NoJob
    /\ ActiveInv
    /\ \A j \in Job : JobOK(process, jobs[j], disk[j], touched[j])

IInv ==
    /\ TypeOK
    /\ ExclusiveRestore
    /\ RecordInv
-----------------------------------------------------------------------------
\* What the plan's constants give.
LEMMA StepFacts ==
    /\ Step \subseteq 1..(N + 1)
    /\ N + 1 \in 1..(N + 1)
    /\ 1 \in 1..(N + 1)
    /\ \A s \in Step : s + 1 \in 1..(N + 1)
BY PlanAssumption DEF Step

LEMMA AbsentIsRecord == AbsentJob \in JobRecord
BY DEF AbsentJob, JobRecord, JobStatus, StepStatus

\* The record operators keep the type of a record.
LEMMA RecordOps ==
    ASSUME NEW r \in JobRecord
    PROVE  /\ Rearmed(r) \in JobRecord
           /\ Failed(r) \in JobRecord
           /\ \A st \in JobStatus : [r EXCEPT !.status = st] \in JobRecord
           /\ \A s \in Step, st \in StepStatus : [r EXCEPT !.steps[s] = st] \in JobRecord
BY DEF JobRecord, JobStatus, StepStatus, Rearmed, Failed

LEMMA TypeInit == Init => TypeOK
BY StepFacts, AbsentIsRecord DEF Init, TypeOK, GateTypeOK, GateInit, Owner, Await

\* Every step of the specification keeps the types.
LEMMA TypeStep ==
    ASSUME TypeOK, ExclusiveRestore, ActiveInv, [Next]_vars
    PROVE  TypeOK'
<1> USE StepFacts, AbsentIsRecord, RecordOps DEF TypeOK, GateTypeOK
<1>1. CASE Load
  <2>1. ASSUME NEW j \in Job, LoadTerminal(j) PROVE TypeOK'
    BY <2>1 DEF LoadTerminal, gateVars, systemVars, historyVars
  <2>2. ASSUME NEW j \in Job, LoadInProgress(j) PROVE TypeOK'
    <3>1. [disk[j] EXCEPT !.status = "interrupted"] \in JobRecord
      BY DEF JobStatus
    <3>2. /\ disk' = [disk EXCEPT ![j] = [disk[j] EXCEPT !.status = "interrupted"]]
          /\ jobs' = [jobs EXCEPT ![j] = [disk[j] EXCEPT !.status = "interrupted"]]
      BY <2>2 DEF LoadInProgress
    <3>3. disk' \in [Job -> JobRecord] /\ jobs' \in [Job -> JobRecord]
      BY <3>1, <3>2
    <3> QED BY <2>2, <3>3 DEF LoadInProgress, gateVars, systemVars, historyVars
  <2>3. CASE LoadFails
    BY <2>3 DEF LoadFails, gateVars, systemVars, historyVars
  <2>4. CASE Ready
    BY <2>4 DEF Ready, gateVars, systemVars, historyVars
  <2> QED BY <1>1, <2>1, <2>2, <2>3, <2>4 DEF Load
<1>2. ASSUME NEW j \in Job, Start(j) \/ Resume(j) PROVE TypeOK'
  BY <1>2 DEF Start, Resume, Take, BeginRestore, CanBegin, Owner, systemVars, Await
<1>3. CASE Orchestrate
  <2>0. pc # "idle" => active \in Job
    BY DEF ExclusiveRestore
  <2> USE DEF Await, systemVars, historyVars, gateVars
  <2>1. CASE PrepareFails \/ SaveFailedFails
    BY <2>1 DEF PrepareFails, SaveFailedFails, Leave, EndRestore, Owner
  <2>2. CASE PrepareDone
    BY <2>0, <2>2 DEF PrepareDone
  <2>3. CASE SavePrepared \/ SaveRunning \/ SaveStarted
    BY <2>0, <2>3 DEF SavePrepared, SaveRunning, SaveStarted, Write
  <2>4. CASE SavePreparedFails
    BY <2>0, <2>4 DEF SavePreparedFails, Leave, EndRestore, Owner
  <2>5. CASE AdminGranted \/ AllStepsDone
    <3>1. active \in Job
      BY <2>0, <2>5 DEF AdminGranted, AllStepsDone
    <3>2. \A st \in JobStatus : [jobs EXCEPT ![active].status = st] \in [Job -> JobRecord]
      BY <3>1
    <3> QED BY <2>5, <3>2 DEF AdminGranted, AllStepsDone, JobStatus
  <2>6. ASSUME Catch, pc # "idle" PROVE jobs' \in [Job -> JobRecord]
    BY <2>0, <2>6 DEF Catch
  <2>7. CASE AdminRefused \/ SaveFails \/ DetectionFails \/ VerificationFails
    <3>1. Catch /\ pc # "idle" /\ UNCHANGED <<gateVars, systemVars>>
      BY <2>7 DEF AdminRefused, SaveFails, DetectionFails, VerificationFails, AtStep
    <3> QED BY <2>6, <3>1 DEF Catch
  <2>8. ASSUME NEW st \in StepStatus, Mark(st), active \in Job, current \in Step
        PROVE  jobs' \in [Job -> JobRecord]
    BY <2>8 DEF Mark
  <2>9. CASE PassiveStep \/ AlreadyThere \/ NeedsChange \/ Verify
    <3>1. PICK st \in StepStatus : Mark(st)
      BY <2>9 DEF PassiveStep, AlreadyThere, NeedsChange, Verify, StepStatus
    <3>2. active \in Job /\ current \in Step
      BY <2>0, <2>9 DEF PassiveStep, AlreadyThere, NeedsChange, Verify, AtStep, ActiveInv, AtAwait, ExclusiveRestore
    <3>3. pc' \in Await
      BY <2>9 DEF PassiveStep, AlreadyThere, NeedsChange, Verify
    <3> QED BY <2>8, <3>1, <3>2, <3>3 DEF Mark
  <2>10. ASSUME pc \in {"change", "script", "verify", "saveStep"}
         PROVE  active \in Job /\ current \in Step
    BY <2>0, <2>10 DEF ActiveInv, AtAwait, ExclusiveRestore
  <2>11. ASSUME pc = "change", Kind[current] = "settings"
         PROVE  /\ Target[active][current] \in Value
                /\ [world EXCEPT ![current] = Target[active][current]] \in [Step -> Value]
                /\ [settingsFile EXCEPT ![current] = Target[active][current]] \in [Step -> Value]
    BY <2>10, <2>11, PlanAssumption
  <2>12. CASE ApplySettings
    <3>1. active \in Job /\ current \in Step /\ "completed" \in StepStatus
      BY <2>10, <2>12 DEF ApplySettings, StepStatus
    <3>2. jobs' \in [Job -> JobRecord]
      BY <2>12, <3>1 DEF ApplySettings
    <3>3. touched' \in [Job -> SUBSET Step]
      BY <2>12, <3>1 DEF ApplySettings, Touching
    <3> QED BY <2>11, <2>12, <3>2, <3>3 DEF ApplySettings
  <2>13. CASE ApplySettingsFails
    <3>1. active \in Job /\ current \in Step
      BY <2>10, <2>13 DEF ApplySettingsFails
    <3>2. jobs' \in [Job -> JobRecord]
      BY <2>13, <3>1 DEF ApplySettingsFails
    <3>3. touched' \in [Job -> SUBSET Step]
      BY <2>13, <3>1 DEF ApplySettingsFails, Touching
    <3>4. world' \in [Step -> Value] /\ settingsFile' \in [Step -> Value]
      BY <2>11, <2>13 DEF ApplySettingsFails
    <3> QED BY <2>13, <3>2, <3>3, <3>4 DEF ApplySettingsFails
  <2>14. CASE EnterScript
    BY <2>10, <2>14 DEF EnterScript, Enter, Touching
  <2>15. ASSUME NEW v \in Value, ScriptSucceeds(v) PROVE TypeOK'
    BY <2>10, <2>15 DEF ScriptSucceeds, Release
  <2>16. ASSUME NEW v \in Value, ScriptFails(v) PROVE TypeOK'
    <3>1. jobs' \in [Job -> JobRecord]
      BY <2>6, <2>16 DEF ScriptFails
    <3> QED BY <2>10, <2>16, <3>1 DEF ScriptFails, Release, Catch
  <2>17. CASE SaveStep
    BY <2>10, <2>17 DEF SaveStep, Write
  <2>18. CASE SaveCompleted \/ SaveFailed
    BY <2>0, <2>18 DEF SaveCompleted, SaveFailed, Write, Leave, EndRestore, Owner
  <2> QED BY <1>3, <2>1, <2>2, <2>3, <2>4, <2>5, <2>7, <2>9, <2>12, <2>13, <2>14,
             <2>15, <2>16, <2>17, <2>18 DEF Orchestrate
<1>4. CASE Environment
  <2> USE DEF processVars, systemVars, historyVars, gateVars
  <2>1. ASSUME NEW c \in Caller, CallerEnters(c) \/ CallerLeaves(c) PROVE TypeOK'
    BY <2>1 DEF CallerEnters, CallerLeaves, Enter, Release
  <2>2. ASSUME NEW c \in Caller, NEW s \in Step, NEW v \in Value, CallerChanges(c, s, v)
        PROVE  TypeOK'
    BY <2>2 DEF CallerChanges
  <2>3. CASE BackgroundBegins \/ BackgroundEnds
    BY <2>3 DEF BackgroundBegins, BackgroundEnds, BeginRestore, EndRestore, Owner
  <2>4. ASSUME NEW s \in Step, NEW v \in Value, SettingsPage(s, v) \/ Drift(s, v)
        PROVE  TypeOK'
    BY <2>4 DEF SettingsPage, Drift
  <2>5. CASE Restart
    BY <2>5 DEF Restart, Owner, Await
  <2> QED BY <1>4, <2>1, <2>2, <2>3, <2>4, <2>5 DEF Environment
<1>5. CASE UNCHANGED vars
  BY <1>5 DEF vars, gateVars, processVars, systemVars, historyVars
<1> QED BY <1>1, <1>2, <1>3, <1>4, <1>5 DEF Next

-----------------------------------------------------------------------------
LEMMA ExclusiveInit == Init => ExclusiveRestore
BY DEF Init, GateInit, ExclusiveRestore, HolderIsAlone

\* Every step keeps the gate and the orchestrator in step with each other.
LEMMA ExclusiveStep ==
    ASSUME TypeOK, ExclusiveRestore, [Next]_vars
    PROVE  ExclusiveRestore'
<1> USE RestoreCallAssumption, NoJobAssumption
    DEF ExclusiveRestore, HolderIsAlone, gateVars
<1>1. CASE Load
  BY <1>1 DEF Load, LoadTerminal, LoadInProgress, LoadFails, Ready
<1>2. ASSUME NEW j \in Job, Start(j) \/ Resume(j) PROVE ExclusiveRestore'
  BY <1>2 DEF Start, Resume, Take, BeginRestore, CanBegin
<1>3. CASE Orchestrate
  <2>1. CASE PrepareFails \/ SavePreparedFails \/ SaveCompleted \/ SaveFailed \/ SaveFailedFails
    BY <2>1 DEF PrepareFails, SavePreparedFails, SaveCompleted, SaveFailed, SaveFailedFails,
                Leave, EndRestore
  <2>2. CASE PrepareDone \/ SavePrepared \/ AdminGranted \/ SaveRunning
    BY <2>2 DEF PrepareDone, SavePrepared, AdminGranted, SaveRunning
  <2>3. CASE AdminRefused \/ SaveFails \/ DetectionFails \/ VerificationFails
    BY <2>3 DEF AdminRefused, SaveFails, DetectionFails, VerificationFails, AtStep, Catch
  <2>4. CASE PassiveStep \/ AlreadyThere \/ NeedsChange \/ Verify
    BY <2>4 DEF PassiveStep, AlreadyThere, NeedsChange, Verify, AtStep, Mark
  <2>5. CASE SaveStarted \/ ApplySettings \/ ApplySettingsFails \/ SaveStep \/ AllStepsDone
    BY <2>5 DEF SaveStarted, ApplySettings, ApplySettingsFails, SaveStep, AllStepsDone
  <2>6. CASE EnterScript
    BY <2>6 DEF EnterScript, Enter
  <2>7. ASSUME NEW v \in Value, ScriptSucceeds(v) \/ ScriptFails(v) PROVE ExclusiveRestore'
    BY <2>7 DEF ScriptSucceeds, ScriptFails, Release, Catch
  <2> QED BY <1>3, <2>1, <2>2, <2>3, <2>4, <2>5, <2>6, <2>7 DEF Orchestrate
<1>4. CASE Environment
  <2> USE DEF processVars
  <2>1. ASSUME NEW c \in Caller, CallerEnters(c) PROVE ExclusiveRestore'
    <3>1. owner = "none" /\ owner' = owner /\ running' = running \cup {c}
      BY <2>1 DEF CallerEnters, Enter, CanEnter, TypeOK, GateTypeOK, Owner
    <3> QED BY <2>1, <3>1 DEF CallerEnters
  <2>2. ASSUME NEW c \in Caller, CallerLeaves(c) PROVE ExclusiveRestore'
    BY <2>2 DEF CallerLeaves, Release
  <2>3. CASE BackgroundBegins \/ BackgroundEnds
    BY <2>3 DEF BackgroundBegins, BackgroundEnds, BeginRestore, CanBegin, EndRestore
  <2>4. ASSUME NEW s \in Step, NEW v \in Value, SettingsPage(s, v) \/ Drift(s, v)
        PROVE  ExclusiveRestore'
    BY <2>4 DEF SettingsPage, Drift
  <2>5. ASSUME NEW c \in Caller, NEW s \in Step, NEW v \in Value, CallerChanges(c, s, v)
        PROVE  ExclusiveRestore'
    BY <2>5 DEF CallerChanges
  <2>6. CASE Restart
    BY <2>6 DEF Restart
  <2> QED BY <1>4, <2>1, <2>2, <2>3, <2>4, <2>5, <2>6 DEF Environment
<1>5. CASE UNCHANGED vars
  BY <1>5 DEF vars, processVars
<1> QED BY <1>1, <1>2, <1>3, <1>4, <1>5 DEF Next

-----------------------------------------------------------------------------
\* A record whose loop stands at t is in order, and so is one that differs
\* from it in the current step only.
LEMMA InOrderFacts ==
    ASSUME NEW r \in JobRecord
    PROVE  /\ Reached(r, 1, 1) => InOrder(r)
           /\ InOrder(Rearmed(r))
           /\ InOrder(r) => InOrder(Failed(r))
           /\ InOrder(AbsentJob)
           /\ \A st \in JobStatus : InOrder(r) => InOrder([r EXCEPT !.status = st])
           /\ \A c \in Step, st \in StepStatus :
                 Reached(r, c, c) => InOrder([r EXCEPT !.steps[c] = st])
           /\ \A c \in Step : \A st \in StepStatus :
                 Reached(r, c, c + 1) => InOrder([r EXCEPT !.steps[c] = st])
BY PlanAssumption DEF InOrder, Reached, Rearmed, Failed, AbsentJob, JobRecord, Step, JobStatus, StepStatus

\* What the two operators on whole records do.
LEMMA RearmedFacts ==
    ASSUME NEW r \in JobRecord
    PROVE  /\ Rearmed(r).status = "prepared"
           /\ Reached(Rearmed(r), 1, 1)
BY PlanAssumption DEF Rearmed, JobRecord, Reached, Step

LEMMA FailedFacts ==
    ASSUME NEW r \in JobRecord
    PROVE  /\ Failed(r).status = "failed"
           /\ \A s \in Step : Failed(r).steps[s] = "pending" <=> r.steps[s] = "pending"
           /\ \A s \in Step : Failed(r).steps[s] = "completed" => r.steps[s] = "completed"
BY DEF Failed, JobRecord

LEMMA RecordInit == Init => RecordInv
BY AbsentIsRecord, InOrderFacts DEF Init, RecordInv, ActiveInv, JobOK, AbsentJob

\* A step of the orchestrator concerns one job: what it must show.
LEMMA OneJobChanges ==
    ASSUME TypeOK, RecordInv, active \in Job,
           active' = active \/ active' = NoJob,
           process' = "ready",
           \A j \in Job \ {active} : /\ jobs'[j] = jobs[j]
                                     /\ disk'[j] = disk[j]
                                     /\ touched'[j] = touched[j],
           JobOK("ready", jobs'[active], disk'[active], touched'[active]),
           active' = active => AtAwait(jobs[active], disk[active])'
    PROVE  RecordInv'
<1>1. process = "ready"
  BY NoJobAssumption DEF RecordInv
<1>2. \A j \in Job : JobOK(process, jobs[j], disk[j], touched[j])'
  BY <1>1 DEF RecordInv, JobOK, InOrder
<1>3. ActiveInv'
  BY DEF ActiveInv
<1> QED BY <1>2, <1>3 DEF RecordInv

\* The journal's loading, and whatever is not the orchestrator.
LEMMA RecordStepOthers ==
    ASSUME TypeOK, RecordInv, Load \/ Environment
    PROVE  RecordInv'
<1> USE AbsentIsRecord, InOrderFacts DEF RecordInv, TypeOK
<1>1. CASE Load
  <2>0. active = NoJob /\ process = "loading" /\ active' = active /\ touched' = touched
    BY <1>1 DEF Load, LoadTerminal, LoadInProgress, LoadFails, Ready, historyVars
  <2>1. ASSUME NEW j \in Job, LoadTerminal(j) PROVE RecordInv'
    BY <2>0, <2>1 DEF LoadTerminal, Terminal, ActiveInv, JobOK, OnDisk
  <2>2. ASSUME NEW j \in Job, LoadInProgress(j) PROVE RecordInv'
    <3>1. PICK r \in JobRecord : r = [disk[j] EXCEPT !.status = "interrupted"]
      BY RecordOps DEF JobStatus
    <3>2. r.status = "interrupted" /\ r.steps = disk[j].steps /\ InOrder(r)
      BY <3>1 DEF JobRecord, JobStatus, JobOK, InOrder
    <3>3. disk' = [disk EXCEPT ![j] = r] /\ jobs' = [jobs EXCEPT ![j] = r] /\ process' = process
      BY <2>2, <3>1 DEF LoadInProgress
    <3> QED BY <2>0, <3>2, <3>3 DEF ActiveInv, JobOK
  <2>3. CASE LoadFails
    BY <2>0, <2>3 DEF LoadFails, ActiveInv, JobOK
  <2>4. CASE Ready
    BY <2>0, <2>4 DEF Ready, ActiveInv, JobOK, OnDisk, Loaded
  <2> QED BY <1>1, <2>1, <2>2, <2>3, <2>4 DEF Load
<1>2. CASE Environment
  <2>1. CASE Restart
    BY <2>1 DEF Restart, historyVars, ActiveInv, JobOK, AbsentJob
  <2>2. CASE ~Restart
    <3>1. UNCHANGED <<processVars, disk, touched>>
      BY <1>2, <2>2 DEF Environment, CallerEnters, CallerLeaves, CallerChanges, BackgroundBegins,
         BackgroundEnds, SettingsPage, Drift, historyVars
    <3> QED BY <3>1 DEF processVars, ActiveInv, JobOK, AtAwait
  <2> QED BY <2>1, <2>2
<1> QED BY <1>1, <1>2

\* start() and resume() take a job the journal does not call completed.
LEMMA RecordStepTake ==
    ASSUME TypeOK, RecordInv, NEW j \in Job, Start(j) \/ Resume(j)
    PROVE  RecordInv'
<1>1. /\ Take(j)
      /\ jobs[j].status \in {"absent", "failed", "interrupted"}
  BY DEF Start, Resume
<1>2. /\ process = "ready" /\ process' = process /\ active' = j /\ pc' = "prepare" /\ current' = 1
      /\ jobs' = jobs /\ disk' = disk /\ touched' = touched
  BY <1>1 DEF Take
<1>3. disk[j].status # "completed"
  BY <1>1, <1>2 DEF RecordInv, JobOK
<1>4. AtAwait(jobs[j], disk[j])'
  BY <1>2, <1>3 DEF AtAwait
<1> QED BY <1>2, <1>4 DEF RecordInv, ActiveInv

\* The orchestrator, await by await.
LEMMA RecordStepOrchestrate ==
    ASSUME TypeOK, ExclusiveRestore, RecordInv, Orchestrate
    PROVE  RecordInv'
<1> DEFINE r == jobs[active]
           d == disk[active]
<1>0. /\ active \in Job /\ process = "ready"
      /\ AtAwait(r, d) /\ JobOK("ready", r, d, touched[active])
      /\ r \in JobRecord /\ d \in JobRecord
  <2>1. pc # "idle"
    BY DEF Orchestrate, PrepareFails, PrepareDone, SavePrepared, SavePreparedFails, AdminGranted,
       AdminRefused, SaveRunning, SaveFails, PassiveStep, AlreadyThere, NeedsChange,
       DetectionFails, SaveStarted, ApplySettings, ApplySettingsFails, EnterScript,
       ScriptSucceeds, ScriptFails, Verify, VerificationFails, SaveStep, AllStepsDone,
       SaveCompleted, SaveFailed, SaveFailedFails, AtStep
  <2>2. active \in Job /\ process = "ready"
    BY <2>1, NoJobAssumption DEF TypeOK, ExclusiveRestore, RecordInv
  <2> QED BY <2>2, NoJobAssumption DEF RecordInv, ActiveInv, TypeOK
<1>1. CASE PrepareFails \/ SaveFailedFails
  BY <1>0, <1>1, OneJobChanges, NoJobAssumption DEF PrepareFails, SaveFailedFails, Leave, historyVars
<1>2. CASE PrepareDone
  <2>1. /\ jobs' = [jobs EXCEPT ![active] = Rearmed(r)]
        /\ disk' = disk /\ touched' = touched /\ active' = active /\ process' = process
        /\ pc' = "savePrepared" /\ pc = "prepare" /\ current' = current
    BY <1>2 DEF PrepareDone, historyVars
  <2>2. jobs'[active] = Rearmed(r)
    BY <1>0, <2>1 DEF TypeOK
  <2>3. JobOK("ready", Rearmed(r), d, touched[active])
    BY <1>0, <2>1, RearmedFacts, InOrderFacts DEF JobOK, AtAwait
  <2>4. AtAwait(jobs[active], disk[active])'
    BY <1>0, <2>1, <2>2, RearmedFacts DEF AtAwait
  <2> QED BY <1>0, <2>1, <2>2, <2>3, <2>4, OneJobChanges DEF TypeOK
<1>3. CASE SavePrepared \/ SaveRunning \/ SaveStarted \/ SaveStep
  <2>1. /\ disk' = [disk EXCEPT ![active] = r]
        /\ jobs' = jobs /\ active' = active /\ process' = process
        /\ touched' = IF pc = "savePrepared" THEN [touched EXCEPT ![active] = {}] ELSE touched
        /\ \/ pc = "savePrepared" /\ pc' = "admin" /\ current' = current
           \/ pc = "saveRunning" /\ pc' = "step" /\ current' = current
           \/ pc = "saveStarted" /\ pc' = "change" /\ current' = current
           \/ pc = "saveStep" /\ pc' = "step" /\ current' = current + 1
    BY <1>3 DEF SavePrepared, SaveRunning, SaveStarted, SaveStep, Write, historyVars
  <2>2. disk'[active] = r
    BY <1>0, <2>1 DEF TypeOK
  <2>3. JobOK("ready", r, r, touched'[active])
    BY <1>0, <2>1 DEF JobOK, AtAwait, SameStepsBut, SameSteps, TypeOK
  <2>4. AtAwait(jobs[active], disk[active])'
    <3>1. jobs'[active'] = r /\ disk'[active'] = r
      BY <2>1, <2>2
    <3>2. CASE pc = "savePrepared"
      BY <1>0, <2>1, <3>1, <3>2 DEF AtAwait, SameSteps
    <3>3. CASE pc = "saveRunning"
      BY <1>0, <2>1, <3>1, <3>3 DEF AtAwait, SameSteps
    <3>4. CASE pc = "saveStarted"
      BY <1>0, <2>1, <3>1, <3>4 DEF AtAwait, SameStepsBut
    <3>5. CASE pc = "saveStep"
      <4>1. Reached(r, current + 1, current + 1)
        BY <1>0, <3>5, PlanAssumption DEF AtAwait, Reached, Step
      <4> QED BY <1>0, <2>1, <3>1, <3>5, <4>1 DEF AtAwait, SameSteps
    <3> QED BY <2>1, <3>2, <3>3, <3>4, <3>5
  <2> QED BY <1>0, <2>1, <2>2, <2>3, <2>4, OneJobChanges DEF TypeOK
<1>4. CASE SavePreparedFails
  <2>1. /\ disk' = disk /\ touched' = touched /\ process' = process /\ active' = NoJob
        /\ jobs' = [jobs EXCEPT ![active] = IF OnDisk(active) THEN r ELSE AbsentJob]
        /\ pc = "savePrepared"
    BY <1>4 DEF SavePreparedFails, Leave, historyVars
  <2>2. JobOK("ready", jobs'[active], d, touched[active])
    BY <1>0, <2>1, InOrderFacts DEF JobOK, OnDisk, AbsentJob, TypeOK
  <2> QED BY <1>0, <2>1, <2>2, OneJobChanges, NoJobAssumption DEF TypeOK
<1>5. CASE AdminGranted \/ AllStepsDone
  <2>1. PICK st \in {"running", "completed"} :
           /\ jobs' = [jobs EXCEPT ![active].status = st]
           /\ disk' = disk /\ touched' = touched /\ process' = process /\ active' = active
           /\ current' = current
           /\ \/ st = "running" /\ pc = "admin" /\ pc' = "saveRunning"
              \/ st = "completed" /\ pc = "step" /\ current = N + 1 /\ pc' = "saveCompleted"
    BY <1>5 DEF AdminGranted, AllStepsDone, historyVars
  <2>2. st \in JobStatus /\ jobs'[active] = [r EXCEPT !.status = st]
    BY <1>0, <2>1 DEF TypeOK, JobStatus
  <2>3. jobs'[active].status = st /\ jobs'[active].steps = r.steps /\ InOrder(jobs'[active])
    BY <1>0, <2>2, InOrderFacts DEF JobRecord, JobOK
  <2>4. JobOK("ready", jobs'[active], d, touched[active])
    BY <1>0, <2>1, <2>3 DEF JobOK, AtAwait
  <2>5. AtAwait(jobs[active], disk[active])'
    BY <1>0, <2>1, <2>3 DEF AtAwait, SameSteps, Reached
  <2> QED BY <1>0, <2>1, <2>4, <2>5, OneJobChanges DEF TypeOK
<1>6. CASE AdminRefused \/ SaveFails \/ DetectionFails \/ VerificationFails
           \/ ApplySettingsFails \/ \E v \in Value : ScriptFails(v)
  <2>1. /\ jobs' = [jobs EXCEPT ![active] = Failed(r)]
        /\ disk' = disk /\ process' = process /\ active' = active
        /\ pc' = "saveFailed"
        /\ pc \in {"admin", "saveRunning", "step", "saveStarted", "change", "script",
                  "verify", "saveStep", "saveCompleted"}
        /\ \/ touched' = touched
           \/ pc = "change" /\ touched' = [touched EXCEPT ![active] = @ \cup {current}]
    BY <1>6 DEF AdminRefused, SaveFails, DetectionFails, VerificationFails, ApplySettingsFails,
                ScriptFails, Catch, AtStep, Touching, historyVars
  <2>2. jobs'[active] = Failed(r)
    BY <1>0, <2>1 DEF TypeOK
  <2>3. JobOK("ready", Failed(r), d, touched'[active])
    BY <1>0, <2>1, FailedFacts, InOrderFacts DEF JobOK, AtAwait, TypeOK
  <2>4. \A s \in Step : d.steps[s] # "pending" => r.steps[s] # "pending"
    BY <1>0, <2>1 DEF AtAwait, SameSteps, SameStepsBut
  <2>5. AtAwait(jobs[active], disk[active])'
    BY <1>0, <2>1, <2>2, <2>4, FailedFacts DEF AtAwait
  <2> QED BY <1>0, <2>1, <2>2, <2>3, <2>5, OneJobChanges DEF TypeOK
<1>7. CASE PassiveStep \/ AlreadyThere \/ NeedsChange \/ Verify \/ ApplySettings
  <2>1. PICK st \in {"started", "completed"} :
           /\ jobs' = [jobs EXCEPT ![active].steps[current] = st]
           /\ disk' = disk /\ process' = process /\ active' = active /\ current' = current
           /\ current \in Step
           /\ \/ pc \in {"step", "verify"} /\ touched' = touched
              \/ pc = "change" /\ touched' = [touched EXCEPT ![active] = @ \cup {current}]
           /\ \/ pc = "step" /\ st = "started" /\ pc' = "saveStarted"
              \/ st = "completed" /\ pc' = "saveStep"
    BY <1>0, <1>7 DEF PassiveStep, AlreadyThere, NeedsChange, Verify, ApplySettings, Mark, AtStep,
                AtAwait, Touching, historyVars
  <2>2. jobs'[active] = [r EXCEPT !.steps[current] = st] /\ st \in StepStatus
    BY <1>0, <2>1 DEF TypeOK, StepStatus
  <2>3. /\ jobs'[active].status = r.status
        /\ jobs'[active].steps[current] = st
        /\ \A s \in Step \ {current} : jobs'[active].steps[s] = r.steps[s]
    BY <1>0, <2>1, <2>2 DEF JobRecord
  <2>4. Reached(r, current, current + 1)
    BY <1>0, <2>1, PlanAssumption DEF AtAwait, Reached, Step
  <2>5. JobOK("ready", jobs'[active], d, touched'[active])
    BY <1>0, <2>1, <2>2, <2>3, <2>4, InOrderFacts DEF JobOK, AtAwait, TypeOK
  <2>6. Reached(jobs'[active], current, current + 1)
    BY <2>1, <2>3, <2>4, PlanAssumption DEF Reached, Step
  <2>7. SameStepsBut(jobs'[active], d, current)
    BY <1>0, <2>1, <2>3 DEF AtAwait, SameSteps, SameStepsBut
  <2>8. AtAwait(jobs[active], disk[active])'
    BY <1>0, <2>1, <2>3, <2>6, <2>7 DEF AtAwait
  <2> QED BY <1>0, <2>1, <2>5, <2>8, OneJobChanges DEF TypeOK
<1>8. CASE EnterScript \/ \E v \in Value : ScriptSucceeds(v)
  <2>1. /\ jobs' = jobs /\ disk' = disk /\ process' = process /\ active' = active
        /\ current' = current
        /\ \/ pc = "change" /\ pc' = "script" /\ touched' = [touched EXCEPT ![active] = @ \cup {current}]
           \/ pc = "script" /\ pc' = "verify" /\ touched' = touched
    BY <1>8 DEF EnterScript, ScriptSucceeds, Touching, historyVars
  <2>2. JobOK("ready", r, d, touched'[active])
    BY <1>0, <2>1 DEF JobOK, AtAwait, TypeOK
  <2>3. AtAwait(jobs[active], disk[active])'
    BY <1>0, <2>1 DEF AtAwait
  <2> QED BY <1>0, <2>1, <2>2, <2>3, OneJobChanges DEF TypeOK
<1>9. CASE SaveCompleted \/ SaveFailed
  <2>1. /\ disk' = [disk EXCEPT ![active] = r]
        /\ jobs' = jobs /\ process' = process /\ active' = NoJob /\ touched' = touched
        /\ pc \in {"saveCompleted", "saveFailed"}
    BY <1>9 DEF SaveCompleted, SaveFailed, Write, Leave, historyVars
  <2>2. disk'[active] = r
    BY <1>0, <2>1 DEF TypeOK
  <2>3. JobOK("ready", r, r, touched[active])
    <3>1. N \in Nat
      BY PlanAssumption
    <3>2. pc = "saveCompleted" => r.status = "completed" /\ \A s \in Step : r.steps[s] = "completed"
      BY <1>0, <2>1, <3>1 DEF AtAwait, Reached, Step
    <3>3. pc = "saveFailed" => r.status # "completed" /\ r.status # "absent"
      BY <1>0, <2>1 DEF AtAwait
    <3>4. \A s \in touched[active] : r.steps[s] # "pending"
      <4>1. touched[active] \subseteq Step
        BY <1>0 DEF TypeOK
      <4>2. \A s \in touched[active] : d.steps[s] # "pending"
        BY <1>0 DEF JobOK
      <4>3. CASE pc = "saveCompleted"
        BY <4>1, <4>3, <3>2
      <4>4. CASE pc = "saveFailed"
        <5>1. \A s \in Step : d.steps[s] # "pending" => r.steps[s] # "pending"
          BY <1>0, <4>4 DEF AtAwait
        <5> QED BY <4>1, <4>2, <5>1
      <4> QED BY <2>1, <4>3, <4>4
    <3>5. InOrder(r)
      BY <1>0 DEF JobOK
    <3> QED BY <2>1, <3>2, <3>3, <3>4, <3>5 DEF JobOK
  <2> QED BY <1>0, <2>1, <2>2, <2>3, OneJobChanges, NoJobAssumption DEF TypeOK
<1> QED BY <1>1, <1>2, <1>3, <1>4, <1>5, <1>6, <1>7, <1>8, <1>9 DEF Orchestrate

-----------------------------------------------------------------------------
LEMMA InvStep ==
    ASSUME IInv, [Next]_vars
    PROVE  IInv'
<1> USE DEF IInv
<1>1. TypeOK' /\ ExclusiveRestore'
  BY TypeStep, ExclusiveStep DEF RecordInv
<1>2. RecordInv'
  <2>1. CASE UNCHANGED vars
    BY <2>1 DEF vars, processVars, historyVars, RecordInv, ActiveInv, AtAwait, JobOK
  <2> QED BY <2>1, RecordStepOthers, RecordStepTake, RecordStepOrchestrate DEF Next
<1> QED BY <1>1, <1>2

\* The inductive invariant holds in every reachable state.
THEOREM Invariance == Spec => []IInv
<1>1. Init => IInv
  BY TypeInit, ExclusiveInit, RecordInit DEF IInv
<1>2. IInv /\ [Next]_vars => IInv'
  BY InvStep
<1> QED BY <1>1, <1>2, PTL DEF Spec

\* The types of restoreService.js's state, for every plan and every set of jobs.
THEOREM TypeCorrect == Spec => []TypeOK
<1>1. IInv => TypeOK
  BY DEF IInv
<1> QED BY <1>1, Invariance, PTL

\* The gate: start(), resume() and execute() hold it exactly while a restore is
\* active, and nobody else is inside executionGate.js's counter meanwhile.
THEOREM Exclusive == Spec => []ExclusiveRestore
<1>1. IInv => ExclusiveRestore
  BY DEF IInv
<1> QED BY <1>1, Invariance, PTL

\* Write-ahead: what a run of execute() may have changed is in the journal.
THEOREM WriteAhead == Spec => []TouchedIsJournaled
<1>1. IInv => TouchedIsJournaled
  BY DEF IInv, RecordInv, JobOK, TouchedIsJournaled
<1> QED BY <1>1, Invariance, PTL

\* The loop of execute() never goes past the step that failed.
THEOREM Ordered == Spec => []FirstErrorStops
<1>1. IInv => FirstErrorStops
  BY DEF IInv, RecordInv, JobOK, FirstErrorStops
<1> QED BY <1>1, Invariance, PTL

-----------------------------------------------------------------------------
\* The steps that change the journal, or what has been touched.
LEMMA JournalSteps ==
    ASSUME [Next]_vars
    PROVE  \/ disk' = disk /\ touched' = touched
           \/ \E j \in Job : LoadInProgress(j)
           \/ Touching /\ disk' = disk /\ pc = "change"
           \/ SavePrepared \/ SaveRunning \/ SaveStarted \/ SaveStep
           \/ SaveCompleted \/ SaveFailed
<1> USE DEF historyVars
<1>1. CASE Load
  BY <1>1 DEF Load, LoadTerminal, LoadFails, Ready
<1>2. ASSUME NEW j \in Job, Start(j) \/ Resume(j) PROVE disk' = disk /\ touched' = touched
  BY <1>2 DEF Start, Resume, Take
<1>3. CASE Orchestrate
  BY <1>3 DEF Orchestrate, PrepareFails, PrepareDone, SavePreparedFails, AdminGranted,
     AdminRefused, SaveFails, PassiveStep, AlreadyThere, NeedsChange, DetectionFails,
     ApplySettings, ApplySettingsFails, EnterScript, ScriptSucceeds, ScriptFails, Verify,
     VerificationFails, AllStepsDone, SaveFailedFails, Catch, Mark
<1>4. CASE Environment
  BY <1>4 DEF Environment, CallerEnters, CallerLeaves, CallerChanges, BackgroundBegins,
     BackgroundEnds, SettingsPage, Drift, Restart
<1>5. CASE UNCHANGED vars
  BY <1>5 DEF vars
<1> QED BY <1>1, <1>2, <1>3, <1>4, <1>5 DEF Next

\* A record the journal calls completed has all its steps completed and is never
\* written again.
THEOREM Final == Spec => CompletedIsFinal
<1>1. ASSUME IInv, [Next]_vars, NEW j \in Job, disk[j].status = "completed"
      PROVE  (\A s \in Step : disk[j].steps[s] = "completed") /\ disk'[j] = disk[j]
  <2>1. \A s \in Step : disk[j].steps[s] = "completed"
    BY <1>1 DEF IInv, RecordInv, JobOK
  <2>2. CASE disk' = disk
    BY <2>1, <2>2
  <2>3. CASE \E k \in Job : LoadInProgress(k)
    BY <1>1, <2>1, <2>3 DEF LoadInProgress, Terminal, IInv, TypeOK
  <2>4. CASE SavePrepared \/ SaveRunning \/ SaveStarted \/ SaveStep \/ SaveCompleted \/ SaveFailed
    <3>0. /\ Write
          /\ pc \in {"savePrepared", "saveRunning", "saveStarted", "saveStep",
                    "saveCompleted", "saveFailed"}
      BY <2>4 DEF SavePrepared, SaveRunning, SaveStarted, SaveStep, SaveCompleted, SaveFailed
    <3>1. active \in Job /\ disk[active].status # "completed"
      BY <1>1, <3>0, NoJobAssumption DEF IInv, RecordInv, ActiveInv, AtAwait, ExclusiveRestore, TypeOK
    <3> QED BY <1>1, <2>1, <3>0, <3>1 DEF Write, IInv, TypeOK
  <2> QED BY <1>1, <2>2, <2>3, <2>4, JournalSteps
<1>2. IInv /\ [Next]_vars =>
        [\A j \in Job : disk[j].status = "completed" =>
            /\ \A s \in Step : disk[j].steps[s] = "completed"
            /\ disk'[j] = disk[j]]_disk
  BY <1>1
<1> QED BY <1>2, Invariance, PTL DEF Spec, CompletedIsFinal

-----------------------------------------------------------------------------
(***************************************************************************)
(* The refinement: every step is a step of WriteAheadRestore or none.      *)
(***************************************************************************)
bar(dk) == [j \in Job |-> JournalState(dk[j])]
announcedBar(dk) == [j \in Job |-> NotPending(dk[j])]

\* The steps that are no step of the abstract specification.
LEMMA Stutter ==
    ASSUME disk' = disk, touched' = touched
    PROVE  UNCHANGED WAL!walVars
BY DEF WAL!walVars

\* A write of the active job's record is the abstract action its status says.
LEMMA WriteImplements ==
    ASSUME IInv, IInv', Write, active \in Job,
           pc \in {"savePrepared", "saveRunning", "saveStarted", "saveStep",
                  "saveCompleted", "saveFailed"},
           touched' = IF pc = "savePrepared" THEN [touched EXCEPT ![active] = {}] ELSE touched
    PROVE  [WAL!WALNext]_(WAL!walVars)
<1> DEFINE r == jobs[active]
           d == disk[active]
<1>0. /\ AtAwait(r, d) /\ r \in JobRecord /\ d \in JobRecord
      /\ disk' = [disk EXCEPT ![active] = r]
      /\ touched \in [Job -> SUBSET Step]
  BY NoJobAssumption DEF IInv, RecordInv, ActiveInv, TypeOK, Write
<1>1. /\ bar(disk') = [bar(disk) EXCEPT ![active] = JournalState(r)]
      /\ announcedBar(disk') = [announcedBar(disk) EXCEPT ![active] = NotPending(r)]
  BY <1>0 DEF bar, announcedBar, IInv, TypeOK
<1>2. bar(disk)[active] = JournalState(d) /\ announcedBar(disk)[active] = NotPending(d)
  BY DEF bar, announcedBar
<1> USE DEF WAL!WALNext, bar, announcedBar
<1>3. CASE pc = "savePrepared"
  <2>1. JournalState(r) = "open" /\ NotPending(r) = {} /\ JournalState(d) # "done"
    BY <1>0, <1>3, PlanAssumption DEF AtAwait, JournalState, NotPending, Reached, Step, JobRecord, JobStatus
  <2>2. WAL!Open(active)
    BY <1>0, <1>1, <1>2, <1>3, <2>1 DEF WAL!Open
  <2> QED BY <2>2
<1>4. CASE pc = "saveRunning"
  <2>1. JournalState(r) = JournalState(d) /\ NotPending(r) = NotPending(d)
    BY <1>0, <1>4 DEF AtAwait, JournalState, NotPending, SameSteps
  <2>2. bar(disk') = bar(disk) /\ announcedBar(disk') = announcedBar(disk)
    BY <1>1, <1>2, <2>1
  <2> QED BY <1>4, <2>2 DEF WAL!walVars
<1>5. CASE pc \in {"saveStarted", "saveStep"}
  <2>1. /\ JournalState(r) = "open" /\ JournalState(d) = "open" /\ current \in Step
        /\ NotPending(r) = NotPending(d) \cup {current}
    BY <1>0, <1>5 DEF AtAwait, JournalState, NotPending, SameStepsBut
  <2>2. bar(disk') = bar(disk)
    BY <1>1, <1>2, <2>1
  <2>3. WAL!Announce(active, current)
    BY <1>0, <1>1, <1>2, <1>5, <2>1, <2>2 DEF WAL!Announce
  <2> QED BY <2>1, <2>3
<1>6. CASE pc = "saveCompleted"
  <2>0. \A s \in Step : r.steps[s] = "completed" /\ d.steps[s] = "completed"
    BY <1>0, <1>6, PlanAssumption DEF AtAwait, SameSteps, Reached, Step
  <2>1. /\ JournalState(r) = "done" /\ JournalState(d) = "open"
        /\ NotPending(r) = Step /\ NotPending(d) = Step
    BY <1>0, <1>6, <2>0 DEF AtAwait, JournalState, NotPending
  <2>2. announcedBar(disk') = announcedBar(disk)
    BY <1>1, <1>2, <2>1
  <2>3. WAL!Finish(active)
    BY <1>0, <1>1, <1>2, <1>6, <2>1, <2>2 DEF WAL!Finish
  <2> QED BY <2>3
<1>7. CASE pc = "saveFailed"
  <2>1. /\ JournalState(r) = "stopped" /\ JournalState(d) = "open"
        /\ NotPending(r) = NotPending(d) \cup NotPending(r)
        /\ NotPending(r) \in SUBSET Step
    BY <1>0, <1>7 DEF AtAwait, JournalState, NotPending
  <2>2. WAL!Stop(active)
    BY <1>0, <1>1, <1>2, <1>7, <2>1 DEF WAL!Stop
  <2> QED BY <2>2
<1> QED BY <1>3, <1>4, <1>5, <1>6, <1>7

THEOREM Refinement == Spec => ImplementsWriteAhead
<1>1. Init => WAL!WALInit
  BY DEF Init, WAL!WALInit, AbsentJob, JournalState, NotPending
<1>2. ASSUME IInv, IInv', [Next]_vars
      PROVE  [WAL!WALNext]_(WAL!walVars)
  <2> USE <1>2
  <2>0. pc # "idle" => active \in Job /\ AtAwait(jobs[active], disk[active])
    BY NoJobAssumption DEF IInv, RecordInv, ActiveInv, ExclusiveRestore, TypeOK
  <2>1. CASE disk' = disk /\ touched' = touched
    BY <2>1, Stutter
  <2>2. ASSUME NEW j \in Job, LoadInProgress(j)
        PROVE  [WAL!WALNext]_(WAL!walVars)
    <3>1. /\ JournalState(disk[j]) = "open"
          /\ disk' = [disk EXCEPT ![j].status = "interrupted"]
          /\ touched' = touched
      BY <2>2 DEF LoadInProgress, historyVars, OnDisk, Terminal, JournalState, IInv, TypeOK,
                  JobRecord, JobStatus
    <3>2. /\ bar(disk') = [bar(disk) EXCEPT ![j] = "stopped"]
          /\ announcedBar(disk') = [announcedBar(disk) EXCEPT ![j] = @ \cup {}]
      <4>1. /\ disk'[j].status = "interrupted" /\ disk'[j].steps = disk[j].steps
            /\ \A k \in Job \ {j} : disk'[k] = disk[k]
        BY <3>1 DEF IInv, TypeOK, JobRecord
      <4>2. JournalState(disk'[j]) = "stopped" /\ NotPending(disk'[j]) = NotPending(disk[j])
        BY <4>1 DEF JournalState, NotPending
      <4> QED BY <4>1, <4>2 DEF bar, announcedBar
    <3>3. WAL!Stop(j)
      BY <3>1, <3>2 DEF WAL!Stop, bar, announcedBar
    <3> QED BY <3>3 DEF WAL!WALNext
  <2>3. CASE Touching /\ disk' = disk /\ pc = "change"
    <3>1. /\ JournalState(disk[active]) = "open" /\ active \in Job /\ current \in Step
          /\ current \in NotPending(disk[active])
      BY <2>0, <2>3 DEF AtAwait, JournalState, NotPending
    <3>2. WAL!Touch(active, current)
      BY <2>3, <3>1 DEF WAL!Touch, Touching
    <3> QED BY <3>1, <3>2 DEF WAL!WALNext
  <2>4. CASE SavePrepared \/ SaveRunning \/ SaveStarted \/ SaveStep \/ SaveCompleted \/ SaveFailed
    <3>1. /\ Write
          /\ pc \in {"savePrepared", "saveRunning", "saveStarted", "saveStep",
                    "saveCompleted", "saveFailed"}
          /\ touched' = IF pc = "savePrepared" THEN [touched EXCEPT ![active] = {}] ELSE touched
      BY <2>4 DEF SavePrepared, SaveRunning, SaveStarted, SaveStep, SaveCompleted, SaveFailed, historyVars
    <3> QED BY <2>0, <3>1, WriteImplements
  <2> QED BY <2>1, <2>2, <2>3, <2>4, JournalSteps
<1> QED BY <1>1, <1>2, Invariance, PTL DEF Spec, ImplementsWriteAhead, WAL!WALSpec

-----------------------------------------------------------------------------
(***************************************************************************)
(* A completed step stays at its target while the restore runs.            *)
(***************************************************************************)

\* A step that leaves the world alone and completes nothing.
LEMMA NothingCompleted ==
    ASSUME CompletedStaysRestored, active' = active, active \in Job,
           pc' # "prepare" => pc # "prepare",
           world' = world, drifted \subseteq drifted',
           \A s \in Step : jobs'[active].steps[s] = "completed" => jobs[active].steps[s] = "completed"
    PROVE  CompletedStaysRestored'
BY DEF CompletedStaysRestored

LEMMA RestoredStep ==
    ASSUME IInv, CompletedStaysRestored, [Next]_vars
    PROVE  CompletedStaysRestored'
<1> USE DEF IInv
<1>0. pc # "idle" => /\ active \in Job /\ active # NoJob
                     /\ AtAwait(jobs[active], disk[active])
                     /\ jobs[active] \in JobRecord
  BY NoJobAssumption DEF RecordInv, ActiveInv, ExclusiveRestore, TypeOK
<1>1. CASE Load
  <2>1. active = NoJob /\ active' = active
    BY <1>1 DEF Load, LoadTerminal, LoadInProgress, LoadFails, Ready, RecordInv
  <2> QED BY <2>1 DEF CompletedStaysRestored
<1>2. ASSUME NEW j \in Job, Start(j) \/ Resume(j) PROVE CompletedStaysRestored'
  BY <1>2 DEF Start, Resume, Take, CompletedStaysRestored
<1>3. CASE Orchestrate
  <2> USE DEF systemVars, historyVars
  <2>1. CASE PrepareFails \/ SavePreparedFails \/ SaveCompleted \/ SaveFailed \/ SaveFailedFails
    BY <2>1 DEF PrepareFails, SavePreparedFails, SaveCompleted, SaveFailed, SaveFailedFails,
                Leave, CompletedStaysRestored
  <2>2. CASE PrepareDone
    <3>1. \A s \in Step : jobs'[active].steps[s] = "pending"
      BY <1>0, <2>2 DEF PrepareDone, Rearmed, TypeOK, JobRecord
    <3> QED BY <2>2, <3>1 DEF PrepareDone, CompletedStaysRestored
  <2>3. CASE SavePrepared \/ SaveRunning \/ SaveStarted \/ SaveStep \/ EnterScript
    BY <1>0, <2>3, NothingCompleted DEF SavePrepared, SaveRunning, SaveStarted, SaveStep, EnterScript
  <2>4. CASE AdminGranted \/ AllStepsDone
    <3>1. jobs'[active].steps = jobs[active].steps
      BY <1>0, <2>4 DEF AdminGranted, AllStepsDone, TypeOK, JobRecord
    <3> QED BY <1>0, <2>4, <3>1, NothingCompleted DEF AdminGranted, AllStepsDone
  <2>5. ASSUME Catch, pc # "idle"
        PROVE  \A s \in Step : jobs'[active].steps[s] = "completed" => jobs[active].steps[s] = "completed"
    BY <1>0, <2>5 DEF Catch, Failed, TypeOK, JobRecord
  <2>6. CASE AdminRefused \/ SaveFails \/ DetectionFails \/ VerificationFails
    <3>1. Catch /\ pc \notin {"idle", "prepare"} /\ world' = world
      BY <2>6 DEF AdminRefused, SaveFails, DetectionFails, VerificationFails, AtStep
    <3> QED BY <1>0, <2>5, <3>1, NothingCompleted DEF Catch
  <2>7. CASE PassiveStep \/ AlreadyThere \/ NeedsChange \/ Verify
    <3>1. PICK st \in {"started", "completed"} :
             /\ jobs' = [jobs EXCEPT ![active].steps[current] = st]
             /\ world' = world /\ drifted' = drifted /\ active' = active
             /\ pc \in {"step", "verify"} /\ current \in Step
             /\ st = "completed" => Kind[current] = "passive" \/ Matches
      BY <1>0, <2>7 DEF PassiveStep, AlreadyThere, NeedsChange, Verify, Mark, AtStep, AtAwait
    <3>2. \A s \in Step : jobs'[active].steps[s] = IF s = current THEN st ELSE jobs[active].steps[s]
      BY <1>0, <3>1 DEF TypeOK, JobRecord
    <3> QED BY <1>0, <3>1, <3>2 DEF CompletedStaysRestored, Matches
  <2>8. CASE ApplySettings
    <3>1. pc = "change" /\ current \in Step
      BY <1>0, <2>8 DEF ApplySettings, AtAwait
    <3>2. \A s \in Step : jobs'[active].steps[s] = IF s = current THEN "completed"
                                                  ELSE jobs[active].steps[s]
      BY <1>0, <2>8, <3>1 DEF ApplySettings, TypeOK, JobRecord
    <3>3. \A s \in Step : world'[s] = IF s = current THEN Target[active][s] ELSE world[s]
      BY <2>8, <3>1 DEF ApplySettings, TypeOK
    <3> QED BY <1>0, <2>8, <3>1, <3>2, <3>3 DEF CompletedStaysRestored, ApplySettings
  <2>9. CASE ApplySettingsFails \/ \E v \in Value : ScriptSucceeds(v) \/ ScriptFails(v)
    <3>1. /\ pc \in {"change", "script"} /\ current \in Step
          /\ jobs[active].steps[current] = "started"
          /\ active' = active /\ drifted' = drifted
          /\ jobs' = jobs \/ jobs' = [jobs EXCEPT ![active] = Failed(@)]
      BY <1>0, <2>9 DEF ApplySettingsFails, ScriptSucceeds, ScriptFails, Catch, AtAwait
    <3>2. \A s \in Step : jobs'[active].steps[s] = "completed" =>
                             jobs[active].steps[s] = "completed" /\ s # current
      <4>1. jobs'[active] = jobs[active] \/ jobs'[active] = Failed(jobs[active])
        BY <1>0, <3>1 DEF TypeOK
      <4> QED BY <1>0, <3>1, <4>1, FailedFacts
    <3>3. \A s \in Step : s # current => world'[s] = world[s]
      <4>1. \/ world' = world
            \/ \E v : world' = [world EXCEPT ![current] = v]
        BY <2>9 DEF ApplySettingsFails, ScriptSucceeds, ScriptFails
      <4> QED BY <3>1, <4>1 DEF TypeOK
    <3> QED BY <3>1, <3>2, <3>3 DEF CompletedStaysRestored
  <2> QED BY <1>3, <2>1, <2>2, <2>3, <2>4, <2>6, <2>7, <2>8, <2>9 DEF Orchestrate
<1>4. CASE Environment
  <2> USE DEF processVars, systemVars, historyVars
  <2>1. ASSUME NEW c \in Caller, CallerEnters(c) \/ CallerLeaves(c)
        PROVE  CompletedStaysRestored'
    BY <2>1 DEF CallerEnters, CallerLeaves, CompletedStaysRestored
  \* The gate at work: no caller is inside while a restore is active.
  <2>2. ASSUME NEW c \in Caller, NEW s \in Step, NEW v \in Value, CallerChanges(c, s, v)
        PROVE  CompletedStaysRestored'
    <3>1. active = NoJob
      BY <2>2, RestoreCallAssumption DEF CallerChanges, ExclusiveRestore, HolderIsAlone
    <3> QED BY <2>2, <3>1 DEF CallerChanges, CompletedStaysRestored
  <2>3. CASE BackgroundBegins \/ BackgroundEnds
    BY <2>3 DEF BackgroundBegins, BackgroundEnds, CompletedStaysRestored
  <2>4. ASSUME NEW s \in Step, NEW v \in Value, SettingsPage(s, v) \/ Drift(s, v)
        PROVE  CompletedStaysRestored'
    BY <2>4 DEF SettingsPage, Drift, CompletedStaysRestored, TypeOK
  <2>5. CASE Restart
    BY <2>5 DEF Restart, CompletedStaysRestored
  <2> QED BY <1>4, <2>1, <2>2, <2>3, <2>4, <2>5 DEF Environment
<1>5. CASE UNCHANGED vars
  BY <1>5 DEF vars, processVars, systemVars, historyVars, CompletedStaysRestored
<1> QED BY <1>1, <1>2, <1>3, <1>4, <1>5 DEF Next

\* What execute() has completed stays so while it runs: the gate keeps every
\* other Nova operation away, and no later step touches another step's item.
THEOREM StaysRestored == Spec => []CompletedStaysRestored
<1>1. Init => CompletedStaysRestored
  BY DEF Init, CompletedStaysRestored
<1>2. IInv /\ CompletedStaysRestored /\ [Next]_vars => CompletedStaysRestored'
  BY RestoredStep
<1> QED BY <1>1, <1>2, Invariance, PTL DEF Spec
=============================================================================
