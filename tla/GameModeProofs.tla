--------------------------- MODULE GameModeProofs ---------------------------
(***************************************************************************)
(* Proofs about GameModeBackground, for every set of services, every set   *)
(* of start modes and any number of workers. CInv is the control part of   *)
(* the inductive invariant: which worker can be where in which operation.  *)
(* IInv adds what the two journals say of each service; it needs that no   *)
(* control script outlives its process, which is what Orphans = FALSE is.  *)
(***************************************************************************)
EXTENDS GameModeBackground, FiniteSetTheorems, TLAPS

\* Which operation is at which stage, and what its workers can be doing.
Shape ==
    /\ stage = "idle" <=> op = "none"
    /\ stage = "read" => op \in {"prepare", "restore"}
    /\ stage = "work" => op \in {"apply", "restore"}
    /\ stage \in {"games", "apps"} => op = "apply"
    /\ op = "prepare" => stage = "read"
    /\ \A s \in Service : work[s] # "none" => stage = "work"
    /\ \A s \in Service : work[s] \in {"disabling", "reread"} => op = "apply"

\* An operation has the gate from exclusive() to its finally block, and no other
\* call is inside.
OwnsGate ==
    /\ HolderIsAlone
    /\ op # "none" <=> owner = "background"

\* mapThree never has more than Width workers, the dead ones included.
Counted == IsFiniteSet(InFlight) /\ Cardinality(InFlight) + dead <= Width

\* A service that was missing is not in the journal, and nobody works on it.
Known(journal) ==
    \A s \in Service : journal.entry[s].phase # "none" => journal.entry[s].original # Missing

Aimed ==
    \A s \in Service : /\ work[s] # "none" => InJournal(s)
                       /\ script[s].step # "none" => script[s].target # Missing

CInv ==
    /\ TypeOK
    /\ OwnsGate
    /\ Shape
    /\ Counted
    /\ Known(mem) /\ Known(dsk)
    /\ Aimed

-----------------------------------------------------------------------------
\* What is pending must return to the baseline.
Answers(journal) ==
    \A s \in Service : Pending(journal.entry[s]) => journal.entry[s].original = base[s]

Closed(journal) == journal.phase = "restored" => ~AnyPending(journal)

\* From prepare() to the end of apply() the journal is that of the baseline.
Snapshot ==
    /\ fresh => op = "none"
    /\ \A s \in Service :
          /\ fresh \/ op = "apply" =>
                /\ mem.entry[s].original = base[s]
                /\ mem.entry[s].phase = "none" <=> base[s] = Missing
          /\ fresh => mem.entry[s].phase \in {"none", "untouched"}

\* What the operation relies on.
Underway ==
    /\ op = "prepare" => ~AnyPending(mem)
    /\ op \in {"apply", "restore"} => ToRestore
    /\ stage \in {"games", "apps"} => ~Failures(mem)

\* A worker's entry is in the phase of its work, in the file too while it is in
\* flight, and the script that runs is the one the worker waits for.
Hand(s) ==
    /\ work[s] = "todo" /\ op = "apply" => mem.entry[s].phase = "untouched"
    /\ work[s] = "todo" /\ op = "restore" => Pending(mem.entry[s])
    /\ work[s] \in {"disabling", "reread"} => mem.entry[s].phase = "intent"
    /\ work[s] = "restoring" => mem.entry[s].phase = "restoring"
    /\ work[s] \in {"disabling", "reread", "restoring"} => dsk.entry[s] = mem.entry[s]
    /\ script[s].step # "none" <=> work[s] \in {"disabling", "restoring"}
    /\ work[s] = "disabling" => script[s].target = Off
    /\ work[s] = "restoring" => script[s].target = mem.entry[s].original
    /\ script[s].step = "start" => script[s].target.status = "Running"

\* Stopped, or on its way to be, and otherwise as the baseline has it.
Halted(s) ==
    /\ base[s].status = "Running" /\ svc[s].status # "Running"
    /\ svc[s].mode = base[s].mode

\* The states Game Mode itself can bring about.
Ours(s) == svc[s] = base[s] \/ Halted(s) \/ svc[s] = Off

\* What holds of a service that only Game Mode has changed.
Followed(s) ==
    /\ Ours(s)
    /\ svc[s] # base[s] => Pending(mem.entry[s]) /\ Pending(dsk.entry[s])
    /\ mem.entry[s].phase = "changed" \/ dsk.entry[s].phase = "changed" => svc[s] = Off
    /\ mem.entry[s].phase # "conflict" /\ dsk.entry[s].phase # "conflict"
    /\ work[s] = "todo" /\ op = "restore" => seen[s] = svc[s]
    /\ script[s].step = "compare" => /\ work[s] = "disabling" => svc[s] = base[s]
                                     /\ work[s] = "restoring" => svc[s] = script[s].expected

JInv ==
    /\ base \in [Service -> Stable \cup {Missing}]
    /\ Answers(mem) /\ Answers(dsk)
    /\ Closed(mem) /\ Closed(dsk)
    /\ Snapshot /\ Underway

IInv ==
    /\ CInv /\ JInv
    /\ \A s \in Service : Hand(s)
    /\ \A s \in Service \ ext : Followed(s)

-----------------------------------------------------------------------------
(***************************************************************************)
(* The journal and its writes                                              *)
(***************************************************************************)

\* Marking an entry changes its phase and nothing else of the journal.
LEMMA MarkedFacts ==
    ASSUME mem \in Journal, NEW s \in Service, NEW phase \in EntryPhase
    PROVE  /\ Marked(s, phase) \in Journal
           /\ Marked(s, phase).phase = mem.phase
           /\ Marked(s, phase).entry[s].phase = phase
           /\ Marked(s, phase).entry[s].original = mem.entry[s].original
           /\ Marked(s, phase).entry[s].dependents = mem.entry[s].dependents
           /\ \A t \in Service \ {s} : Marked(s, phase).entry[t] = mem.entry[t]
BY DEF Marked, Journal, Entry

\* Closing or opening a journal leaves its entries alone.
LEMMA PhasedFacts ==
    ASSUME mem \in Journal, NEW phase \in {"none", "prepared", "active", "partial", "restored"}
    PROVE  /\ Phased(phase) \in Journal
           /\ Phased(phase).phase = phase
           /\ Phased(phase).entry = mem.entry
BY DEF Phased, Journal

\* What a worker that is through with an entry has done, in the terms of the proofs.
Settles(s, phase) ==
    /\ mem' = Marked(s, phase)
    /\ dsk' \in {dsk, mem'}
    /\ work' = [work EXCEPT ![s] = "none"]
    /\ dead' \in {dead, dead + 1}

LEMMA SettleFacts ==
    ASSUME NEW s \in Service, NEW phase, Settle(s, phase)
    PROVE  Settles(s, phase)
BY DEF Settle, Settles, Saved, SaveThrows, GoesOn, Dies

\* restoreEntry either settles the entry or starts a script for it.
LEMMA RestoreEntryCases ==
    ASSUME NEW s \in Service, NEW actual, RestoreEntry(s, actual)
    PROVE  \/ /\ \E phase \in {"conflict", "restored", "restoring"} : Settles(s, phase)
              /\ script' = script
           \/ /\ actual # Missing
              /\ mem' = Marked(s, "restoring") /\ dsk' = mem'
              /\ work' = [work EXCEPT ![s] = "restoring"]
              /\ Run(s, actual, mem.entry[s].original)
              /\ dead' = dead
BY SettleFacts DEF RestoreEntry, Saved

LEMMA EndFacts ==
    ASSUME End
    PROVE  /\ op' = "none" /\ stage' = "idle" /\ work' = [s \in Service |-> "none"]
           /\ dead' = dead /\ seen' = seen /\ script' = script
           /\ owner' = (IF owner = "background" THEN "none" ELSE owner) /\ running' = running
           /\ shutting' \in {shutting, "done"}
BY DEF End, EndRestore
-----------------------------------------------------------------------------
(***************************************************************************)
(* The control part                                                        *)
(***************************************************************************)

\* A worker takes an entry when it is free, and counts while it has one.
LEMMA CountMove ==
    ASSUME TypeOK, Counted, NEW s \in Service, NEW to \in {"none", "disabling", "reread", "restoring"},
           work[s] # "none", work[s] = "todo" => FreeWorker,
           work' = [work EXCEPT ![s] = to],
           dead' \in {dead, dead + 1}, to # "none" => dead' = dead
    PROVE  Counted' /\ dead' \in 0..Width
<1>1. work \in [Service -> {"none", "todo", "disabling", "reread", "restoring"}]
      /\ dead \in 0..Width /\ Width \in Nat
  BY WidthAssumption DEF TypeOK
<1>2. IsFiniteSet(InFlight) /\ Cardinality(InFlight) + dead <= Width
  BY DEF Counted
<1>3. Cardinality(InFlight) \in Nat
  BY <1>2, FS_CardinalityType
<1>4. CASE work[s] = "todo"
  <2>1. Cardinality(InFlight) < Width - dead
    BY <1>4 DEF FreeWorker
  <2>2. CASE to = "none"
    <3>1. InFlight' = InFlight
      BY <1>1, <1>4, <2>2 DEF InFlight
    <3> QED
      BY <1>1, <1>2, <1>3, <2>1, <3>1 DEF Counted
  <2>3. CASE to # "none"
    <3>1. InFlight' = InFlight \cup {s} /\ s \notin InFlight
      BY <1>1, <1>4, <2>3 DEF InFlight
    <3>2. IsFiniteSet(InFlight') /\ Cardinality(InFlight') = Cardinality(InFlight) + 1
      BY <1>2, <3>1, FS_AddElement
    <3> QED
      BY <1>1, <1>2, <1>3, <2>1, <2>3, <3>2 DEF Counted
  <2> QED
    BY <2>2, <2>3
<1>5. CASE work[s] # "todo"
  <2>0. s \in InFlight
    BY <1>1, <1>5 DEF InFlight
  <2>1. CASE to = "none"
    <3>1. InFlight' = InFlight \ {s}
      BY <1>1, <2>1 DEF InFlight
    <3>2. IsFiniteSet(InFlight') /\ Cardinality(InFlight') = Cardinality(InFlight) - 1
      BY <1>2, <2>0, <3>1, FS_RemoveElement
    <3>3. Cardinality(InFlight') \in Nat
      BY <3>2, FS_CardinalityType
    <3> QED
      BY <1>1, <1>2, <1>3, <3>2, <3>3 DEF Counted
  <2>2. CASE to # "none"
    <3>1. InFlight' = InFlight
      BY <1>1, <2>0, <2>2 DEF InFlight
    <3> QED
      BY <1>1, <1>2, <2>2, <3>1 DEF Counted
  <2> QED
    BY <2>1, <2>2
<1> QED
  BY <1>4, <1>5

LEMMA WithinWidth ==
    ASSUME NEW w \in Nat, NEW d \in 0..w, NEW c, c = 0 PROVE c + d <= w
OBVIOUS

\* With nobody at work the count is that of the dead.
LEMMA CountNone ==
    ASSUME TypeOK, \A s \in Service : work'[s] \in {"none", "todo"},
           dead' = dead \/ dead' = 0
    PROVE  Counted' /\ dead' \in 0..Width
<1>1. Width \in Nat /\ dead' \in 0..Width
  BY WidthAssumption DEF TypeOK
<1>2. InFlight' = {}
  BY DEF InFlight
<1>3. IsFiniteSet(InFlight') /\ Cardinality(InFlight') = 0
  BY <1>2, FS_EmptySet
<1>4. Cardinality(InFlight') + dead' <= Width
  BY <1>1, <1>3, WithinWidth
<1> QED
  BY <1>1, <1>3, <1>4 DEF Counted

\* What the worker of s can do to the state, in the terms of CInv.
Moves(s) ==
    /\ work[s] # "none"
    /\ work[s] = "todo" => FreeWorker
    /\ \E to \in {"none", "disabling", "reread", "restoring"} :
          /\ work' = [work EXCEPT ![s] = to]
          /\ dead' \in {dead, dead + 1}
          /\ to # "none" => dead' = dead
          /\ to \in {"disabling", "reread"} => op = "apply"
    /\ \/ mem' = mem
       \/ \E phase \in EntryPhase \ {"none"} : mem' = Marked(s, phase)
    /\ dsk' \in {dsk, mem'}
    /\ \/ script' = script
       \/ \E next \in Script : /\ next.step # "none" => next.target # Missing
                               /\ script' = [script EXCEPT ![s] = next]
    /\ UNCHANGED <<gateVars, op, stage, seen, windowsVars, recovery, shutting, fresh>>

WorkerAction(s) ==
    \/ Skip(s) \/ Disable(s) \/ Disabled(s) \/ DisableRefused(s) \/ DisableFails(s)
    \/ RollBack(s) \/ RereadFails(s)
    \/ RestoreNext(s) \/ Restored(s) \/ RestoreRefused(s) \/ RestoreFails(s)

LEMMA MovesFacts ==
    ASSUME CInv, NEW s \in Service, WorkerAction(s)
    PROVE  Moves(s)
<1>t. /\ work[s] \in {"none", "todo", "disabling", "reread", "restoring"}
      /\ mem.entry[s] \in Entry /\ svc[s] \in ServiceState
      /\ seen[s] \in Stable \cup {Missing}
  BY DEF CInv, TypeOK, Journal
<1>s. /\ Off \in Stable /\ Off # Missing /\ Missing \notin Stable
      /\ NoScript \in Script /\ NoScript.step = "none"
  BY ModeAssumption DEF Off, Missing, Stable, NoScript, Script
<1>p. ASSUME NEW phase \in EntryPhase \ {"none"}, Settles(s, phase), work[s] # "none",
             work[s] = "todo" => FreeWorker,
             \/ script' = script
             \/ Stopped(s),
             UNCHANGED <<gateVars, op, stage, seen, windowsVars, recovery, shutting, fresh>>
      PROVE  Moves(s)
  BY <1>p, <1>s DEF Moves, Settles, Stopped
<1>o. work[s] # "none" => mem.entry[s].original \in Stable
  BY <1>t DEF CInv, Aimed, InJournal, Known, Entry
<1>r. ASSUME NEW actual \in Stable \cup {Missing}, RestoreEntry(s, actual), work[s] # "none",
             work[s] = "todo" => FreeWorker,
             UNCHANGED <<gateVars, op, stage, seen, windowsVars, recovery, shutting, fresh>>
      PROVE  Moves(s)
  <2>1. CASE /\ \E phase \in {"conflict", "restored", "restoring"} : Settles(s, phase)
             /\ script' = script
    BY <2>1, <1>r, <1>p DEF EntryPhase
  <2>2. CASE /\ actual # Missing
             /\ mem' = Marked(s, "restoring") /\ dsk' = mem'
             /\ work' = [work EXCEPT ![s] = "restoring"]
             /\ Run(s, actual, mem.entry[s].original)
             /\ dead' = dead
    <3> DEFINE next == [step |-> "compare", expected |-> actual, target |-> mem.entry[s].original]
    <3>1. next \in Script /\ next.target # Missing
      BY <1>r, <1>o, <1>s DEF Script
    <3>2. script' = [script EXCEPT ![s] = next]
      BY <2>2 DEF Run
    <3> HIDE DEF next
    <3> QED
      BY <1>r, <2>2, <3>1, <3>2 DEF Moves, EntryPhase
  <2> QED
    BY <1>r, <2>1, <2>2, RestoreEntryCases
<1>1. CASE Skip(s)
  BY <1>1, <1>p, SettleFacts DEF Skip, EntryPhase
<1>2. CASE Disable(s)
  <2> DEFINE next == [step |-> "compare", expected |-> mem.entry[s].original, target |-> Off]
  <2>1. next \in Script /\ next.target # Missing
    BY <1>t, <1>s DEF Script, Entry
  <2>2. script' = [script EXCEPT ![s] = next] \/ script' = script
    BY <1>2 DEF Disable, Run
  <2>3. \/ work' = [work EXCEPT ![s] = "disabling"] /\ dead' = dead
        \/ work' = [work EXCEPT ![s] = "none"] /\ dead' = dead + 1
    BY <1>2 DEF Disable, Dies
  <2> HIDE DEF next
  <2> QED
    BY <1>2, <2>1, <2>2, <2>3 DEF Disable, Moves, Saved, SaveThrows, EntryPhase
<1>3. CASE Disabled(s)
  BY <1>3, <1>p, SettleFacts DEF Disabled, EntryPhase
<1>4. CASE DisableRefused(s)
  BY <1>4, <1>p, SettleFacts DEF DisableRefused, EntryPhase
<1>5. CASE DisableFails(s)
  BY <1>5, <1>s DEF DisableFails, Moves, Stopped, CInv, Shape, journalVars
<1>6. CASE RollBack(s)
  <2>1. svc[s] \in Stable \cup {Missing}
    BY <1>6 DEF RollBack, Readable
  <2> QED
    BY <1>6, <2>1, <1>r DEF RollBack
<1>7. CASE RereadFails(s)
  BY <1>7 DEF RereadFails, Moves, Dies, journalVars
<1>8. CASE RestoreNext(s)
  BY <1>8, <1>t, <1>r DEF RestoreNext
<1>9. CASE Restored(s)
  BY <1>9, <1>p, SettleFacts DEF Restored, EntryPhase
<1>10. CASE RestoreRefused(s)
  BY <1>10, <1>p, SettleFacts DEF RestoreRefused, EntryPhase
<1>11. CASE RestoreFails(s)
  BY <1>11, <1>p, SettleFacts DEF RestoreFails, EntryPhase
<1> QED
  BY <1>1, <1>2, <1>3, <1>4, <1>5, <1>6, <1>7, <1>8, <1>9, <1>10, <1>11 DEF WorkerAction
LEMMA MovesKeepCInv ==
    ASSUME CInv, NEW s \in Service, Moves(s)
    PROVE  CInv'
<1>1. PICK to \in {"none", "disabling", "reread", "restoring"} :
          /\ work' = [work EXCEPT ![s] = to]
          /\ dead' \in {dead, dead + 1}
          /\ to # "none" => dead' = dead
          /\ to \in {"disabling", "reread"} => op = "apply"
  BY DEF Moves
<1>u. /\ UNCHANGED <<gateVars, op, stage, seen, windowsVars, recovery, shutting, fresh>>
      /\ work[s] # "none" /\ (work[s] = "todo" => FreeWorker)
  BY DEF Moves
<1>2. Counted' /\ dead' \in 0..Width
  BY <1>1, <1>u, CountMove DEF CInv
<1>3. mem' \in Journal /\ Known(mem)' /\ \A t \in Service : mem.entry[t].phase # "none" => mem'.entry[t].phase # "none"
  <2>1. CASE mem' = mem
    BY <2>1 DEF CInv, TypeOK, Known
  <2>2. ASSUME NEW phase \in EntryPhase \ {"none"}, mem' = Marked(s, phase)
        PROVE  mem' \in Journal /\ Known(mem)'
               /\ \A t \in Service : mem.entry[t].phase # "none" => mem'.entry[t].phase # "none"
    <3>1. mem \in Journal /\ Known(mem) /\ mem.entry[s].phase # "none"
      BY <1>u DEF CInv, TypeOK, Aimed, InJournal
    <3> QED
      BY <2>2, <3>1, MarkedFacts DEF Known
  <2> QED
    BY <2>1, <2>2 DEF Moves
<1>4. dsk' \in Journal /\ Known(dsk)'
  BY <1>3 DEF Moves, CInv, TypeOK, Known
<1>5. script' \in [Service -> Script]
      /\ \A t \in Service : script'[t].step # "none" => script'[t].target # Missing
  BY DEF Moves, CInv, TypeOK, Aimed
<1>6. TypeOK'
  BY <1>1, <1>2, <1>3, <1>4, <1>5, <1>u DEF CInv, TypeOK, GateTypeOK, gateVars, windowsVars
<1>7. OwnsGate'
  BY <1>u DEF CInv, OwnsGate, HolderIsAlone, gateVars
<1>8. Shape'
  BY <1>1, <1>u DEF CInv, Shape, TypeOK
<1>9. Aimed'
  BY <1>1, <1>3, <1>5, <1>u DEF CInv, Aimed, InJournal, TypeOK
<1> QED
  BY <1>2, <1>3, <1>4, <1>6, <1>7, <1>8, <1>9 DEF CInv

\* An operation ends in the same control state whatever it has written.
LEMMA EndKeepsCInv ==
    ASSUME CInv, op # "none", End, svc' = svc,
           mem' \in Journal, Known(mem)', dsk' \in Journal, Known(dsk)',
           recovery' \in BOOLEAN, fresh' \in BOOLEAN,
           base' \in [Service -> ServiceState], ext' \subseteq Service
    PROVE  CInv'
<1>1. /\ op' = "none" /\ stage' = "idle" /\ work' = [s \in Service |-> "none"]
      /\ dead' = dead /\ seen' = seen /\ script' = script
      /\ owner' = (IF owner = "background" THEN "none" ELSE owner) /\ running' = running
      /\ shutting' \in {shutting, "done"}
  BY EndFacts
<1>2. Counted' /\ dead' \in 0..Width
  BY <1>1, CountNone DEF CInv
<1>3. TypeOK'
  BY <1>1, <1>2 DEF CInv, TypeOK, GateTypeOK, Owner
<1>4. OwnsGate'
  BY <1>1 DEF CInv, OwnsGate, HolderIsAlone
<1>5. Shape'
  BY <1>1 DEF Shape
<1>6. Aimed'
  BY <1>1 DEF CInv, Aimed
<1> QED
  BY <1>2, <1>3, <1>4, <1>5, <1>6 DEF CInv

\* An operation begins with the gate, and with all its workers.
LEMMA BeginKeepsCInv ==
    ASSUME CInv, NEW name, NEW first, Begin(name, first),
           \/ name = "prepare" /\ first = "read" /\ work' = work
           \/ name = "restore" /\ first = "read" /\ work' = work
           \/ name = "apply" /\ first = "work"
              /\ work' = [s \in Service |-> IF InJournal(s) THEN "todo" ELSE "none"],
           UNCHANGED <<seen, windowsVars, journalVars, recovery, script>>,
           fresh' \in BOOLEAN, shutting' \in {shutting, "restoring"}
    PROVE  CInv'
<1>1. /\ op = "none" /\ owner = "none" /\ running = {}
      /\ op' = name /\ stage' = first /\ dead' = 0 /\ owner' = "background" /\ running' = running
  BY DEF Begin, BeginRestore, CanBegin
<1>2. \A s \in Service : work[s] = "none"
  BY <1>1 DEF CInv, Shape
<1>3. /\ work' \in [Service -> {"none", "todo"}]
      /\ \A s \in Service : work'[s] # "none" => name = "apply" /\ InJournal(s)
  <2>1. CASE work' = work
    BY <1>2, <2>1 DEF CInv, TypeOK
  <2>2. CASE name = "apply" /\ work' = [s \in Service |-> IF InJournal(s) THEN "todo" ELSE "none"]
    BY <2>2
  <2> QED
    BY <2>1, <2>2
<1>4. Counted' /\ dead' \in 0..Width
  BY <1>1, <1>3, CountNone DEF CInv
<1>5. TypeOK'
  BY <1>1, <1>3, <1>4 DEF CInv, TypeOK, GateTypeOK, Owner, windowsVars, journalVars
<1>6. OwnsGate'
  BY <1>1 DEF CInv, OwnsGate, HolderIsAlone
<1>7. Shape'
  BY <1>1, <1>3 DEF Shape
<1>8. Aimed' /\ Known(mem)' /\ Known(dsk)'
  BY <1>1, <1>3 DEF CInv, Aimed, InJournal, Known, journalVars
<1> QED
  BY <1>4, <1>5, <1>6, <1>7, <1>8 DEF CInv

\* Nothing but the services and their scripts.
LEMMA WindowsKeepCInv ==
    ASSUME CInv, UNCHANGED <<gateVars, mem, dsk, recovery, opVars, shutting, fresh, base>>,
           svc' \in [Service -> ServiceState], ext' \subseteq Service,
           script' \in [Service -> Script],
           \A s \in Service : script'[s].step # "none" => script'[s].target # Missing
    PROVE  CInv'
<1>1. TypeOK' /\ OwnsGate' /\ Shape' /\ Known(mem)' /\ Known(dsk)'
  BY DEF CInv, TypeOK, GateTypeOK, OwnsGate, HolderIsAlone, Shape, Known, gateVars, opVars
<1>2. Counted' /\ Aimed'
  BY DEF CInv, Counted, InFlight, Aimed, InJournal, opVars
<1> QED
  BY <1>1, <1>2 DEF CInv
\* A new phase of the journal, saved or not.
LEMMA PhasedWrite ==
    ASSUME CInv, NEW phase \in {"none", "prepared", "active", "partial", "restored"},
           Saved(Phased(phase)) \/ SaveThrows(Phased(phase))
    PROVE  /\ mem' \in Journal /\ mem'.phase = phase /\ mem'.entry = mem.entry
           /\ dsk' \in Journal /\ dsk' \in {dsk, mem'}
           /\ Known(mem)' /\ Known(dsk)'
<1>1. mem \in Journal /\ dsk \in Journal /\ Known(mem) /\ Known(dsk)
  BY DEF CInv, TypeOK
<1>2. mem' = Phased(phase) /\ dsk' \in {dsk, mem'}
  BY DEF Saved, SaveThrows
<1> QED
  BY <1>1, <1>2, PhasedFacts DEF Known

LEMMA ConcludeWrite ==
    ASSUME CInv, Conclude
    PROVE  /\ recovery' = AnyPending(mem)
           /\ mem' \in Journal /\ mem'.entry = mem.entry
           /\ mem'.phase = (IF AnyPending(mem) THEN "partial" ELSE "restored")
           /\ dsk' \in Journal /\ dsk' \in {dsk, mem'}
           /\ Known(mem)' /\ Known(dsk)'
BY PhasedWrite DEF Conclude

\* A call of restore() with nothing to put back only closes the journal.
LEMMA ClosingKeepsCInv ==
    ASSUME CInv, Conclude, UNCHANGED <<gateVars, opVars, windowsVars, script>>,
           fresh' \in BOOLEAN, shutting' \in {shutting, "done"}
    PROVE  CInv'
<1>1. TypeOK'
  BY ConcludeWrite DEF CInv, TypeOK, GateTypeOK, gateVars, opVars, windowsVars, AnyPending
<1>2. OwnsGate' /\ Shape'
  BY DEF CInv, OwnsGate, HolderIsAlone, Shape, gateVars, opVars
<1>3. Counted' /\ Aimed'
  BY ConcludeWrite DEF CInv, Counted, InFlight, Aimed, InJournal, opVars
<1> QED
  BY <1>1, <1>2, <1>3, ConcludeWrite DEF CInv

\* The snapshot of prepare() has every service that is there, and no other.
LEMMA PreparedSnapshot ==
    ASSUME CInv, Prepared
    PROVE  /\ mem' \in Journal /\ mem'.phase = "prepared" /\ dsk' \in {dsk, mem'}
           /\ \A s \in Service : /\ mem'.entry[s].phase \in {"none", "untouched"}
                                 /\ mem'.entry[s].phase = "none" <=> svc[s] = Missing
                                 /\ mem'.entry[s].original = svc[s]
           /\ svc \in [Service -> Stable \cup {Missing}]
           /\ \/ dsk' = mem' /\ fresh' = TRUE /\ base' = svc /\ ext' = {}
              \/ fresh' = FALSE /\ UNCHANGED <<base, ext>>
<1>1. PICK needed \in SUBSET Service :
          LET snapshot == [phase |-> "prepared",
                           entry |-> [s \in Service |->
                               [phase |-> IF svc[s] = Missing THEN "none" ELSE "untouched",
                                original |-> svc[s],
                                dependents |-> s \in needed]]]
          IN \/ Saved(snapshot) /\ fresh' = TRUE /\ base' = svc /\ ext' = {}
             \/ SaveThrows(snapshot) /\ fresh' = FALSE /\ UNCHANGED <<base, ext>>
  BY DEF Prepared
<1> DEFINE snapshot == [phase |-> "prepared",
                        entry |-> [s \in Service |->
                            [phase |-> IF svc[s] = Missing THEN "none" ELSE "untouched",
                             original |-> svc[s],
                             dependents |-> s \in needed]]]
<1>2. svc \in [Service -> Stable \cup {Missing}]
  BY DEF Prepared, Readable, CInv, TypeOK
<1>3. /\ snapshot \in Journal /\ snapshot.phase = "prepared"
      /\ \A s \in Service : /\ snapshot.entry[s].phase \in {"none", "untouched"}
                            /\ snapshot.entry[s].phase = "none" <=> svc[s] = Missing
                            /\ snapshot.entry[s].original = svc[s]
  BY <1>2 DEF Journal, Entry, EntryPhase
<1>4. \/ mem' = snapshot /\ dsk' = snapshot /\ fresh' = TRUE /\ base' = svc /\ ext' = {}
      \/ mem' = snapshot /\ dsk' = dsk /\ fresh' = FALSE /\ UNCHANGED <<base, ext>>
  BY <1>1 DEF Saved, SaveThrows
<1> HIDE DEF snapshot
<1> QED
  BY <1>2, <1>3, <1>4

\* Every step keeps the control part.
LEMMA CStep == CInv /\ [Next]_vars => CInv'
<1> SUFFICES ASSUME CInv, [Next]_vars PROVE CInv'
  OBVIOUS
<1>o. op \in {"none", "prepare", "apply", "restore"} /\ (stage = "idle" <=> op = "none")
  BY DEF CInv, TypeOK, Shape
<1>j. /\ mem \in Journal /\ dsk \in Journal /\ Known(mem) /\ Known(dsk)
      /\ recovery \in BOOLEAN /\ fresh \in BOOLEAN
      /\ base \in [Service -> ServiceState] /\ ext \subseteq Service
      /\ svc \in [Service -> ServiceState] /\ script \in [Service -> Script]
      /\ \A s \in Service : script[s].step # "none" => script[s].target # Missing
  BY DEF CInv, TypeOK, Aimed
<1>1. CASE PrepareCalled
  BY <1>1, <1>j, BeginKeepsCInv DEF PrepareCalled
<1>2. CASE ApplyCalled
  BY <1>2, <1>j, BeginKeepsCInv DEF ApplyCalled
<1>3. CASE RestoreCalled
  <2>1. CASE Begin("restore", "read") /\ UNCHANGED <<journalVars, recovery>>
    BY <1>3, <2>1, BeginKeepsCInv DEF RestoreCalled
  <2>2. CASE Conclude /\ UNCHANGED <<gateVars, op, stage, dead>>
    BY <1>3, <2>2, ClosingKeepsCInv DEF RestoreCalled, opVars
  <2> QED
    BY <1>3, <2>1, <2>2 DEF RestoreCalled
<1>4. CASE ShutdownCalled \/ ShutdownGivesUp
  BY <1>4 DEF ShutdownCalled, ShutdownGivesUp, CInv, TypeOK, GateTypeOK, OwnsGate, HolderIsAlone,
     Shape, Counted, InFlight, Known, Aimed, InJournal, gateVars, opVars, windowsVars, journalVars
<1>5. CASE ReadFails \/ WorkersFailed
  <2>1. op # "none"
    BY <1>5, <1>o DEF ReadFails, WorkersFailed, WorkersDone
  <2> QED
    BY <1>5, <2>1, <1>j, EndKeepsCInv DEF ReadFails, WorkersFailed, windowsVars, journalVars, Known
<1>6. CASE Prepared
  <2>1. Known(mem)' /\ Known(dsk)' /\ dsk' \in Journal
    BY <1>6, <1>j, PreparedSnapshot DEF Known
  <2>2. fresh' \in BOOLEAN /\ ext' \subseteq Service /\ base' \in [Service -> ServiceState]
    BY <1>6, <1>j, PreparedSnapshot
  <2>3. op # "none" /\ svc' = svc /\ recovery' \in BOOLEAN /\ End
    BY <1>6, <1>j DEF Prepared
  <2> QED
    BY <1>6, <2>1, <2>2, <2>3, PreparedSnapshot, EndKeepsCInv
<1>7. CASE RestoreRead
  <2>1. /\ op = "restore" /\ stage' = "work" /\ seen' \in [Service -> Stable \cup {Missing}]
        /\ UNCHANGED <<gateVars, op, dead, windowsVars, journalVars, recovery, script, shutting, fresh>>
    BY <1>7 DEF RestoreRead, Readable, CInv, TypeOK
  <2>2. work' = [s \in Service |-> IF Pending(mem.entry[s]) THEN "todo" ELSE "none"]
    BY <1>7 DEF RestoreRead
  <2>3. Counted' /\ dead' \in 0..Width
    BY <2>1, <2>2, CountNone DEF CInv
  <2>4. TypeOK'
    BY <2>1, <2>2, <2>3 DEF CInv, TypeOK, GateTypeOK, gateVars, windowsVars, journalVars
  <2>5. OwnsGate' /\ Shape' /\ Known(mem)' /\ Known(dsk)'
    BY <2>1, <2>2 DEF CInv, OwnsGate, HolderIsAlone, Shape, Known, gateVars, journalVars
  <2>6. Aimed'
    BY <2>1, <2>2 DEF CInv, Aimed, InJournal, Pending, journalVars
  <2> QED
    BY <2>3, <2>4, <2>5, <2>6 DEF CInv
<1>8. CASE ApplyPartial
  BY <1>8, <1>j, PhasedWrite, EndKeepsCInv DEF ApplyPartial, windowsVars
<1>9. CASE AskGames
  <2>1. CASE SaveThrows(Phased("partial")) /\ End
    BY <1>9, <2>1, <1>j, PhasedWrite, EndKeepsCInv DEF AskGames, windowsVars
  <2>2. CASE /\ Saved(Phased("partial")) /\ stage' = "games"
             /\ UNCHANGED <<gateVars, op, work, dead, seen, script, shutting>>
    <3>1. op = "apply" /\ \A s \in Service : work[s] = "none"
      <4>1. /\ op = "apply" /\ dead = 0 /\ InFlight = {} /\ (Todo = {} \/ dead = Width)
        BY <1>9 DEF AskGames, WorkersDone
      <4>2. Todo = {}
        BY <4>1, WidthAssumption
      <4> QED
        BY <4>1, <4>2 DEF InFlight, Todo, CInv, TypeOK
    <3>2. UNCHANGED <<windowsVars, recovery, fresh>>
      BY <1>9 DEF AskGames
    <3>3. /\ mem' \in Journal /\ mem'.entry = mem.entry /\ dsk' \in Journal
          /\ Known(mem)' /\ Known(dsk)'
      BY <2>2, PhasedWrite
    <3>4. TypeOK'
      BY <2>2, <3>2, <3>3 DEF CInv, TypeOK, GateTypeOK, gateVars, windowsVars
    <3>5. OwnsGate' /\ Shape'
      BY <2>2, <3>1 DEF CInv, OwnsGate, HolderIsAlone, Shape, gateVars
    <3>6. Counted' /\ Aimed'
      BY <2>2, <3>3 DEF CInv, Counted, InFlight, Aimed, InJournal
    <3> QED
      BY <3>3, <3>4, <3>5, <3>6 DEF CInv
  <2> QED
    BY <1>9, <2>1, <2>2 DEF AskGames
<1>10. CASE CloseApps
  BY <1>10 DEF CloseApps, CInv, TypeOK, GateTypeOK, OwnsGate, HolderIsAlone,
     Shape, Counted, InFlight, Known, Aimed, InJournal, gateVars, windowsVars, journalVars
<1>11. CASE Applied
  <2>1. op # "none"
    BY <1>11, <1>o DEF Applied
  <2> QED
    BY <1>11, <2>1, <1>j, PhasedWrite, EndKeepsCInv DEF Applied, windowsVars
<1>12. CASE RestoreDone
  <2>1. recovery' \in BOOLEAN
    BY <1>12, ConcludeWrite DEF RestoreDone, AnyPending
  <2> QED
    BY <1>12, <2>1, <1>j, ConcludeWrite, EndKeepsCInv DEF RestoreDone, windowsVars
<1>13. CASE ShutdownRestores
  <2>1. CASE /\ Begin("restore", "read") /\ shutting' = "restoring"
             /\ UNCHANGED <<journalVars, recovery>>
    BY <1>13, <2>1, <1>j, BeginKeepsCInv DEF ShutdownRestores
  <2>2. CASE Conclude /\ shutting' = "done" /\ UNCHANGED <<gateVars, op, stage, dead>>
    BY <1>13, <2>2, <1>j, ClosingKeepsCInv DEF ShutdownRestores, opVars
  <2> QED
    BY <1>13, <2>1, <2>2 DEF ShutdownRestores
<1>14. ASSUME NEW s \in Service, WorkerAction(s) PROVE CInv'
  BY <1>14, MovesFacts, MovesKeepCInv
<1>15. CASE Windows
  <2>1. PICK s \in Service : \/ Compare(s) \/ StopService(s) \/ SetMode(s) \/ StartService(s)
                             \/ WindowsSettles(s)
                             \/ \E state \in Stable \cup {Missing} : OthersChange(s, state)
    BY <1>15 DEF Windows
  <2>2. UNCHANGED <<gateVars, mem, dsk, recovery, opVars, shutting, fresh, base>>
    BY <2>1 DEF Compare, StopService, SetMode, StartService, WindowsSettles, OthersChange, ScriptOnly
  <2>3. ext' \subseteq Service
    BY <2>1, <1>j DEF Compare, StopService, SetMode, StartService, WindowsSettles, OthersChange, ScriptOnly
  <2>4. /\ script' \in [Service -> Script]
        /\ \A t \in Service : script'[t].step # "none" => script'[t].target # Missing
    <3>1. CASE script' = script
      BY <3>1, <1>j
    <3>2. CASE \E step \in {"stop", "mode", "start", "verify"} : script[s].step # "none" /\ ScriptGoes(s, step)
      BY <3>2, <1>j DEF ScriptGoes, Script
    <3> QED
      BY <2>1, <3>1, <3>2 DEF Compare, StopService, SetMode, StartService, WindowsSettles, OthersChange
  <2>5. svc' \in [Service -> ServiceState]
    <3>1. svc[s] \in ServiceState /\ script[s] \in Script
          /\ (script[s].step # "none" => script[s].target \in Stable)
      BY <1>j DEF Script
    <3>2. CASE Compare(s)
      BY <3>2, <1>j DEF Compare
    <3>3. CASE StopService(s)
      BY <3>1, <3>3, <1>j DEF StopService, ServiceState, Missing
    <3>4. CASE SetMode(s)
      BY <3>1, <3>4, <1>j DEF SetMode, ServiceState, Stable
    <3>5. CASE StartService(s)
      BY <3>1, <3>5, <1>j DEF StartService, ServiceState, Missing
    <3>6. CASE WindowsSettles(s)
      BY <3>1, <3>6, <1>j DEF WindowsSettles, ServiceState, Missing
    <3>7. ASSUME NEW state \in Stable \cup {Missing}, OthersChange(s, state) PROVE svc' \in [Service -> ServiceState]
      BY <3>7, <1>j DEF OthersChange, ServiceState, Stable
    <3> QED
      BY <2>1, <3>2, <3>3, <3>4, <3>5, <3>6, <3>7
  <2> QED
    BY <2>2, <2>3, <2>4, <2>5, WindowsKeepCInv
<1>16. CASE OthersUseGate
  <2>1. /\ UNCHANGED <<svc, mem, dsk, recovery, opVars, script, shutting, fresh, base, ext>>
        /\ owner # "background" /\ owner' # "background"
        /\ owner' \in Owner /\ running' \subseteq Caller \cup {RestoreCall}
        /\ owner' = "restore" => running' \subseteq {RestoreCall}
    BY <1>16 DEF OthersUseGate, BeginRestore, EndRestore, Enter, Release, CanBegin, CanEnter, CInv, TypeOK,
       GateTypeOK, OwnsGate, HolderIsAlone, Owner
  <2>2. TypeOK' /\ OwnsGate'
    BY <2>1 DEF CInv, TypeOK, GateTypeOK, OwnsGate, HolderIsAlone, opVars
  <2>3. Shape' /\ Counted' /\ Known(mem)' /\ Known(dsk)' /\ Aimed'
    BY <2>1 DEF CInv, Shape, Counted, InFlight, Known, Aimed, InJournal, opVars
  <2> QED
    BY <2>2, <2>3 DEF CInv
<1>17. CASE Restart
  <2>1. Counted' /\ dead' \in 0..Width
    BY <1>17, CountNone DEF Restart, CInv
  <2>2. NoScript \in Script /\ NoScript.step = "none" /\ Missing \in Stable \cup {Missing}
    BY DEF NoScript, Script
  <2>3. /\ script' \in [Service -> Script]
        /\ \A t \in Service : script'[t].step # "none" => script'[t].target # Missing
    BY <1>17, <2>2, <1>j DEF Restart
  <2>4. TypeOK'
    BY <1>17, <1>j, <2>1, <2>2, <2>3 DEF Restart, TypeOK, GateTypeOK, Owner, AnyPending, windowsVars
  <2>5. OwnsGate' /\ Shape' /\ Known(mem)' /\ Known(dsk)'
    BY <1>17, <1>j DEF Restart, OwnsGate, HolderIsAlone, Shape, Known
  <2>6. Aimed'
    BY <1>17, <2>3 DEF Restart, Aimed
  <2> QED
    BY <2>1, <2>4, <2>5, <2>6 DEF CInv
<1>18. CASE UNCHANGED vars
  BY <1>18 DEF vars, CInv, TypeOK, GateTypeOK, OwnsGate, HolderIsAlone,
     Shape, Counted, InFlight, Known, Aimed, InJournal, gateVars, opVars
<1> QED
  BY <1>1, <1>2, <1>3, <1>4, <1>5, <1>6, <1>7, <1>8, <1>9, <1>10, <1>11, <1>12, <1>13, <1>14,
     <1>15, <1>16, <1>17, <1>18 DEF Next, Calls, Proceed, WorkerAction
LEMMA CInit == Init => CInv
<1> SUFFICES ASSUME Init PROVE CInv
  OBVIOUS
<1>1. InFlight = {}
  BY DEF Init, InFlight
<1>2. Counted
  <2>1. Width \in Nat
    BY WidthAssumption
  <2>2. IsFiniteSet(InFlight) /\ Cardinality(InFlight) = 0 /\ dead \in 0..Width
    BY <1>1, <2>1, FS_EmptySet DEF Init
  <2> QED
    BY <2>1, <2>2, WithinWidth DEF Counted
<1>3. NoJournal \in Journal /\ Known(NoJournal) /\ NoScript \in Script /\ NoScript.step = "none"
  BY DEF NoJournal, Journal, Entry, EntryPhase, Known, NoScript, Script
<1>4. TypeOK
  <2>1. svc \in [Service -> ServiceState] /\ base \in [Service -> ServiceState]
    <3>1. Stable \subseteq ServiceState
      BY DEF Stable, ServiceState
    <3> QED
      BY <3>1 DEF Init
  <2>2. dead \in 0..Width
    BY WidthAssumption DEF Init
  <2> QED
    BY <1>3, <2>1, <2>2 DEF Init, GateInit, TypeOK, GateTypeOK, Owner
<1> QED
  BY <1>2, <1>3, <1>4 DEF Init, GateInit, CInv, OwnsGate, HolderIsAlone, Shape, Aimed

\* Every value stays in its domain: there are never more workers than Width,
\* dead ones included, and no script aims at a state that cannot be set.
THEOREM TypeCorrect == Spec => []TypeOK
<1>1. CInv => TypeOK
  BY DEF CInv
<1> QED
  BY <1>1, CInit, CStep, PTL DEF Spec

-----------------------------------------------------------------------------
(***************************************************************************)
(* The worker of a service, when no script outlives its process            *)
(***************************************************************************)

\* The entry in a worker's hand is that of the baseline.
LEMMA AtWork ==
    ASSUME IInv, NEW s \in Service, work[s] # "none"
    PROVE  /\ mem.entry[s].original = base[s] /\ base[s] \in Stable
           /\ op \in {"apply", "restore"} /\ stage = "work" /\ ~fresh
           /\ mem.phase # "restored"
           /\ work[s] # "todo" \/ op = "restore" => Pending(mem.entry[s])
<1>1. /\ op \in {"apply", "restore"} /\ stage = "work" /\ ~fresh
      /\ work[s] \in {"none", "todo", "disabling", "reread", "restoring"}
      /\ mem.entry[s] \in Entry
      /\ mem.phase # "restored"
  BY DEF IInv, CInv, JInv, Shape, Snapshot, Underway, ToRestore, TypeOK, Journal
<1>2. Hand(s) /\ InJournal(s) /\ mem.entry[s].original # Missing
  BY DEF IInv, CInv, Aimed, Known, InJournal
<1>3. work[s] # "todo" \/ op = "restore" => Pending(mem.entry[s])
  BY <1>1, <1>2 DEF Hand, Pending
<1>4. mem.entry[s].original = base[s]
  BY <1>1, <1>3 DEF IInv, JInv, Snapshot, Answers
<1> QED
  BY <1>1, <1>2, <1>3, <1>4 DEF Entry

\* A worker changes its own entry only. The file gets the others as they are in
\* memory, or nothing.
LEMMA MovesKeepIInv ==
    ASSUME IInv, NEW s \in Service, Moves(s), Hand(s)', s \notin ext => Followed(s)'
    PROVE  IInv'
<1>w. /\ mem.entry[s].original = base[s] /\ base[s] \in Stable
      /\ op \in {"apply", "restore"} /\ stage = "work" /\ ~fresh
      /\ mem.phase # "restored" /\ InJournal(s)
  BY AtWork DEF Moves, IInv, CInv, Aimed
<1>1. CInv'
  BY MovesKeepCInv DEF IInv
<1>2. UNCHANGED <<gateVars, op, stage, seen, windowsVars, recovery, shutting, fresh>>
  BY DEF Moves
<1>3. /\ \A t \in Service \ {s} : mem'.entry[t] = mem.entry[t]
      /\ mem'.entry[s].original = mem.entry[s].original
      /\ mem'.entry[s].phase # "none"
      /\ mem'.phase = mem.phase
  <2>1. mem \in Journal
    BY DEF IInv, CInv, TypeOK
  <2> QED
    BY <1>w, <2>1, MarkedFacts DEF Moves, InJournal
<1>4. dsk' = dsk \/ dsk' = mem'
  BY DEF Moves
<1>5. \A t \in Service \ {s} : work'[t] = work[t] /\ script'[t] = script[t]
  <2>1. PICK to \in {"none", "disabling", "reread", "restoring"} : work' = [work EXCEPT ![s] = to]
    BY DEF Moves
  <2>2. script' = script \/ \E next \in Script : script' = [script EXCEPT ![s] = next]
    BY DEF Moves
  <2> QED
    BY <2>1, <2>2 DEF IInv, CInv, TypeOK
<1>6. JInv'
  <2>1. Answers(mem)' /\ Answers(dsk)'
    BY <1>w, <1>2, <1>3, <1>4 DEF IInv, JInv, Answers, windowsVars
  <2>2. Closed(mem)' /\ Closed(dsk)'
    BY <1>w, <1>2, <1>3, <1>4 DEF IInv, JInv, Closed, AnyPending
  <2>3. Snapshot'
    BY <1>w, <1>2, <1>3 DEF IInv, JInv, Snapshot, InJournal, windowsVars
  <2>4. Underway'
    BY <1>w, <1>2, <1>3 DEF IInv, JInv, Underway, ToRestore
  <2> QED
    BY <1>2, <2>1, <2>2, <2>3, <2>4 DEF IInv, JInv, windowsVars
<1>7. ASSUME NEW t \in Service \ {s} PROVE Hand(t)'
  <2>1. Hand(t)
    BY DEF IInv
  <2>2. /\ mem'.entry[t] = mem.entry[t] /\ (dsk'.entry[t] = dsk.entry[t] \/ dsk'.entry[t] = mem.entry[t])
        /\ work'[t] = work[t] /\ script'[t] = script[t] /\ op' = op
    BY <1>2, <1>3, <1>4, <1>5
  <2> QED
    BY <2>1, <2>2 DEF Hand
<1>8. ASSUME NEW t \in Service \ {s}, t \notin ext PROVE Followed(t)'
  <2>1. Followed(t)
    BY <1>8 DEF IInv
  <2>2. /\ mem'.entry[t] = mem.entry[t] /\ (dsk'.entry[t] = dsk.entry[t] \/ dsk'.entry[t] = mem.entry[t])
        /\ work'[t] = work[t] /\ script'[t] = script[t] /\ op' = op
        /\ svc' = svc /\ base' = base /\ seen' = seen
    BY <1>2, <1>3, <1>4, <1>5 DEF windowsVars
  <2> QED
    BY <2>1, <2>2 DEF Followed, Ours, Halted
<1> QED
  BY <1>1, <1>2, <1>6, <1>7, <1>8 DEF IInv, windowsVars

\* A settled entry asks nothing more of its service, so what it says must be true.
LEMMA SettledHand ==
    ASSUME IInv, NEW s \in Service, NEW phase, Settles(s, phase), script'[s].step = "none"
    PROVE  Hand(s)'
<1>1. work'[s] = "none"
  BY DEF Settles, IInv, CInv, TypeOK
<1> QED
  BY <1>1 DEF Hand

LEMMA SettledFollowed ==
    ASSUME IInv, NEW s \in Service \ ext, work[s] # "none",
           NEW phase \in {"intent", "changed", "restoring", "restored", "skipped"},
           Settles(s, phase), UNCHANGED windowsVars,
           phase \in {"restored", "skipped"} => svc[s] = base[s],
           phase = "changed" => svc[s] = Off
    PROVE  Followed(s)'
<1>1. Followed(s)
  BY DEF IInv
<1>2. mem'.entry[s].phase = phase /\ work'[s] = "none"
      /\ (dsk' = dsk \/ dsk'.entry[s].phase = phase)
  BY MarkedFacts DEF Settles, IInv, CInv, TypeOK, EntryPhase
<1>3. svc' = svc /\ base' = base
  BY DEF windowsVars
<1> QED
  BY <1>1, <1>2, <1>3 DEF Followed, Ours, Halted, Pending

\* A service only Game Mode has changed is in no state that restoreEntry would
\* take for somebody else's, and a service that is back is not touched again.
LEMMA RestoreEntryFollowed ==
    ASSUME IInv, NEW s \in Service, work[s] # "none", Pending(mem.entry[s]),
           svc[s] \in Stable \cup {Missing} \/ s \in ext,
           NEW actual \in Stable \cup {Missing}, s \notin ext => actual = svc[s],
           script[s].step = "none",
           RestoreEntry(s, actual), UNCHANGED windowsVars
    PROVE  Hand(s)' /\ (s \notin ext => Followed(s)')
<1>w. mem.entry[s].original = base[s] /\ base[s] \in Stable
  BY AtWork
<1>m. Missing \notin Stable /\ Off # Missing
  BY ModeAssumption DEF Missing, Stable, Off
<1>f. s \notin ext => Followed(s)
  BY DEF IInv
<1>1. CASE /\ \E phase \in {"conflict", "restored", "restoring"} : Settles(s, phase)
           /\ script' = script
  <2>1. Hand(s)'
    BY <1>1, SettledHand
  <2>2. ASSUME s \notin ext PROVE Followed(s)'
    <3>1. actual = svc[s] /\ Followed(s) /\ actual \in Stable \cup {Missing}
      BY <2>2, <1>f
    <3>2. actual # Missing
      BY <3>1, <1>w, <1>m DEF Followed, Ours, Halted, Stable, Missing
    <3>3. actual = mem.entry[s].original \/ actual = Off \/ Interrupted(mem.entry[s], actual)
      <4>1. CASE Halted(s)
        <5>1. actual.status = "Stopped" /\ actual.mode = mem.entry[s].original.mode
          BY <4>1, <3>1, <3>2, <1>w DEF Halted, Stable
        <5>2. actual # Off => mem.entry[s].phase \in {"intent", "restoring"}
          BY <3>1 DEF Followed, Pending
        <5> QED
          BY <5>1, <5>2 DEF Interrupted
      <4> QED
        BY <4>1, <3>1, <1>w DEF Followed, Ours
    <3>4. \/ actual = mem.entry[s].original /\ Settle(s, "restored")
          \/ Settle(s, "restoring")
          \/ work' = [work EXCEPT ![s] = "restoring"]
      BY <3>2, <3>3 DEF RestoreEntry
    <3>5. work' # [work EXCEPT ![s] = "restoring"]
      BY <1>1 DEF Settles, IInv, CInv, TypeOK
    <3> QED
      BY <2>2, <3>1, <3>4, <3>5, <1>w, SettleFacts, SettledFollowed
  <2> QED
    BY <2>1, <2>2
<1>2. CASE /\ actual # Missing
           /\ mem' = Marked(s, "restoring") /\ dsk' = mem'
           /\ work' = [work EXCEPT ![s] = "restoring"]
           /\ Run(s, actual, mem.entry[s].original)
           /\ dead' = dead
  <2>1. /\ mem'.entry[s].phase = "restoring" /\ mem'.entry[s].original = mem.entry[s].original
        /\ dsk' = mem' /\ work'[s] = "restoring"
        /\ script'[s] = [step |-> "compare", expected |-> actual, target |-> mem.entry[s].original]
    BY <1>2, MarkedFacts DEF IInv, CInv, TypeOK, EntryPhase, Run
  <2>2. Hand(s)'
    BY <2>1 DEF Hand
  <2>3. ASSUME s \notin ext PROVE Followed(s)'
    <3>1. Followed(s) /\ svc' = svc /\ base' = base /\ actual = svc[s]
      BY <1>f, <2>3 DEF windowsVars
    <3> QED
      BY <3>1, <2>1 DEF Followed, Ours, Halted, Pending
  <2> QED
    BY <2>2, <2>3
<1> QED
  BY <1>1, <1>2, RestoreEntryCases
LEMMA WorkerStep ==
    ASSUME IInv, NEW s \in Service, WorkerAction(s)
    PROVE  IInv'
<1>m. Moves(s)
  BY MovesFacts DEF IInv
<1>w. /\ mem.entry[s].original = base[s] /\ base[s] \in Stable
      /\ op \in {"apply", "restore"} /\ work[s] # "none"
  BY <1>m, AtWork DEF Moves
<1>h. Hand(s) /\ (s \notin ext => Followed(s)) /\ UNCHANGED windowsVars
  BY <1>m DEF IInv, Moves
<1>t. /\ work \in [Service -> {"none", "todo", "disabling", "reread", "restoring"}]
      /\ script \in [Service -> Script] /\ NoScript.step = "none"
      /\ mem \in Journal
  BY DEF IInv, CInv, TypeOK, NoScript
<1>s. ASSUME NEW phase \in {"intent", "changed", "restoring", "restored", "skipped", "conflict"},
             Settle(s, phase), (script' = script /\ script[s].step = "none") \/ Stopped(s),
             phase = "conflict" => s \in ext,
             s \notin ext /\ phase \in {"restored", "skipped"} => svc[s] = base[s],
             s \notin ext /\ phase = "changed" => svc[s] = Off
      PROVE  IInv'
  <2>1. script'[s].step = "none"
    BY <1>s, <1>t DEF Stopped
  <2>2. Hand(s)' /\ (s \notin ext => Followed(s)')
    BY <1>s, <1>w, <1>h, <2>1, SettleFacts, SettledHand, SettledFollowed
  <2> QED
    BY <1>m, <2>2, MovesKeepIInv
<1>u. work[s] = "todo" /\ op = "apply" /\ s \notin ext => svc[s] = base[s]
  BY <1>h DEF Hand, Followed, Pending
<1>1. CASE Skip(s)
  <2>1. script[s].step = "none" /\ work[s] = "todo"
    BY <1>1, <1>h DEF Skip, Hand
  <2> QED
    BY <1>1, <1>s, <1>u, <2>1 DEF Skip
<1>2. CASE Disable(s)
  <2>0. work[s] = "todo" /\ op = "apply" /\ script[s].step = "none"
    BY <1>2, <1>h DEF Disable, Hand
  <2>1. CASE /\ Saved(Marked(s, "intent"))
             /\ work' = [work EXCEPT ![s] = "disabling"]
             /\ Run(s, mem.entry[s].original, Off)
    <3>1. /\ mem'.entry[s].phase = "intent" /\ dsk' = mem' /\ work'[s] = "disabling"
          /\ script'[s] = [step |-> "compare", expected |-> mem.entry[s].original, target |-> Off]
      BY <2>1, <1>t, MarkedFacts DEF Saved, Run, EntryPhase
    <3>2. Hand(s)'
      BY <3>1 DEF Hand
    <3>3. ASSUME s \notin ext PROVE Followed(s)'
      <4>1. svc[s] = base[s] /\ svc' = svc /\ base' = base
        BY <3>3, <2>0, <1>u, <1>h DEF windowsVars
      <4> QED
        BY <4>1, <3>1 DEF Followed, Ours, Pending
    <3> QED
      BY <1>m, <3>2, <3>3, MovesKeepIInv
  <2>2. CASE SaveThrows(Marked(s, "intent")) /\ Dies(s) /\ UNCHANGED script
    BY <2>0, <2>2, <1>s DEF Settle
  <2> QED
    BY <1>2, <2>1, <2>2 DEF Disable
<1>3. CASE Disabled(s)
  BY <1>3, <1>s DEF Disabled
<1>4. CASE DisableRefused(s)
  <2>1. s \notin ext => svc[s] = base[s]
    BY <1>4, <1>h DEF DisableRefused, Followed
  <2> QED
    BY <1>4, <1>s, <2>1 DEF DisableRefused
<1>5. CASE DisableFails(s)
  <2>1. /\ work[s] = "disabling" /\ work'[s] = "reread" /\ script'[s].step = "none"
        /\ UNCHANGED <<mem, dsk, op, seen>>
    BY <1>5, <1>t DEF DisableFails, Stopped, journalVars
  <2>2. Hand(s)'
    BY <1>h, <2>1 DEF Hand
  <2>3. s \notin ext => Followed(s)'
    BY <1>h, <2>1 DEF Followed, Ours, Halted, windowsVars
  <2> QED
    BY <1>m, <2>2, <2>3, MovesKeepIInv
<1>6. CASE RollBack(s)
  <2>1. /\ work[s] = "reread" /\ script[s].step = "none" /\ Pending(mem.entry[s])
        /\ svc[s] \in Stable \cup {Missing} /\ RestoreEntry(s, svc[s])
    BY <1>6, <1>h DEF RollBack, Hand, Pending, Readable
  <2> QED
    BY <1>m, <1>h, <2>1, <1>w, RestoreEntryFollowed, MovesKeepIInv
<1>7. CASE RereadFails(s)
  <2>1. /\ work[s] = "reread" /\ work'[s] = "none" /\ script' = script
        /\ UNCHANGED <<mem, dsk, op, seen>>
    BY <1>7, <1>t DEF RereadFails, Dies, journalVars
  <2>2. Hand(s)'
    BY <1>h, <2>1 DEF Hand
  <2>3. s \notin ext => Followed(s)'
    BY <1>h, <2>1 DEF Followed, Ours, Halted, windowsVars
  <2> QED
    BY <1>m, <2>2, <2>3, MovesKeepIInv
<1>8. CASE RestoreNext(s)
  <2>1. /\ work[s] = "todo" /\ op = "restore" /\ script[s].step = "none" /\ Pending(mem.entry[s])
        /\ RestoreEntry(s, seen[s])
    BY <1>8, <1>h DEF RestoreNext, Hand
  <2>2. seen[s] \in Stable \cup {Missing} /\ (s \notin ext => seen[s] = svc[s])
    BY <2>1, <1>h DEF Followed, IInv, CInv, TypeOK
  <2> QED
    BY <1>m, <1>h, <2>1, <2>2, <1>w, RestoreEntryFollowed, MovesKeepIInv
<1>9. CASE Restored(s)
  BY <1>9, <1>s, <1>w DEF Restored
<1>10. CASE RestoreRefused(s)
  <2>1. s \in ext
    BY <1>10, <1>h DEF RestoreRefused, Followed
  <2> QED
    BY <1>10, <1>s, <2>1 DEF RestoreRefused
<1>11. CASE RestoreFails(s)
  BY <1>11, <1>s DEF RestoreFails
<1> QED
  BY <1>1, <1>2, <1>3, <1>4, <1>5, <1>6, <1>7, <1>8, <1>9, <1>10, <1>11 DEF WorkerAction

-----------------------------------------------------------------------------
(***************************************************************************)
(* Scripts and Windows                                                     *)
(***************************************************************************)

\* A running script has its entry pending in memory and in the file.
LEMMA ScriptFacts ==
    ASSUME IInv, NEW s \in Service, script[s].step # "none"
    PROVE  /\ work[s] \in {"disabling", "restoring"}
           /\ dsk.entry[s] = mem.entry[s] /\ mem.entry[s].phase \in {"intent", "restoring"}
           /\ script[s].target = Off \/ script[s].target = base[s]
           /\ work[s] = "disabling" => script[s].target = Off
           /\ base[s] \in Stable
<1>1. Hand(s)
  BY DEF IInv
<1>2. work[s] \in {"disabling", "restoring"}
  BY <1>1 DEF Hand
<1>3. mem.entry[s].original = base[s] /\ base[s] \in Stable
  BY <1>2, AtWork
<1> QED
  BY <1>1, <1>2, <1>3 DEF Hand

\* What a script can do to a service leaves it in a state of Game Mode's own.
LEMMA ScriptKeepsIInv ==
    ASSUME IInv, NEW s \in Service, script[s].step # "none",
           NEW step \in {"stop", "mode", "start", "verify"}, ScriptGoes(s, step),
           step = "start" => script[s].target.status = "Running",
           NEW state, svc' = [svc EXCEPT ![s] = state],
           s \notin ext => state = base[s] \/ state = Off
                           \/ /\ base[s].status = "Running" /\ state.status # "Running"
                              /\ state.mode = base[s].mode,
           ScriptOnly, CInv'
    PROVE  IInv'
<1>u. UNCHANGED <<mem, dsk, recovery, op, stage, work, seen, shutting, fresh, base, ext>>
  BY DEF ScriptOnly, opVars
<1>t. svc \in [Service -> ServiceState] /\ script \in [Service -> Script]
  BY DEF IInv, CInv, TypeOK
<1>1. /\ svc'[s] = state /\ script'[s].step = step
      /\ script'[s].target = script[s].target /\ script'[s].expected = script[s].expected
      /\ \A t \in Service \ {s} : svc'[t] = svc[t] /\ script'[t] = script[t]
  BY <1>t DEF ScriptGoes, Script
<1>2. JInv'
  BY <1>u DEF IInv, JInv, Answers, Closed, AnyPending, Snapshot, Underway, ToRestore, Failures
<1>3. ASSUME NEW t \in Service PROVE Hand(t)'
  <2>1. Hand(t)
    BY DEF IInv
  <2>2. CASE t # s
    BY <2>1, <2>2, <1>u, <1>1 DEF Hand
  <2>3. CASE t = s
    BY <2>1, <2>3, <1>u, <1>1 DEF Hand
  <2> QED
    BY <2>2, <2>3
<1>4. ASSUME NEW t \in Service, t \notin ext PROVE Followed(t)'
  <2>1. Followed(t)
    BY <1>4 DEF IInv
  <2>2. CASE t # s
    BY <2>1, <2>2, <1>u, <1>1 DEF Followed, Ours, Halted
  <2>3. CASE t = s
    <3>1. /\ work[s] \in {"disabling", "restoring"}
          /\ dsk.entry[s] = mem.entry[s] /\ mem.entry[s].phase \in {"intent", "restoring"}
      BY ScriptFacts
    <3>2. Ours(s)'
      BY <1>4, <2>3, <1>u, <1>1 DEF Ours, Halted
    <3> QED
      BY <2>3, <3>1, <3>2, <1>u, <1>1 DEF Followed, Pending
  <2> QED
    BY <2>2, <2>3
<1> QED
  BY <1>u, <1>2, <1>3, <1>4 DEF IInv

LEMMA WindowsStep ==
    ASSUME IInv, NEW s \in Service, CInv',
           \/ Compare(s) \/ StopService(s) \/ SetMode(s) \/ StartService(s)
    PROVE  IInv'
<1>t. /\ svc \in [Service -> ServiceState] /\ svc[s] \in ServiceState
      /\ script[s].step # "none"
  BY DEF IInv, CInv, TypeOK, Compare, StopService, SetMode, StartService
<1>f. /\ work[s] \in {"disabling", "restoring"}
      /\ script[s].target = Off \/ script[s].target = base[s]
      /\ base[s] \in Stable
  BY <1>t, ScriptFacts
<1>o. s \notin ext => Ours(s)
  BY DEF IInv, Followed
<1>1. CASE Compare(s)
  <2>1. svc' = [svc EXCEPT ![s] = svc[s]]
    BY <1>1, <1>t DEF Compare
  <2> QED
    BY <1>1, <2>1, <1>t, <1>o, ScriptKeepsIInv DEF Compare, Ours, Halted
<1>2. CASE StopService(s)
  <2> DEFINE state == [svc[s] EXCEPT !.status = "Stopping"]
  <2>1. svc' = [svc EXCEPT ![s] = state] /\ ScriptGoes(s, "mode") /\ ScriptOnly
    BY <1>2 DEF StopService
  <2>2. s \notin ext => base[s].status = "Running" /\ state.status # "Running" /\ state.mode = base[s].mode
    BY <1>2, <1>t, <1>o DEF StopService, Ours, Halted, Off, ServiceState, Missing, Stable
  <2> HIDE DEF state
  <2> QED
    BY <2>1, <2>2, <1>t, ScriptKeepsIInv
<1>3. CASE SetMode(s)
  <2> DEFINE state == [svc[s] EXCEPT !.mode = script[s].target.mode]
             step == IF script[s].target.status = "Running" THEN "start" ELSE "verify"
  <2>1. svc' = [svc EXCEPT ![s] = state] /\ ScriptGoes(s, step) /\ ScriptOnly
        /\ step \in {"stop", "mode", "start", "verify"}
        /\ (step = "start" => script[s].target.status = "Running")
    BY <1>3 DEF SetMode
  <2>2. ASSUME s \notin ext
        PROVE state = base[s] \/ state = Off
              \/ /\ base[s].status = "Running" /\ state.status # "Running" /\ state.mode = base[s].mode
    <3>1. /\ svc[s] \in [mode : Mode, status : {"Running", "Stopped", "Stopping", "Starting"}]
          /\ script[s].target.status = "Stopped" => svc[s].status = "Stopped"
      BY <1>3, <1>t DEF SetMode, ServiceState
    <3>2. CASE script[s].target = Off
      BY <3>1, <3>2 DEF Off
    <3>3. CASE script[s].target = base[s]
      <4>1. /\ state.mode = base[s].mode /\ state.status = svc[s].status
            /\ state \in [mode : Mode, status : {"Running", "Stopped", "Stopping", "Starting"}]
        BY <3>1, <3>3, <1>f DEF Stable
      <4>2. CASE base[s].status = "Stopped"
        <5>1. state.status = "Stopped"
          BY <3>1, <3>3, <4>1, <4>2
        <5> QED
          BY <4>1, <4>2, <5>1, <1>f DEF Stable
      <4>3. CASE base[s].status = "Running"
        <5>1. CASE svc[s].status = "Running"
          BY <4>1, <4>3, <5>1, <1>f DEF Stable
        <5>2. CASE svc[s].status # "Running"
          BY <4>1, <4>3, <5>2
        <5> QED
          BY <5>1, <5>2
      <4> QED
        BY <4>2, <4>3, <1>f DEF Stable
    <3> QED
      BY <1>f, <3>2, <3>3
  <2> HIDE DEF state, step
  <2> QED
    BY <2>1, <2>2, <1>t, ScriptKeepsIInv
<1>4. CASE StartService(s)
  <2> DEFINE state == [svc[s] EXCEPT !.status = "Starting"]
  <2>1. svc' = [svc EXCEPT ![s] = state] /\ ScriptGoes(s, "verify") /\ ScriptOnly
    BY <1>4 DEF StartService
  <2>2. script[s].target.status = "Running"
    BY <1>4 DEF StartService, IInv, Hand
  <2>3. base[s].status = "Running"
    BY <2>2, <1>f DEF Off
  <2>4. s \notin ext => state.status # "Running" /\ state.mode = base[s].mode
    BY <1>4, <2>3, <1>t, <1>o DEF StartService, Ours, Halted, Off, ServiceState, Missing
  <2> HIDE DEF state
  <2> QED
    BY <2>1, <2>3, <2>4, <1>t, ScriptKeepsIInv
<1> QED
  BY <1>1, <1>2, <1>3, <1>4
\* A service in transition is none that anybody compares with a state it read.
LEMMA SettlingStep ==
    ASSUME IInv, NEW s \in Service, CInv', WindowsSettles(s)
    PROVE  IInv'
<1>u. UNCHANGED <<mem, dsk, recovery, op, stage, work, seen, script, shutting, fresh, base, ext>>
  BY DEF WindowsSettles, ScriptOnly, opVars
<1>t. /\ svc \in [Service -> ServiceState] /\ svc[s].status \in {"Stopping", "Starting"}
      /\ seen[s] \in Stable \cup {Missing} /\ script[s].expected \in Stable \cup {Missing}
      /\ base[s] \in Stable \cup {Missing}
  BY DEF IInv, CInv, JInv, TypeOK, WindowsSettles, Script
<1>1. PICK status \in {"Running", "Stopped"} : svc' = [svc EXCEPT ![s].status = status]
  BY DEF WindowsSettles
<1>2. \A t \in Service \ {s} : svc'[t] = svc[t]
  BY <1>1, <1>t
<1>3. JInv'
  BY <1>u DEF IInv, JInv, Answers, Closed, AnyPending, Snapshot, Underway, ToRestore, Failures
<1>4. ASSUME NEW t \in Service PROVE Hand(t)'
  BY <1>u DEF IInv, Hand
<1>5. ASSUME NEW t \in Service, t \notin ext PROVE Followed(t)'
  <2>1. Followed(t)
    BY <1>5 DEF IInv
  <2>2. CASE t # s
    BY <2>1, <2>2, <1>u, <1>2 DEF Followed, Ours, Halted
  <2>3. CASE t = s
    <3>1. /\ svc[s] \notin Stable \cup {Missing, Off}
      BY <1>t DEF Stable, Missing, Off
    <3>2. svc[s] # base[s] /\ svc[s] # seen[s] /\ svc[s] # script[s].expected /\ svc[s] # Off
      BY <3>1, <1>t
    <3>3. /\ svc'[s].status = status /\ svc'[s].mode = svc[s].mode
          /\ svc'[s] \in [mode : Mode, status : {"Running", "Stopped"}]
      BY <1>1, <1>t DEF ServiceState, Missing
    <3>4. Halted(s)
      BY <2>1, <2>3, <3>2 DEF Followed, Ours
    <3>5. base[s] \in Stable
      BY <3>4, <1>t DEF Halted, Missing
    <3>6. Ours(s)'
      BY <3>3, <3>4, <3>5, <1>u DEF Ours, Halted, Stable
    <3> QED
      BY <2>1, <2>3, <3>2, <3>6, <1>u DEF Followed
  <2> QED
    BY <2>2, <2>3
<1> QED
  BY <1>u, <1>3, <1>4, <1>5 DEF IInv

LEMMA OthersStep ==
    ASSUME IInv, NEW s \in Service, CInv', NEW state, OthersChange(s, state)
    PROVE  IInv'
<1>u. /\ UNCHANGED <<mem, dsk, recovery, op, stage, work, seen, script, shutting, fresh, base>>
      /\ svc' = [svc EXCEPT ![s] = state] /\ ext' = ext \cup {s}
  BY DEF OthersChange, opVars
<1>2. \A t \in Service \ {s} : svc'[t] = svc[t]
  BY <1>u
<1>3. JInv'
  BY <1>u DEF IInv, JInv, Answers, Closed, AnyPending, Snapshot, Underway, ToRestore, Failures
<1>4. ASSUME NEW t \in Service PROVE Hand(t)'
  BY <1>u DEF IInv, Hand
<1>5. ASSUME NEW t \in Service, t \notin ext' PROVE Followed(t)'
  <2>1. Followed(t) /\ t # s
    BY <1>5, <1>u DEF IInv
  <2> QED
    BY <2>1, <1>u, <1>2 DEF Followed, Ours, Halted
<1> QED
  BY <1>u, <1>3, <1>4, <1>5 DEF IInv

-----------------------------------------------------------------------------
(***************************************************************************)
(* Operations                                                              *)
(***************************************************************************)

\* With nothing in flight an operation ends and forgets what it was doing; the
\* entries are as the workers left them.
LEMMA EndKeepsIInv ==
    ASSUME IInv, CInv', End, op # "none", InFlight = {}, UNCHANGED windowsVars, fresh' = fresh,
           mem'.entry = mem.entry, dsk' \in {dsk, mem'}, Closed(mem)'
    PROVE  IInv'
<1>1. /\ op' = "none" /\ stage' = "idle" /\ \A s \in Service : work'[s] = "none"
      /\ script' = script
  BY EndFacts
<1>2. /\ svc' = svc /\ base' = base /\ ext' = ext /\ fresh' = FALSE
  BY DEF windowsVars, IInv, CInv, JInv, Snapshot, TypeOK
<1>3. dsk' = dsk \/ dsk' = mem'
  OBVIOUS
<1>4. JInv'
  <2>1. Answers(mem)' /\ Answers(dsk)'
    BY <1>2, <1>3 DEF IInv, JInv, Answers
  <2>2. Closed(dsk)'
    BY <1>3 DEF IInv, JInv, Closed, AnyPending
  <2> QED
    BY <1>1, <1>2, <2>1, <2>2 DEF IInv, JInv, Snapshot, Underway
<1>5. ASSUME NEW s \in Service PROVE Hand(s)'
  <2>1. Hand(s) /\ work[s] \notin {"disabling", "reread", "restoring"}
    BY DEF IInv, InFlight
  <2> QED
    BY <1>1, <2>1 DEF Hand
<1>6. ASSUME NEW s \in Service, s \notin ext PROVE Followed(s)'
  <2>1. Followed(s) /\ Hand(s) /\ work[s] \notin {"disabling", "reread", "restoring"}
    BY <1>6 DEF IInv, InFlight
  <2>2. script'[s].step = "none"
    BY <1>1, <2>1 DEF Hand
  <2> QED
    BY <1>1, <1>2, <1>3, <2>1, <2>2 DEF Followed, Ours, Halted
<1> QED
  BY <1>2, <1>4, <1>5, <1>6 DEF IInv

\* Between operations nobody has an entry in hand.
LEMMA NoWork ==
    ASSUME IInv, stage # "work"
    PROVE  \A s \in Service : work[s] = "none" /\ script[s].step = "none" /\ s \notin InFlight
BY DEF IInv, CInv, Shape, Hand, InFlight

LEMMA BeginKeepsIInv ==
    ASSUME IInv, CInv', NEW name, NEW first, Begin(name, first), first \in {"read", "work"},
           UNCHANGED <<windowsVars, journalVars, script>>,
           fresh' = FALSE,
           \/ name = "prepare" /\ ~AnyPending(mem) /\ work' = work
           \/ name = "restore" /\ ToRestore /\ work' = work
           \/ /\ name = "apply" /\ ToRestore /\ fresh
              /\ work' = [s \in Service |-> IF InJournal(s) THEN "todo" ELSE "none"]
    PROVE  IInv'
<1>1. op = "none" /\ op' = name /\ stage' = first /\ stage # "work"
  BY DEF Begin, IInv, CInv, Shape
<1>2. \A s \in Service : work[s] = "none" /\ script[s].step = "none"
  BY <1>1, NoWork
<1>3. /\ mem' = mem /\ dsk' = dsk /\ svc' = svc /\ base' = base /\ ext' = ext /\ script' = script
      /\ fresh' \in BOOLEAN /\ ~fresh'
  BY DEF windowsVars, journalVars, CInv, TypeOK
<1>4. \A s \in Service : \/ work'[s] = "none"
                         \/ /\ work'[s] = "todo" /\ name = "apply" /\ fresh
                            /\ mem.entry[s].phase # "none"
  BY <1>2 DEF InJournal
<1>5. JInv'
  <2>1. name = "apply" => fresh
    OBVIOUS
  <2>2. Snapshot'
    BY <1>1, <1>3, <2>1 DEF IInv, JInv, Snapshot
  <2>3. Underway'
    BY <1>1, <1>3 DEF Underway, ToRestore, AnyPending
  <2> QED
    BY <1>3, <2>2, <2>3 DEF IInv, JInv, Answers, Closed, AnyPending
<1>6. ASSUME NEW s \in Service PROVE Hand(s)'
  <2>1. Hand(s) /\ (fresh => mem.entry[s].phase \in {"none", "untouched"})
    BY DEF IInv, JInv, Snapshot
  <2> QED
    BY <1>1, <1>2, <1>3, <1>4, <2>1 DEF Hand
<1>7. ASSUME NEW s \in Service, s \notin ext PROVE Followed(s)'
  <2>1. Followed(s)
    BY <1>7 DEF IInv
  <2>2. ~(work'[s] = "todo" /\ op' = "restore") /\ script'[s].step = "none"
    BY <1>1, <1>2, <1>3, <1>4
  <2> QED
    BY <1>3, <2>1, <2>2 DEF Followed, Ours, Halted
<1> QED
  BY <1>3, <1>5, <1>6, <1>7 DEF IInv

\* Nothing pending: every service that others have left alone is at its baseline.
LEMMA NothingPending ==
    ASSUME IInv, ~AnyPending(mem)
    PROVE  \A s \in Service \ ext : svc[s] = base[s]
BY DEF IInv, Followed, AnyPending

LEMMA ClosingKeepsIInv ==
    ASSUME IInv, CInv', Conclude, ~AnyPending(mem), op = "none",
           UNCHANGED <<opVars, windowsVars, script>>, fresh' => fresh
    PROVE  IInv'
<1>1. /\ mem'.entry = mem.entry /\ (dsk' = dsk \/ dsk' = mem')
      /\ op' = op /\ stage' = stage /\ work' = work /\ seen' = seen /\ script' = script
      /\ svc' = svc /\ base' = base /\ ext' = ext
  BY ConcludeWrite DEF IInv, opVars, windowsVars
<1>2. \A s \in Service : work[s] = "none" /\ script[s].step = "none"
  BY NoWork DEF IInv, CInv, Shape
<1>3. JInv'
  <2>1. Answers(mem)' /\ Answers(dsk)'
    BY <1>1 DEF IInv, JInv, Answers
  <2>2. Closed(mem)' /\ Closed(dsk)'
    BY <1>1 DEF IInv, JInv, Closed, AnyPending
  <2>3. Snapshot'
    BY <1>1 DEF IInv, JInv, Snapshot
  <2>4. Underway'
    BY <1>1 DEF IInv, CInv, Shape, Underway
  <2> QED
    BY <1>1, <2>1, <2>2, <2>3, <2>4 DEF IInv, JInv
<1>4. ASSUME NEW s \in Service PROVE Hand(s)'
  <2>1. Hand(s)
    BY DEF IInv
  <2> QED
    BY <1>1, <1>2, <2>1 DEF Hand
<1>5. ASSUME NEW s \in Service, s \notin ext PROVE Followed(s)'
  <2>1. Followed(s)
    BY <1>5 DEF IInv
  <2> QED
    BY <1>1, <1>2, <2>1 DEF Followed, Ours, Halted
<1> QED
  BY <1>1, <1>3, <1>4, <1>5 DEF IInv

LEMMA PreparedStep ==
    ASSUME IInv, CInv', Prepared
    PROVE  IInv'
<1>1. /\ op = "prepare" /\ stage = "read" /\ svc' = svc /\ op' = "none" /\ stage' = "idle"
      /\ script' = script /\ \A s \in Service : work'[s] = "none"
  BY EndFacts DEF Prepared
<1>2. \A s \in Service : script'[s].step = "none"
  BY <1>1, NoWork
<1>3. /\ mem' \in Journal /\ mem'.phase = "prepared" /\ (dsk' = dsk \/ dsk' = mem')
      /\ \A s \in Service : /\ mem'.entry[s].phase \in {"none", "untouched"}
                            /\ mem'.entry[s].phase = "none" <=> svc[s] = Missing
                            /\ mem'.entry[s].original = svc[s]
      /\ svc \in [Service -> Stable \cup {Missing}]
      /\ \/ dsk' = mem' /\ fresh' = TRUE /\ base' = svc /\ ext' = {}
         \/ fresh' = FALSE /\ UNCHANGED <<base, ext>>
  BY PreparedSnapshot DEF IInv
<1>4. ASSUME NEW s \in Service PROVE Hand(s)'
  BY <1>1, <1>2 DEF Hand
<1>5. CASE dsk' = mem' /\ fresh' = TRUE /\ base' = svc /\ ext' = {}
  <2>1. JInv'
    BY <1>1, <1>3, <1>5 DEF JInv, Answers, Closed, Snapshot, Underway, Pending
  <2>2. ASSUME NEW s \in Service PROVE Followed(s)'
    BY <1>1, <1>2, <1>3, <1>5 DEF Followed, Ours
  <2> QED
    BY <1>4, <2>1, <2>2 DEF IInv
<1>6. CASE fresh' = FALSE /\ UNCHANGED <<base, ext>>
  <2>1. JInv'
    BY <1>1, <1>3, <1>6 DEF IInv, JInv, Answers, Closed, AnyPending, Snapshot, Underway, Pending
  <2>2. ASSUME NEW s \in Service, s \notin ext PROVE Followed(s)'
    <3>1. Followed(s) /\ svc[s] = base[s]
      BY <1>1, <2>2, NothingPending DEF IInv, JInv, Underway
    <3> QED
      BY <1>1, <1>2, <1>3, <1>6, <3>1 DEF Followed, Ours
  <2> QED
    BY <1>4, <1>6, <2>1, <2>2 DEF IInv
<1> QED
  BY <1>3, <1>5, <1>6
LEMMA RestartStep ==
    ASSUME IInv, CInv', ~Orphans, Restart
    PROVE  IInv'
<1>1. /\ mem' = dsk /\ dsk' = dsk /\ svc' = svc /\ base' = base /\ ext' = ext
      /\ op' = "none" /\ stage' = "idle" /\ fresh' = FALSE
      /\ \A s \in Service : work'[s] = "none" /\ script'[s].step = "none"
  BY DEF Restart, windowsVars, NoScript
<1>2. JInv'
  BY <1>1 DEF IInv, JInv, Answers, Closed, AnyPending, Snapshot, Underway
<1>3. ASSUME NEW s \in Service PROVE Hand(s)'
  BY <1>1 DEF Hand
<1>4. ASSUME NEW s \in Service, s \notin ext PROVE Followed(s)'
  <2>1. Followed(s)
    BY <1>4 DEF IInv
  <2> QED
    BY <1>1, <2>1 DEF Followed, Ours, Halted
<1> QED
  BY <1>1, <1>2, <1>3, <1>4 DEF IInv

\* What changes neither the services, nor the journals, nor the work in hand.
LEMMA OtherwiseStep ==
    ASSUME IInv, CInv', UNCHANGED <<svc, mem, dsk, op, work, seen, script, fresh, base, ext>>,
           stage' = stage \/ (stage = "games" /\ stage' = "apps")
    PROVE  IInv'
<1>1. JInv'
  BY DEF IInv, JInv, Answers, Closed, AnyPending, Snapshot, Underway, ToRestore, Failures
<1>2. ASSUME NEW s \in Service PROVE Hand(s)'
  BY DEF IInv, Hand
<1>3. ASSUME NEW s \in Service, s \notin ext PROVE Followed(s)'
  BY <1>3 DEF IInv, Followed, Ours, Halted
<1> QED
  BY <1>1, <1>2, <1>3 DEF IInv

LEMMA IStep == ~Orphans /\ IInv /\ [Next]_vars => IInv'
<1> SUFFICES ASSUME ~Orphans, IInv, [Next]_vars PROVE IInv'
  OBVIOUS
<1>c. CInv /\ CInv'
  BY CStep DEF IInv
<1>n. stage # "work" => InFlight = {}
  BY NoWork DEF InFlight
<1>o. /\ stage = "idle" <=> op = "none"
      /\ Closed(mem) /\ mem \in Journal /\ fresh \in BOOLEAN
  BY <1>c DEF CInv, IInv, JInv, Shape, TypeOK
<1>1. CASE PrepareCalled
  BY <1>1, <1>c, BeginKeepsIInv DEF PrepareCalled
<1>2. CASE ApplyCalled
  <2>1. ToRestore
    BY <1>2 DEF ApplyCalled, ToRestore
  <2> QED
    BY <1>2, <2>1, <1>c, BeginKeepsIInv DEF ApplyCalled
<1>3. CASE RestoreCalled
  <2>1. CASE Begin("restore", "read") /\ UNCHANGED <<journalVars, recovery>>
    BY <1>3, <2>1, <1>c, BeginKeepsIInv DEF RestoreCalled
  <2>2. CASE ~AnyPending(mem) /\ op = "none" /\ Conclude /\ UNCHANGED <<gateVars, op, stage, dead>>
    BY <1>3, <2>2, <1>c, ClosingKeepsIInv DEF RestoreCalled, opVars
  <2> QED
    BY <1>3, <2>1, <2>2 DEF RestoreCalled
<1>4. CASE ShutdownCalled \/ ShutdownGivesUp \/ CloseApps \/ OthersUseGate
  BY <1>4, <1>c, OtherwiseStep DEF ShutdownCalled, ShutdownGivesUp, CloseApps, OthersUseGate,
     opVars, windowsVars, journalVars
<1>5. CASE ReadFails \/ WorkersFailed
  <2>1. op # "none" /\ InFlight = {}
    BY <1>5, <1>o, <1>n DEF ReadFails, WorkersFailed, WorkersDone
  <2>2. End /\ UNCHANGED <<windowsVars, mem, dsk, fresh>>
    BY <1>5 DEF ReadFails, WorkersFailed, journalVars
  <2>3. Closed(mem)'
    BY <1>o, <2>2 DEF Closed, AnyPending
  <2> QED
    BY <2>1, <2>2, <2>3, <1>c, EndKeepsIInv
<1>6. CASE Prepared
  BY <1>6, <1>c, PreparedStep
<1>7. CASE RestoreRead
  <2>1. /\ op = "restore" /\ stage = "read" /\ seen' = svc /\ stage' = "work"
        /\ UNCHANGED <<op, svc, base, ext, mem, dsk, script, fresh>>
        /\ \A s \in Service : work'[s] = IF Pending(mem.entry[s]) THEN "todo" ELSE "none"
    BY <1>7 DEF RestoreRead, windowsVars, journalVars
  <2>2. \A s \in Service : script[s].step = "none"
    BY <2>1, NoWork
  <2>3. JInv'
    BY <2>1 DEF IInv, JInv, Answers, Closed, AnyPending, Snapshot, Underway, ToRestore
  <2>4. ASSUME NEW s \in Service PROVE Hand(s)'
    BY <2>1, <2>2 DEF Hand
  <2>5. ASSUME NEW s \in Service, s \notin ext PROVE Followed(s)'
    <3>1. Followed(s)
      BY <2>5 DEF IInv
    <3> QED
      BY <2>1, <2>2, <3>1 DEF Followed, Ours, Halted
  <2> QED
    BY <1>c, <2>1, <2>3, <2>4, <2>5 DEF IInv
<1>p. ASSUME NEW phase \in {"partial", "active"}, Saved(Phased(phase)) \/ SaveThrows(Phased(phase))
      PROVE  mem'.entry = mem.entry /\ dsk' \in {dsk, mem'} /\ Closed(mem)' /\ mem'.phase = phase
  BY <1>c, <1>p, PhasedWrite DEF Closed
<1>8. CASE ApplyPartial
  <2>1. op # "none" /\ InFlight = {} /\ End /\ UNCHANGED <<windowsVars, fresh>>
    BY <1>8 DEF ApplyPartial, WorkersDone
  <2>2. mem'.entry = mem.entry /\ dsk' \in {dsk, mem'} /\ Closed(mem)'
    BY <1>8, <1>p DEF ApplyPartial
  <2> QED
    BY <2>1, <2>2, <1>c, EndKeepsIInv
<1>9. CASE AskGames
  <2>0. /\ mem'.entry = mem.entry /\ dsk' \in {dsk, mem'} /\ Closed(mem)' /\ mem'.phase = "partial"
        /\ op = "apply" /\ InFlight = {} /\ UNCHANGED <<windowsVars, fresh>> /\ ~Failures(mem)
    BY <1>9, <1>p DEF AskGames, WorkersDone
  <2>1. CASE End
    BY <2>0, <2>1, <1>c, EndKeepsIInv
  <2>2. CASE /\ Saved(Phased("partial")) /\ stage' = "games"
             /\ UNCHANGED <<gateVars, op, work, dead, seen, script, shutting>>
    <3>1. dsk' = mem' /\ svc' = svc /\ base' = base /\ ext' = ext
      BY <2>0, <2>2 DEF Saved, windowsVars
    <3>2. JInv'
      <4>1. Answers(mem)' /\ Answers(dsk)' /\ Closed(dsk)'
        BY <2>0, <3>1 DEF IInv, JInv, Answers, Closed, AnyPending
      <4>2. Snapshot'
        BY <2>0, <2>2, <3>1 DEF IInv, JInv, Snapshot
      <4>3. Underway'
        BY <2>0, <2>2 DEF Underway, ToRestore, Failures
      <4> QED
        BY <2>0, <3>1, <4>1, <4>2, <4>3 DEF IInv, JInv
    <3>3. ASSUME NEW s \in Service PROVE Hand(s)'
      <4>1. Hand(s)
        BY DEF IInv
      <4> QED
        BY <2>0, <2>2, <3>1, <4>1 DEF Hand
    <3>4. ASSUME NEW s \in Service, s \notin ext PROVE Followed(s)'
      <4>1. Followed(s)
        BY <3>4 DEF IInv
      <4> QED
        BY <2>0, <2>2, <3>1, <4>1 DEF Followed, Ours, Halted
    <3> QED
      BY <1>c, <3>1, <3>2, <3>3, <3>4 DEF IInv
  <2> QED
    BY <1>9, <2>1, <2>2 DEF AskGames
<1>11. CASE Applied
  <2>1. op # "none" /\ InFlight = {} /\ End /\ UNCHANGED <<windowsVars, fresh>>
    BY <1>11, <1>o, <1>n DEF Applied
  <2>2. mem'.entry = mem.entry /\ dsk' \in {dsk, mem'} /\ Closed(mem)'
    BY <1>11, <1>p DEF Applied
  <2> QED
    BY <2>1, <2>2, <1>c, EndKeepsIInv
<1>12. CASE RestoreDone
  <2>1. op # "none" /\ InFlight = {} /\ End /\ UNCHANGED <<windowsVars, fresh>> /\ Conclude
    BY <1>12 DEF RestoreDone, WorkersDone
  <2>2. mem'.entry = mem.entry /\ dsk' \in {dsk, mem'} /\ Closed(mem)'
    BY <2>1, <1>c, ConcludeWrite DEF Closed, AnyPending
  <2> QED
    BY <2>1, <2>2, <1>c, EndKeepsIInv
<1>13. CASE ShutdownRestores
  <2>1. CASE AnyPending(mem) /\ Begin("restore", "read") /\ UNCHANGED <<journalVars, recovery>>
    <3>1. fresh' = FALSE
      BY <1>13, <2>1, <1>o DEF ShutdownRestores, IInv, JInv, Snapshot, AnyPending, Pending
    <3> QED
      BY <1>13, <2>1, <3>1, <1>c, BeginKeepsIInv DEF ShutdownRestores
  <2>2. CASE ~AnyPending(mem) /\ op = "none" /\ Conclude /\ UNCHANGED <<gateVars, op, stage, dead>>
    BY <1>13, <2>2, <1>c, ClosingKeepsIInv DEF ShutdownRestores, opVars
  <2> QED
    BY <1>13, <2>1, <2>2 DEF ShutdownRestores
<1>14. ASSUME NEW s \in Service, WorkerAction(s) PROVE IInv'
  BY <1>14, WorkerStep
<1>15. CASE Windows
  BY <1>15, <1>c, WindowsStep, SettlingStep, OthersStep DEF Windows
<1>17. CASE Restart
  BY <1>17, <1>c, RestartStep
<1>18. CASE UNCHANGED vars
  BY <1>18, <1>c, OtherwiseStep DEF vars, opVars
<1> QED
  BY <1>1, <1>2, <1>3, <1>4, <1>5, <1>6, <1>7, <1>8, <1>9, <1>11, <1>12, <1>13, <1>14,
     <1>15, <1>17, <1>18 DEF Next, Calls, Proceed, WorkerAction

LEMMA IInit == Init => IInv
<1> SUFFICES ASSUME Init PROVE IInv
  OBVIOUS
<1>1. CInv
  BY CInit
<1>2. /\ \A s \in Service : NoJournal.entry[s].phase = "none" /\ work[s] = "none" /\ script[s].step = "none"
      /\ NoJournal.phase = "none"
  BY DEF Init, NoJournal, NoScript
<1>3. JInv
  BY <1>2 DEF Init, JInv, Answers, Closed, Snapshot, Underway, Pending
<1>4. \A s \in Service : Hand(s) /\ Followed(s)
  BY <1>2 DEF Init, Hand, Followed, Ours
<1> QED
  BY <1>1, <1>3, <1>4 DEF IInv

LEMMA Inductive == ASSUME ~Orphans PROVE Spec => []IInv
<1>1. Init => IInv
  BY IInit
<1>2. IInv /\ [Next]_vars => IInv'
  BY IStep
<1> QED
  BY <1>1, <1>2, PTL DEF Spec

-----------------------------------------------------------------------------
(***************************************************************************)
(* The properties. ~Orphans: a script that is still running after its      *)
(* process has ended changes services whose journal was read without it.   *)
(***************************************************************************)

\* A service Game Mode has changed and nobody else is pending in the journal file
\* with its baseline, whatever write failed and wherever the process ended.
THEOREM AlteredStaysJournaled == ASSUME ~Orphans PROVE Spec => []AlteredIsJournaled
<1>1. IInv => AlteredIsJournaled
  BY DEF IInv, JInv, Followed, Answers, AlteredIsJournaled
<1> QED
  BY <1>1, Inductive, PTL

\* Only what others did to a service is a conflict.
THEOREM ConflictsAreForeign == ASSUME ~Orphans PROVE Spec => []ConflictIsForeign
<1>1. IInv => ConflictIsForeign
  BY DEF IInv, Followed, ConflictIsForeign
<1> QED
  BY <1>1, Inductive, PTL

\* A journal file that says restored has nothing pending, and the services are
\* at their baseline.
THEOREM RestoredIsBaseline == ASSUME ~Orphans PROVE Spec => []RestoredMeansBaseline
<1>1. IInv => RestoredMeansBaseline
  BY DEF IInv, JInv, Closed, Followed, AnyPending, RestoredMeansBaseline
<1> QED
  BY <1>1, Inductive, PTL

\* A script that runs has a worker of the operation in progress waiting for it, and
\* the gate to itself: mapThree is not over before the last of its workers.
THEOREM ScriptsStayUnderGate == ASSUME ~Orphans PROVE Spec => []ScriptsUnderGate
<1>1. IInv => ScriptsUnderGate
  <2> SUFFICES ASSUME IInv, NEW s \in Service, script[s].step # "none"
               PROVE  /\ work[s] \in {"disabling", "restoring"} /\ op \in {"apply", "restore"}
                      /\ owner = "background" /\ running = {}
    BY DEF ScriptsUnderGate
  <2>1. work[s] \in {"disabling", "restoring"}
    BY DEF IInv, Hand
  <2>2. op \in {"apply", "restore"}
    BY <2>1 DEF IInv, CInv, Shape
  <2> QED
    BY <2>1, <2>2 DEF IInv, CInv, OwnsGate, HolderIsAlone
<1> QED
  BY <1>1, Inductive, PTL

\* Applications are closed only when every service is off, or was when the
\* baseline was taken.
THEOREM AppsCloseLast == ASSUME ~Orphans PROVE Spec => []AppsCloseAfterServices
<1>1. IInv => AppsCloseAfterServices
  <2> SUFFICES ASSUME IInv, stage = "apps", NEW s \in Service \ ext
               PROVE  svc[s] = Off \/ base[s].mode \in {"Disabled", "missing"}
    BY DEF AppsCloseAfterServices
  <2>1. /\ op = "apply" /\ ~Failures(mem) /\ Followed(s)
        /\ mem.entry[s].original = base[s]
        /\ mem.entry[s].phase = "none" <=> base[s] = Missing
    BY DEF IInv, CInv, JInv, Shape, Underway, Snapshot
  <2>2. \/ mem.entry[s].phase \in {"none", "changed"}
        \/ mem.entry[s].original.mode = "Disabled"
    BY <2>1 DEF Failures
  <2> QED
    BY <2>1, <2>2 DEF Followed, Missing
<1> QED
  BY <1>1, Inductive, PTL

\* The file drops a pending entry, or gives it another baseline, only when the
\* service is back at the baseline it had.
THEOREM BaselineStays == ASSUME ~Orphans PROVE Spec => BaselineIsKept
<1> DEFINE Kept == \A s \in Service \ ext :
                     LET was == dsk.entry[s]
                     IN (Pending(was) /\ ~(Pending(dsk'.entry[s]) /\ dsk'.entry[s].original = was.original))
                            => svc[s] = was.original
<1>1. IInv /\ IInv' /\ [Next]_vars => [Kept]_dsk
  <2> SUFFICES ASSUME IInv, IInv', [Next]_vars, dsk' # dsk, NEW s \in Service \ ext,
                      Pending(dsk.entry[s]), svc[s] # dsk.entry[s].original
               PROVE  Pending(dsk'.entry[s]) /\ dsk'.entry[s].original = dsk.entry[s].original
    OBVIOUS
  <2>1. dsk.entry[s].original = base[s] /\ svc[s] # base[s] /\ AnyPending(mem)
    BY DEF IInv, JInv, Answers, Followed, AnyPending
  <2>2. ~Prepared
    BY <2>1 DEF Prepared, IInv, JInv, Underway
  <2>3. UNCHANGED windowsVars
    <3>1. ASSUME NEW t \in Service, WorkerAction(t) PROVE UNCHANGED windowsVars
      BY <3>1, MovesFacts DEF IInv, Moves
    <3> QED
      BY <2>2, <3>1 DEF Next, Calls, Proceed, Windows, WorkerAction, PrepareCalled, ApplyCalled, RestoreCalled,
         ShutdownCalled, ReadFails, RestoreRead, WorkersFailed, ApplyPartial, AskGames, CloseApps,
         Applied, RestoreDone, ShutdownRestores, ShutdownGivesUp, Compare, StopService, SetMode,
         StartService, WindowsSettles, OthersChange, OthersUseGate, Restart, ScriptOnly, vars, journalVars
  <2>4. svc'[s] # base'[s] /\ s \notin ext' /\ Followed(s)' /\ Answers(dsk)' /\ base' = base
    BY <2>1, <2>3 DEF windowsVars, IInv, JInv
  <2> QED
    BY <2>1, <2>4 DEF Followed, Answers
<1>2. BaselineIsKept <=> [][Kept]_dsk
  BY DEF BaselineIsKept
<1> QED
  BY <1>1, <1>2, Inductive, PTL DEF Spec
=============================================================================
