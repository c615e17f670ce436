------------------------- MODULE WriteAheadRestore -------------------------
(***************************************************************************)
(* What a restore promises, whatever the main process does in between: an  *)
(* abstract specification over the durable journal only. It knows nothing  *)
(* of memory, of the gate, of crashes or of failed writes.                 *)
(*                                                                         *)
(* A run of a job is opened in the journal, announces each step there, and *)
(* only then may touch what the step stands for. It is closed as stopped,  *)
(* and can then be opened again, or as done, and then never again.         *)
(* RestoreService is shown to implement this.                              *)
(***************************************************************************)
CONSTANTS Job, Step

VARIABLES state,      \* state[j]: what the journal says of job j
          announced,  \* announced[j]: steps the journal says are not pending
          touched     \* touched[j]: steps whose target the last run may have changed

walVars == <<state, announced, touched>>

WALTypeOK ==
    /\ state \in [Job -> {"absent", "open", "stopped", "done"}]
    /\ announced \in [Job -> SUBSET Step]
    /\ touched \in [Job -> SUBSET Step]

WALInit ==
    /\ state = [j \in Job |-> "absent"]
    /\ announced = [j \in Job |-> {}]
    /\ touched = [j \in Job |-> {}]

\* A run starts, the first one or a resumed one: its journal entry is reset.
Open(j) ==
    /\ state[j] # "done"
    /\ state' = [state EXCEPT ![j] = "open"]
    /\ announced' = [announced EXCEPT ![j] = {}]
    /\ touched' = [touched EXCEPT ![j] = {}]

Announce(j, s) ==
    /\ state[j] = "open"
    /\ announced' = [announced EXCEPT ![j] = @ \cup {s}]
    /\ UNCHANGED <<state, touched>>

\* The system is changed for a step only while its job is open and only after
\* the journal says so.
Touch(j, s) ==
    /\ state[j] = "open"
    /\ s \in announced[j]
    /\ touched' = [touched EXCEPT ![j] = @ \cup {s}]
    /\ UNCHANGED <<state, announced>>

\* The run is over: failed, or interrupted and found so at the next start. The
\* closing entry may record a step whose own entry could not be written.
Stop(j) ==
    /\ state[j] = "open"
    /\ state' = [state EXCEPT ![j] = "stopped"]
    /\ \E S \in SUBSET Step :
          announced' = [announced EXCEPT ![j] = @ \cup S]
    /\ UNCHANGED touched

Finish(j) ==
    /\ state[j] = "open"
    /\ announced[j] = Step
    /\ state' = [state EXCEPT ![j] = "done"]
    /\ UNCHANGED <<announced, touched>>

WALNext ==
    \E j \in Job :
        \/ Open(j)
        \/ \E s \in Step : Announce(j, s) \/ Touch(j, s)
        \/ Stop(j)
        \/ Finish(j)

WALSpec == WALInit /\ [][WALNext]_walVars
=============================================================================
