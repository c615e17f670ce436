--------------------------- MODULE ExecutionGate ---------------------------
(***************************************************************************)
(* The central execution gate (src/electron/services/tweaks/               *)
(* executionGate.js): one owner at a time may hold the whole machine for a *)
(* restore, any number of ordinary tweak calls may run while nobody does.  *)
(*                                                                         *)
(* The counter `running` of the code is kept here as the set of the calls  *)
(* that have entered and not been released: each call holds one release    *)
(* closure, whose flag makes a second release do nothing, exactly as       *)
(* removing an element twice.                                              *)
(***************************************************************************)
EXTENDS FiniteSets

CONSTANTS Caller,       \* ordinary callers of runTweak: IPC, rules, maintenance
          RestoreCall   \* the call the restore service itself makes

ASSUME RestoreCallAssumption == RestoreCall \notin Caller

VARIABLES owner,        \* who holds the gate: the symbol beginRestore handed out
          running       \* the calls inside enter() .. release()

gateVars == <<owner, running>>

\* Who can hold the token: nobody, the restore service, or the background
\* service of Game Mode.
Owner == {"none", "restore", "background"}

GateTypeOK ==
    /\ owner \in Owner
    /\ running \subseteq Caller \cup {RestoreCall}

GateInit ==
    /\ owner = "none"
    /\ running = {}

-----------------------------------------------------------------------------
\* Mutant of CanBegin: a restore that only looks at the owner.
CanBeginIgnoringCalls == owner = "none"

\* beginRestore throws SYSTEM_OPERATION_BUSY unless the gate is entirely free.
CanBegin == owner = "none" /\ running = {}

\* Mutant of CanEnter: a call is let in whoever holds the gate.
CanEnterAlways(token) == TRUE

\* enter(token) throws while somebody else holds the gate.
CanEnter(token) == owner = "none" \/ owner = token

BeginRestore(token) ==
    /\ CanBegin
    /\ owner' = token
    /\ UNCHANGED running

\* endRestore does nothing for a token that is not the owner's.
EndRestore(token) ==
    /\ owner' = IF owner = token THEN "none" ELSE owner
    /\ UNCHANGED running

Enter(call, token) ==
    /\ CanEnter(token)
    /\ running' = running \cup {call}
    /\ UNCHANGED owner

Release(call) ==
    /\ running' = running \ {call}
    /\ UNCHANGED owner

-----------------------------------------------------------------------------
(***************************************************************************)
(* While anybody holds the gate no ordinary call is inside, and the only   *)
(* call that can be is the restore's own. This is what lets the restore    *)
(* rely on a state it has verified: "rejects concurrent tweak callers,     *)
(* including automatic rules, and refuses to start a restore while a tweak *)
(* is in flight" (docs/technical-maintenance.md:15).                       *)
(***************************************************************************)
HolderIsAlone ==
    /\ owner = "restore" => running \subseteq {RestoreCall}
    /\ owner = "background" => running = {}
=============================================================================
