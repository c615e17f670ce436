--------------------------- MODULE PrivilegedCall ---------------------------
(***************************************************************************)
(* What a caller of adminBrokerManager.execute() may rely on, whatever     *)
(* happens to sessions, sockets and the elevated worker: an abstract       *)
(* specification of single calls. AdminBroker is shown to implement it.    *)
(*                                                                         *)
(* A call is answered once. The operation behind it runs at most once. An  *)
(* answer of the operation itself comes after its end; a refusal means     *)
(* that it never runs; a lost answer says nothing, the operation may have  *)
(* run, be running, or run later.                                          *)
(***************************************************************************)
CONSTANT Request

VARIABLES outcome,   \* outcome[r]: what the promise of call r has come to
          effect     \* effect[r]: how far the operation of call r has come

callVars == <<outcome, effect>>

CallInit ==
    /\ outcome = [r \in Request |-> "idle"]
    /\ effect = [r \in Request |-> "none"]

\* The steps of one call: its new outcome o and its new effect e.
Issued(r, o, e)   == outcome[r] = "idle" /\ o \in {"open", "refused"} /\ e = effect[r]
Refused(r, o, e)  == outcome[r] = "open" /\ effect[r] = "none" /\ o = "refused" /\ e = "none"
Begun(r, o, e)    == /\ outcome[r] \in {"open", "lost"} /\ effect[r] = "none"
                     /\ o = outcome[r] /\ e = "begun"
\* It ends, or nobody sees its end.
Over(r, o, e)     == effect[r] = "begun" /\ o = outcome[r] /\ e \in {"done", "cut"}
Answer(r, o, e)   == /\ outcome[r] = "open" /\ effect[r] = "done"
                     /\ o = "answered" /\ e = "done"
Lost(r, o, e)     == outcome[r] = "open" /\ o = "lost" /\ e = effect[r]
Unchanged(r, o, e) == o = outcome[r] /\ e = effect[r]

CallStep(r, o, e) ==
    \/ Issued(r, o, e) \/ Refused(r, o, e) \/ Begun(r, o, e) \/ Over(r, o, e)
    \/ Answer(r, o, e) \/ Lost(r, o, e) \/ Unchanged(r, o, e)

\* The end of a session settles many calls at once, so a step is one of each.
CallNext == \A r \in Request : CallStep(r, outcome'[r], effect'[r])

CallSpec == CallInit /\ [][CallNext]_callVars
=============================================================================
