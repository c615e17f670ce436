-------------------------- MODULE MCRuleAutomation --------------------------
(***************************************************************************)
(* An instance of RuleAutomation. A rule is named by the kind of its       *)
(* action and fires once; the unattended and the confirmed one need        *)
(* administrator rights, and the list holds two entries of three.          *)
(***************************************************************************)
EXTENDS RuleAutomation

MCRule == Kinds \ {"renderer"}
MCKind == [r \in MCRule |-> r]
MCExecution == 1 .. 4
MCRuleOf == <<"unattended", "confirmed", "close", "notify">>
MCAdmin == {"unattended", "confirmed"}
=============================================================================
