-------------------------- MODULE MCRestoreService --------------------------
(***************************************************************************)
(* Instances of RestoreService: a plan in the order prepare() sorts it     *)
(* (settings, a step that is never replayed, tweaks), and a backup of the  *)
(* old values.                                                             *)
(***************************************************************************)
EXTENDS RestoreService

CONSTANTS old, new

MCValue == {old, new}
MCTarget == [j \in Job |-> [s \in Step |-> old]]
MCKind == [s \in Step |-> IF s = 1 THEN "settings" ELSE IF s = 2 THEN "passive" ELSE "tweak"]
=============================================================================
