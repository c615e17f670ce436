----------------------------- MODULE MCGameMode -----------------------------
(***************************************************************************)
(* Instances of GameModeBackground.                                        *)
(***************************************************************************)
EXTENDS GameModeBackground

MCMode == {"Automatic", "Disabled"}
MCAllModes == {"Automatic", "Manual", "Disabled"}
=============================================================================
