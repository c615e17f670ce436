-------------------------- MODULE MCDisplayProfiles --------------------------
(* Model values and symmetry for DisplayProfiles. *)
EXTENDS DisplayProfiles, TLC

Identities == Permutations(Id)

\* Profiles bound to the game are told apart from the others; those are alike.
IdentitiesAndProfiles == Identities \cup Permutations(Profile \ GameProfile)
=============================================================================
