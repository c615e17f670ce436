----------------------- MODULE MCScheduledMaintenance -----------------------
(***************************************************************************)
(* Instances of ScheduledMaintenance: three lists of tasks, of which one   *)
(* requires administrator rights, over two occurrences of the schedule.    *)
(***************************************************************************)
EXTENDS ScheduledMaintenance, TLC

CONSTANTS plain, drive

MCTaskList == {<<>>, <<plain>>, <<plain, drive>>}
MCAdminTask == {drive}
MCTime == {0, 1}
Symmetry == Permutations(Run)
=============================================================================
