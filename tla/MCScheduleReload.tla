---------------------------- MODULE MCScheduleReload ----------------------------
(* Values for model checking ScheduleReload.                                *)
EXTENDS ScheduleReload, TLC

CONSTANTS r1, r2

(* The goroutines are alike.                                                *)
MCSymmetry == Permutations(Reloaders)

(* The database holds an hourly schedule when the program first comes up,   *)
(* under an identifier before or after that of the next one.                *)
MCEmpty == [s \in Schedules |-> NoRow]
MCHourly == [type |-> "hourly", expr |-> "at noon", enabled |-> TRUE]
MCInitialRows == {[MCEmpty EXCEPT ![s] = MCHourly] : s \in Schedules}
===============================================================================
