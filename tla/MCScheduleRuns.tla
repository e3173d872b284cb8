--------------------------- MODULE MCScheduleRuns ---------------------------
(* ScheduleRuns with the constants given in the configurations. *)
EXTENDS ScheduleRuns
=============================================================================
