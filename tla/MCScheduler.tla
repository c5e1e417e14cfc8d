---------------------------- MODULE MCScheduler ----------------------------
(* Two schedules of one workspace, one slot for fires, one row per tick. *)
EXTENDS Scheduler
=============================================================================
