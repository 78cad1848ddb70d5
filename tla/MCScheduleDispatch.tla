------------------------- MODULE MCScheduleDispatch -------------------------
(* The instance of ScheduleDispatch for TLC; its constants are in the cfg. *)
EXTENDS ScheduleDispatch

=============================================================================
