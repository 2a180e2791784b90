----------------------------- MODULE MCSchedule -----------------------------
(* Instances of Schedule for TLC.  An instant before the clock starts is a  *)
(* schedule set long ago.                                                   *)
EXTENDS Schedule

=============================================================================
