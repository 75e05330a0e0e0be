-------------------------- MODULE MCTaskScheduling --------------------------
(* TaskScheduling for TLC.                                                 *)
EXTENDS TaskScheduling
=============================================================================
