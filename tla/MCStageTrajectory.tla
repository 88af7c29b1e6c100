------------------------- MODULE MCStageTrajectory -------------------------
(* A small instance of StageTrajectory for TLC.                            *)
EXTENDS StageTrajectory
=============================================================================
