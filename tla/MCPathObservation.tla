------------------------- MODULE MCPathObservation -------------------------
(* Small instances of PathObservation for TLC.                             *)
EXTENDS PathObservation
=============================================================================
