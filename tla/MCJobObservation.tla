-------------------------- MODULE MCJobObservation --------------------------
(* Small instances of JobObservation for TLC.                              *)
EXTENDS JobObservation
=============================================================================
