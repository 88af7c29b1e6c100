------------------------- MODULE MCAcquisitionCache -------------------------
(* The cache for TLC, with model values for paths.  Paths are alike in     *)
(* everything, so states that differ by their names are one.               *)
EXTENDS AcquisitionCache, TLC

Symmetry == Permutations(Paths)
=============================================================================
