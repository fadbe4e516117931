--------------------------- MODULE MCFpsCalculator --------------------------
(* FpsCalculator for TLC. *)
EXTENDS FpsCalculator
=============================================================================
