----------------------------- MODULE MCVibrator -----------------------------
(* Vibrator for TLC. *)
EXTENDS Vibrator
=============================================================================
