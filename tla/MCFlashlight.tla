---------------------------- MODULE MCFlashlight ----------------------------
(* Flashlight for TLC. *)
EXTENDS Flashlight
=============================================================================
