---------------------------- MODULE MCGlesEngine ----------------------------
(* GlesEngine for TLC. *)
EXTENDS GlesEngine
=============================================================================
