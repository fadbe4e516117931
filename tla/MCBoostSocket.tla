---------------------------- MODULE MCBoostSocket ---------------------------
(* BoostSocket for TLC. *)
EXTENDS BoostSocket
=============================================================================
