---------------------------- MODULE MCStdStreams ----------------------------
(* StdStreams for TLC. *)
EXTENDS StdStreams
=============================================================================
