-------------------------- MODULE MCGlesEngineTimed -------------------------
(* GlesEngineTimed for TLC. *)
EXTENDS GlesEngineTimed
=============================================================================
