----------------------------- MODULE MCModbusTcp ----------------------------
(* ModbusTcp for TLC. *)
EXTENDS ModbusTcp
=============================================================================
