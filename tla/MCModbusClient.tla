--------------------------- MODULE MCModbusClient ---------------------------
(* ModbusClient for TLC: a server without a fault, and each single fault. *)
EXTENDS ModbusClient

MCEnd == 2
MCBrokenSets ==
  {{}} \cup {{<<f, a>>} : f \in {"bit", "bits", "register", "registers", "rw"},
                          a \in 0 .. MCEnd}
=============================================================================
