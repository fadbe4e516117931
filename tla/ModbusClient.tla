---------------------------- MODULE ModbusClient ----------------------------
(***************************************************************************)
(* modbus_tcp_client_fun of libmodbus-tcp: for each address, the client    *)
(* writes through a Modbus function, reads back and counts what went       *)
(* wrong; no failure means "client : test OK".                             *)
(*                                                                         *)
(* The server is the one of libmodbus, external to the program: memory     *)
(* that keeps what is written, except that a broken pair of a write        *)
(* function and an address stores some other value.  The connection may    *)
(* be lost at any time; every request fails from then on.                  *)
(***************************************************************************)
EXTENDS Integers

CONSTANTS
  End,           \* ADDRESS_END; ADDRESS_START is 0
  WordMax,       \* the largest register value, one less than a power of two
  BrokenSets,    \* the sets of broken <<function, address>> pairs to consider
  ZeroRejected   \* whether the server refuses a request for no cells at all

Functions == {"bit", "bits", "register", "registers", "rw"}
Addresses == 0 .. End
Index == 0 .. End - 1
Words == 0 .. WordMax
Bits == {0, 1}

ASSUME ModbusClientAssumption ==
  /\ End \in Nat \ {0} /\ WordMax \in Nat \ {0}
  /\ BrokenSets \subseteq SUBSET (Functions \X Addresses)
  /\ ZeroRejected \in BOOLEAN

VARIABLES
  pc, addr, nb,
  rqBits, rpBits, rqRegisters, rpRegisters, rwRegisters,  \* the tab_ buffers
  errors,               \* the tests that have added to nb_fail
  coils, registers,     \* the server's mapping
  broken, alive         \* its faults, and whether the connection is up

buffers == <<rqBits, rpBits, rqRegisters, rpRegisters, rwRegisters>>
requests == <<rqBits, rqRegisters, rwRegisters>>
server == <<coils, registers>>
vars == <<pc, addr, nb, buffers, errors, server, broken, alive>>

Pcs == {"fill", "write_bit", "read_bit", "write_bits", "read_bits",
        "write_register", "read_register", "write_registers", "read_registers",
        "write_read", "reread", "done"}

(* A request for n cells succeeds. *)
Accepted(n) == alive /\ (n > 0 \/ ~ZeroRejected)

(* The server's memory after function f has written n cells from address a. *)
Stored(memory, f, a, n, buffer, wrong) ==
  [x \in Addresses |->
     IF x \notin a .. a + n - 1 THEN memory[x]
     ELSE IF <<f, x>> \in broken THEN wrong[buffer[x - a]] ELSE buffer[x - a]]
WrongBit == [v \in Bits |-> 1 - v]
WrongWord == [v \in Words |-> IF v = WordMax THEN 0 ELSE v + 1]

(* A buffer after a read of n cells from address a. *)
Loaded(buffer, memory, a, n) ==
  [i \in Index |-> IF i < n THEN memory[a + i] ELSE buffer[i]]

(* Plausible bug, Differ: the first cell is not compared. *)
DifferFromSecond(x, y, n) == \E i \in 1 .. n - 1 : x[i] # y[i]

Differ(x, y, n) == \E i \in 0 .. n - 1 : x[i] # y[i]

Goto(from, to) == pc = from /\ pc' = to /\ UNCHANGED <<addr, broken, alive>>
Fail(test, from, to) ==
  /\ Goto(from, to)
  /\ errors' = errors \cup {test}
  /\ UNCHANGED <<nb, buffers, server>>

(* The end of a test: an error is counted where what was read differs. *)
Judge(test, differs) ==
  errors' = IF differs THEN errors \cup {test} ELSE errors

Init ==
  /\ pc = "fill" /\ addr = 0 /\ nb = End
  /\ rqBits = [i \in Index |-> 0] /\ rpBits = [i \in Index |-> 0]
  /\ rqRegisters = [i \in Index |-> 0] /\ rpRegisters = [i \in Index |-> 0]
  /\ rwRegisters = [i \in Index |-> 0]
  /\ errors = {}
  /\ coils = [a \in Addresses |-> 0] /\ registers = [a \in Addresses |-> 0]
  /\ broken \in BrokenSets /\ alive = TRUE

(* The buffers get random words for as many cells as the address before     *)
(* had; only then is nb that of this address.                               *)
Fill ==
  /\ Goto("fill", "write_bit")
  /\ \E word \in [0 .. nb - 1 -> Words] :
       /\ rqRegisters' = [i \in Index |-> IF i < nb THEN word[i] ELSE rqRegisters[i]]
       /\ rwRegisters' =
            [i \in Index |-> IF i < nb THEN WordMax - word[i] ELSE rwRegisters[i]]
       /\ rqBits' = [i \in Index |-> IF i < nb THEN word[i] % 2 ELSE rqBits[i]]
  /\ nb' = End - addr
  /\ UNCHANGED <<rpBits, rpRegisters, errors, server>>

-----------------------------------------------------------------------------
WriteBit ==
  \/ /\ Accepted(1) /\ Goto("write_bit", "read_bit")
     /\ coils' = Stored(coils, "bit", addr, 1, rqBits, WrongBit)
     /\ UNCHANGED <<nb, buffers, errors, registers>>
  \/ ~Accepted(1) /\ Fail("bit", "write_bit", "write_bits")

ReadBit ==
  \/ /\ Accepted(1) /\ Goto("read_bit", "write_bits")
     /\ rpBits' = Loaded(rpBits, coils, addr, 1)
     /\ Judge("bit", rqBits[0] # rpBits'[0])
     /\ UNCHANGED <<nb, requests, rpRegisters, server>>
  \/ ~Accepted(1) /\ Fail("bit", "read_bit", "write_bits")

WriteBits ==
  \/ /\ Accepted(nb) /\ Goto("write_bits", "read_bits")
     /\ coils' = Stored(coils, "bits", addr, nb, rqBits, WrongBit)
     /\ UNCHANGED <<nb, buffers, errors, registers>>
  \/ ~Accepted(nb) /\ Fail("bits", "write_bits", "write_register")

(* Plausible bug, ReadBits: what is read back is one cell further on. *)
ReadBitsFurtherOn ==
  /\ Accepted(nb) /\ Goto("read_bits", "write_register")
  /\ rpBits' = Loaded(rpBits, coils, addr + 1, nb)
  /\ Judge("bits", Differ(rpBits', rqBits, nb))
  /\ UNCHANGED <<nb, requests, rpRegisters, server>>

ReadBits ==
  \/ /\ Accepted(nb) /\ Goto("read_bits", "write_register")
     /\ rpBits' = Loaded(rpBits, coils, addr, nb)
     /\ Judge("bits", Differ(rpBits', rqBits, nb))
     /\ UNCHANGED <<nb, requests, rpRegisters, server>>
  \/ ~Accepted(nb) /\ Fail("bits", "read_bits", "write_register")

-----------------------------------------------------------------------------
(* Both register tests read registers and compare the bits. *)

WriteRegister ==
  \/ /\ Accepted(1) /\ Goto("write_register", "read_register")
     /\ registers' = Stored(registers, "register", addr, 1, rqRegisters, WrongWord)
     /\ UNCHANGED <<nb, buffers, errors, coils>>
  \/ ~Accepted(1) /\ Fail("register", "write_register", "write_registers")

ReadRegister ==
  \/ /\ Accepted(1) /\ Goto("read_register", "write_registers")
     /\ rpRegisters' = Loaded(rpRegisters, registers, addr, 1)
     /\ Judge("register", Differ(rpBits, rqBits, nb))
     /\ UNCHANGED <<nb, requests, rpBits, server>>
  \/ ~Accepted(1) /\ Fail("register", "read_register", "write_registers")

WriteRegisters ==
  \/ /\ Accepted(nb) /\ Goto("write_registers", "read_registers")
     /\ registers' = Stored(registers, "registers", addr, nb, rqRegisters, WrongWord)
     /\ UNCHANGED <<nb, buffers, errors, coils>>
  \/ ~Accepted(nb) /\ Fail("registers", "write_registers", "write_read")

ReadRegisters ==
  \/ /\ Accepted(nb) /\ Goto("read_registers", "write_read")
     /\ rpRegisters' = Loaded(rpRegisters, registers, addr, nb)
     /\ Judge("registers", Differ(rpBits, rqBits, nb))
     /\ UNCHANGED <<nb, requests, rpBits, server>>
  \/ ~Accepted(nb) /\ Fail("registers", "read_registers", "write_read")

-----------------------------------------------------------------------------
(* modbus_write_and_read_registers: the server writes, then answers with    *)
(* what it reads.                                                           *)
(* Plausible bug, NextAddress: the loop goes one address too far. *)
NextAddressTooFar ==
  /\ addr' = addr + 1
  /\ pc' = IF addr <= End THEN "fill" ELSE "done"
  /\ UNCHANGED <<broken, alive>>

NextAddress ==
  /\ addr' = addr + 1
  /\ pc' = IF addr < End THEN "fill" ELSE "done"
  /\ UNCHANGED <<broken, alive>>

WriteRead ==
  /\ pc = "write_read"
  /\ \/ /\ Accepted(nb) /\ Goto("write_read", "reread")
        /\ registers' = Stored(registers, "rw", addr, nb, rwRegisters, WrongWord)
        /\ rpRegisters' = Loaded(rpRegisters, registers', addr, nb)
        /\ Judge("rw", Differ(rpRegisters', rwRegisters, nb))
     \/ /\ ~Accepted(nb) /\ NextAddress
        /\ errors' = errors \cup {"rw"}
        /\ UNCHANGED <<rpRegisters, registers>>
  /\ UNCHANGED <<nb, requests, rpBits, coils>>

Reread ==
  /\ pc = "reread" /\ NextAddress
  /\ \/ /\ Accepted(nb)
        /\ rpRegisters' = Loaded(rpRegisters, registers, addr, nb)
        /\ Judge("rw", Differ(rwRegisters, rpRegisters', nb))
     \/ /\ ~Accepted(nb)
        /\ errors' = errors \cup {"rw"}
        /\ UNCHANGED rpRegisters
  /\ UNCHANGED <<nb, requests, rpBits, server>>

-----------------------------------------------------------------------------
(* The connection goes down, before a request or before its answer. *)
LinkLost ==
  /\ alive /\ alive' = FALSE
  /\ pc # "done"
  /\ UNCHANGED <<pc, addr, nb, buffers, errors, server, broken>>

Finished == pc = "done" /\ UNCHANGED vars

Test ==
  \/ Fill
  \/ WriteBit \/ ReadBit \/ WriteBits \/ ReadBits
  \/ WriteRegister \/ ReadRegister \/ WriteRegisters \/ ReadRegisters
  \/ WriteRead \/ Reread

Next == Test \/ LinkLost \/ Finished

Spec == Init /\ [][Next]_vars
-----------------------------------------------------------------------------
(* Properties. *)

(* The variables keep the values the program can give them, and each index  *)
(* a test uses is one of its buffers.                                       *)
TypeOK ==
  /\ pc \in Pcs /\ addr \in 0 .. End + 1 /\ nb \in 0 .. End
  /\ rqBits \in [Index -> Bits] /\ rpBits \in [Index -> Bits]
  /\ rqRegisters \in [Index -> Words] /\ rpRegisters \in [Index -> Words]
  /\ rwRegisters \in [Index -> Words]
  /\ errors \subseteq Functions
  /\ coils \in [Addresses -> Bits] /\ registers \in [Addresses -> Words]
  /\ broken \in BrokenSets /\ alive \in BOOLEAN

Passed == pc = "done" /\ errors = {}

(* What the tests can see: the last address is left to the bit test alone,  *)
(* and both register tests look at bits.                                    *)
Seen ==
  ({"bit"} \X Addresses) \cup ({"bits", "rw"} \X (0 .. End - 1))

(* A server that takes a request for no cells, and has no fault the tests   *)
(* can see, passes, although nb changes between the filling of the buffers  *)
(* and their use, and the tests overwrite each other's cells.               *)
SoundServerPasses ==
  (broken \cap Seen = {} /\ alive /\ ~ZeroRejected) => errors = {}

(* "client : test OK": what the tests can see works, at every address they  *)
(* see it at, and the connection has lasted.                                *)
PassMeansSeenWorks == Passed => broken \cap Seen = {} /\ alive

(* "client : test OK": all the functions it has tested work.                *)
PassMeansAllWorks == Passed => broken = {}
=============================================================================
