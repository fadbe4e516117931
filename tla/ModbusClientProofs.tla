------------------------- MODULE ModbusClientProofs -------------------------
(* What the verdict of the Modbus client tells of its server, for any       *)
(* number of addresses, any words, any faults, and a connection that may    *)
(* go down.                                                                 *)
EXTENDS ModbusClient, TLAPS

(* nb counts the addresses behind addr; only a fill still has the count of  *)
(* the address before.                                                      *)
Counts ==
  /\ pc # "done" => addr \in Addresses
  /\ pc = "done" => addr = End + 1
  /\ pc \notin {"fill", "done"} => nb = End - addr

(* Of n cells from addr on, the memory differs from the buffer exactly      *)
(* where function f is broken.                                              *)
Shows(memory, f, buffer, n) ==
  \A i \in 0 .. n - 1 : memory[addr + i] = buffer[i] <=> <<f, addr + i>> \notin broken
Written ==
  /\ pc = "read_bit" => Shows(coils, "bit", rqBits, 1)
  /\ pc = "read_bits" => Shows(coils, "bits", rqBits, nb)
  /\ pc = "reread" => Shows(registers, "rw", rwRegisters, nb)

(* The two register tests find the bits the test before them has compared.  *)
RegisterPcs == {"write_register", "read_register", "write_registers", "read_registers"}
BitsAgree ==
  pc \in RegisterPcs /\ errors = {} => \A i \in 0 .. nb - 1 : rpBits[i] = rqBits[i]

(* As long as no test has failed, what was tested works: of the addresses   *)
(* before addr, and of addr itself once its test is over.                   *)
Untested == {"fill", "write_bit", "read_bit"}
UntestedBits == Untested \cup {"write_bits", "read_bits"}
TestedWorks ==
  errors = {} =>
    /\ \A a \in Addresses :
         a < addr \/ (a = addr /\ pc \notin Untested) => <<"bit", a>> \notin broken
    /\ \A a \in Index :
         a < addr \/ (a = addr /\ pc \notin UntestedBits) => <<"bits", a>> \notin broken
    /\ \A a \in Index :
         a < addr \/ (a = addr /\ pc = "reread") => <<"rw", a>> \notin broken

Inv ==
  /\ TypeOK /\ Counts /\ Written /\ BitsAgree
  /\ SoundServerPasses /\ TestedWorks


-----------------------------------------------------------------------------
(* What the server stores and what a read finds. *)

(* A broken cell stores another value of the same kind.                     *)
LEMMA WrongValues ==
  /\ \A v \in Bits : WrongBit[v] \in Bits /\ WrongBit[v] # v
  /\ \A v \in Words : WrongWord[v] \in Words /\ WrongWord[v] # v
BY ModbusClientAssumption DEF WrongBit, WrongWord, Bits, Words

(* A write leaves the cells it is not about, and shows where its function   *)
(* is broken in the others.                                                 *)
LEMMA StoredShows ==
  ASSUME NEW S, NEW memory \in [Addresses -> S], NEW buffer \in [Index -> S],
         NEW wrong, \A v \in S : wrong[v] \in S /\ wrong[v] # v,
         NEW f, NEW n \in 0 .. End, addr \in Nat, addr + n - 1 <= End
  PROVE  /\ Stored(memory, f, addr, n, buffer, wrong) \in [Addresses -> S]
         /\ Shows(Stored(memory, f, addr, n, buffer, wrong), f, buffer, n)
<1> DEFINE s == Stored(memory, f, addr, n, buffer, wrong)
<1>1. \A x \in Addresses : x \in addr .. addr + n - 1 => x - addr \in Index
      BY ModbusClientAssumption DEF Addresses, Index
<1>2. s \in [Addresses -> S]
      BY <1>1 DEF Stored
<1>3. ASSUME NEW i \in 0 .. n - 1
      PROVE  s[addr + i] = buffer[i] <=> <<f, addr + i>> \notin broken
  <2>1. /\ addr + i \in Addresses /\ addr + i \in addr .. addr + n - 1
        /\ (addr + i) - addr = i /\ i \in Index
        BY ModbusClientAssumption DEF Addresses, Index
  <2>2. s[addr + i] = IF <<f, addr + i>> \in broken THEN wrong[buffer[i]]
                      ELSE buffer[i]
        BY <2>1 DEF Stored
  <2>3. buffer[i] \in S  BY <2>1
  <2> QED  BY <2>2, <2>3
<1> QED  BY <1>2, <1>3 DEF Shows

(* A read fills the first n cells of a buffer with the server's.            *)
LEMMA LoadedCells ==
  ASSUME NEW memory, NEW old, NEW n \in 0 .. End
  PROVE  \A i \in 0 .. n - 1 : Loaded(old, memory, addr, n)[i] = memory[addr + i]
BY ModbusClientAssumption DEF Loaded, Index

(* It finds nothing but cells there are, of the kind the buffer is for.     *)
LEMMA LoadedType ==
  ASSUME NEW S \in {Bits, Words}, NEW memory, memory \in [Addresses -> S],
         NEW old, old \in [Index -> S],
         NEW n \in 0 .. End, addr \in Nat, addr + n - 1 <= End
  PROVE  Loaded(old, memory, addr, n) \in [Index -> S]
<1>1. \A i \in Index : i < n => addr + i \in Addresses
      BY ModbusClientAssumption DEF Addresses, Index
<1> QED  BY <1>1 DEF Loaded

(* What is read back differs from what was written exactly if the function  *)
(* is broken at one of the addresses.                                       *)
LEMMA ReadBack ==
  ASSUME NEW memory, NEW old, NEW buffer, NEW f, NEW n \in 0 .. End,
         Shows(memory, f, buffer, n)
  PROVE  Differ(Loaded(old, memory, addr, n), buffer, n) <=>
           \E i \in 0 .. n - 1 : <<f, addr + i>> \in broken
BY LoadedCells DEF Shows, Differ

(* It does not matter which of two buffers is named first.                  *)
LEMMA DifferEither ==
  ASSUME NEW x, NEW y, NEW n PROVE Differ(x, y, n) <=> Differ(y, x, n)
BY DEF Differ

(* The faults the tests can see, one by one.                                *)
LEMMA NoneSeen ==
  broken \cap Seen = {} <=>
    /\ \A a \in Addresses : <<"bit", a>> \notin broken
    /\ \A a \in 0 .. End - 1 : <<"bits", a>> \notin broken
    /\ \A a \in 0 .. End - 1 : <<"rw", a>> \notin broken
<1>1. ASSUME NEW p \in broken, p \in Seen
      PROVE  \/ \E a \in Addresses : p = <<"bit", a>>
             \/ \E a \in 0 .. End - 1 : p = <<"bits", a>> \/ p = <<"rw", a>>
      BY <1>1 DEF Seen
<1>2. /\ \A a \in Addresses : <<"bit", a>> \in Seen
      /\ \A a \in 0 .. End - 1 : <<"bits", a>> \in Seen /\ <<"rw", a>> \in Seen
      BY DEF Seen
<1> QED  BY <1>1, <1>2

-----------------------------------------------------------------------------
(* The invariant. *)

(* The invariant holds before the first address.                            *)
LEMMA InitInv == Init => Inv
<1> SUFFICES ASSUME Init PROVE Inv
    OBVIOUS
<1> USE ModbusClientAssumption DEF Init
<1>1. TypeOK
      BY DEF TypeOK, Pcs, Index, Addresses, Bits, Words
<1>2. Counts /\ Written /\ BitsAgree
      BY DEF Counts, Written, BitsAgree, RegisterPcs, Addresses
<1>3. SoundServerPasses /\ TestedWorks
      BY DEF SoundServerPasses, TestedWorks, Untested, UntestedBits, Addresses, Index
<1> QED  BY <1>1, <1>2, <1>3 DEF Inv

(* What holds of a state while the test of a function is under way.         *)
LEMMA Running ==
  ASSUME TypeOK, Counts, pc \notin {"fill", "done"}
  PROVE  /\ addr \in 0 .. End /\ nb \in 0 .. End /\ nb = End - addr
         /\ addr + nb - 1 <= End
         /\ 1 \in 0 .. End /\ addr + 1 - 1 <= End
BY ModbusClientAssumption DEF TypeOK, Counts, Addresses

(* A request that fails ends its test, and the invariant goes on: a server  *)
(* that is up and takes a request for no cells fails none.                  *)
LEMMA Failing ==
  ASSUME Inv, NEW test \in Functions, NEW from, NEW to, NEW n \in Nat,
         ~Accepted(n), Fail(test, from, to),
         from \in {"write_bit", "read_bit", "write_bits", "read_bits"} \cup RegisterPcs,
         to \in {"write_bits", "write_read"} \cup RegisterPcs
  PROVE  Inv'
<1> USE ModbusClientAssumption DEF Inv, Fail, Goto, RegisterPcs, buffers, server
<1>1. errors' # {}
      OBVIOUS
<1>2. TypeOK'
      BY DEF TypeOK, Pcs
<1>3. Counts' /\ Written'
      BY DEF Counts, Written, TypeOK, Addresses
<1>4. BitsAgree' /\ TestedWorks'
      BY <1>1 DEF BitsAgree, TestedWorks
<1>5. ~(alive' /\ ~ZeroRejected)
      BY DEF Accepted
<1>6. SoundServerPasses'
      BY <1>5 DEF SoundServerPasses
<1> QED  BY <1>2, <1>3, <1>4, <1>6

(* A write shows in the server's memory; no verdict is made.                *)
LEMMA Writing ==
  ASSUME Inv, WriteBit \/ WriteBits \/ WriteRegister \/ WriteRegisters
  PROVE  Inv'
<1> USE ModbusClientAssumption
<1>0. pc \notin {"fill", "done"}
      BY DEF WriteBit, WriteBits, WriteRegister, WriteRegisters, Fail, Goto
<1>1. /\ addr \in 0 .. End /\ nb \in 0 .. End /\ nb = End - addr
      /\ addr + nb - 1 <= End /\ 1 \in 0 .. End /\ addr + 1 - 1 <= End /\ addr \in Nat
      BY <1>0, Running DEF Inv
<1>2. CASE WriteBit
  <2>1. CASE ~Accepted(1) /\ Fail("bit", "write_bit", "write_bits")
        BY <2>1, Failing DEF Functions
  <2>2. CASE /\ Accepted(1) /\ Goto("write_bit", "read_bit")
             /\ coils' = Stored(coils, "bit", addr, 1, rqBits, WrongBit)
             /\ UNCHANGED <<nb, buffers, errors, registers>>
    <3> USE <2>2 DEF Goto, buffers
    <3>1. coils' \in [Addresses -> Bits] /\ Shows(coils', "bit", rqBits, 1)
          BY <1>1, StoredShows, WrongValues DEF Inv, TypeOK
    <3>2. TypeOK'
          BY <3>1 DEF Inv, TypeOK, Pcs
    <3>3. Counts' /\ BitsAgree'
          BY <1>1 DEF Inv, Counts, BitsAgree, RegisterPcs, Addresses
    <3>4. Written'
          BY <3>1 DEF Written, Shows
    <3>5. SoundServerPasses' /\ TestedWorks'
          BY DEF Inv, SoundServerPasses, TestedWorks, Untested, UntestedBits
    <3> QED  BY <3>2, <3>3, <3>4, <3>5 DEF Inv
  <2> QED  BY <1>2, <2>1, <2>2 DEF WriteBit
<1>3. CASE WriteBits
  <2>1. CASE ~Accepted(nb) /\ Fail("bits", "write_bits", "write_register")
        BY <1>1, <2>1, Failing DEF Functions, RegisterPcs
  <2>2. CASE /\ Accepted(nb) /\ Goto("write_bits", "read_bits")
             /\ coils' = Stored(coils, "bits", addr, nb, rqBits, WrongBit)
             /\ UNCHANGED <<nb, buffers, errors, registers>>
    <3> USE <2>2 DEF Goto, buffers
    <3>1. coils' \in [Addresses -> Bits] /\ Shows(coils', "bits", rqBits, nb)
          BY <1>1, StoredShows, WrongValues DEF Inv, TypeOK
    <3>2. TypeOK'
          BY <3>1 DEF Inv, TypeOK, Pcs
    <3>3. Counts' /\ BitsAgree'
          BY <1>1 DEF Inv, Counts, BitsAgree, RegisterPcs, Addresses
    <3>4. Written'
          BY <3>1 DEF Written, Shows
    <3>5. SoundServerPasses' /\ TestedWorks'
          BY DEF Inv, SoundServerPasses, TestedWorks, Untested, UntestedBits
    <3> QED  BY <3>2, <3>3, <3>4, <3>5 DEF Inv
  <2> QED  BY <1>3, <2>1, <2>2 DEF WriteBits
<1>4. ASSUME NEW f \in {"register", "registers"}, NEW n \in {1, nb},
             NEW from \in {"write_register", "write_registers"},
             NEW to \in {"read_register", "read_registers"},
             Goto(from, to),
             registers' = Stored(registers, f, addr, n, rqRegisters, WrongWord),
             UNCHANGED <<nb, buffers, errors, coils>>
      PROVE  Inv'
  <2> USE <1>4 DEF Goto, buffers
  <2>1. registers' \in [Addresses -> Words]
    <3>1. n \in 0 .. End /\ addr + n - 1 <= End  BY <1>1
    <3> QED  BY <1>1, <3>1, StoredShows, WrongValues DEF Inv, TypeOK
  <2>2. TypeOK'
        BY <2>1 DEF Inv, TypeOK, Pcs
  <2>3. Counts' /\ Written'
        BY <1>1 DEF Inv, Counts, Written, Addresses
  <2>4. BitsAgree'
        BY DEF Inv, BitsAgree, RegisterPcs
  <2>5. SoundServerPasses' /\ TestedWorks'
        BY DEF Inv, SoundServerPasses, TestedWorks, Untested, UntestedBits
  <2> QED  BY <2>2, <2>3, <2>4, <2>5 DEF Inv
<1>5. CASE WriteRegister
  <2>1. CASE ~Accepted(1) /\ Fail("register", "write_register", "write_registers")
        BY <2>1, Failing DEF Functions, RegisterPcs
  <2> QED  BY <1>4, <1>5, <2>1 DEF WriteRegister
<1>6. CASE WriteRegisters
  <2>1. CASE ~Accepted(nb) /\ Fail("registers", "write_registers", "write_read")
        BY <1>1, <2>1, Failing DEF Functions, RegisterPcs
  <2> QED  BY <1>4, <1>6, <2>1 DEF WriteRegisters
<1> QED  BY <1>2, <1>3, <1>5, <1>6

(* The buffers are filled for the addresses to come.                        *)
LEMMA Filling == Inv /\ Fill => Inv'
<1> SUFFICES ASSUME Inv, Fill PROVE Inv'
    OBVIOUS
<1> USE ModbusClientAssumption DEF Fill, Goto, server
<1>1. PICK word \in [0 .. nb - 1 -> Words] :
        /\ rqRegisters' = [i \in Index |-> IF i < nb THEN word[i] ELSE rqRegisters[i]]
        /\ rwRegisters' =
             [i \in Index |-> IF i < nb THEN WordMax - word[i] ELSE rwRegisters[i]]
        /\ rqBits' = [i \in Index |-> IF i < nb THEN word[i] % 2 ELSE rqBits[i]]
      OBVIOUS
<1>2. \A i \in Index : i < nb => /\ word[i] \in Words
                                 /\ WordMax - word[i] \in Words
                                 /\ word[i] % 2 \in Bits
  <2>1. ASSUME NEW i \in Index, i < nb PROVE word[i] \in Words
        BY <2>1 DEF Inv, TypeOK, Index
  <2>2. \A w \in Words : WordMax - w \in Words /\ w % 2 \in Bits
        BY DEF Words, Bits
  <2> QED  BY <2>1, <2>2
<1>3. /\ rqRegisters' \in [Index -> Words] /\ rwRegisters' \in [Index -> Words]
      /\ rqBits' \in [Index -> Bits]
      BY <1>1, <1>2 DEF Inv, TypeOK
<1>4. addr \in 0 .. End /\ nb' \in 0 .. End
      BY DEF Inv, Counts, Addresses
<1>5. TypeOK'
      BY <1>3, <1>4 DEF Inv, TypeOK, Pcs
<1>6. Counts' /\ Written' /\ BitsAgree'
      BY <1>4 DEF Counts, Written, BitsAgree, RegisterPcs, Addresses
<1>7. SoundServerPasses' /\ TestedWorks'
      BY DEF Inv, SoundServerPasses, TestedWorks, Untested, UntestedBits
<1> QED  BY <1>5, <1>6, <1>7 DEF Inv

(* The test of one bit: its verdict is that of the pair it has tested.      *)
LEMMA ReadingBit == Inv /\ ReadBit => Inv'
<1> SUFFICES ASSUME Inv, ReadBit PROVE Inv'
    OBVIOUS
<1> USE ModbusClientAssumption DEF ReadBit
<1>1. CASE ~Accepted(1) /\ Fail("bit", "read_bit", "write_bits")
      BY <1>1, Failing DEF Functions
<1>2. CASE /\ Accepted(1) /\ Goto("read_bit", "write_bits")
           /\ rpBits' = Loaded(rpBits, coils, addr, 1)
           /\ Judge("bit", rqBits[0] # rpBits'[0])
           /\ UNCHANGED <<nb, requests, rpRegisters, server>>
  <2> USE <1>2 DEF Goto, requests, server
  <2>1. /\ addr \in 0 .. End /\ nb \in 0 .. End /\ nb = End - addr
        /\ 1 \in 0 .. End /\ addr + 1 - 1 <= End /\ addr \in Nat /\ addr \in Addresses
        BY Running DEF Inv, Counts
  <2>2. rpBits' \in [Index -> Bits] /\ rpBits'[0] = coils[addr]
    <3>1. coils \in [Addresses -> Bits] /\ rpBits \in [Index -> Bits]
          BY DEF Inv, TypeOK
    <3>2. Loaded(rpBits, coils, addr, 1) \in [Index -> Bits]
          BY <2>1, <3>1, LoadedType
    <3>3. Loaded(rpBits, coils, addr, 1)[0] = coils[addr + 0]
          BY <2>1, LoadedCells
    <3> QED  BY <2>1, <3>2, <3>3
  <2>3. rqBits[0] # rpBits'[0] <=> <<"bit", addr>> \in broken
    <3>1. Shows(coils, "bit", rqBits, 1)
          BY DEF Inv, Written
    <3>2. coils[addr + 0] = rqBits[0] <=> <<"bit", addr + 0>> \notin broken
          BY <3>1 DEF Shows
    <3> QED  BY <2>1, <2>2, <3>2
  <2>4. errors' = IF <<"bit", addr>> \in broken THEN errors \cup {"bit"} ELSE errors
        BY <2>3 DEF Judge
  <2>5. TypeOK'
        BY <2>2, <2>4 DEF Inv, TypeOK, Pcs, Functions
  <2>6. Counts' /\ Written' /\ BitsAgree'
        BY <2>1 DEF Inv, Counts, Written, BitsAgree, RegisterPcs
  <2>7. SoundServerPasses'
        BY <2>1, <2>4, NoneSeen DEF Inv, SoundServerPasses, Seen
  <2>8. TestedWorks'
        BY <2>4 DEF Inv, TestedWorks, Untested, UntestedBits
  <2> QED  BY <2>5, <2>6, <2>7, <2>8 DEF Inv
<1> QED  BY <1>1, <1>2

(* The test of the bits: no failure means that no pair of its addresses is  *)
(* broken, and that the bits read are those written.                        *)
LEMMA ReadingBits == Inv /\ ReadBits => Inv'
<1> SUFFICES ASSUME Inv, ReadBits PROVE Inv'
    OBVIOUS
<1> USE ModbusClientAssumption DEF ReadBits
<1>0. nb \in Nat
      BY DEF Inv, TypeOK
<1>1. CASE ~Accepted(nb) /\ Fail("bits", "read_bits", "write_register")
      BY <1>0, <1>1, Failing DEF Functions, RegisterPcs
<1>2. CASE /\ Accepted(nb) /\ Goto("read_bits", "write_register")
           /\ rpBits' = Loaded(rpBits, coils, addr, nb)
           /\ Judge("bits", Differ(rpBits', rqBits, nb))
           /\ UNCHANGED <<nb, requests, rpRegisters, server>>
  <2> USE <1>2 DEF Goto, requests, server
  <2>1. /\ addr \in 0 .. End /\ nb \in 0 .. End /\ nb = End - addr
        /\ addr + nb - 1 <= End /\ addr \in Nat /\ addr \in Addresses
        BY Running DEF Inv, Counts
  <2>0. coils \in [Addresses -> Bits] /\ rpBits \in [Index -> Bits]
        BY DEF Inv, TypeOK
  <2>2. rpBits' \in [Index -> Bits]
    <3>1. Loaded(rpBits, coils, addr, nb) \in [Index -> Bits]
          BY <2>0, <2>1, LoadedType
    <3> QED  BY <3>1
  <2>3. Differ(rpBits', rqBits, nb) <=>
          \E i \in 0 .. nb - 1 : <<"bits", addr + i>> \in broken
    <3>1. Shows(coils, "bits", rqBits, nb)
          BY DEF Inv, Written
    <3>2. Differ(Loaded(rpBits, coils, addr, nb), rqBits, nb) <=>
            \E i \in 0 .. nb - 1 : <<"bits", addr + i>> \in broken
          BY <2>0, <2>1, <3>1, ReadBack
    <3> QED  BY <3>2
  <2>4. /\ errors' \subseteq errors \cup {"bits"}
        /\ errors' = {} <=>
             errors = {} /\ \A i \in 0 .. nb - 1 : <<"bits", addr + i>> \notin broken
        BY <2>3 DEF Judge
  <2>5. TypeOK'
        BY <2>2, <2>4 DEF Inv, TypeOK, Pcs, Functions
  <2>6. Counts' /\ Written'
        BY <2>1 DEF Inv, Counts, Written
  <2>7. BitsAgree'
    <3>1. errors' = {} => ~Differ(rpBits', rqBits, nb)
          BY <2>3, <2>4
    <3> QED  BY <3>1 DEF BitsAgree, Differ
  <2>8. SoundServerPasses'
        BY <2>1, <2>4, NoneSeen DEF Inv, SoundServerPasses, Seen
  <2>9. TestedWorks'
    <3>1. addr \in Index => 0 \in 0 .. nb - 1 /\ addr + 0 = addr
          BY <2>1 DEF Index
    <3> QED  BY <2>4, <3>1 DEF Inv, TestedWorks, Untested, UntestedBits
  <2> QED  BY <2>5, <2>6, <2>7, <2>8, <2>9 DEF Inv
<1> QED  BY <1>1, <1>2

(* The two register tests compare bits that agree, or follow a test that    *)
(* has failed: they never find the first failure themselves.                *)
LEMMA ReadingRegisters == Inv /\ (ReadRegister \/ ReadRegisters) => Inv'
<1> SUFFICES ASSUME Inv, ReadRegister \/ ReadRegisters PROVE Inv'
    OBVIOUS
<1> USE ModbusClientAssumption
<1>0. nb \in Nat
      BY DEF Inv, TypeOK
<1>1. ASSUME NEW f \in {"register", "registers"}, NEW n \in {1, nb},
             NEW from \in {"read_register", "read_registers"},
             NEW to \in {"write_registers", "write_read"},
             Goto(from, to),
             rpRegisters' = Loaded(rpRegisters, registers, addr, n),
             Judge(f, Differ(rpBits, rqBits, nb)),
             UNCHANGED <<nb, requests, rpBits, server>>
      PROVE  Inv'
  <2> USE <1>1 DEF Goto, requests, server
  <2>1. /\ addr \in 0 .. End /\ nb = End - addr /\ addr \in Nat
        /\ addr + n - 1 <= End /\ n \in 0 .. End /\ addr \in Addresses
        BY Running DEF Inv, Counts
  <2>2. rpRegisters' \in [Index -> Words]
    <3>1. registers \in [Addresses -> Words] /\ rpRegisters \in [Index -> Words]
          BY DEF Inv, TypeOK
    <3>2. Loaded(rpRegisters, registers, addr, n) \in [Index -> Words]
          BY <2>1, <3>1, LoadedType
    <3> QED  BY <3>2
  <2>3. errors' \subseteq errors \cup {f} /\ (errors' = {} <=> errors = {})
        BY DEF Inv, BitsAgree, RegisterPcs, Judge, Differ
  <2>4. TypeOK'
        BY <2>2, <2>3 DEF Inv, TypeOK, Pcs, Functions
  <2>5. Counts' /\ Written'
        BY <2>1 DEF Inv, Counts, Written
  <2>6. BitsAgree'
        BY <2>3 DEF Inv, BitsAgree, RegisterPcs
  <2>7. SoundServerPasses' /\ TestedWorks'
        BY <2>3 DEF Inv, SoundServerPasses, TestedWorks, Untested, UntestedBits, Seen
  <2> QED  BY <2>4, <2>5, <2>6, <2>7 DEF Inv
<1>2. CASE ReadRegister
  <2>1. CASE ~Accepted(1) /\ Fail("register", "read_register", "write_registers")
        BY <2>1, Failing DEF Functions, RegisterPcs
  <2> QED  BY <1>1, <1>2, <2>1 DEF ReadRegister
<1>3. CASE ReadRegisters
  <2>1. CASE ~Accepted(nb) /\ Fail("registers", "read_registers", "write_read")
        BY <1>0, <2>1, Failing DEF Functions, RegisterPcs
  <2> QED  BY <1>1, <1>3, <2>1 DEF ReadRegisters
<1> QED  BY <1>2, <1>3

(* After the last test of an address comes the next address, or the end.    *)
LEMMA NextCounts ==
  ASSUME Inv, pc \in {"write_read", "reread"}, NextAddress
  PROVE  /\ addr \in Addresses /\ addr' = addr + 1 /\ addr' \in 0 .. End + 1
         /\ pc' \in {"fill", "done"} /\ Counts'
<1>1. addr \in 0 .. End
      BY Running DEF Inv
<1> QED
    BY <1>1, ModbusClientAssumption DEF NextAddress, Counts, Addresses

(* Write and read in one request: a failure of the pair is seen in the      *)
(* answer.                                                                  *)
LEMMA WritingAndReading == Inv /\ WriteRead => Inv'
<1> SUFFICES ASSUME Inv, WriteRead PROVE Inv'
    OBVIOUS
<1> USE ModbusClientAssumption
<1>1. pc = "write_read" /\ UNCHANGED <<nb, requests, rpBits, coils>>
      BY DEF WriteRead
<1>2. /\ addr \in 0 .. End /\ nb \in 0 .. End /\ nb = End - addr
      /\ addr + nb - 1 <= End /\ addr \in Nat /\ addr \in Addresses
      BY <1>1, Running DEF Inv, Counts
<1>3. CASE /\ ~Accepted(nb) /\ NextAddress
           /\ errors' = errors \cup {"rw"}
           /\ UNCHANGED <<rpRegisters, registers>>
  <2> USE <1>1, <1>3 DEF requests
  <2>1. /\ addr' \in 0 .. End + 1 /\ pc' \in {"fill", "done"} /\ Counts'
        /\ UNCHANGED <<broken, alive>>
        BY NextCounts DEF NextAddress
  <2>2. TypeOK'
        BY <2>1 DEF Inv, TypeOK, Pcs, Functions
  <2>3. Written' /\ BitsAgree' /\ TestedWorks'
        BY <2>1 DEF Written, BitsAgree, RegisterPcs, TestedWorks
  <2>4. SoundServerPasses'
        BY <1>2, <2>1 DEF SoundServerPasses, Accepted
  <2> QED  BY <2>1, <2>2, <2>3, <2>4 DEF Inv
<1>4. CASE /\ Accepted(nb) /\ Goto("write_read", "reread")
           /\ registers' = Stored(registers, "rw", addr, nb, rwRegisters, WrongWord)
           /\ rpRegisters' = Loaded(rpRegisters, registers', addr, nb)
           /\ Judge("rw", Differ(rpRegisters', rwRegisters, nb))
  <2> USE <1>1, <1>4 DEF requests, Goto
  <2>1. registers' \in [Addresses -> Words] /\ Shows(registers', "rw", rwRegisters, nb)
        BY <1>2, StoredShows, WrongValues DEF Inv, TypeOK
  <2>2. rpRegisters' \in [Index -> Words]
    <3>1. rpRegisters \in [Index -> Words]  BY DEF Inv, TypeOK
    <3>2. Loaded(rpRegisters, registers', addr, nb) \in [Index -> Words]
          BY <1>2, <2>1, <3>1, LoadedType
    <3> QED  BY <3>2
  <2>3. Differ(rpRegisters', rwRegisters, nb) <=>
          \E i \in 0 .. nb - 1 : <<"rw", addr + i>> \in broken
    <3>1. Differ(Loaded(rpRegisters, registers', addr, nb), rwRegisters, nb) <=>
            \E i \in 0 .. nb - 1 : <<"rw", addr + i>> \in broken
          BY <1>2, <2>1, ReadBack
    <3> QED  BY <3>1
  <2>4. /\ errors' \subseteq errors \cup {"rw"}
        /\ errors' = {} <=>
             errors = {} /\ \A i \in 0 .. nb - 1 : <<"rw", addr + i>> \notin broken
        BY <2>3 DEF Judge
  <2>5. TypeOK'
        BY <2>1, <2>2, <2>4 DEF Inv, TypeOK, Pcs, Functions
  <2>6. Counts' /\ BitsAgree'
        BY <1>2 DEF Counts, BitsAgree, RegisterPcs
  <2>7. Written'
        BY <2>1 DEF Written, Shows
  <2>8. SoundServerPasses'
        BY <1>2, <2>4, NoneSeen DEF Inv, SoundServerPasses, Seen
  <2>9. TestedWorks'
    <3>1. addr \in Index => 0 \in 0 .. nb - 1 /\ addr + 0 = addr
          BY <1>2 DEF Index
    <3> QED  BY <2>4, <3>1 DEF Inv, TestedWorks, Untested, UntestedBits
  <2> QED  BY <2>5, <2>6, <2>7, <2>8, <2>9 DEF Inv
<1> QED  BY <1>1, <1>3, <1>4 DEF WriteRead

(* The second look at the registers finds what the first has found, and     *)
(* with it the address is done.                                             *)
LEMMA Rereading == Inv /\ Reread => Inv'
<1> SUFFICES ASSUME Inv, Reread PROVE Inv'
    OBVIOUS
<1> USE ModbusClientAssumption
<1>1. pc = "reread" /\ NextAddress /\ UNCHANGED <<nb, requests, rpBits, server>>
      BY DEF Reread
<1>2. /\ addr \in 0 .. End /\ nb \in 0 .. End /\ nb = End - addr
      /\ addr + nb - 1 <= End /\ addr \in Nat
      BY <1>1, Running DEF Inv
<1>3. /\ addr \in Addresses /\ addr' = addr + 1 /\ addr' \in 0 .. End + 1
      /\ pc' \in {"fill", "done"} /\ Counts' /\ UNCHANGED <<broken, alive>>
      BY <1>1, NextCounts DEF NextAddress
<1>4. Written' /\ BitsAgree'
      BY <1>3 DEF Written, BitsAgree, RegisterPcs
<1>5. CASE /\ ~Accepted(nb)
           /\ errors' = errors \cup {"rw"}
           /\ UNCHANGED rpRegisters
  <2> USE <1>1, <1>5 DEF requests, server
  <2>1. TypeOK'
        BY <1>3 DEF Inv, TypeOK, Pcs, Functions
  <2>2. TestedWorks' /\ SoundServerPasses'
        BY <1>2, <1>3 DEF TestedWorks, SoundServerPasses, Accepted
  <2> QED  BY <1>3, <1>4, <2>1, <2>2 DEF Inv
<1>6. CASE /\ Accepted(nb)
           /\ rpRegisters' = Loaded(rpRegisters, registers, addr, nb)
           /\ Judge("rw", Differ(rwRegisters, rpRegisters', nb))
  <2> USE <1>1, <1>6 DEF requests, server
  <2>1. rpRegisters' \in [Index -> Words]
    <3>1. registers \in [Addresses -> Words] /\ rpRegisters \in [Index -> Words]
          BY DEF Inv, TypeOK
    <3>2. Loaded(rpRegisters, registers, addr, nb) \in [Index -> Words]
          BY <1>2, <3>1, LoadedType
    <3> QED  BY <3>2
  <2>2. Differ(rwRegisters, rpRegisters', nb) <=>
          \E i \in 0 .. nb - 1 : <<"rw", addr + i>> \in broken
    <3>1. Shows(registers, "rw", rwRegisters, nb)
          BY DEF Inv, Written
    <3>2. Differ(Loaded(rpRegisters, registers, addr, nb), rwRegisters, nb) <=>
            \E i \in 0 .. nb - 1 : <<"rw", addr + i>> \in broken
          BY <1>2, <3>1, ReadBack
    <3> QED  BY <3>2, DifferEither
  <2>3. /\ errors' \subseteq errors \cup {"rw"}
        /\ errors' = {} <=>
             errors = {} /\ \A i \in 0 .. nb - 1 : <<"rw", addr + i>> \notin broken
        BY <2>2 DEF Judge
  <2>4. TypeOK'
        BY <1>3, <2>1, <2>3 DEF Inv, TypeOK, Pcs, Functions
  <2>5. SoundServerPasses'
        BY <1>2, <1>3, <2>3, NoneSeen DEF Inv, SoundServerPasses, Seen
  <2>6. TestedWorks'
    <3>1. ASSUME NEW a \in Addresses, a < addr' \/ (a = addr' /\ pc' # "fill")
          PROVE  a < addr \/ (a = addr /\ pc = "reread")
      <4>1. pc' # "fill" => addr' = End + 1
            BY <1>3 DEF Counts
      <4> QED  BY <1>1, <1>2, <1>3, <3>1, <4>1 DEF Addresses
    <3>2. errors' = {} => errors = {}
          BY <2>3
    <3>3. Index \subseteq Addresses
          BY DEF Index, Addresses
    <3> QED
        BY <1>3, <3>1, <3>2, <3>3 DEF Inv, TestedWorks, Untested, UntestedBits
  <2> QED  BY <1>3, <1>4, <2>4, <2>5, <2>6 DEF Inv
<1> QED  BY <1>1, <1>5, <1>6 DEF Reread

(* Every step keeps the invariant; a lost connection takes nothing back.    *)
LEMMA NextInv == Inv /\ [Next]_vars => Inv'
<1> SUFFICES ASSUME Inv, [Next]_vars PROVE Inv'
    OBVIOUS
<1>1. CASE LinkLost
  <2> USE <1>1 DEF LinkLost, buffers, server
  <2>1. TypeOK'
        BY DEF Inv, TypeOK
  <2>2. Counts' /\ Written' /\ BitsAgree'
        BY DEF Inv, Counts, Written, Shows, BitsAgree
  <2>3. SoundServerPasses' /\ TestedWorks'
        BY DEF Inv, SoundServerPasses, TestedWorks
  <2> QED  BY <2>1, <2>2, <2>3 DEF Inv
<1>2. CASE UNCHANGED vars
  <2> USE <1>2 DEF vars, buffers, server
  <2>1. TypeOK'
        BY DEF Inv, TypeOK
  <2>2. Counts' /\ Written' /\ BitsAgree'
        BY DEF Inv, Counts, Written, Shows, BitsAgree
  <2>3. SoundServerPasses' /\ TestedWorks'
        BY DEF Inv, SoundServerPasses, TestedWorks
  <2> QED  BY <2>1, <2>2, <2>3 DEF Inv
<1> QED
    BY <1>1, <1>2, Filling, Writing, ReadingBit, ReadingBits, ReadingRegisters,
       WritingAndReading, Rereading DEF Next, Test, Finished

(* The end of an address takes a request, which fails without a connection. *)
LossShows == pc = "done" /\ ~alive => errors # {}

(* A step to the end without a connection adds a failure.                   *)
LEMMA LossStep == LossShows /\ [Next]_vars => LossShows'
<1> SUFFICES ASSUME LossShows, [Next]_vars, pc' = "done", ~alive'
             PROVE  errors' # {}
    BY DEF LossShows
<1>1. CASE WriteRead \/ Reread
      BY <1>1 DEF WriteRead, Reread, Goto, NextAddress, Accepted
<1>2. CASE UNCHANGED <<pc, alive, errors>>
      BY <1>2 DEF LossShows
<1>3. WriteRead \/ Reread \/ UNCHANGED <<pc, alive, errors>>
      BY DEF Next, Test, Fill, WriteBit, ReadBit, WriteBits, ReadBits, WriteRegister,
         ReadRegister, WriteRegisters, ReadRegisters, LinkLost, Finished, vars, Fail,
         Goto
<1> QED  BY <1>1, <1>2, <1>3

(* The invariant holds in every reachable state.                            *)
LEMMA SpecInv == Spec => []Inv
<1>1. Init => Inv  BY InitInv
<1>2. Inv /\ [Next]_vars => Inv'  BY NextInv
<1> QED  BY <1>1, <1>2, PTL DEF Spec

-----------------------------------------------------------------------------
(* What the verdict tells. *)

(* Every index a test of modbus_tcp_client_fun uses is one of its buffers,  *)
(* every address one of the mapping, every value a bit or a word.           *)
THEOREM TypeCorrect == Spec => []TypeOK
<1>1. Inv => TypeOK  BY DEF Inv
<1> QED  BY <1>1, SpecInv, PTL

(* A server with no fault the tests can see fails none of them, while it is *)
(* up and takes requests for no cells.                                      *)
THEOREM SoundServerPassesHolds == Spec => []SoundServerPasses
<1>1. Inv => SoundServerPasses  BY DEF Inv
<1> QED  BY <1>1, SpecInv, PTL

(* "client : test OK" means that everything the tests can see works, at     *)
(* every address, and that the connection was there to the end.             *)
THEOREM PassMeansSeenWorksHolds == Spec => []PassMeansSeenWorks
<1>1. Inv /\ LossShows => PassMeansSeenWorks
  <2> SUFFICES ASSUME Inv, LossShows, Passed PROVE broken \cap Seen = {}
      BY DEF PassMeansSeenWorks, Inv, LossShows, TypeOK, Passed
  <2>1. \A a \in Addresses : a < addr
        BY ModbusClientAssumption DEF Inv, Counts, Passed, Addresses
  <2>2. Index \subseteq Addresses /\ Index = 0 .. End - 1
        BY ModbusClientAssumption DEF Index, Addresses
  <2> QED  BY <2>1, <2>2, NoneSeen DEF Inv, TestedWorks, Passed
<1>2. Init => LossShows
      BY DEF Init, LossShows
<1> QED  BY <1>1, <1>2, LossStep, SpecInv, PTL DEF Spec

(* The verdict is exact while the connection is there and the server takes  *)
(* requests for no cells: it passes the servers without a fault the tests   *)
(* can see, and no others.                                                  *)
THEOREM VerdictExact ==
  Spec => [](pc = "done" /\ alive /\ ~ZeroRejected
               => (Passed <=> broken \cap Seen = {}))
<1>1. SoundServerPasses /\ PassMeansSeenWorks
        => (pc = "done" /\ alive /\ ~ZeroRejected
              => (Passed <=> broken \cap Seen = {}))
      BY DEF SoundServerPasses, PassMeansSeenWorks, Passed
<1> QED  BY <1>1, SoundServerPassesHolds, PassMeansSeenWorksHolds, PTL
=============================================================================
