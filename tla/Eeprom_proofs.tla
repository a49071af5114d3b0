---------------------------- MODULE Eeprom_proofs ----------------------------
(***************************************************************************)
(* The EEPROM path stays within its types for every length of the host's   *)
(* clock, every pause and every wait of the master; the master moves SDA   *)
(* under a high SCL only to make a start or a stop condition.  When the    *)
(* clocks and pauses suit each other, a request is over before the next    *)
(* command, however the two clocks are aligned, and the two wires carry it *)
(* out as EepromPort has it: the two state machines move in step           *)
(* (ProtocolInv), and address and byte pass bit by bit (TransferInv).  So  *)
(* do the reads of a dump at a clock that suits dumps (DumpingInv).        *)
(***************************************************************************)
EXTENDS EepromInvariant, RamTheorems

\* The chip's registers with their domain; its memory holds bytes at the
\* addresses that have been written.
Contents == UNION {[S -> Byte] : S \in SUBSET Byte}

Chips ==
    [state : ChipStates, next_state : ChipStates, prev_state : ChipStates,
     outputs : ChipStates \cup {"idle"}, cycles_waited : 0..7, is_read : BOOLEAN,
     trig_state_machine : BOOLEAN, count : 0..12, start_cond_found : BOOLEAN,
     sda_output : Driven, write_bits_used : 0..7, read_bits_used : 0..7,
     jump_to_slave_address_read : BOOLEAN, received_data : Byte, mem_address : Byte,
     eeprom : Contents]

\* The invariant: the widths, and the bounds of the environment's counters.
LinkInv ==
    /\ EepromTypeOK
    /\ chip \in Chips
    /\ period \in Periods
    /\ {dump_clocks, requests, dumps, resets} \subseteq Nat

-----------------------------------------------------------------------------
\* One register of the master at a time.
LEMMA MasterFields ==
  ASSUME NEW m \in Masters
  PROVE  /\ \A v \in MasterStates : /\ [m EXCEPT !.state = v] \in Masters
                                    /\ [m EXCEPT !.next_state = v] \in Masters
                                    /\ [m EXCEPT !.prev_state = v] \in Masters
                                    /\ [m EXCEPT !.outputs = v] \in Masters
         /\ \A v \in BOOLEAN : /\ [m EXCEPT !.trig_state_machine = v] \in Masters
                               /\ [m EXCEPT !.eeprom_write_enable_bit = v] \in Masters
                               /\ [m EXCEPT !.start_read_procedure = v] \in Masters
                               /\ [m EXCEPT !.start_write_procedure = v] \in Masters
                               /\ [m EXCEPT !.scl_enable = v] \in Masters
                               /\ [m EXCEPT !.is_ack_received = v] \in Masters
         /\ \A v \in 0..7 : /\ [m EXCEPT !.write_bits_used = v] \in Masters
                            /\ [m EXCEPT !.read_bits_used = v] \in Masters
         /\ \A v \in 0..7 \cup 0..RamWait : [m EXCEPT !.cycles_waited = v] \in Masters
         /\ \A v \in Driven : [m EXCEPT !.sda_output = v] \in Masters
         /\ \A v \in Byte : [m EXCEPT !.data_out = v] \in Masters
BY DEF Masters

\* What a bit of a byte and a bit count may be.
LEMMA BitFacts ==
  /\ \A v \in Byte, i \in 0..7 : Bit(v, i) \in Driven /\ Bit(v, 7 - i) \in Driven
  /\ \A i \in 0..7 : (i + 1) % 8 \in 0..7 /\ 7 - i \in 0..7
  /\ \A s : \A v \in Byte, i \in 0..7 : PutBit(v, i, IF s = 1 THEN 1 ELSE 0) \in Byte
<1>1. \A i \in 0..7 : (i + 1) % 8 \in 0..7 /\ 7 - i \in 0..7
  BY SMT
<1>2. \A v \in Byte, i \in 0..7 : Bit(v, i) \in {0, 1}
  BY BitType, SMT DEF Byte
<1>3. \A v \in Byte, i \in 0..7 : Bit(v, i) \in Driven /\ Bit(v, 7 - i) \in Driven
  BY <1>1, <1>2 DEF Driven
<1>4. \A s : \A v \in Byte, i \in 0..7 : PutBit(v, i, IF s = 1 THEN 1 ELSE 0) \in Byte
  BY PutBitType
<1> QED
  BY <1>1, <1>3, <1>4

\* The state machine moves among the states.
LEMMA SuccessorType ==
  ASSUME NEW m \in Masters, NEW control
  PROVE  Successor(m, control) \in MasterStates
BY DEF Masters, Successor, MasterStates, ByteStates

\* The registers of the master keep their widths when its state machine moves,
LEMMA StateMachineType ==
  ASSUME NEW m \in Masters, NEW control
  PROVE  StateMachine(m, control) \in Masters
<1> DEFINE next == Successor(m, control)
           p == IF next = "i2c_nop" /\ m.state # "write_to_ram" THEN "i2c_nop" ELSE m.state
           w == IF m.state = "i2c_nop" THEN next # "i2c_nop" /\ ~m.start_read_procedure
                ELSE m.eeprom_write_enable_bit
<1>1. next \in MasterStates
  BY SuccessorType
<1>2. m.state \in MasterStates /\ p \in MasterStates /\ w \in BOOLEAN
  BY DEF Masters, MasterStates
<1>3. StateMachine(m, control) =
        IF ~m.trig_state_machine THEN m
        ELSE [m EXCEPT !.next_state = next, !.prev_state = p, !.outputs = m.state,
                       !.eeprom_write_enable_bit = w]
  BY DEF StateMachine
<1> HIDE DEF next, p, w
<1>4. [m EXCEPT !.next_state = next, !.prev_state = p, !.outputs = m.state,
                !.eeprom_write_enable_bit = w] \in Masters
  BY <1>1, <1>2 DEF Masters
<1> QED
  BY <1>3, <1>4

\* A byte is sent bit by bit.
LEMMA DriveWhileLowType ==
  ASSUME NEW m \in Masters, NEW a \in Byte, NEW d \in Byte
  PROVE  DriveWhileLow(m, a, d) \in Masters
<1>1. CASE m.outputs \in ByteStates \ {"read_data"}
  <2>1. SentByte(m, a, d) \in Byte
    BY <1>1, SMT DEF SentByte, ByteStates, Byte, SLAVE_ADDRESS_READ, SLAVE_ADDRESS_WRITE
  <2>2. m.write_bits_used \in 0..7
    BY DEF Masters
  <2> DEFINE b == Bit(SentByte(m, a, d), 7 - m.write_bits_used)
             n == (m.write_bits_used + 1) % 8
  <2>3. b \in Driven /\ n \in 0..7
    BY <2>1, <2>2, BitFacts
  <2>4. DriveWhileLow(m, a, d) = [m EXCEPT !.sda_output = b, !.write_bits_used = n]
    BY <1>1 DEF DriveWhileLow, ByteStates
  <2> HIDE DEF b, n
  <2> QED
    BY <2>3, <2>4 DEF Masters
<1>2. CASE m.outputs \notin ByteStates \ {"read_data"}
  <2>1. 0 \in Driven /\ 1 \in Driven /\ Released \in Driven
    BY DEF Driven
  <2>2. DriveWhileLow(m, a, d) \in
          {m, [m EXCEPT !.sda_output = 0], [m EXCEPT !.sda_output = 1],
           [m EXCEPT !.sda_output = Released]}
    BY <1>2 DEF DriveWhileLow
  <2> QED
    BY <2>1, <2>2, MasterFields
<1> QED
  BY <1>1, <1>2

\* and when it drives SDA under a high SCL.
LEMMA DriveWhileHighType ==
  ASSUME NEW m \in Masters
  PROVE  DriveWhileHigh(m) \in Masters
<1>1. 0 \in Driven /\ 1 \in Driven
  BY DEF Driven
<1>2. DriveWhileHigh(m) \in {m, [m EXCEPT !.sda_output = 0], [m EXCEPT !.sda_output = 1]}
  BY DEF DriveWhileHigh
<1> QED
  BY <1>1, <1>2, MasterFields

\* A state waits for no longer than the longest of them.
LEMMA ChangeStateType ==
  ASSUME NEW m \in Masters
  PROVE  ChangeState(m) \in Masters
<1>1. m.cycles_waited \in Nat /\ m.next_state \in MasterStates
  BY RamWaitAssumption, SMT DEF Masters
<1>2. WaitCycles(m) \in {0, 7, RamWait}
  BY DEF WaitCycles
<1>3. CASE m.cycles_waited < WaitCycles(m)
  <2> DEFINE n == m.cycles_waited + 1
  <2>1. n \in 0..7 \cup 0..RamWait
    BY <1>1, <1>2, <1>3, RamWaitAssumption, SMT
  <2>2. ChangeState(m) = [m EXCEPT !.cycles_waited = n, !.trig_state_machine = FALSE]
    BY <1>3 DEF ChangeState
  <2> HIDE DEF n
  <2> QED
    BY <2>1, <2>2 DEF Masters
<1>4. CASE ~(m.cycles_waited < WaitCycles(m))
  <2>1. 0 \in 0..7
    BY SMT
  <2>2. ChangeState(m) = [m EXCEPT !.cycles_waited = 0, !.trig_state_machine = TRUE,
                                   !.state = m.next_state]
    BY <1>4 DEF ChangeState
  <2> QED
    BY <1>1, <2>1, <2>2 DEF Masters
<1> QED
  BY <1>3, <1>4

\* The four edges of the clocks, for any value on SDA and in EECON.
LEMMA MasterEdges ==
  ASSUME NEW m \in Masters, NEW a \in Byte, NEW d \in Byte, NEW control, NEW line
  PROVE  /\ MasterRiseLow(m, a, d) \in Masters /\ MasterRise100(m, control) \in Masters
         /\ MasterRiseHigh(m, line) \in Masters /\ MasterFall(m, control, line) \in Masters
<1>1. MasterRiseLow(m, a, d) \in Masters
  BY DriveWhileLowType, MasterFields DEF MasterRiseLow
<1>2. MasterRise100(m, control) \in Masters
  BY DEF MasterRise100, Masters
<1>3. MasterRiseHigh(m, line) \in Masters
  <2> DEFINE n == ChangeState(DriveWhileHigh(m))
             e == (n.scl_enable \/ m.outputs = "enable_scl") /\ m.outputs # "create_stop_cond"
             k == m.outputs = "receive_ack" /\ line = 0
  <2>1. n \in Masters
    BY ChangeStateType, DriveWhileHighType
  <2>2. MasterRiseHigh(m, line) = [n EXCEPT !.scl_enable = e, !.is_ack_received = k]
    BY DEF MasterRiseHigh
  <2>3. e \in BOOLEAN /\ k \in BOOLEAN
    OBVIOUS
  <2> HIDE DEF n, e, k
  <2> QED
    BY <2>1, <2>2, <2>3 DEF Masters
<1>4. MasterFall(m, control, line) \in Masters
  <2> DEFINE n == StateMachine(m, control)
             r == ReadBit(m, line)
  <2>1. n \in Masters
    BY StateMachineType
  <2>2. r \in Masters
    <3> DEFINE b == PutBit(m.data_out, 7 - m.read_bits_used, IF line = 1 THEN 1 ELSE 0)
               u == (m.read_bits_used + 1) % 8
    <3>1. m.data_out \in Byte /\ m.read_bits_used \in 0..7
      BY DEF Masters
    <3>2. b \in Byte /\ u \in 0..7
      BY <3>1, BitFacts
    <3>3. r \in {m, [m EXCEPT !.data_out = b, !.read_bits_used = u]}
      BY DEF ReadBit
    <3> HIDE DEF b, u, r
    <3> QED
      BY <3>2, <3>3 DEF Masters
  <2>3. MasterFall(m, control, line)
          = [n EXCEPT !.data_out = r.data_out, !.read_bits_used = r.read_bits_used]
    BY DEF MasterFall
  <2> HIDE DEF n, r
  <2> QED
    BY <2>1, <2>2, <2>3 DEF Masters
<1> QED
  BY <1>1, <1>2, <1>3, <1>4

-----------------------------------------------------------------------------
\* One register of the chip at a time.
LEMMA ChipFields ==
  ASSUME NEW c \in Chips
  PROVE  /\ \A v \in 0..7 : [c EXCEPT !.cycles_waited = v] \in Chips
         /\ \A v \in BOOLEAN : /\ [c EXCEPT !.is_read = v] \in Chips
                               /\ [c EXCEPT !.start_cond_found = v] \in Chips
         /\ \A v \in Driven : [c EXCEPT !.sda_output = v] \in Chips
BY DEF Chips

\* The registers of the EEPROM, one at a time.
LEMMA ChipFacts ==
  ASSUME NEW c \in Chips
  PROVE  /\ c.state \in ChipStates /\ c.next_state \in ChipStates
         /\ c.prev_state \in ChipStates /\ c.outputs \in ChipStates \cup {"idle"}
         /\ c.cycles_waited \in 0..7 /\ c.count \in 0..12
         /\ c.is_read \in BOOLEAN /\ c.trig_state_machine \in BOOLEAN
         /\ c.start_cond_found \in BOOLEAN /\ c.jump_to_slave_address_read \in BOOLEAN
         /\ c.sda_output \in Driven /\ c.write_bits_used \in 0..7
         /\ c.read_bits_used \in 0..7 /\ c.received_data \in Byte
         /\ c.mem_address \in Byte /\ c.eeprom \in Contents
         /\ DOMAIN c.eeprom \subseteq Byte
         /\ \A a \in DOMAIN c.eeprom : c.eeprom[a] \in Byte
<1>1. c.eeprom \in Contents
  BY DEF Chips
<1>2. PICK S \in SUBSET Byte : c.eeprom \in [S -> Byte]
  BY <1>1 DEF Contents
<1> QED
  BY <1>2 DEF Chips

\* The records of Chips have the type that the runs check.
LEMMA ChipsTyped == ASSUME NEW c \in Chips PROVE ChipTypeOK(c)
BY ChipFacts DEF ChipTypeOK

\* Every step of the EEPROM keeps the widths of its registers: power-up,
LEMMA InitChipType == InitChip \in Chips
<1>1. 0 \in 0..7 /\ 0 \in 0..12 /\ 0 \in Byte
  BY SMT DEF Byte
<1>2. <<>> \in Contents
  <2>1. <<>> \in [{} -> Byte]
    BY SMT
  <2> QED
    BY <2>1 DEF Contents
<1> QED
  BY <1>1, <1>2 DEF InitChip, Chips, ChipStates, ChipByteStates, Driven

\* A byte stored at an address.
LEMMA StoredType ==
  ASSUME NEW f \in Contents, NEW a \in Byte, NEW v \in Byte
  PROVE  Store(f, a, v) \in Contents
<1>1. PICK S \in SUBSET Byte : f \in [S -> Byte]
  BY DEF Contents
<1>2. Store(f, a, v) \in [S \cup {a} -> Byte]
  BY <1>1 DEF Store
<1> QED
  BY <1>2 DEF Contents

\* the rise of clk_200khz under a low clk_100khz,
LEMMA ChipRiseLowType == ASSUME NEW c \in Chips PROVE ChipRiseLow(c) \in Chips
<1> DEFINE idle == c.next_state = "receive_slave_address" /\ c.prev_state = "receive_slave_address"
           r == c.is_read /\ ~idle
           keep == [c EXCEPT !.is_read = r]
<1>1. keep \in Chips /\ keep.cycles_waited = c.cycles_waited
  <2>1. r \in BOOLEAN
    OBVIOUS
  <2> HIDE DEF r
  <2> QED
    BY <2>1, ChipFields DEF Chips
<1> DEFINE Waits == [keep EXCEPT !.cycles_waited = @ + 1]
           Jumps == [keep EXCEPT !.state = "receive_slave_address", !.cycles_waited = 0,
                                 !.is_read = TRUE]
           Moves == [keep EXCEPT !.state = c.next_state, !.cycles_waited = 0]
<1>2. ChipRiseLow(c) \in {Jumps, Moves} \/ (ChipRiseLow(c) = Waits /\ c.cycles_waited < 7)
  BY DEF ChipRiseLow
<1> HIDE DEF keep
<1>3. Jumps \in Chips /\ Moves \in Chips
  <2>1. 0 \in 0..7 /\ "receive_slave_address" \in ChipStates /\ c.next_state \in ChipStates
    BY ChipFacts, SMT DEF ChipStates, ChipByteStates
  <2> QED
    BY <1>1, <2>1 DEF Chips
<1>4. c.cycles_waited < 7 => Waits \in Chips
  <2>1. c.cycles_waited < 7 => keep.cycles_waited + 1 \in 0..7
    BY <1>1, ChipFacts, SMT
  <2> QED
    BY <1>1, <2>1, ChipFields
<1> HIDE DEF Waits, Jumps, Moves
<1> QED
  BY <1>2, <1>3, <1>4

\* its fall,
LEMMA ChipFall200Type == ASSUME NEW c \in Chips PROVE ChipFall200(c) \in Chips
<1> DEFINE n == ChipSuccessor(c)
           p == IF c.state = "send_ack" /\ c.prev_state \notin ChipByteStates \ {"send_data"}
                THEN c.prev_state ELSE c.state
           o == IF c.state = "receive_slave_address" /\ ~c.trig_state_machine
                THEN "idle" ELSE c.state
<1>1. n \in ChipStates
  BY ChipFacts DEF ChipSuccessor, AfterAck, ChipStates, ChipByteStates
<1>2. p \in ChipStates /\ o \in ChipStates \cup {"idle"}
  BY ChipFacts
<1>3. ChipFall200(c) = [c EXCEPT !.next_state = n, !.prev_state = p, !.outputs = o]
  BY DEF ChipFall200
<1> HIDE DEF n, p, o
<1> QED
  BY <1>1, <1>2, <1>3 DEF Chips

\* A start condition is counted, the byte stored or sent.
LEMMA ChipRiseSclType == ASSUME NEW c \in Chips PROVE ChipRiseScl(c) \in Chips
<1>1. ChipDrive(c) \in Chips
  <2>1. 0 \in Driven /\ Released \in Driven
    BY DEF Driven
  <2>2. CASE c.outputs = "send_ack"
    <3> DEFINE a == IF c.next_state = "receive_data" THEN c.received_data ELSE c.mem_address
               f == IF Stores(c) THEN Store(c.eeprom, c.mem_address, c.received_data)
                    ELSE c.eeprom
    <3>1. a \in Byte
      BY ChipFacts
    <3>2. f \in Contents
      BY ChipFacts, StoredType
    <3>3. ChipDrive(c) = [c EXCEPT !.sda_output = 0, !.mem_address = a, !.eeprom = f]
      BY <2>2 DEF ChipDrive
    <3> HIDE DEF a, f
    <3> QED
      BY <2>1, <3>1, <3>2, <3>3 DEF Chips
  <2>3. CASE c.outputs = "send_data"
    <3> DEFINE b == Bit(Stored(c.eeprom, c.mem_address), 7 - c.write_bits_used)
               w == (c.write_bits_used + 1) % 8
    <3>1. Stored(c.eeprom, c.mem_address) \in Byte
      <4>1. 0 \in Byte
        BY SMT DEF Byte
      <4> QED
        BY <4>1, ChipFacts DEF Stored
    <3>2. b \in Driven /\ w \in 0..7
      BY <3>1, ChipFacts, BitFacts
    <3>3. ChipDrive(c) = [c EXCEPT !.sda_output = b, !.write_bits_used = w]
      BY <2>3 DEF ChipDrive
    <3> HIDE DEF b, w
    <3> QED
      BY <3>2, <3>3 DEF Chips
  <2>4. CASE c.outputs \notin {"send_ack", "send_data"}
    <3>1. ChipDrive(c) = [c EXCEPT !.sda_output = Released]
      BY <2>4 DEF ChipDrive
    <3> QED
      BY <2>1, <3>1, ChipFields
  <2> QED
    BY <2>2, <2>3, <2>4
<1>2. CountBits(c).count \in 0..12 /\ CountBits(c).trig_state_machine \in BOOLEAN
  <2> DEFINE k == IF c.start_cond_found /\ c.sda_output = Released THEN 12 ELSE c.count
             n == IF k > 0 THEN k - 1 ELSE 0
  <2>1. k \in 0..12 /\ n \in 0..12
    BY ChipFacts, SMT
  <2>2. CountBits(c) = [c EXCEPT !.count = n, !.trig_state_machine = (k > 0)]
    BY DEF CountBits
  <2> HIDE DEF k, n
  <2> QED
    BY <2>1, <2>2 DEF Chips
<1> DEFINE d == ChipDrive(c)
           n == CountBits(c)
<1>3. ChipRiseScl(c) = [d EXCEPT !.count = n.count, !.trig_state_machine = n.trig_state_machine]
  BY DEF ChipRiseScl
<1> HIDE DEF d, n
<1>4. d \in Chips /\ n.count \in 0..12 /\ n.trig_state_machine \in BOOLEAN
  BY <1>1, <1>2 DEF d, n
<1> QED
  BY <1>3, <1>4 DEF Chips

\* the fall of SCL,
LEMMA ChipFallSclType == ASSUME NEW c \in Chips, NEW line PROVE ChipFallScl(c, line) \in Chips
<1> DEFINE byte  == c.outputs \in ChipByteStates
           last  == ~byte \/ c.read_bits_used = 7
           start == ~last /\ c.outputs = "receive_data" /\ c.start_cond_found
           index == IF byte THEN 7 - c.read_bits_used ELSE 0
           r == PutBit(c.received_data, index, IF line = 1 THEN 1 ELSE 0)
           u == IF last \/ start THEN 0 ELSE c.read_bits_used + 1
<1>1. index \in 0..7 /\ u \in 0..7
  BY ChipFacts, SMT
<1>2. r \in Byte
  BY <1>1, ChipFacts, BitFacts
<1>3. ChipFallScl(c, line) \in
        {c, [c EXCEPT !.received_data = r, !.read_bits_used = u,
                      !.jump_to_slave_address_read = start]}
  BY DEF ChipFallScl
<1>4. start \in BOOLEAN
  OBVIOUS
<1> HIDE DEF index, r, u, start
<1> QED
  BY <1>1, <1>2, <1>3, <1>4 DEF Chips

\* and the watch for a start condition.
LEMMA PollStartType ==
  ASSUME NEW c \in Chips, NEW old, NEW new, NEW scl
  PROVE  PollStart(c, old, new, scl) \in Chips
<1>1. PollStart(c, old, new, scl) \in {c, [c EXCEPT !.start_cond_found = (scl = 1)]}
  BY DEF PollStart
<1>2. (scl = 1) \in BOOLEAN
  OBVIOUS
<1> QED
  BY <1>1, <1>2, ChipFields

-----------------------------------------------------------------------------
\* What the assumptions say of the constants.
LEMMA LinkConstants ==
  /\ \A p \in Periods : p \in Nat \ {0}
  /\ Addresses \subseteq Byte /\ DataBytes \subseteq Byte /\ Controls \subseteq Byte
  /\ period' = period => PauseClocks' = PauseClocks
  /\ period \in Periods => PauseClocks \in Nat
  /\ DumpSteps \in Nat \ {0}
<1>1. period \in Periods => PauseClocks \in Nat
  BY LinkAssumption, SMT DEF PauseClocks
<1>2. DumpSteps \in Nat \ {0}
  BY MemoryAssumption, SMT DEF DumpSteps
<1> QED
  BY <1>1, <1>2, LinkAssumption DEF PauseClocks

\* The master powers up within its widths,
LEMMA InitMasterType == InitMaster \in Masters
<1>1. 0 \in 0..7 /\ 0 \in Byte /\ 1 \in Driven
  BY SMT DEF Byte, Driven
<1> QED
  BY <1>1 DEF InitMaster, Masters, MasterStates

\* and so does the memory.
LEMMA RamInitType == RamInit => RamType
<1>1. 0 \in Byte /\ 0 \in 0..6 /\ 0 \in 0..EepromSize - 1
  BY MemoryAssumption, SMT DEF Byte
<1> QED
  BY <1>1 DEF RamInit, RamType, ClearedRam, ClearedEeprom, Memory, Eeprom

\* One edge of the host's clock, whatever the enables.
LEMMA HostEdgeType ==
  ASSUME LinkInv, NEW en, NEW d \in Byte, NEW address \in 0..127, HostEdge(en, d, address)
  PROVE  /\ RamType' /\ master' \in Masters /\ chip' \in Chips /\ phase' \in Phases
         /\ tick' \in 0..period' /\ period' \in Periods /\ buffer' \in Byte
         /\ resets' \in Nat /\ PauseClocks' = PauseClocks
<1>1. RamType'
  <2>1. master.data_out \in Byte
    BY DEF LinkInv, EepromTypeOK, Masters
  <2>2. 0 \in Byte
    BY SMT DEF Byte
  <2> QED
    BY <2>1, <2>2, RamStep DEF HostEdge, LinkInv, EepromTypeOK
<1>2. master' = master /\ chip' = chip /\ phase' = phase /\ period' = period
      /\ buffer' = buffer /\ resets' = resets /\ tick' = period
  BY DEF HostEdge, wire_vars
<1>3. period \in Nat
  BY LinkConstants DEF LinkInv
<1>4. tick' \in 0..period'
  BY <1>2, <1>3, SMT
<1> QED
  BY <1>1, <1>2, <1>4, LinkConstants DEF LinkInv, EepromTypeOK

\* One edge of the I2C clocks.
LEMMA I2cStepType ==
  ASSUME LinkInv, I2cStep
  PROVE  LinkInv'
<1> USE DEF LinkInv, EepromTypeOK
<1>1. eeadr_int \in Byte /\ eedata_int \in Byte
  BY DEF RamType
<1>2. chip \in Chips /\ master \in Masters /\ phase \in Phases
  OBVIOUS
<1> HIDE DEF LinkInv, EepromTypeOK
<1>3. master' \in Masters /\ chip' \in Chips /\ served' \in BOOLEAN /\ buffer' \in Byte
  <2> DEFINE fallen == ChipFall200(chip)
  <2>1. fallen \in Chips
    BY <1>2, ChipFall200Type
  <2>2. CASE LowRise
    <3>1. master' \in Masters
      BY <1>1, <1>2, <2>2, MasterEdges DEF LowRise, Moved
    <3>2. chip' \in Chips
      BY <1>2, <2>2, ChipRiseLowType, PollStartType DEF LowRise, Moved
    <3> QED
      BY <2>2, <3>1, <3>2 DEF LowRise, LinkInv, EepromTypeOK
  <2>3. CASE HighFall
    <3>1. master' \in Masters
      BY <1>1, <1>2, <2>3, MasterEdges DEF HighFall, Moved
    <3>2. chip' \in Chips
      <4> DEFINE c == IF master.scl_enable THEN ChipRiseScl(fallen) ELSE fallen
      <4>1. c \in Chips
        BY <2>1, ChipRiseSclType
      <4>2. chip' = PollStart(c, sda, Line(MasterRise100(master, eecon_int), c), 1)
        BY <2>3 DEF HighFall, Moved
      <4> HIDE DEF c
      <4> QED
        BY <4>1, <4>2, PollStartType
    <3>3. served' \in BOOLEAN /\ buffer' = buffer
      <4> DEFINE b == master.scl_enable /\ Stores(fallen)
      <4>1. served' = (served \/ b) /\ buffer' = buffer
        BY <2>3 DEF HighFall
      <4> HIDE DEF b
      <4> QED
        BY <4>1
    <3> QED
      BY <3>1, <3>2, <3>3 DEF LinkInv, EepromTypeOK
  <2>4. CASE HighRise
    <3>1. master' \in Masters
      BY <1>1, <1>2, <2>4, MasterEdges DEF HighRise, Moved
    <3>2. chip' \in Chips
      BY <1>2, <2>4, PollStartType DEF HighRise, Moved
    <3> QED
      BY <2>4, <3>1, <3>2 DEF HighRise, LinkInv, EepromTypeOK
  <2>5. CASE LowFall
    <3>1. master' \in Masters
      BY <1>1, <1>2, <2>5, MasterEdges DEF LowFall, Moved
    <3>2. chip' \in Chips
      <4> DEFINE c == IF master.scl_enable THEN ChipFallScl(fallen, sda) ELSE fallen
      <4>1. c \in Chips
        BY <2>1, ChipFallSclType
      <4>2. chip' = PollStart(c, sda, Line(MasterFall(master, eecon_int, sda), c), Scl(0))
        BY <2>5 DEF LowFall, Moved
      <4> HIDE DEF c
      <4> QED
        BY <4>1, <4>2, PollStartType
    <3>3. served' \in BOOLEAN
      <4> DEFINE b == master.outputs = "read_data" /\ master.read_bits_used = 7
      <4>1. served' = (served \/ b)
        BY <2>5 DEF LowFall
      <4> HIDE DEF b
      <4> QED
        BY <4>1
    <3>4. buffer' \in {master'.data_out, buffer}
      BY <2>5 DEF LowFall
    <3>5. master'.data_out \in Byte
      BY <3>1 DEF Masters
    <3> QED
      BY <3>1, <3>2, <3>3, <3>4, <3>5 DEF LinkInv, EepromTypeOK
  <2> QED
    BY <2>2, <2>3, <2>4, <2>5 DEF I2cStep
<1>4. phase' \in Phases
  BY <1>2 DEF I2cStep, NextPhase, Phases
<1>5. tick' \in 0..period' /\ period' = period /\ PauseClocks' = PauseClocks
  <2>1. period \in Nat /\ tick \in 0..period
    BY LinkConstants DEF LinkInv, EepromTypeOK
  <2>2. tick > 0 /\ tick' = tick - 1 /\ period' = period
    BY DEF I2cStep
  <2> QED
    BY <2>1, <2>2, SMT DEF PauseClocks
<1>6. RamType'
  BY DEF I2cStep, ram_vars, RamType, LinkInv, EepromTypeOK
<1> QED
  BY <1>3, <1>4, <1>5, <1>6, ChipsTyped
  DEF I2cStep, count_vars, LinkInv, EepromTypeOK

\* Every step keeps the widths.
LEMMA LinkStep == LinkInv /\ [LinkNext]_link_vars => LinkInv'
<1> SUFFICES ASSUME LinkInv, [LinkNext]_link_vars
             PROVE  LinkInv'
  OBVIOUS
<1>1. PauseClocks \in Nat /\ since \in 0..PauseClocks /\ dump_clocks \in Nat /\ requests \in Nat
      /\ dumps \in Nat /\ resets \in Nat /\ served \in BOOLEAN
      /\ request \in {"none", "read", "write", "dump"}
  BY LinkConstants DEF LinkInv, EepromTypeOK
<1>2. 0 \in Byte /\ 0 \in 0..127 /\ EEADR_ADDRESS \in 0..127 /\ EEDATA_ADDRESS \in 0..127
      /\ EECON_ADDRESS \in 0..127
  BY SMT DEF Byte, EEADR_ADDRESS, EEDATA_ADDRESS, EECON_ADDRESS
<1>3. CASE I2cStep
  BY <1>3, I2cStepType
<1>4. CASE IdleEdge
  <2>1. HostEdge({}, 0, 0)
    BY <1>4 DEF IdleEdge
  <2>2. PauseClocks' = PauseClocks
    BY <1>2, <2>1, HostEdgeType
  <2>3. since' \in 0..PauseClocks'
    <3>1. since' = IF since < PauseClocks THEN since + 1 ELSE since
      BY <1>4 DEF IdleEdge
    <3> HIDE DEF PauseClocks
    <3> QED
      BY <1>1, <2>2, <3>1, SMT
  <2>4. /\ request' \in {"none", request} /\ served' \in {FALSE, served}
        /\ dump_clocks' = dump_clocks /\ requests' = requests /\ dumps' = dumps
    BY <1>4 DEF IdleEdge
  <2> QED
    BY <1>1, <1>2, <2>1, <2>3, <2>4, HostEdgeType, ChipsTyped DEF LinkInv, EepromTypeOK
<1>5. CASE WriteOperand
  <2>1. PICK d \in Byte, address \in 0..127 : HostEdge({"ram_write"}, d, address)
    BY <1>2, <1>5, LinkConstants DEF WriteOperand
  <2>2. UNCHANGED <<since, dump_clocks, requests, dumps, request, served>>
    BY <1>5 DEF WriteOperand
  <2> QED
    BY <1>1, <2>1, <2>2, HostEdgeType, ChipsTyped DEF LinkInv, EepromTypeOK
<1>6. CASE WriteRequest
  <2>1. PICK control \in Controls : /\ HostEdge({"ram_write"}, control, EECON_ADDRESS)
                                    /\ request' = Port!Asked(control)
    BY <1>6 DEF WriteRequest
  <2>2. HostEdge({"ram_write"}, control, EECON_ADDRESS) /\ control \in Byte
    BY <2>1, LinkConstants
  <2>3. since' = 0 /\ requests' = requests + 1 /\ UNCHANGED <<dump_clocks, dumps, served>>
    BY <1>6 DEF WriteRequest
  <2>4. request' \in {"none", "read", "write", "dump"}
    BY <2>1 DEF Port!Asked
  <2>5. PauseClocks' = PauseClocks
    BY <1>2, <2>2, HostEdgeType
  <2>6. since' \in 0..PauseClocks' /\ requests' \in Nat
    BY <1>1, <2>3, <2>5, SMT
  <2> QED
    BY <1>1, <1>2, <2>2, <2>3, <2>4, <2>6, HostEdgeType, ChipsTyped DEF LinkInv, EepromTypeOK
<1>7. CASE DumpEdge
  <2>1. HostEdge({"eeprom_dump"}, 0, 0)
    BY <1>7 DEF DumpEdge
  <2>2. since' = 0 /\ request' = "dump" /\ UNCHANGED <<requests, served>>
    BY <1>7 DEF DumpEdge
  <2>3. dump_clocks' \in Nat /\ dumps' \in Nat
    <3>1. CASE dumps' = dumps + 1 /\ dump_clocks' = DumpSteps - 1
      <4> HIDE DEF DumpSteps
      <4> QED
        BY <1>1, <3>1, LinkConstants, SMT
    <3>2. CASE dump_clocks > 0 /\ dump_clocks' = dump_clocks - 1 /\ dumps' = dumps
      BY <1>1, <3>2, SMT
    <3> QED
      BY <1>7, <3>1, <3>2 DEF DumpEdge
  <2>4. PauseClocks' = PauseClocks
    BY <1>2, <2>1, HostEdgeType
  <2>5. since' \in 0..PauseClocks'
    BY <1>1, <2>2, <2>4, SMT
  <2> QED
    BY <1>1, <1>2, <2>1, <2>2, <2>3, <2>5, HostEdgeType, ChipsTyped DEF LinkInv, EepromTypeOK
<1>8. CASE Reset
  <2>1. RamType'
    BY <1>8, RamResetType DEF Reset, LinkInv, EepromTypeOK, RamType
  <2>2. resets' \in Nat /\ since' = PauseClocks /\ period' = period /\ tick' = period
    BY <1>1, <1>8 DEF Reset
  <2>3. PauseClocks' = PauseClocks /\ period \in Nat
    BY <2>2, LinkConstants DEF LinkInv
  <2>4. since' \in 0..PauseClocks' /\ tick' \in 0..period' /\ dump_clocks' \in Nat
    <3>1. dump_clocks' = 0
      BY <1>8 DEF Reset
    <3> QED
      BY <1>1, <2>2, <2>3, <3>1, SMT
  <2>5. "low_rise" \in Phases
    BY DEF Phases
  <2> QED
    BY <1>1, <1>2, <1>8, <2>1, <2>2, <2>4, <2>5, InitMasterType, InitChipType, ChipsTyped
    DEF Reset, LinkInv, EepromTypeOK
<1>9. CASE UNCHANGED link_vars
  <2>1. UNCHANGED <<master, chip, phase, period, tick, since, dump_clocks, requests, dumps,
                    resets, request, served, buffer, ram_vars>>
    BY <1>9 DEF link_vars, wire_vars, clock_vars, count_vars
  <2>2. RamType'
    BY <2>1 DEF ram_vars, RamType, LinkInv, EepromTypeOK
  <2>3. PauseClocks' = PauseClocks
    BY <2>1 DEF PauseClocks
  <2> QED
    BY <1>1, <2>1, <2>2, <2>3, ChipsTyped DEF LinkInv, EepromTypeOK
<1> QED
  BY <1>3, <1>4, <1>5, <1>6, <1>7, <1>8, <1>9 DEF LinkNext

\* The invariant holds at power-up.
LEMMA LinkStart == InitLink => LinkInv
<1> SUFFICES ASSUME InitLink PROVE LinkInv
  OBVIOUS
<1>1. RamType /\ master \in Masters /\ chip \in Chips /\ phase \in Phases /\ period \in Periods
  BY RamInitType, InitMasterType, InitChipType DEF InitLink, Phases
<1>2. tick \in 0..period /\ since \in 0..PauseClocks /\ dump_clocks \in Nat
      /\ requests \in Nat /\ dumps \in Nat /\ resets \in Nat /\ buffer \in Byte
  <2>1. period \in Nat /\ PauseClocks \in Nat
    BY <1>1, LinkConstants
  <2> QED
    BY <2>1, SMT DEF InitLink, Byte
<1> QED
  BY <1>1, <1>2, ChipsTyped DEF InitLink, LinkInv, EepromTypeOK

\* The registers of ram.vhd, i2c.vhd and pcf8582_simulator.vhd stay within
\* their widths, whatever the clocks and the programs.
THEOREM EepromTypes == LinkSpec => []EepromTypeOK
<1>1. LinkInv => EepromTypeOK
  BY DEF LinkInv
<1> QED
  BY LinkStart, LinkStep, <1>1, PTL DEF LinkSpec

-----------------------------------------------------------------------------
\* What each edge does to SDA while SCL is high.
LEMMA MovesOfSda ==
  ASSUME LinkInv, [LinkNext]_link_vars, phase \in {"high_fall", "high_rise"},
         {master.sda_output, master'.sda_output} = {0, 1}
  PROVE  \/ master.outputs \in {"create_start_cond", "create_repeated_start_cond"}
            /\ master'.sda_output = 0
         \/ master.outputs = "create_stop_cond" /\ master'.sda_output = 1
         \/ resets' # resets
<1>1. master \in Masters /\ resets \in Nat
  BY DEF LinkInv, EepromTypeOK
<1>2. master' # master
  <2>1. 0 \in {master.sda_output, master'.sda_output}
        /\ 1 \in {master.sda_output, master'.sda_output}
    OBVIOUS
  <2>2. 0 # 1
    BY SMT
  <2> QED
    BY <2>1, <2>2
<1>3. CASE I2cStep
  <2>1. HighFall \/ HighRise
    BY <1>3 DEF I2cStep, LowRise, LowFall, HighFall, HighRise
  <2>2. CASE HighFall
    <3>1. master' = MasterRise100(master, eecon_int)
      BY <2>2 DEF HighFall, Moved
    <3>2. master'.sda_output = master.sda_output
      BY <1>1, <3>1 DEF MasterRise100, Masters
    <3> QED
      BY <3>2
  <2>3. CASE HighRise
    <3> DEFINE n == DriveWhileHigh(master)
    <3>1. n \in Masters
      BY <1>1, DriveWhileHighType
    <3>2. master' = MasterRiseHigh(master, sda)
      BY <2>3 DEF HighRise, Moved
    <3>3. ChangeState(n).sda_output = n.sda_output /\ ChangeState(n) \in Masters
      <4> HIDE DEF n
      <4> QED
        BY <3>1, ChangeStateType DEF ChangeState, Masters
    <3>4. master'.sda_output = n.sda_output
      <4> DEFINE c == ChangeState(n)
      <4>1. master' = [c EXCEPT
                !.scl_enable = (@ \/ master.outputs = "enable_scl") /\ master.outputs # "create_stop_cond",
                !.is_ack_received = (master.outputs = "receive_ack" /\ sda = 0)]
        BY <3>2 DEF MasterRiseHigh
      <4>2. c \in Masters
        BY <3>3
      <4> HIDE DEF c
      <4>3. master'.sda_output = c.sda_output
        BY <4>1, <4>2 DEF Masters
      <4> QED
        BY <3>3, <4>3 DEF c
    <3>5. \/ n = master
          \/ /\ master.outputs \in {"create_start_cond", "create_repeated_start_cond"}
             /\ n.sda_output = 0
          \/ master.outputs = "create_stop_cond" /\ n.sda_output = 1
      BY <1>1 DEF DriveWhileHigh, Masters
    <3> HIDE DEF n
    <3> QED
      BY <3>4, <3>5
  <2> QED
    BY <2>1, <2>2, <2>3
<1>4. CASE Reset
  <2>1. resets' = resets + 1
    BY <1>4 DEF Reset
  <2> QED
    BY <1>1, <2>1, SMT
<1>5. CASE IdleEdge \/ WriteOperand \/ WriteRequest \/ DumpEdge \/ UNCHANGED link_vars
  BY <1>2, <1>5 DEF IdleEdge, WriteOperand, WriteRequest, DumpEdge, HostEdge, link_vars, wire_vars
<1> QED
  BY <1>3, <1>4, <1>5 DEF LinkNext

\* Under a high SCL the master moves SDA to start or to stop and never else:
\* the EEPROM would take any other movement for one of the two (i2c.vhd,
\* write_data_proc).
THEOREM SdaOrderly == LinkSpec => OnlyStartAndStopWhileHigh
<1>1. LinkInv /\ [LinkNext]_link_vars =>
        [ (phase \in {"high_fall", "high_rise"} /\ master.scl_enable
              /\ {master.sda_output, master'.sda_output} = {0, 1}) =>
            \/ master.outputs \in {"create_start_cond", "create_repeated_start_cond"}
               /\ master'.sda_output = 0
            \/ master.outputs = "create_stop_cond" /\ master'.sda_output = 1
            \/ resets' # resets ]_link_vars
  BY MovesOfSda
<1> QED
  BY LinkStart, LinkStep, <1>1, PTL DEF LinkSpec, OnlyStartAndStopWhileHigh

-----------------------------------------------------------------------------
\* Arithmetic of the steps that are left.
LEMMA RestType ==
  ASSUME NEW s \in MasterStates, NEW n \in MasterStates
  PROVE  /\ Rest(s, n) \in Nat /\ Rest(s, n) <= RamWait + 42
         /\ Rest(s, n) = 0 <=> s = "i2c_nop" /\ n = "i2c_nop"
<1>1. RamWait \in Nat
  BY RamWaitAssumption
<1>2. CASE n = "receive_ack"
  BY <1>1, <1>2, SMT DEF Rest
<1>3. CASE n # "receive_ack"
  BY <1>1, <1>3, SMT DEF Rest, MasterStates, ByteStates
<1> QED
  BY <1>2, <1>3

\* The waits of the states.
LEMMA WaitType == ASSUME NEW m PROVE WaitCycles(m) \in {0, 7, RamWait} /\ WaitCycles(m) \in Nat
BY RamWaitAssumption, SMT DEF WaitCycles

\* What is left of a request, and the age of the last look at EECON, by the phase.
LEMMA PhaseValues ==
  ASSUME NEW m, NEW p, Cycles(m, p) \in Int
  PROVE  /\ p = "low_rise"  => Left(m, p) = 4 * Cycles(m, p) /\ Age(p) = 3
         /\ p = "high_fall" => Left(m, p) = 4 * Cycles(m, p) - 1 /\ Age(p) = 4
         /\ p = "high_rise" => Left(m, p) = 4 * Cycles(m, p) - 2 /\ Age(p) = 1
         /\ p = "low_fall"  => Left(m, p) = 4 * Cycles(m, p) + 1 /\ Age(p) = 2
<1> DEFINE offset == [low_rise |-> 0, high_fall |-> -1, high_rise |-> -2, low_fall |-> 1]
           age == [high_rise |-> 1, low_fall |-> 2, low_rise |-> 3, high_fall |-> 4]
<1>1. /\ offset["low_rise"] = 0 /\ offset["high_fall"] = -1 /\ offset["high_rise"] = -2
      /\ offset["low_fall"] = 1
  OBVIOUS
<1>2. /\ age["low_rise"] = 3 /\ age["high_fall"] = 4 /\ age["high_rise"] = 1
      /\ age["low_fall"] = 2
  OBVIOUS
<1>3. Left(m, p) = 4 * Cycles(m, p) + offset[p] /\ Age(p) = age[p]
  BY DEF Left, Age
<1> HIDE DEF offset, age
<1>4. p = "low_rise" => Left(m, p) = 4 * Cycles(m, p) /\ Age(p) = 3
  BY <1>1, <1>2, <1>3
<1>5. p = "high_fall" => Left(m, p) = 4 * Cycles(m, p) - 1 /\ Age(p) = 4
  BY <1>1, <1>2, <1>3
<1>6. p = "high_rise" => Left(m, p) = 4 * Cycles(m, p) - 2 /\ Age(p) = 1
  BY <1>1, <1>2, <1>3
<1>7. p = "low_fall" => Left(m, p) = 4 * Cycles(m, p) + 1 /\ Age(p) = 2
  BY <1>1, <1>2, <1>3
<1> QED
  BY <1>4, <1>5, <1>6, <1>7

\* The counters of the master and what is left of its procedure.
LEMMA MasterFacts ==
  ASSUME NEW m \in Masters, NEW p
  PROVE  /\ m.outputs \in MasterStates /\ m.next_state \in MasterStates
         /\ m.cycles_waited \in Nat /\ WaitCycles(m) \in Nat
         /\ Rest(m.outputs, m.next_state) \in Nat
         /\ Cycles(m, p) \in Int
<1>2. /\ m.outputs \in MasterStates /\ m.next_state \in MasterStates
      /\ m.cycles_waited \in 0..7 \cup 0..RamWait
  BY DEF Masters
<1>3. m.cycles_waited \in Nat
  BY <1>2, RamWaitAssumption, SMT
<1>4. Rest(m.outputs, m.next_state) \in Nat /\ WaitCycles(m) \in Nat
  BY <1>2, RestType, WaitType
<1>5. Cycles(m, p) \in Int
  <2> DEFINE r == Rest(m.outputs, m.next_state)
             w == WaitCycles(m)
             c == m.cycles_waited
  <2>1. Cycles(m, p) = r + IF Taken(m, p) THEN -1 ELSE w - c
    BY DEF Cycles
  <2>2. r \in Nat /\ w \in Nat /\ c \in Nat
    BY <1>3, <1>4
  <2> HIDE DEF r, w, c
  <2> QED
    BY <2>1, <2>2, SMT
<1> QED
  BY <1>2, <1>3, <1>4, <1>5

\* A bound on what is left; none is exactly when the master is idle.
LEMMA LeftBound ==
  ASSUME NEW m \in Masters, NEW p \in Phases, Placed(m, p)
  PROVE  /\ Left(m, p) \in Int /\ Left(m, p) <= 4 * (RamWait + 42) + 1
         /\ Left(m, p) <= 0 <=> Idle(m)
<1> DEFINE s == m.outputs
           n == m.next_state
           r == Rest(s, n)
           w == WaitCycles(m)
           c == m.cycles_waited
<1>1. RamWait \in Nat \ {0} /\ r \in Nat /\ w \in Nat /\ c \in Nat /\ Cycles(m, p) \in Int
  BY MasterFacts, RamWaitAssumption
<1>2. Cycles(m, p) = r + IF Taken(m, p) THEN -1 ELSE w - c
  BY DEF Cycles
<1>3. r = 0 <=> Idle(m)
  BY MasterFacts, RestType DEF Idle
<1>4. ~Taken(m, p) => c <= w
  BY DEF Placed
<1>5. r + w <= RamWait + 42
  <2>1. n \in Followers[s] /\ s \in MasterStates
    BY MasterFacts DEF Placed
  <2>2. CASE s \in ByteStates
    <3>1. w = 7
      BY <2>2 DEF WaitCycles
    <3>2. r <= RamWait + 32
      BY <1>1, <2>1, <2>2, SMT DEF Followers, Rest, ByteStates
    <3> HIDE DEF r, w
    <3> QED
      BY <1>1, <3>1, <3>2, SMT
  <2>3. CASE s = "write_to_ram"
    <3>1. w = RamWait
      BY <2>3 DEF WaitCycles, ByteStates
    <3>2. r = 1
      BY <2>1, <2>3 DEF Followers, Rest
    <3> HIDE DEF r, w
    <3> QED
      BY <1>1, <3>1, <3>2, SMT
  <2>4. CASE s \notin ByteStates /\ s # "write_to_ram"
    <3>1. w = 0
      BY <2>4 DEF WaitCycles
    <3>2. r <= RamWait + 42
      BY MasterFacts, RestType
    <3> HIDE DEF r, w
    <3> QED
      BY <1>1, <3>1, <3>2, SMT
  <2> QED
    BY <2>2, <2>3, <2>4
<1>6. Idle(m) => w = 0
  BY DEF Idle, WaitCycles, ByteStates
<1> HIDE DEF r, w, c, s, n
<1>8. Cycles(m, p) <= RamWait + 42
  BY <1>1, <1>2, <1>4, <1>5, SMT
<1>9. p # "low_fall" => ~Taken(m, p) /\ (Cycles(m, p) <= 0 <=> Idle(m))
  <2>1. p # "low_fall" => ~Taken(m, p)
    BY DEF Taken
  <2> QED
    BY <1>1, <1>2, <1>3, <1>4, <1>6, <2>1, SMT
<1>10. p = "low_fall" => (Cycles(m, p) < 0 <=> Idle(m))
  <2>1. p = "low_fall" => Taken(m, p) \/ c > 0
    BY DEF Placed, c
  <2> QED
    BY <1>1, <1>2, <1>3, <1>4, <1>6, <2>1, SMT
<1>11. Phases = {"low_rise", "high_fall", "high_rise", "low_fall"}
  BY DEF Phases
<1> QED
  BY <1>1, <1>8, <1>9, <1>10, <1>11, PhaseValues, SMT

-----------------------------------------------------------------------------
\* n is at the same place of the procedure as m, with the same start bits.
SameStage(m, n) == n.outputs = m.outputs /\ n.next_state = m.next_state
SameStarts(m, n) == /\ n.start_read_procedure = m.start_read_procedure
                    /\ n.start_write_procedure = m.start_write_procedure

\* Nothing but the driven bit changes with clk_100khz low.
LEMMA RiseLowFields ==
  ASSUME NEW m \in Masters, NEW a, NEW d
  PROVE  LET n == MasterRiseLow(m, a, d)
         IN  /\ SameStage(m, n) /\ SameStarts(m, n) /\ n.state = m.state
             /\ n.prev_state = m.prev_state /\ n.cycles_waited = m.cycles_waited
             /\ ~n.trig_state_machine
<1> DEFINE b == Bit(SentByte(m, a, d), 7 - m.write_bits_used)
           w == (m.write_bits_used + 1) % 8
<1>1. DriveWhileLow(m, a, d) \in
        {m, [m EXCEPT !.sda_output = b, !.write_bits_used = w], [m EXCEPT !.sda_output = 0],
         [m EXCEPT !.sda_output = 1], [m EXCEPT !.sda_output = Released]}
  BY DEF DriveWhileLow, ByteStates
<1> HIDE DEF b, w
<1>2. PICK x, y : DriveWhileLow(m, a, d) = [m EXCEPT !.sda_output = x, !.write_bits_used = y]
  <2>1. m = [m EXCEPT !.sda_output = m.sda_output, !.write_bits_used = m.write_bits_used]
    BY DEF Masters
  <2>2. \A v : [m EXCEPT !.sda_output = v]
               = [m EXCEPT !.sda_output = v, !.write_bits_used = m.write_bits_used]
    BY DEF Masters
  <2> DEFINE F(x, y) == [m EXCEPT !.sda_output = x, !.write_bits_used = y]
             u == m.write_bits_used
  <2>3. DriveWhileLow(m, a, d) \in
          {F(m.sda_output, u), F(b, w), F(0, u), F(1, u), F(Released, u)}
    BY <1>1, <2>1, <2>2
  <2> HIDE DEF F, u
  <2>4. \E x, y : DriveWhileLow(m, a, d) = F(x, y)
    BY <2>3
  <2> QED
    BY <2>4 DEF F
<1>3. MasterRiseLow(m, a, d) = [m EXCEPT !.sda_output = x, !.write_bits_used = y,
                                         !.trig_state_machine = FALSE]
  BY <1>2 DEF MasterRiseLow
<1> QED
  BY <1>3 DEF SameStage, SameStarts, Masters

\* One step less is left after each edge that does not change the state.
LEMMA QuietStep ==
  ASSUME NEW m \in Masters, NEW n \in Masters, SameStage(m, n),
         n.state = m.state, n.prev_state = m.prev_state, n.cycles_waited = m.cycles_waited,
         NEW p \in Phases, NEW q \in Phases, ~Taken(m, p), ~Taken(n, q), Placed(m, p),
         \/ p = "low_rise" /\ q = "high_fall" /\ ~n.trig_state_machine
         \/ p = "high_fall" /\ q = "high_rise" /\ ~n.trig_state_machine
         \/ p = "low_fall" /\ q = "low_rise"
  PROVE  Placed(n, q) /\ Left(n, q) = Left(m, p) - 1
<1>1. WaitCycles(n) = WaitCycles(m)
  BY DEF SameStage, WaitCycles
<1>2. Cycles(n, q) = Cycles(m, p)
  BY <1>1 DEF Cycles, SameStage
<1>3. Placed(n, q)
  BY <1>1 DEF Placed, SameStage
<1>4. Cycles(m, p) \in Int /\ Cycles(n, q) \in Int
  BY MasterFacts
<1>5. Left(n, q) = Left(m, p) - 1
  <2> DEFINE c == Cycles(m, p)
  <2>1. c \in Int /\ Cycles(n, q) = c
    BY <1>2, <1>4
  <2>2. CASE p = "low_rise"
    <3>1. Left(m, p) = 4 * c /\ Left(n, q) = 4 * Cycles(n, q) - 1
      BY <1>4, <2>2, PhaseValues
    <3> HIDE DEF c
    <3> QED
      BY <2>1, <3>1, SMT
  <2>3. CASE p = "high_fall"
    <3>1. Left(m, p) = 4 * c - 1 /\ Left(n, q) = 4 * Cycles(n, q) - 2
      BY <1>4, <2>3, PhaseValues
    <3> HIDE DEF c
    <3> QED
      BY <2>1, <3>1, SMT
  <2>4. CASE p = "low_fall"
    <3>1. Left(m, p) = 4 * c + 1 /\ Left(n, q) = 4 * Cycles(n, q)
      BY <1>4, <2>4, PhaseValues
    <3> HIDE DEF c
    <3> QED
      BY <2>1, <3>1, SMT
  <2> QED
    BY <2>2, <2>3, <2>4
<1> QED
  BY <1>3, <1>5

\* clk_100khz high: the state waits or is taken.
LEMMA RiseHighStep ==
  ASSUME NEW m \in Masters, NEW line, Placed(m, "high_rise")
  PROVE  LET n == MasterRiseHigh(m, line)
         IN  /\ SameStage(m, n) /\ SameStarts(m, n) /\ Placed(n, "low_fall")
             /\ Left(n, "low_fall") = Left(m, "high_rise") - 1
<1> DEFINE n == MasterRiseHigh(m, line)
           d == DriveWhileHigh(m)
           k == ChangeState(d)
<1>1. PICK v \in Driven : d = [m EXCEPT !.sda_output = v]
  <2>1. m = [m EXCEPT !.sda_output = m.sda_output] /\ m.sda_output \in Driven
    BY DEF Masters
  <2>2. 0 \in Driven /\ 1 \in Driven
    BY DEF Driven
  <2>3. d \in {m, [m EXCEPT !.sda_output = 0], [m EXCEPT !.sda_output = 1]}
    BY DEF DriveWhileHigh
  <2> QED
    BY <2>1, <2>2, <2>3
<1>2. d \in Masters /\ k \in Masters /\ n \in Masters
  <2>1. n \in Masters
    <3>1. 0 \in Byte
      BY SMT DEF Byte
    <3> QED
      BY <3>1, MasterEdges
  <2> QED
    BY <2>1, DriveWhileHighType, ChangeStateType
<1>3. /\ SameStage(m, n) /\ SameStarts(m, n) /\ n.prev_state = m.prev_state
      /\ n.state = k.state /\ n.cycles_waited = k.cycles_waited
      /\ n.trig_state_machine = k.trig_state_machine
  <2> DEFINE e == (k.scl_enable \/ m.outputs = "enable_scl") /\ m.outputs # "create_stop_cond"
             r == m.outputs = "receive_ack" /\ line = 0
  <2>1. n = [k EXCEPT !.scl_enable = e, !.is_ack_received = r]
    BY DEF MasterRiseHigh
  <2>2. /\ k.outputs = d.outputs /\ k.next_state = d.next_state /\ k.prev_state = d.prev_state
        /\ SameStarts(d, k)
    <3> HIDE DEF d
    <3> QED
      BY <1>2 DEF ChangeState, Masters, SameStarts
  <2>3. /\ d.outputs = m.outputs /\ d.next_state = m.next_state /\ d.prev_state = m.prev_state
        /\ SameStarts(m, d)
    BY <1>1 DEF Masters, SameStarts
  <2> HIDE DEF d, k, n, e, r
  <2>4. /\ n.outputs = k.outputs /\ n.next_state = k.next_state /\ n.prev_state = k.prev_state
        /\ SameStarts(k, n) /\ n.state = k.state /\ n.cycles_waited = k.cycles_waited
        /\ n.trig_state_machine = k.trig_state_machine
    BY <1>2, <2>1 DEF Masters, SameStarts
  <2> QED
    BY <2>2, <2>3, <2>4 DEF SameStage, SameStarts
<1>4. /\ d.state = m.state /\ d.outputs = m.outputs /\ d.next_state = m.next_state
      /\ d.cycles_waited = m.cycles_waited
  BY <1>1 DEF Masters
<1>5. WaitCycles(d) = WaitCycles(m) /\ WaitCycles(n) = WaitCycles(m)
  BY <1>3, <1>4 DEF WaitCycles, SameStage
<1> HIDE DEF n, d, k
<1>6. /\ m.state = m.outputs /\ m.cycles_waited <= WaitCycles(m) /\ ~Taken(m, "high_rise")
      /\ m.next_state \in Followers[m.outputs]
      /\ m.prev_state = IF m.next_state = "i2c_nop" /\ m.outputs # "write_to_ram"
                        THEN "i2c_nop" ELSE m.outputs
  BY DEF Placed, Taken
<1> DEFINE w == WaitCycles(m)
           c == m.cycles_waited
           r == Rest(m.outputs, m.next_state)
<1>7. w \in Nat /\ c \in Nat /\ r \in Nat /\ c <= w
  BY <1>6, MasterFacts
<1>8. Cycles(m, "high_rise") = r + (w - c) /\ Left(m, "high_rise") = 4 * Cycles(m, "high_rise") - 2
  BY <1>6, MasterFacts, PhaseValues DEF Cycles
<1>9. Cycles(n, "low_fall") \in Int /\ Left(n, "low_fall") = 4 * Cycles(n, "low_fall") + 1
  BY <1>2, MasterFacts, PhaseValues
<1>10. CASE c < w
  <2>1. k = [d EXCEPT !.cycles_waited = d.cycles_waited + 1, !.trig_state_machine = FALSE]
    BY <1>4, <1>5, <1>10 DEF ChangeState, k
  <2>2. /\ n.state = m.state /\ n.cycles_waited = c + 1 /\ ~n.trig_state_machine
    BY <1>2, <1>3, <1>4, <2>1 DEF Masters
  <2>3. ~Taken(n, "low_fall")
    BY <2>2 DEF Taken
  <2>4. Placed(n, "low_fall")
    <3>1. n.cycles_waited > 0 /\ n.cycles_waited <= WaitCycles(n)
      <4>1. WaitCycles(n) = w
        BY <1>5
      <4> HIDE DEF w, c
      <4> QED
        BY <1>7, <1>10, <2>2, <4>1, SMT
    <3> QED
      BY <1>3, <1>6, <2>2, <2>3, <3>1 DEF Placed, SameStage
  <2>5. Cycles(n, "low_fall") = r + (w - (c + 1))
    BY <1>3, <1>5, <2>2, <2>3 DEF Cycles, SameStage
  <2> HIDE DEF r, w, c
  <2>6. Left(n, "low_fall") = Left(m, "high_rise") - 1
    BY <1>7, <1>8, <1>9, <2>5, SMT
  <2> QED
    BY <1>3, <2>4, <2>6 DEF n
<1>11. CASE ~(c < w)
  <2>1. k = [d EXCEPT !.cycles_waited = 0, !.trig_state_machine = TRUE, !.state = d.next_state]
    BY <1>4, <1>5, <1>11 DEF ChangeState, k
  <2>2. /\ n.state = m.next_state /\ n.cycles_waited = 0 /\ n.trig_state_machine
    BY <1>2, <1>3, <1>4, <2>1 DEF Masters
  <2>3. Taken(n, "low_fall")
    BY <2>2 DEF Taken
  <2>4. Placed(n, "low_fall")
    BY <1>3, <1>6, <2>2, <2>3 DEF Placed, SameStage
  <2>5. Cycles(n, "low_fall") = r - 1
    BY <1>3, <1>7, <2>3, SMT DEF Cycles, SameStage
  <2> HIDE DEF r, w, c
  <2>6. Left(n, "low_fall") = Left(m, "high_rise") - 1
    BY <1>7, <1>8, <1>9, <1>11, <2>5, SMT
  <2> QED
    BY <1>3, <2>4, <2>6 DEF n
<1> QED
  BY <1>10, <1>11

\* Cycles that a state lasts after its first.
Waits(s) == IF s \in ByteStates THEN 7 ELSE IF s = "write_to_ram" THEN RamWait ELSE 0

\* Each state brings the end of the procedure nearer.
LEMMA SuccessorNearer ==
  ASSUME NEW m \in Masters, NEW control, Placed(m, "low_fall"), Taken(m, "low_fall")
  PROVE  /\ Successor(m, control) \in Followers[m.next_state]
         /\ ~Idle(m) /\ (Unasked(m) \/ m.next_state # "i2c_nop") =>
              Waits(m.next_state) + Rest(m.next_state, Successor(m, control))
                <= Rest(m.outputs, m.next_state) - 1
         /\ Idle(m) /\ Unasked(m) => Successor(m, control) = "i2c_nop"
<1> DEFINE s == m.outputs
           n == m.next_state
           k == Successor(m, control)
<1>1. /\ m.state = n /\ n \in Followers[s] /\ s \in MasterStates /\ n \in MasterStates
      /\ m.prev_state = IF n = "i2c_nop" /\ s # "write_to_ram" THEN "i2c_nop" ELSE s
  BY MasterFacts DEF Placed
<1>2. RamWait \in Nat
  BY RamWaitAssumption
<1>3. CASE n = "i2c_nop"
  <2>1. k \in {"i2c_nop", "create_start_cond"} /\ (Unasked(m) => k = "i2c_nop")
    BY <1>1, <1>3 DEF Successor, Unasked
  <2>2. Waits(n) = 0 /\ Rest("i2c_nop", "i2c_nop") = 0 /\ (s # "i2c_nop" => Rest(s, n) = 1)
    BY <1>3 DEF Waits, Rest, ByteStates
  <2> QED
    BY <1>3, <2>1, <2>2, SMT DEF Idle, Followers
<1>4. CASE n = "create_start_cond"
  <2>1. s = "i2c_nop" /\ m.prev_state = "i2c_nop"
    BY <1>1, <1>4 DEF Followers, MasterStates, ByteStates
  <2>2. k = "enable_scl"
    BY <1>1, <1>4, <2>1 DEF Successor
  <2>3. Waits(n) = 0 /\ Rest(n, k) = RamWait + 41 /\ Rest(s, n) = RamWait + 42
    BY <1>4, <2>2 DEF Waits, Rest, ByteStates
  <2>4. k \in Followers[n] /\ ~Idle(m)
    BY <1>4, <2>2 DEF Followers, Idle
  <2> HIDE DEF k, s, n
  <2> QED
    BY <1>2, <2>3, <2>4, SMT DEF k, s, n
<1>5. CASE n = "enable_scl"
  <2>1. k = "write_slave_addr_write_mode"
    BY <1>1, <1>5 DEF Successor
  <2>2. Waits(n) = 0 /\ Rest(n, k) = RamWait + 40 /\ Rest(s, n) = RamWait + 41
    BY <1>5, <2>1 DEF Waits, Rest, ByteStates
  <2>3. k \in Followers[n] /\ ~Idle(m)
    BY <1>5, <2>1 DEF Followers, Idle
  <2> HIDE DEF k, s, n
  <2> QED
    BY <1>2, <2>2, <2>3, SMT DEF k, s, n
<1>6. CASE n \in ByteStates
  <2>1. k \in Followers[n] /\ ~Idle(m)
    BY <1>1, <1>6 DEF Successor, Followers, ByteStates, Idle
  <2> SUFFICES Waits(n) + Rest(n, k) <= Rest(s, n) - 1
    BY <1>6, <2>1 DEF Idle, ByteStates
  <2>2. Waits(n) = 7
    BY <1>6 DEF Waits
  <2>3. CASE n = "write_slave_addr_write_mode"
    <3>1. Rest(n, k) = RamWait + 32 /\ Rest(s, n) = RamWait + 40
      BY <1>1, <2>3 DEF Successor, Rest
    <3> QED
      BY <1>2, <2>2, <3>1, SMT
  <2>4. CASE n = "write_slave_addr_read_mode"
    <3>1. Rest(n, k) = RamWait + 13 /\ Rest(s, n) = RamWait + 21
      BY <1>1, <2>4 DEF Successor, Rest
    <3> QED
      BY <1>2, <2>2, <3>1, SMT
  <2>5. CASE n = "write_word_addr"
    <3>1. k \in {"receive_ack", "create_stop_cond"}
      BY <1>1, <2>5 DEF Successor
    <3>2. Rest(n, k) \in {RamWait + 23, RamWait + 3} /\ Rest(s, n) = RamWait + 31
      BY <2>5, <3>1 DEF Rest
    <3> QED
      BY <1>2, <2>2, <3>2, SMT
  <2>6. CASE n \in {"read_data", "write_data"}
    <3>1. k \in {"receive_ack", "send_ack", "create_stop_cond"}
      BY <1>1, <2>6 DEF Successor
    <3>2. Rest(n, k) \in {RamWait + 4, RamWait + 3} /\ Rest(s, n) = RamWait + 12
      BY <2>6, <3>1 DEF Rest
    <3> QED
      BY <1>2, <2>2, <3>2, SMT
  <2> QED
    BY <1>6, <2>3, <2>4, <2>5, <2>6 DEF ByteStates
<1>7. CASE n = "receive_ack"
  <2>1. s \in {"write_slave_addr_write_mode", "write_slave_addr_read_mode",
               "write_word_addr", "write_data"}
    BY <1>1, <1>7 DEF Followers, MasterStates, ByteStates
  <2> QED
    BY <1>1, <1>2, <1>7, <2>1, SMT DEF Successor, Followers, Waits, Rest, ByteStates, Idle
<1>8. CASE n \in {"create_repeated_start_cond", "send_ack", "create_stop_cond", "write_to_ram"}
  <2>1. k \in Followers[n] /\ ~Idle(m)
    BY <1>1, <1>8 DEF Successor, Followers, Idle
  <2> SUFFICES Waits(n) + Rest(n, k) <= Rest(s, n) - 1
    BY <1>8, <2>1 DEF Idle
  <2>2. CASE n = "create_repeated_start_cond"
    <3>1. k \in {"write_slave_addr_read_mode", "create_stop_cond"}
      BY <1>1, <2>2 DEF Successor
    <3>2. /\ Rest(n, k) \in {RamWait + 21, RamWait + 3} /\ Rest(s, n) = RamWait + 22
          /\ Waits(n) = 0
      BY <2>2, <3>1 DEF Rest, Waits, ByteStates
    <3> QED
      BY <1>2, <3>2, SMT
  <2>3. CASE n = "send_ack"
    <3>1. Rest(n, k) = RamWait + 3 /\ Rest(s, n) = RamWait + 4 /\ Waits(n) = 0
      BY <1>1, <2>3 DEF Successor, Rest, Waits, ByteStates
    <3> QED
      BY <1>2, <3>1, SMT
  <2>4. CASE n = "create_stop_cond"
    <3>1. Rest(n, k) = RamWait + 2 /\ Rest(s, n) = RamWait + 3 /\ Waits(n) = 0
      BY <1>1, <2>4 DEF Successor, Rest, Waits, ByteStates
    <3> QED
      BY <1>2, <3>1, SMT
  <2>5. CASE n = "write_to_ram"
    <3>1. Rest(n, k) = 1 /\ Rest(s, n) = RamWait + 2 /\ Waits(n) = RamWait
      BY <1>1, <2>5 DEF Successor, Rest, Waits, ByteStates
    <3> QED
      BY <1>2, <3>1, SMT
  <2> QED
    BY <1>8, <2>2, <2>3, <2>4, <2>5
<1> QED
  BY <1>1, <1>3, <1>4, <1>5, <1>6, <1>7, <1>8 DEF MasterStates

\* clk_100khz falls: a state that was taken goes to the outputs, and at least
\* one step less is left.
LEMMA FallStep ==
  ASSUME NEW m \in Masters, NEW control, NEW line, Placed(m, "low_fall")
  PROVE  LET n == MasterFall(m, control, line)
         IN  /\ Placed(n, "low_rise") /\ SameStarts(m, n)
             /\ Idle(m) /\ Unasked(m) => Idle(n)
             /\ ~Idle(m) /\ (Unasked(m) \/ m.next_state # "i2c_nop") =>
                  Left(n, "low_rise") <= Left(m, "low_fall") - 1
             /\ ~Taken(m, "low_fall") =>
                  SameStage(m, n) /\ Left(n, "low_rise") = Left(m, "low_fall") - 1
             /\ Taken(m, "low_fall") =>
                  /\ n.outputs = m.next_state /\ n.next_state = Successor(m, control)
                  /\ n.cycles_waited = 0
<1> DEFINE n == MasterFall(m, control, line)
           v == StateMachine(m, control)
           r == ReadBit(m, line)
<1>1. n \in Masters /\ v \in Masters
  <2>1. 0 \in Byte
    BY SMT DEF Byte
  <2> QED
    BY <2>1, MasterEdges, StateMachineType
<1>2. /\ n.state = v.state /\ n.outputs = v.outputs /\ n.next_state = v.next_state
      /\ n.prev_state = v.prev_state /\ n.cycles_waited = v.cycles_waited
      /\ SameStarts(v, n)
  <2>1. n = [v EXCEPT !.data_out = r.data_out, !.read_bits_used = r.read_bits_used]
    BY DEF MasterFall
  <2> HIDE DEF n, v, r
  <2> QED
    BY <1>1, <2>1 DEF Masters, SameStarts
<1>3. "low_fall" \in Phases /\ "low_rise" \in Phases
  BY DEF Phases
<1>4. ~Taken(n, "low_rise")
  BY DEF Taken
<1>5. CASE ~Taken(m, "low_fall")
  <2>1. v = m
    BY <1>5 DEF StateMachine, Taken
  <2>2. SameStage(m, n) /\ SameStarts(m, n)
    BY <1>2, <2>1 DEF SameStage, SameStarts
  <2> HIDE DEF n, v
  <2>3. Placed(n, "low_rise") /\ Left(n, "low_rise") = Left(m, "low_fall") - 1
    BY <1>1, <1>2, <1>3, <1>4, <1>5, <2>1, <2>2, QuietStep
  <2>4. Left(m, "low_fall") \in Int /\ Left(n, "low_rise") \in Int
    BY <1>1, <1>3, <2>3, LeftBound
  <2>5. Left(n, "low_rise") <= Left(m, "low_fall") - 1
    BY <2>3, <2>4, SMT
  <2> QED
    BY <1>5, <2>2, <2>3, <2>5 DEF n, SameStage, Idle
<1>6. CASE Taken(m, "low_fall")
  <2> DEFINE k == Successor(m, control)
             w == Waits(m.next_state)
             a == Rest(m.outputs, m.next_state)
             b == Rest(m.next_state, k)
  <2>1. m.state = m.next_state /\ m.cycles_waited = 0 /\ m.trig_state_machine
    BY <1>6 DEF Placed, Taken
  <2>2. /\ v.state = m.state /\ v.outputs = m.state /\ v.next_state = k
        /\ v.cycles_waited = 0 /\ SameStarts(m, v)
        /\ v.prev_state = IF k = "i2c_nop" /\ m.state # "write_to_ram" THEN "i2c_nop" ELSE m.state
    BY <2>1 DEF StateMachine, Masters, SameStarts
  <2>3. /\ n.outputs = m.next_state /\ n.next_state = k /\ n.state = m.next_state
        /\ n.cycles_waited = 0 /\ SameStarts(m, n)
        /\ n.prev_state = IF k = "i2c_nop" /\ m.next_state # "write_to_ram"
                          THEN "i2c_nop" ELSE m.next_state
    BY <1>2, <2>1, <2>2 DEF SameStarts
  <2> HIDE DEF n, v, k
  <2>4. WaitCycles(n) = w /\ w \in Nat /\ a \in Nat /\ b \in Nat
    <3>1. WaitCycles(n) = w /\ WaitCycles(n) \in Nat
      BY <2>3, WaitType DEF WaitCycles, Waits
    <3>2. k \in MasterStates
      BY SuccessorType DEF k
    <3> QED
      BY <3>1, <3>2, MasterFacts, RestType
  <2>5. Placed(n, "low_rise")
    <3>1. k \in Followers[m.next_state]
      BY <1>6, SuccessorNearer DEF k
    <3>2. n.cycles_waited <= WaitCycles(n)
      <4> HIDE DEF w
      <4> QED
        BY <2>3, <2>4, SMT
    <3> QED
      BY <1>4, <2>3, <3>1, <3>2 DEF Placed
  <2>6. Left(m, "low_fall") = 4 * (a - 1) + 1
    <3>1. Cycles(m, "low_fall") = a - 1
      BY <1>6, <2>4, SMT DEF Cycles
    <3> QED
      BY <3>1, MasterFacts, PhaseValues
  <2>7. Left(n, "low_rise") = 4 * (b + w)
    <3>1. Cycles(n, "low_rise") = b + w
      <4>1. Cycles(n, "low_rise") = b + (w - 0)
        BY <1>4, <2>3, <2>4 DEF Cycles
      <4> HIDE DEF b, w
      <4> QED
        BY <2>4, <4>1, SMT
    <3>2. Cycles(n, "low_rise") \in Int
      BY <1>1, MasterFacts
    <3> QED
      BY <3>1, <3>2, PhaseValues
  <2>8. ~Idle(m) /\ (Unasked(m) \/ m.next_state # "i2c_nop") =>
          Left(n, "low_rise") <= Left(m, "low_fall") - 1
    <3>1. ~Idle(m) /\ (Unasked(m) \/ m.next_state # "i2c_nop") => w + b <= a - 1
      BY <1>6, SuccessorNearer DEF k
    <3> HIDE DEF a, b, w
    <3> QED
      BY <2>4, <2>6, <2>7, <3>1, SMT
  <2>9. Idle(m) /\ Unasked(m) => Idle(n)
    BY <1>6, <2>3, SuccessorNearer DEF k, Idle
  <2> QED
    BY <1>6, <2>3, <2>5, <2>8, <2>9 DEF n, k
<1> QED
  BY <1>5, <1>6

\* What an edge of the I2C clocks does to the place of the master.
LEMMA I2cMove ==
  ASSUME LinkInv, Placed(master, phase), I2cStep
  PROVE  /\ Placed(master', phase')
         /\ phase' = [low_rise |-> "high_fall", high_fall |-> "high_rise",
                      high_rise |-> "low_fall", low_fall |-> "low_rise"][phase]
         /\ phase # "high_fall" => SameStarts(master, master')
         /\ phase = "high_fall" =>
              /\ master'.start_read_procedure = (Bit(eecon_int, 0) = 1)
              /\ master'.start_write_procedure = (Bit(eecon_int, 1) = 1)
         /\ Idle(master) /\ Unasked(master) => Idle(master')
         /\ ~Idle(master) /\ (Unasked(master) \/ master.next_state # "i2c_nop") =>
              Left(master', phase') <= Left(master, phase) - 1
         /\ ~Taken(master, phase) =>
              SameStage(master, master') /\ Left(master', phase') = Left(master, phase) - 1
         /\ Taken(master, phase) =>
              /\ master'.outputs = master.next_state
              /\ master'.next_state = Successor(master, eecon_int)
              /\ master'.cycles_waited = 0
<1>1. /\ master \in Masters /\ phase \in Phases /\ eeadr_int \in Byte /\ eedata_int \in Byte
  BY DEF LinkInv, EepromTypeOK, RamType
<1>2. LinkInv'
  BY I2cStepType
<1>3. master' \in Masters /\ phase' \in Phases
  BY <1>2 DEF LinkInv, EepromTypeOK
<1>4. phase' = NextPhase
  BY DEF I2cStep
<1>5. CASE LowRise
  <2>1. phase = "low_rise" /\ phase' = "high_fall"
    BY <1>4, <1>5 DEF LowRise, NextPhase
  <2>2. master' = MasterRiseLow(master, eeadr_int, eedata_int)
    BY <1>5 DEF LowRise, Moved
  <2>3. /\ SameStage(master, master') /\ SameStarts(master, master')
        /\ master'.state = master.state /\ master'.prev_state = master.prev_state
        /\ master'.cycles_waited = master.cycles_waited /\ ~master'.trig_state_machine
    BY <1>1, <2>2, RiseLowFields
  <2>4. ~Taken(master, phase) /\ ~Taken(master', phase')
    BY <2>1 DEF Taken
  <2>5. Placed(master', phase') /\ Left(master', phase') = Left(master, phase) - 1
    BY <1>1, <1>3, <2>1, <2>3, <2>4, QuietStep
  <2>6. Left(master', phase') <= Left(master, phase) - 1
    BY <1>1, <1>3, <2>5, LeftBound, SMT
  <2> QED
    BY <2>1, <2>3, <2>4, <2>5, <2>6 DEF SameStage, Idle
<1>6. CASE HighFall
  <2>1. phase = "high_fall" /\ phase' = "high_rise"
    BY <1>4, <1>6 DEF HighFall, NextPhase
  <2>2. master' = MasterRise100(master, eecon_int)
    BY <1>6 DEF HighFall, Moved
  <2>3. /\ SameStage(master, master')
        /\ master'.state = master.state /\ master'.prev_state = master.prev_state
        /\ master'.cycles_waited = master.cycles_waited
        /\ master'.trig_state_machine = master.trig_state_machine
        /\ master'.start_read_procedure = (Bit(eecon_int, 0) = 1)
        /\ master'.start_write_procedure = (Bit(eecon_int, 1) = 1)
    BY <1>1, <2>2 DEF MasterRise100, Masters, SameStage
  <2>4. ~Taken(master, phase) /\ ~Taken(master', phase') /\ ~master.trig_state_machine
    BY <2>1 DEF Taken, Placed
  <2>5. Placed(master', phase') /\ Left(master', phase') = Left(master, phase) - 1
    BY <1>1, <1>3, <2>1, <2>3, <2>4, QuietStep
  <2>6. Left(master', phase') <= Left(master, phase) - 1
    BY <1>1, <1>3, <2>5, LeftBound, SMT
  <2> QED
    BY <2>1, <2>3, <2>4, <2>5, <2>6 DEF SameStage, Idle
<1>7. CASE HighRise
  <2>1. phase = "high_rise" /\ phase' = "low_fall"
    BY <1>4, <1>7 DEF HighRise, NextPhase
  <2>2. master' = MasterRiseHigh(master, sda)
    BY <1>7 DEF HighRise, Moved
  <2>3. /\ SameStage(master, master') /\ SameStarts(master, master') /\ Placed(master', phase')
        /\ Left(master', phase') = Left(master, phase) - 1
    BY <1>1, <2>1, <2>2, RiseHighStep
  <2>4. ~Taken(master, phase)
    BY <2>1 DEF Taken
  <2>5. Left(master', phase') <= Left(master, phase) - 1
    BY <1>1, <1>3, <2>3, LeftBound, SMT
  <2> QED
    BY <2>1, <2>3, <2>4, <2>5 DEF SameStage, Idle
<1>8. CASE LowFall
  <2>1. phase = "low_fall" /\ phase' = "low_rise"
    BY <1>4, <1>8 DEF LowFall, NextPhase
  <2>2. master' = MasterFall(master, eecon_int, sda)
    BY <1>8 DEF LowFall, Moved
  <2> QED
    BY <1>1, <2>1, <2>2, FallStep
<1> QED
  BY <1>5, <1>6, <1>7, <1>8 DEF I2cStep

-----------------------------------------------------------------------------
\* What a clock of the memory leaves in EECON.
LEMMA EeconCell ==
  ASSUME RamType, NEW en, "status_write" \notin en, "timer_write" \notin en,
         NEW read, NEW written, NEW e, NEW d,
         NEW address \in {0, EEADR_ADDRESS, EEDATA_ADDRESS, EECON_ADDRESS},
         Access(en) = "ram_write" => address # 0
  PROVE  LET x == CASE Access(en) = "eeprom_dump" -> IF dump_counter \in {1, 2} THEN 1 ELSE 0
                    [] Access(en) = "ram_write" /\ address = EECON_ADDRESS -> d
                    [] OTHER -> IF reset_eecon THEN PutLow(ram_block[EECON_ADDRESS], 4, 0)
                                ELSE ram_block[EECON_ADDRESS]
         IN  NextBlock(en, read, written, 0, 0, e, d, 0, address)[EECON_ADDRESS]
               = IF written THEN PutBit(x, 4, 1) ELSE x
<1> DEFINE external == Bit(ram_block[OPTION_ADDRESS], 5) = 1
           m1 == IF read THEN [ram_block EXCEPT ![EEDATA_ADDRESS] = e] ELSE ram_block
           m2 == IF reset_eecon THEN [m1 EXCEPT ![EECON_ADDRESS] = PutLow(@, 4, 0)] ELSE m1
           m3 == CASE Access(en) = "eeprom_dump" -> DumpStep(m2)
                   [] Access(en) = "ram_write"   -> WriteRam(m2, address, d)
                   [] OTHER                      -> m2
           m6 == IF external
                 THEN [m3 EXCEPT ![TMR0_ADDRESS] = (0 + 0) % 256] ELSE m3
           old == ram_block[EECON_ADDRESS]
           kept == IF reset_eecon THEN PutLow(old, 4, 0) ELSE old
           x == CASE Access(en) = "eeprom_dump" -> IF dump_counter \in {1, 2} THEN 1 ELSE 0
                  [] Access(en) = "ram_write" /\ address = EECON_ADDRESS -> d
                  [] OTHER -> kept
<1>1. NextBlock(en, read, written, 0, 0, e, d, 0, address)
        = IF written THEN [m6 EXCEPT ![EECON_ADDRESS] = PutBit(@, 4, 1)] ELSE m6
  BY DEF NextBlock
<1>2. /\ EECON_ADDRESS # EEDATA_ADDRESS /\ EECON_ADDRESS # EEADR_ADDRESS
      /\ EECON_ADDRESS # TMR0_ADDRESS /\ EECON_ADDRESS # STATUS_ADDRESS
      /\ EECON_ADDRESS # INDF_ADDRESS /\ EEDATA_ADDRESS # INDF_ADDRESS
      /\ EEADR_ADDRESS # INDF_ADDRESS
      /\ EEDATA_ADDRESS # STATUS_ADDRESS /\ EEADR_ADDRESS # STATUS_ADDRESS
      /\ EECON_ADDRESS # 0 /\ EEDATA_ADDRESS # 0 /\ EEADR_ADDRESS # 0
  BY SMT DEF EECON_ADDRESS, EEDATA_ADDRESS, EEADR_ADDRESS, TMR0_ADDRESS, STATUS_ADDRESS,
             INDF_ADDRESS
<1>3. EECON_ADDRESS \in RamAddress /\ DOMAIN ram_block = RamAddress
  BY RegisterCells DEF RamType, Memory
<1>4. m1[EECON_ADDRESS] = old /\ DOMAIN m1 = RamAddress
  BY <1>2, <1>3
<1> HIDE DEF m1
<1>5. m2[EECON_ADDRESS] = kept /\ DOMAIN m2 = RamAddress
  BY <1>3, <1>4
<1> HIDE DEF m2
<1>6. m3[EECON_ADDRESS] = x /\ DOMAIN m3 = RamAddress
  <2>1. CASE Access(en) = "eeprom_dump"
    <3>1. m3 = DumpStep(m2)
      BY <2>1
    <3>2. DumpStep(m2)[EECON_ADDRESS] = (IF dump_counter \in {1, 2} THEN 1 ELSE 0)
          /\ DOMAIN DumpStep(m2) = RamAddress
      BY <1>2, <1>3, <1>5 DEF DumpStep
    <3> QED
      BY <2>1, <3>1, <3>2
  <2>2. CASE Access(en) = "ram_write"
    <3>1. m3 = WriteRam(m2, address, d)
      BY <2>2
    <3>2. Target(address) = address
      BY <1>2, <2>2 DEF Target
    <3>3. WriteRam(m2, address, d) = [m2 EXCEPT ![address] = d]
      BY <1>2, <2>2, <3>2 DEF WriteRam
    <3> QED
      BY <1>2, <1>3, <1>5, <2>2, <3>1, <3>3
  <2>3. CASE Access(en) \notin {"eeprom_dump", "ram_write"}
    BY <1>5, <2>3
  <2> QED
    BY <2>1, <2>2, <2>3
<1> HIDE DEF m3
<1>7. m6[EECON_ADDRESS] = x /\ DOMAIN m6 = RamAddress
  BY <1>2, <1>3, <1>6
<1> HIDE DEF m6, x
<1>8. [m6 EXCEPT ![EECON_ADDRESS] = PutBit(@, 4, 1)][EECON_ADDRESS] = PutBit(x, 4, 1)
  BY <1>3, <1>7
<1> QED
  BY <1>1, <1>7, <1>8 DEF x

\* The two strobe bits of a byte.
LEMMA StrobeBits ==
  ASSUME NEW v \in Byte
  PROVE  /\ PutBit(v, 4, 1) % 4 = v % 4 /\ PutLow(v, 4, 0) % 4 = 0
         /\ v % 4 = 0 => Bit(v, 0) = 0 /\ Bit(v, 1) = 0
<1>1. v \in 0..255
  BY DEF Byte
<1>2. PutBit(v, 4, 1) % 4 = v % 4
  <2>1. Weight(4) = 16
    BY SMT DEF Weight
  <2>2. Bit(v, 4) = (v \div 16) % 2
    BY <2>1 DEF Bit
  <2>3. PutBit(v, 4, 1) = v + (1 - Bit(v, 4)) * 16
    BY <2>1 DEF PutBit
  <2>4. Bit(v, 4) \in {0, 1}
    BY <1>1, <2>2, SMT
  <2>5. PutBit(v, 4, 1) = v \/ PutBit(v, 4, 1) = v + 16
    BY <1>1, <2>3, <2>4, SMT
  <2> QED
    BY <1>1, <2>5, SMT
<1>3. PutLow(v, 4, 0) % 4 = 0
  BY <1>1, SMT DEF PutLow
<1>4. v % 4 = 0 => Bit(v, 0) = 0 /\ Bit(v, 1) = 0
  <2>1. Bit(v, 0) = (v \div 1) % 2 /\ Bit(v, 1) = (v \div 2) % 2
    BY DEF Bit, Weight
  <2> QED
    BY <1>1, <2>1, SMT
<1> QED
  BY <1>2, <1>3, <1>4

\* EECON after an edge of the host's clock that does not write it.
LEMMA EeconKept ==
  ASSUME LinkInv, NEW en \in {{}, {"ram_write"}}, NEW d,
         NEW address \in {0, EEADR_ADDRESS, EEDATA_ADDRESS}, en = {} <=> address = 0, HostEdge(en, d, address)
  PROVE  /\ eecon_int' = ram_block[EECON_ADDRESS] /\ ~reset_eecon'
         /\ dump_counter' = dump_counter /\ dump_addr' = dump_addr
         /\ reset_eecon \/ ram_block[EECON_ADDRESS] % 4 = 0 => ram_block'[EECON_ADDRESS] % 4 = 0
<1> DEFINE old == ram_block[EECON_ADDRESS]
           x == IF reset_eecon THEN PutLow(old, 4, 0) ELSE old
<1>1. RamType /\ old \in Byte
  BY RegisterCells DEF LinkInv, EepromTypeOK, RamType
<1>2. /\ EECON_ADDRESS # EEDATA_ADDRESS /\ EECON_ADDRESS # EEADR_ADDRESS
      /\ EEDATA_ADDRESS # 0 /\ EEADR_ADDRESS # 0 /\ EECON_ADDRESS # 0
  BY SMT DEF EECON_ADDRESS, EEDATA_ADDRESS, EEADR_ADDRESS
<1>3. Access(en) = IF en = {} THEN "none" ELSE "ram_write"
  BY DEF Access
<1>4. /\ ram_block' = NextBlock(en, WritesToRam(master), CompletesWrite(master), 0, 0,
                                master.data_out, d, 0, address)
      /\ reset_eecon' = (Access(en) = "ram_write" /\ address = EECON_ADDRESS)
      /\ dump_counter' = IF Access(en) = "eeprom_dump" THEN (dump_counter + 1) % 7 ELSE dump_counter
      /\ dump_addr' = IF Access(en) = "eeprom_dump" /\ dump_counter = 6
                      THEN (dump_addr + 1) % EepromSize ELSE dump_addr
      /\ eecon_int' = old
  BY DEF HostEdge, RamRise
<1>5. ram_block'[EECON_ADDRESS] = IF CompletesWrite(master) THEN PutBit(x, 4, 1) ELSE x
  <2>1. "status_write" \notin en /\ "timer_write" \notin en
    OBVIOUS
  <2>2. Access(en) = "ram_write" => address # 0
    BY <1>3
  <2> QED
    BY <1>1, <1>2, <1>3, <1>4, <2>1, <2>2, EeconCell
<1>6. x \in Byte
  BY <1>1, PutLowType
<1>7. reset_eecon \/ old % 4 = 0 => x % 4 = 0
  BY <1>1, StrobeBits
<1> HIDE DEF x
<1>8. reset_eecon \/ old % 4 = 0 => ram_block'[EECON_ADDRESS] % 4 = 0
  BY <1>5, <1>6, <1>7, StrobeBits
<1> QED
  BY <1>2, <1>3, <1>4, <1>8

\* A request is written as it is, with the master idle.
LEMMA EeconWritten ==
  ASSUME LinkInv, NEW d, HostEdge({"ram_write"}, d, EECON_ADDRESS), ~WritesToRam(master)
  PROVE  /\ eecon_int' = ram_block[EECON_ADDRESS] /\ reset_eecon'
         /\ dump_counter' = dump_counter /\ dump_addr' = dump_addr /\ ram_block'[EECON_ADDRESS] = d
<1> DEFINE en == {"ram_write"}
<1>1. RamType
  BY DEF LinkInv, EepromTypeOK
<1>2. Access(en) = "ram_write"
  BY DEF Access
<1>3. EECON_ADDRESS # 0
  BY SMT DEF EECON_ADDRESS
<1>4. /\ ram_block' = NextBlock(en, WritesToRam(master), CompletesWrite(master), 0, 0,
                                master.data_out, d, 0, EECON_ADDRESS)
      /\ reset_eecon' = (Access(en) = "ram_write" /\ EECON_ADDRESS = EECON_ADDRESS)
      /\ dump_counter' = IF Access(en) = "eeprom_dump" THEN (dump_counter + 1) % 7 ELSE dump_counter
      /\ dump_addr' = IF Access(en) = "eeprom_dump" /\ dump_counter = 6
                      THEN (dump_addr + 1) % EepromSize ELSE dump_addr
      /\ eecon_int' = ram_block[EECON_ADDRESS]
  BY DEF HostEdge, RamRise
<1>5. ~CompletesWrite(master)
  BY DEF CompletesWrite
<1>6. ram_block'[EECON_ADDRESS] = d
  <2>1. "status_write" \notin en /\ "timer_write" \notin en
    OBVIOUS
  <2> QED
    BY <1>1, <1>2, <1>3, <1>4, <1>5, <2>1, EeconCell
<1> QED
  BY <1>2, <1>4, <1>6

\* A clock of a dump.
LEMMA EeconDumped ==
  ASSUME LinkInv, HostEdge({"eeprom_dump"}, 0, 0)
  PROVE  /\ ~reset_eecon' /\ dump_counter' = (dump_counter + 1) % 7
         /\ dump_counter = 0 => ram_block'[EECON_ADDRESS] % 4 = 0
<1> DEFINE en == {"eeprom_dump"}
           x == IF dump_counter \in {1, 2} THEN 1 ELSE 0
<1>1. RamType
  BY DEF LinkInv, EepromTypeOK
<1>2. Access(en) = "eeprom_dump"
  BY DEF Access
<1>3. /\ ram_block' = NextBlock(en, WritesToRam(master), CompletesWrite(master), 0, 0,
                                master.data_out, 0, 0, 0)
      /\ reset_eecon' = (Access(en) = "ram_write" /\ 0 = EECON_ADDRESS)
      /\ dump_counter' = IF Access(en) = "eeprom_dump" THEN (dump_counter + 1) % 7 ELSE dump_counter
  BY DEF HostEdge, RamRise
<1>4. ram_block'[EECON_ADDRESS] = IF CompletesWrite(master) THEN PutBit(x, 4, 1) ELSE x
  <2>1. "status_write" \notin en /\ "timer_write" \notin en
    OBVIOUS
  <2> QED
    BY <1>1, <1>2, <1>3, <2>1, EeconCell
<1>5. dump_counter = 0 => ram_block'[EECON_ADDRESS] % 4 = 0
  <2>1. 0 \in Byte /\ 0 % 4 = 0 /\ (dump_counter = 0 => x = 0)
    BY SMT DEF Byte
  <2> QED
    BY <1>4, <2>1, StrobeBits
<1> QED
  BY <1>2, <1>3, <1>5

-----------------------------------------------------------------------------
\* The quotient is taken downwards.
LEMMA Quotient ==
  ASSUME NEW a \in Nat, NEW p \in Nat \ {0}
  PROVE  a \div p \in Nat /\ a < (a \div p + 1) * p
BY Z3

\* The clocks, with the hypothesis on the constants.
LEMMA ClockFacts ==
  ASSUME LinkInv, SuitableTiming
  PROVE  /\ period \in Nat \ {0} /\ period >= 86 /\ period <= 4 * RamWait + 3
         /\ tick \in 0..period /\ since \in Nat /\ since <= PauseClocks
         /\ SinceEdge \in Nat /\ SinceEdge <= period /\ Elapsed \in Int
         /\ PauseClocks \in Nat /\ PauseClocks >= 3
         /\ RamWait \in Nat \ {0} /\ MinPause \in Nat /\ MinPause >= 4 * (RamWait + 44)
<1>1. RamWait \in Nat \ {0} /\ MinPause \in Nat
  BY RamWaitAssumption, LinkAssumption
<1>2. period \in 86..4 * RamWait + 3 /\ MinPause >= 4 * (RamWait + 44)
  BY DEF LinkInv, SuitableTiming
<1>3. period \in Nat \ {0} /\ period >= 86 /\ period <= 4 * RamWait + 3
  BY <1>1, <1>2, SMT
<1>4. PauseClocks \in Nat /\ PauseClocks >= 3
  <2> DEFINE q == MinPause \div period
  <2>1. q \in Nat
    BY <1>1, <1>3, Quotient
  <2>2. PauseClocks = q + 3
    BY DEF PauseClocks
  <2> HIDE DEF q
  <2> QED
    BY <2>1, <2>2, SMT
<1>5. tick \in 0..period /\ since \in 0..PauseClocks
  BY DEF LinkInv, EepromTypeOK
<1>6. since \in Nat /\ since <= PauseClocks
  BY <1>4, <1>5, SMT
<1>7. SinceEdge \in Nat /\ SinceEdge <= period
  BY <1>3, <1>5, SMT DEF SinceEdge
<1>8. Elapsed \in Int
  BY <1>3, <1>6, <1>7, SMT DEF Elapsed
<1> QED
  BY <1>1, <1>2, <1>3, <1>4, <1>5, <1>6, <1>7, <1>8

\* Time passes with the edges of the I2C clocks.
LEMMA TimePasses ==
  ASSUME LinkInv, SuitableTiming, I2cStep
  PROVE  /\ SinceEdge' = SinceEdge + 1 /\ SinceEdge < period /\ Elapsed' = Elapsed + 1
         /\ PauseClocks' = PauseClocks /\ period' = period
<1>1. tick > 0 /\ tick' = tick - 1 /\ period' = period /\ since' = since
  BY DEF I2cStep
<1>2. SinceEdge' = SinceEdge + 1 /\ SinceEdge < period
  BY <1>1, ClockFacts, SMT DEF SinceEdge
<1>3. Elapsed' = Elapsed + 1
  <2> DEFINE z == (since - 2) * period
  <2>1. Elapsed = z + SinceEdge /\ Elapsed' = z + SinceEdge'
    BY <1>1 DEF Elapsed
  <2>2. z \in Int
    BY ClockFacts, SMT
  <2> HIDE DEF z
  <2> QED
    BY <1>2, <2>1, <2>2, ClockFacts, SMT
<1> QED
  BY <1>1, <1>2, <1>3 DEF PauseClocks

\* An edge of the host's clock takes no time, and counts.
LEMMA EdgeCounts ==
  ASSUME LinkInv, SuitableTiming, NEW en, NEW d, NEW address, HostEdge(en, d, address)
  PROVE  /\ SinceEdge = period /\ SinceEdge' = 0 /\ PauseClocks' = PauseClocks
         /\ since' = since + 1 => Elapsed' = Elapsed
         /\ since' = 2 => Elapsed' = 0
         /\ since' = since + 1 /\ since' = PauseClocks => Elapsed > MinPause
<1>1. tick = 0 /\ tick' = period /\ period' = period
  BY DEF HostEdge
<1>2. SinceEdge = period /\ SinceEdge' = 0 /\ PauseClocks' = PauseClocks
  BY <1>1, ClockFacts, SMT DEF SinceEdge, PauseClocks
<1>3. Elapsed = (since - 2) * period + period /\ Elapsed' = (since' - 2) * period + 0
  BY <1>1, <1>2 DEF Elapsed
<1>4. since \in Nat /\ period \in Nat
  BY ClockFacts
<1>5. since' = since + 1 => Elapsed' = Elapsed
  <2> SUFFICES ASSUME since' = since + 1 PROVE Elapsed' = Elapsed
    OBVIOUS
  <2> DEFINE f(x) == (x - 2) * period + 0
             z == (since - 2) * period + period
  <2>1. z = f(since + 1)
    BY <1>4, SMT
  <2>2. Elapsed = z /\ Elapsed' = f(since')
    BY <1>3
  <2> HIDE DEF f, z
  <2> QED
    BY <2>1, <2>2
<1>6. since' = 2 => Elapsed' = 0
  BY <1>3, <1>4, SMT
<1>7. since' = since + 1 /\ since' = PauseClocks => Elapsed > MinPause
  <2> SUFFICES ASSUME since' = since + 1, since' = PauseClocks PROVE Elapsed > MinPause
    OBVIOUS
  <2> DEFINE q == MinPause \div period
  <2>1. q \in Nat /\ MinPause < (q + 1) * period /\ MinPause \in Nat
    BY ClockFacts, Quotient
  <2>2. since = q + 2
    <3>1. PauseClocks = q + 3
      BY DEF PauseClocks
    <3> HIDE DEF q
    <3> QED
      BY <1>4, <2>1, <3>1, SMT
  <2> HIDE DEF q
  <2>3. (since - 2) * period + period = (q + 1) * period
    BY <1>4, <2>1, <2>2, SMT
  <2> DEFINE z == (q + 1) * period
  <2>4. Elapsed = z /\ MinPause < z
    BY <1>3, <2>1, <2>3
  <2>5. z \in Nat
    BY <1>4, <2>1, SMT
  <2> HIDE DEF z
  <2> QED
    BY <2>1, <2>4, <2>5, SMT
<1> QED
  BY <1>2, <1>5, <1>6, <1>7

-----------------------------------------------------------------------------
\* The bits of a request.
LEMMA AskedBits ==
  ASSUME NEW v
  PROVE  /\ Port!Asked(v) = "read" => Bit(v, 0) = 1
         /\ Port!Asked(v) = "write" => Bit(v, 0) # 1 /\ Bit(v, 1) = 1 /\ Bit(v, 2) = 1
BY DEF Port!Asked, Port!Bit, Port!Weight, Bit, Weight

\* The words of TimingInv that an edge of the I2C clocks keeps: what the
\* memory holds, and that the master has finished.
LEMMA StepKeepsIdle ==
  ASSUME LinkInv, SuitableTiming, TimingInv, I2cStep
  PROVE  DumpInv' /\ EeconInv' /\ IdleInv'
<1>1. /\ since' = since /\ dump_clocks' = dump_clocks /\ dumps' = dumps /\ request' = request
      /\ ram_block' = ram_block /\ reset_eecon' = reset_eecon /\ eecon_int' = eecon_int
      /\ dump_counter' = dump_counter /\ dump_addr' = dump_addr
  BY DEF I2cStep, ram_vars, count_vars
<1>2. PauseClocks' = PauseClocks
  BY TimePasses
<1>3. DumpInv' /\ EeconInv'
  BY <1>1, <1>2 DEF TimingInv, DumpInv, EeconInv
<1>4. /\ master \in Masters /\ phase \in Phases /\ master' \in Masters /\ phase' \in Phases
      /\ Placed(master, phase) /\ Placed(master', phase') /\ eecon_int \in Byte
  <2>1. LinkInv'
    BY I2cStepType
  <2> QED
    BY <2>1, I2cMove DEF LinkInv, EepromTypeOK, TimingInv, RamType
<1>5. eecon_int % 4 = 0 /\ Unasked(master) => Unasked(master')
  <2>1. eecon_int % 4 = 0 => Bit(eecon_int, 0) # 1 /\ Bit(eecon_int, 1) # 1
    BY <1>4, StrobeBits, SMT
  <2> QED
    BY <2>1, I2cMove DEF SameStarts, Unasked, TimingInv
<1>6. ASSUME since >= 2, since < PauseClocks, Elapsed' >= Age(phase')
      PROVE  Unasked(master')
             /\ (Idle(master') \/ Left(master', phase') + Elapsed' <= 4 * (RamWait + 43) + 1)
  <2>1. eecon_int % 4 = 0
    BY <1>6 DEF TimingInv, EeconInv
  <2> DEFINE a == Left(master, phase)
             b == Left(master', phase')
             e == Elapsed
  <2>2. a \in Int /\ b \in Int /\ e \in Int /\ Elapsed' = e + 1 /\ RamWait \in Nat
        /\ b <= 4 * (RamWait + 42) + 1
    BY <1>4, LeftBound, ClockFacts, TimePasses
  <2>3. CASE e >= Age(phase)
    <3>1. Unasked(master) /\ (Idle(master) \/ a + e <= 4 * (RamWait + 43) + 1)
      BY <1>6, <2>3 DEF TimingInv, IdleInv
    <3>2. Unasked(master')
      BY <1>5, <2>1, <3>1
    <3>3. Idle(master') \/ b <= a - 1
      BY <3>1, I2cMove DEF TimingInv
    <3>4. Idle(master) => Idle(master')
      BY <3>1, I2cMove DEF TimingInv
    <3> HIDE DEF a, b, e
    <3> QED
      BY <2>2, <3>1, <3>2, <3>3, <3>4, SMT DEF b
  <2>4. CASE ~(e >= Age(phase))
    <3>1. phase = "high_fall"
      <4>1. /\ phase = "low_rise" => phase' = "high_fall"
            /\ phase = "high_rise" => phase' = "low_fall"
            /\ phase = "low_fall" => phase' = "low_rise"
        BY I2cMove DEF TimingInv
      <4>2. phase # "high_fall" => Age(phase') = Age(phase) + 1 /\ Age(phase) \in Nat
        BY <1>4, <4>1, SMT DEF Phases, Age
      <4> HIDE DEF e
      <4> QED
        BY <1>6, <2>2, <2>4, <4>2, SMT
    <3>2. Age(phase) = 4
      BY <3>1 DEF Age
    <3>3. Unasked(master')
      <4>1. Bit(eecon_int, 0) # 1 /\ Bit(eecon_int, 1) # 1
        BY <1>4, <2>1, StrobeBits, SMT
      <4> QED
        BY <3>1, <4>1, I2cMove DEF Unasked, TimingInv
    <3>4. b <= 4 * (RamWait + 42)
      <4>1. ~Taken(master, phase)
        BY <3>1 DEF Taken
      <4>2. b = a - 1 /\ a <= 4 * (RamWait + 42) + 1
        BY <1>4, <4>1, I2cMove, LeftBound DEF TimingInv
      <4> HIDE DEF a, b
      <4> QED
        BY <2>2, <4>2, SMT
    <3>5. b + Elapsed' <= 4 * (RamWait + 43) + 1
      <4> HIDE DEF b, e
      <4> QED
        BY <2>2, <2>4, <3>2, <3>4, SMT
    <3> QED
      BY <3>3, <3>5
  <2> QED
    BY <2>3, <2>4
<1>7. since = PauseClocks => Idle(master') /\ Unasked(master') /\ request = "none"
  BY <1>5, I2cMove DEF TimingInv, IdleInv, EeconInv
<1> QED
  BY <1>1, <1>2, <1>3, <1>6, <1>7 DEF IdleInv

\* Once begun, the procedure ends with write_to_ram, if the request is still
\* there when the word address has been acknowledged.
LEMMA StaysStarted ==
  ASSUME NEW m \in Masters, NEW control, Placed(m, "low_fall"), Taken(m, "low_fall"),
         m.next_state # "i2c_nop", Successor(m, control) = "i2c_nop",
         m.outputs = "write_word_addr" /\ m.next_state = "receive_ack" => ~Unasked(m)
  PROVE  m.next_state = "write_to_ram"
<1> DEFINE s == m.outputs
           n == m.next_state
<1>1. /\ m.state = n /\ n \in Followers[s] /\ s \in MasterStates /\ n \in MasterStates
      /\ m.prev_state = s
  BY MasterFacts DEF Placed
<1>2. CASE n = "receive_ack"
  <2>1. s \in {"write_slave_addr_write_mode", "write_slave_addr_read_mode",
               "write_word_addr", "write_data"}
    BY <1>1, <1>2 DEF Followers, MasterStates, ByteStates
  <2> QED
    BY <1>1, <1>2, <2>1 DEF Successor, Unasked
<1>3. CASE n = "create_start_cond"
  <2>1. s = "i2c_nop"
    BY <1>1, <1>3 DEF Followers, MasterStates, ByteStates
  <2> QED
    BY <1>1, <1>3, <2>1 DEF Successor
<1>4. CASE n \notin {"receive_ack", "create_start_cond", "write_to_ram"}
  BY <1>1, <1>4 DEF Successor, MasterStates, ByteStates
<1> QED
  BY <1>2, <1>3, <1>4

\* What is left when the word address is over, and at the two ends of
\* write_to_ram.
LEMMA Milestones ==
  ASSUME NEW m \in Masters
  PROVE  /\ Taken(m, "low_fall") /\ m.outputs = "write_word_addr" /\ m.next_state = "receive_ack" =>
              Left(m, "low_fall") = 4 * RamWait + 89
         /\ Placed(m, "low_fall") /\ Taken(m, "low_fall") /\ m.outputs = "write_to_ram" =>
              Left(m, "low_fall") = 1
         /\ Placed(m, "low_rise") /\ m.outputs = "write_to_ram" /\ m.cycles_waited = 0 =>
              Left(m, "low_rise") = 4 * (RamWait + 1)
<1>1. RamWait \in Nat
  BY RamWaitAssumption
<1>2. Cycles(m, "low_fall") \in Int /\ Cycles(m, "low_rise") \in Int
  BY MasterFacts
<1>3. /\ Left(m, "low_fall") = 4 * Cycles(m, "low_fall") + 1
      /\ Left(m, "low_rise") = 4 * Cycles(m, "low_rise")
  BY <1>2, PhaseValues
<1>4. ASSUME Taken(m, "low_fall"), m.outputs = "write_word_addr", m.next_state = "receive_ack"
      PROVE  Left(m, "low_fall") = 4 * RamWait + 89
  <2>1. Cycles(m, "low_fall") = RamWait + 23 + -1
    BY <1>4 DEF Cycles, Rest
  <2> QED
    BY <1>1, <1>3, <2>1, SMT
<1>5. ASSUME Placed(m, "low_fall"), Taken(m, "low_fall"), m.outputs = "write_to_ram"
      PROVE  Left(m, "low_fall") = 1
  <2>1. m.next_state = "i2c_nop"
    BY <1>5 DEF Placed, Followers
  <2>2. Cycles(m, "low_fall") = 1 + -1
    BY <1>5, <2>1 DEF Cycles, Rest
  <2> QED
    BY <1>3, <2>2, SMT
<1>6. ASSUME Placed(m, "low_rise"), m.outputs = "write_to_ram", m.cycles_waited = 0
      PROVE  Left(m, "low_rise") = 4 * (RamWait + 1)
  <2>1. m.next_state = "i2c_nop"
    BY <1>6 DEF Placed, Followers
  <2>2. Cycles(m, "low_rise") = 1 + (RamWait - 0)
    BY <1>6, <2>1 DEF Cycles, Rest, Taken, WaitCycles, ByteStates
  <2> QED
    BY <1>1, <1>3, <2>2, SMT
<1> QED
  BY <1>4, <1>5, <1>6

\* The words of TimingInv about a request that is under way.
LEMMA StepKeepsPending ==
  ASSUME LinkInv, SuitableTiming, TimingInv, I2cStep
  PROVE  PendingInv'
<1> SUFFICES ASSUME Pending' PROVE PendingInv'
  BY DEF PendingInv
<1>1. /\ since' = since /\ request' = request /\ ram_block' = ram_block
      /\ reset_eecon' = reset_eecon /\ eecon_int' = eecon_int
  BY DEF I2cStep, ram_vars, count_vars
<1>2. Pending
  BY <1>1 DEF Pending
<1>3. /\ master \in Masters /\ phase \in Phases /\ master' \in Masters /\ phase' \in Phases
      /\ Placed(master, phase) /\ Placed(master', phase') /\ eecon_int \in Byte
  <2>1. LinkInv'
    BY I2cStepType
  <2> QED
    BY <2>1, I2cMove DEF LinkInv, EepromTypeOK, TimingInv, RamType
<1>4. PendingInv /\ Placed(master, phase)
  BY DEF TimingInv
<1> DEFINE a == Left(master, phase)
           b == Left(master', phase')
           f == SinceEdge
<1>5. /\ a \in Int /\ b \in Int /\ f \in Nat /\ SinceEdge' = f + 1 /\ f < period
      /\ period \in Nat /\ period <= 4 * RamWait + 3 /\ RamWait \in Nat
  BY <1>3, LeftBound, ClockFacts, TimePasses
<1>6. /\ Taken(master, phase) => phase = "low_fall" /\ phase' = "low_rise"
      /\ phase = "low_rise" => phase' = "high_fall"
      /\ phase = "high_fall" => phase' = "high_rise"
      /\ phase = "high_rise" => phase' = "low_fall"
      /\ phase = "low_fall" => phase' = "low_rise"
  BY <1>4, I2cMove DEF Taken
<1>7. ~Taken(master, phase) => SameStage(master, master') /\ b = a - 1
  BY <1>4, I2cMove
<1>8. Taken(master, phase) => /\ master'.outputs = master.next_state
                              /\ master'.next_state = Successor(master, eecon_int)
                              /\ master'.cycles_waited = 0
  BY <1>4, I2cMove
\* The answer is held for longer than the period of the host's clock.
<1>9. master.outputs = "write_to_ram" => ~Taken(master, phase)
  <2> SUFFICES ASSUME master.outputs = "write_to_ram", Taken(master, phase) PROVE FALSE
    OBVIOUS
  <2>1. phase = "low_fall"
    BY <1>6
  <2>2. a = 1
    BY <1>3, <2>1, Milestones
  <2>3. 4 * (RamWait + 1) - a <= f
    BY <1>2, <1>4 DEF PendingInv
  <2> HIDE DEF a, f
  <2> QED
    BY <1>5, <2>2, <2>3, SMT
<1>10. master'.outputs = "write_to_ram" => 4 * (RamWait + 1) - b <= f + 1
  <2> SUFFICES ASSUME master'.outputs = "write_to_ram" PROVE 4 * (RamWait + 1) - b <= f + 1
    OBVIOUS
  <2>1. CASE Taken(master, phase)
    <3>1. b = 4 * (RamWait + 1)
      BY <1>3, <1>6, <1>8, <2>1, Milestones
    <3> HIDE DEF b, f
    <3> QED
      BY <1>5, <3>1, SMT
  <2>2. CASE ~Taken(master, phase)
    <3>1. b = a - 1 /\ 4 * (RamWait + 1) - a <= f
      BY <1>2, <1>4, <1>7, <2>2 DEF PendingInv, SameStage
    <3> HIDE DEF a, b, f
    <3> QED
      BY <1>5, <3>1, SMT
  <2> QED
    BY <2>1, <2>2
<1>11. ASSUME Started(master),
              Taken(master, phase) /\ master.outputs = "write_word_addr"
                /\ master.next_state = "receive_ack" => ~Unasked(master)
       PROVE  Started(master') /\ b <= a - 1
  <2>1. CASE ~Taken(master, phase)
    <3>1. Started(master') /\ b = a - 1
      BY <1>7, <1>11, <2>1 DEF SameStage, Started
    <3> HIDE DEF a, b
    <3> QED
      BY <1>5, <3>1, SMT
  <2>2. CASE Taken(master, phase)
    <3>1. phase = "low_fall" /\ master.next_state # "i2c_nop"
      BY <1>6, <1>9, <1>11, <2>2 DEF Started
    <3>2. Successor(master, eecon_int) = "i2c_nop" => master.next_state = "write_to_ram"
      BY <1>3, <1>11, <2>2, <3>1, StaysStarted
    <3>3. b <= a - 1
      BY <1>4, <3>1, I2cMove DEF Idle
    <3> QED
      BY <1>8, <2>2, <3>2, <3>3 DEF Started
  <2> QED
    BY <2>1, <2>2
<1>12. since = 0 => /\ Idle(master') /\ Unasked(master') /\ eecon_int % 4 = 0
                    /\ reset_eecon /\ Port!Asked(ram_block[EECON_ADDRESS]) = request
  <2> SUFFICES ASSUME since = 0 PROVE
          /\ Idle(master') /\ Unasked(master') /\ eecon_int % 4 = 0
          /\ reset_eecon /\ Port!Asked(ram_block[EECON_ADDRESS]) = request
    OBVIOUS
  <2>1. /\ Idle(master) /\ Unasked(master) /\ eecon_int % 4 = 0
        /\ reset_eecon /\ Port!Asked(ram_block[EECON_ADDRESS]) = request
    BY <1>2, <1>4 DEF PendingInv
  <2>2. Bit(eecon_int, 0) # 1 /\ Bit(eecon_int, 1) # 1
    BY <1>3, <2>1, StrobeBits, SMT
  <2> QED
    BY <1>4, <2>1, <2>2, I2cMove DEF SameStarts, Unasked
<1>13. ASSUME since = 1
       PROVE  /\ Port!Asked(eecon_int) = request
              /\ \/ f + 1 < Age(phase') /\ Idle(master') /\ Unasked(master')
                 \/ /\ Latched'
                    /\ \/ Idle(master') /\ phase' = "high_rise" /\ f + 1 <= 4
                       \/ Idle(master') /\ phase' = "low_fall" /\ f + 1 <= 5
                       \/ Started(master') /\ b + (f + 1) <= 4 * RamWait + 174
  <2>1. Port!Asked(eecon_int) = request
    BY <1>2, <1>4, <1>13 DEF PendingInv
  <2>2. phase = "high_fall" => Latched'
    <3>1. /\ request = "read" => Bit(eecon_int, 0) = 1
          /\ request = "write" => Bit(eecon_int, 1) = 1 /\ Bit(eecon_int, 2) = 1
      BY <2>1, AskedBits
    <3>2. phase = "high_fall" =>
              /\ master'.start_read_procedure = (Bit(eecon_int, 0) = 1)
              /\ master'.start_write_procedure = (Bit(eecon_int, 1) = 1)
      BY <1>4, I2cMove
    <3> QED
      BY <1>1, <1>2, <3>1, <3>2 DEF Latched, Pending
  <2>3. Latched => Latched'
    <3>1. phase # "high_fall" => SameStarts(master, master')
      BY <1>4, I2cMove
    <3> QED
      BY <1>1, <2>2, <3>1 DEF Latched, SameStarts
  <2>4. CASE f < Age(phase) /\ Idle(master) /\ Unasked(master)
    <3>1. Idle(master')
      BY <1>4, <2>4, I2cMove
    <3>2. CASE phase = "high_fall"
      <4>1. Age(phase) = 4
        BY <3>2 DEF Age
      <4>2. f + 1 <= 4
        <5> HIDE DEF f
        <5> QED
          BY <1>5, <2>4, <4>1, SMT
      <4> QED
        BY <1>6, <2>1, <2>2, <3>1, <3>2, <4>2
    <3>3. CASE phase # "high_fall"
      <4>1. Age(phase') = Age(phase) + 1 /\ Age(phase) \in Nat
        BY <1>3, <1>6, <3>3, SMT DEF Phases, Age
      <4>2. f + 1 < Age(phase')
        <5> HIDE DEF f
        <5> QED
          BY <1>5, <2>4, <4>1, SMT
      <4>3. Unasked(master')
        BY <1>4, <2>4, <3>3, I2cMove DEF SameStarts, Unasked
      <4> QED
        BY <2>1, <3>1, <4>2, <4>3
    <3> QED
      BY <3>2, <3>3
  <2>5. CASE Latched /\ Idle(master) /\ phase = "high_rise" /\ f <= 4
    <3>1. SameStage(master, master')
      BY <1>6, <1>7, <2>5
    <3>2. f + 1 <= 5
      <4> HIDE DEF f
      <4> QED
        BY <1>5, <2>5, SMT
    <3> QED
      BY <1>6, <2>1, <2>3, <2>5, <3>1, <3>2 DEF SameStage, Idle
  <2>6. CASE Latched /\ Idle(master) /\ phase = "low_fall" /\ f <= 5
    <3>1. Taken(master, phase)
      <4>1. WaitCycles(master) = 0
        BY <2>6 DEF Idle, WaitCycles, ByteStates
      <4>2. master.cycles_waited \in Nat
        BY <1>3, MasterFacts
      <4> QED
        BY <1>4, <2>6, <4>1, <4>2, SMT DEF Placed
    <3>2. master.state = "i2c_nop"
      BY <1>4, <2>6, <3>1 DEF Placed, Idle
    <3>3. Successor(master, eecon_int) = "create_start_cond"
      BY <1>2, <2>6, <3>2 DEF Successor, Latched, Pending
    <3>4. Started(master')
      BY <1>8, <3>1, <3>3 DEF Started
    <3>5. b + (f + 1) <= 4 * RamWait + 174
      <4>1. phase' = "low_rise"
        BY <1>6, <2>6
      <4> DEFINE c == Cycles(master', phase')
      <4>2. c \in Int /\ b = 4 * c /\ b <= 4 * (RamWait + 42) + 1
        BY <1>3, <4>1, MasterFacts, PhaseValues, LeftBound
      <4> HIDE DEF b, c, f
      <4> QED
        BY <1>5, <2>6, <4>2, SMT
    <3> QED
      BY <2>1, <2>3, <2>6, <3>4, <3>5
  <2>7. CASE Latched /\ Started(master) /\ a + f <= 4 * RamWait + 174
    <3>1. ~Unasked(master)
      BY <1>2, <2>7 DEF Latched, Unasked
    <3>2. Started(master') /\ b <= a - 1
      BY <1>11, <2>7, <3>1
    <3>3. b + (f + 1) <= 4 * RamWait + 174
      <4> HIDE DEF a, b, f
      <4> QED
        BY <1>5, <2>7, <3>2, SMT
    <3> QED
      BY <2>1, <2>3, <2>7, <3>2, <3>3
  <2> QED
    BY <1>2, <1>4, <1>13, <2>4, <2>5, <2>6, <2>7 DEF PendingInv
<1>14. ASSUME since >= 2 PROVE Started(master') /\ b <= 4 * RamWait + 88
  <2>1. Started(master) /\ a <= 4 * RamWait + 88
    BY <1>2, <1>4, <1>14 DEF PendingInv
  <2>2. ~(Taken(master, phase) /\ master.outputs = "write_word_addr"
            /\ master.next_state = "receive_ack")
    <3>1. Taken(master, phase) /\ master.outputs = "write_word_addr"
            /\ master.next_state = "receive_ack" => a = 4 * RamWait + 89
      BY <1>3, <1>6, Milestones
    <3> HIDE DEF a
    <3> QED
      BY <1>5, <2>1, <3>1, SMT
  <2>3. Started(master') /\ b <= a - 1
    BY <1>11, <2>1, <2>2
  <2> HIDE DEF a, b
  <2> QED
    BY <1>5, <2>1, <2>3, SMT
<1> QED
  BY <1>1, <1>5, <1>10, <1>12, <1>13, <1>14 DEF PendingInv

-----------------------------------------------------------------------------
\* An edge of the host's clock leaves the master and its place alone.
LEMMA EdgeFacts ==
  ASSUME LinkInv, SuitableTiming, TimingInv, NEW en, NEW d, NEW address, HostEdge(en, d, address)
  PROVE  /\ master' = master /\ phase' = phase /\ Placed(master', phase')
         /\ Age(phase) \in Nat /\ Age(phase) >= 1 /\ Age(phase) <= 4
         /\ Left(master, phase) \in Int
         /\ Left(master, phase) <= 0 => Idle(master)
         /\ eecon_int' = ram_block[EECON_ADDRESS]
<1>1. master' = master /\ phase' = phase
  BY DEF HostEdge, wire_vars
<1>2. master \in Masters /\ phase \in Phases /\ Placed(master, phase)
  BY DEF LinkInv, EepromTypeOK, TimingInv
<1>3. Age(phase) \in Nat /\ Age(phase) >= 1 /\ Age(phase) <= 4
  BY <1>2, SMT DEF Age, Phases
<1>4. eecon_int' = ram_block[EECON_ADDRESS]
  BY DEF HostEdge, RamRise
<1> QED
  BY <1>1, <1>2, <1>3, <1>4, LeftBound

\* In a pause the master is idle, and EECON asks for nothing.
LEMMA WhenSettled ==
  ASSUME LinkInv, SuitableTiming, TimingInv, since = PauseClocks, dump_clocks = 0
  PROVE  /\ Idle(master) /\ Unasked(master) /\ request = "none" /\ ~WritesToRam(master)
         /\ ~reset_eecon /\ ram_block[EECON_ADDRESS] % 4 = 0
<1>1. since # 0
  BY ClockFacts, SMT
<1> QED
  BY <1>1 DEF TimingInv, IdleInv, EeconInv, Idle, WritesToRam

\* An edge of the host's clock with no enable keeps the timing,
LEMMA IdleEdgeKeeps ==
  ASSUME LinkInv, SuitableTiming, TimingInv, IdleEdge
  PROVE  TimingInv'
<1>1. HostEdge({}, 0, 0)
  BY DEF IdleEdge
<1>2. /\ dump_clocks = 0 /\ dump_clocks' = 0 /\ dumps' = dumps
      /\ since' = IF since < PauseClocks THEN since + 1 ELSE since
      /\ request' = IF Answered \/ (request = "dump" /\ since' = PauseClocks)
                    THEN "none" ELSE request
  BY DEF IdleEdge
<1>3. /\ master' = master /\ phase' = phase /\ Placed(master', phase')
      /\ Age(phase) \in Nat /\ Age(phase) >= 1 /\ Age(phase) <= 4
      /\ Left(master, phase) \in Int
      /\ Left(master, phase) <= 0 => Idle(master)
  BY <1>1, EdgeFacts
<1>4. /\ eecon_int' = ram_block[EECON_ADDRESS] /\ ~reset_eecon'
      /\ dump_counter' = dump_counter /\ dump_addr' = dump_addr
      /\ reset_eecon \/ ram_block[EECON_ADDRESS] % 4 = 0 => ram_block'[EECON_ADDRESS] % 4 = 0
  BY <1>1, EeconKept
<1>5. /\ SinceEdge = period /\ SinceEdge' = 0 /\ PauseClocks' = PauseClocks
      /\ since' = since + 1 => Elapsed' = Elapsed
      /\ since' = 2 => Elapsed' = 0
      /\ since' = since + 1 /\ since' = PauseClocks => Elapsed > MinPause
  BY <1>1, EdgeCounts
<1>6. /\ since \in Nat /\ since <= PauseClocks /\ PauseClocks \in Nat /\ PauseClocks >= 3
      /\ period \in Nat /\ period >= 86 /\ Elapsed \in Int
      /\ RamWait \in Nat /\ MinPause \in Nat /\ MinPause >= 4 * (RamWait + 44)
  BY ClockFacts
<1> HIDE DEF PauseClocks
<1>7. /\ (since' = since + 1 /\ since < PauseClocks) \/ (since' = since /\ since = PauseClocks)
      /\ since' \in Nat /\ since' # 0
  BY <1>2, <1>6, SMT
<1>8. DumpInv'
  <2>1. since < PauseClocks => since' < PauseClocks \/ since' = PauseClocks
    BY <1>6, <1>7, SMT
  <2>2. request' = "dump" => request = "dump" /\ since' # PauseClocks
    BY <1>2
  <2>3. ~(dump_clocks' > 0)
    BY <1>2, SMT
  <2> QED
    BY <1>2, <1>4, <1>5, <2>1, <2>2, <2>3 DEF TimingInv, DumpInv
<1>9. EeconInv'
  <2>1. ram_block'[EECON_ADDRESS] % 4 = 0
    BY <1>2, <1>4 DEF TimingInv, EeconInv
  <2>2. since' >= 2 => since # 0
    BY <1>6, <1>7, SMT
  <2>3. since # 0 => ram_block[EECON_ADDRESS] % 4 = 0
    BY <1>2 DEF TimingInv, EeconInv
  <2>4. since' = PauseClocks => since' >= 2
    BY <1>6, SMT
  <2> QED
    BY <1>2, <1>4, <1>5, <2>1, <2>2, <2>3, <2>4 DEF EeconInv
<1>10. IdleInv'
  <2>1. ASSUME since' >= 2, since' < PauseClocks, Elapsed' >= Age(phase)
        PROVE  /\ Unasked(master)
               /\ Idle(master) \/ Left(master, phase) + Elapsed' <= 4 * (RamWait + 43) + 1
    <3>1. since' = since + 1 /\ since < PauseClocks
      BY <1>6, <1>7, <2>1, SMT
    <3>2. since' # 2
      BY <1>3, <1>5, <2>1, SMT
    <3>3. since >= 2 /\ Elapsed' = Elapsed
      BY <1>5, <1>6, <2>1, <3>1, <3>2, SMT
    <3> QED
      BY <2>1, <3>1, <3>3 DEF TimingInv, IdleInv
  <2>2. ASSUME since' = PauseClocks
        PROVE  Idle(master) /\ Unasked(master) /\ request' = "none"
    <3>1. CASE since = PauseClocks
      BY <1>2, <3>1, WhenSettled
    <3>2. CASE since # PauseClocks
      <4>1. since >= 2 /\ since < PauseClocks /\ Elapsed > MinPause
        BY <1>5, <1>6, <1>7, <2>2, <3>2, SMT
      <4>2. Elapsed >= Age(phase)
        BY <1>3, <1>6, <4>1, SMT
      <4>3. Unasked(master)
            /\ (Idle(master) \/ Left(master, phase) + Elapsed <= 4 * (RamWait + 43) + 1)
        BY <4>1, <4>2 DEF TimingInv, IdleInv
      <4>4. Idle(master)
        BY <1>3, <1>6, <4>1, <4>3, SMT
      <4>5. ~Pending
        BY <4>1, <4>4 DEF TimingInv, PendingInv, Idle, Started
      <4>6. request \in {"none", "dump"}
        BY <4>5 DEF Pending, LinkInv, EepromTypeOK
      <4> QED
        BY <1>2, <2>2, <4>3, <4>4, <4>6
    <3> QED
      BY <3>1, <3>2
  <2> QED
    BY <1>3, <1>5, <2>1, <2>2 DEF IdleInv
<1>11. PendingInv'
  <2> SUFFICES ASSUME Pending' PROVE PendingInv'
    BY DEF PendingInv
  <2>1. Pending /\ request' = request /\ ~WritesToRam(master)
    BY <1>2 DEF Pending, Answered
  <2>2. since' = since + 1 /\ since < PauseClocks
    BY <1>2, <1>7, <2>1, WhenSettled DEF Pending
  <2>3. ASSUME since' = 1
        PROVE  /\ Port!Asked(eecon_int') = request
               /\ Idle(master) /\ Unasked(master)
    <3>1. since = 0
      BY <1>6, <2>2, <2>3, SMT
    <3> QED
      BY <1>4, <2>1, <3>1 DEF TimingInv, PendingInv
  <2>4. ASSUME since' >= 2
        PROVE  Started(master) /\ Left(master, phase) <= 4 * RamWait + 88
    <3>1. since = 1 \/ since >= 2
      BY <1>6, <2>2, <2>4, SMT
    <3>2. CASE since = 1
      <4>1. \/ SinceEdge < Age(phase)
            \/ SinceEdge <= 5 \/ SinceEdge <= 4
            \/ Started(master) /\ Left(master, phase) + SinceEdge <= 4 * RamWait + 174
        BY <2>1, <3>2 DEF TimingInv, PendingInv
      <4> QED
        BY <1>3, <1>5, <1>6, <4>1, SMT
    <3>3. CASE since >= 2
      BY <2>1, <3>3 DEF TimingInv, PendingInv
    <3> QED
      BY <3>1, <3>2, <3>3
  <2>5. SinceEdge' < Age(phase)
    BY <1>3, <1>5, SMT
  <2> QED
    BY <1>3, <1>7, <2>1, <2>3, <2>4, <2>5 DEF PendingInv, WritesToRam
<1> QED
  BY <1>3, <1>8, <1>9, <1>10, <1>11 DEF TimingInv

\* a write to EEADR or EEDATA,
LEMMA WriteOperandKeeps ==
  ASSUME LinkInv, SuitableTiming, TimingInv, WriteOperand
  PROVE  TimingInv'
<1>1. PICK d \in Byte, address \in {EEADR_ADDRESS, EEDATA_ADDRESS} :
             HostEdge({"ram_write"}, d, address)
  BY LinkConstants DEF WriteOperand
<1>2. /\ since = PauseClocks /\ dump_clocks = 0 /\ since' = since /\ dump_clocks' = dump_clocks
      /\ dumps' = dumps /\ request' = request
  BY DEF WriteOperand, Settled
<1>3. /\ Idle(master) /\ Unasked(master) /\ request = "none"
      /\ ~reset_eecon /\ ram_block[EECON_ADDRESS] % 4 = 0
  BY <1>2, WhenSettled
<1>4. /\ master' = master /\ phase' = phase /\ Placed(master', phase')
  BY <1>1, EdgeFacts
<1>5. /\ eecon_int' = ram_block[EECON_ADDRESS] /\ ~reset_eecon'
      /\ dump_counter' = dump_counter /\ dump_addr' = dump_addr /\ ram_block'[EECON_ADDRESS] % 4 = 0
  <2>1. address # 0
    BY <1>1, SMT DEF EEADR_ADDRESS, EEDATA_ADDRESS
  <2> QED
    BY <1>1, <1>3, <2>1, EeconKept
<1>6. PauseClocks' = PauseClocks
  BY <1>1, EdgeCounts
<1> HIDE DEF PauseClocks
<1>7. ~(since' < PauseClocks') /\ ~(dump_clocks' > 0)
  BY <1>2, <1>6, ClockFacts, SMT
<1>8. DumpInv'
  BY <1>2, <1>3, <1>5, <1>7 DEF TimingInv, DumpInv
<1> QED
  BY <1>2, <1>3, <1>4, <1>5, <1>6, <1>7, <1>8
  DEF TimingInv, EeconInv, IdleInv, PendingInv, Pending

\* a write to EECON,
LEMMA WriteRequestKeeps ==
  ASSUME LinkInv, SuitableTiming, TimingInv, WriteRequest
  PROVE  TimingInv'
<1>1. PICK control : /\ HostEdge({"ram_write"}, control, EECON_ADDRESS)
                     /\ request' = Port!Asked(control)
  BY DEF WriteRequest
<1>2. /\ since = PauseClocks /\ dump_clocks = 0 /\ since' = 0 /\ dump_clocks' = dump_clocks
      /\ dumps' = dumps
  BY DEF WriteRequest, Settled
<1>3. /\ Idle(master) /\ Unasked(master) /\ ~WritesToRam(master)
      /\ ~reset_eecon /\ ram_block[EECON_ADDRESS] % 4 = 0
  BY <1>2, WhenSettled
<1>4. /\ master' = master /\ phase' = phase /\ Placed(master', phase')
  BY <1>1, EdgeFacts
<1>5. /\ eecon_int' = ram_block[EECON_ADDRESS] /\ reset_eecon'
      /\ dump_counter' = dump_counter /\ dump_addr' = dump_addr /\ ram_block'[EECON_ADDRESS] = control
  BY <1>1, <1>3, EeconWritten
<1>6. PauseClocks' = PauseClocks
  BY <1>1, EdgeCounts
<1> HIDE DEF PauseClocks
<1>7. /\ since' < PauseClocks' /\ since' # PauseClocks' /\ ~(dump_clocks' > 0)
      /\ ~(since' >= 2) /\ since' # 1
  BY <1>2, <1>6, ClockFacts, SMT
<1>8. DumpInv'
  BY <1>2, <1>5, <1>7 DEF TimingInv, DumpInv
<1>9. EeconInv' /\ IdleInv'
  BY <1>2, <1>5, <1>7 DEF EeconInv, IdleInv
<1>10. PendingInv'
  BY <1>1, <1>2, <1>3, <1>4, <1>5, <1>7 DEF PendingInv, Pending, WritesToRam
<1> QED
  BY <1>4, <1>8, <1>9, <1>10 DEF TimingInv

\* and a clock of a dump.
LEMMA DumpEdgeKeeps ==
  ASSUME LinkInv, SuitableTiming, TimingInv, DumpEdge
  PROVE  TimingInv'
<1>1. HostEdge({"eeprom_dump"}, 0, 0) /\ since' = 0 /\ request' = "dump"
  BY DEF DumpEdge
<1>2. master' = master /\ phase' = phase /\ Placed(master', phase')
  BY <1>1, EdgeFacts
<1>3. /\ ~reset_eecon' /\ dump_counter' = (dump_counter + 1) % 7
      /\ dump_counter = 0 => ram_block'[EECON_ADDRESS] % 4 = 0
  BY <1>1, EeconDumped
<1>4. PauseClocks' = PauseClocks
  BY <1>1, EdgeCounts
<1> HIDE DEF PauseClocks
<1>5. /\ since' < PauseClocks' /\ since' # PauseClocks' /\ ~(since' >= 2)
  BY <1>1, <1>4, ClockFacts, SMT
<1>6. dump_counter \in 0..6 /\ dump_clocks \in Nat /\ dumps \in Nat /\ EepromSize \in Nat
      /\ MaxDumps \in Nat /\ MaxDumps <= 1
  BY LinkAssumption, MemoryAssumption DEF LinkInv, EepromTypeOK, RamType, SuitableTiming
<1>7. /\ dumps' # 0
      /\ (dump_clocks' + dump_counter') % 7 = 1
      /\ dump_clocks' = 0 => dump_counter = 0
  <2>1. CASE dumps < MaxDumps /\ dumps' = dumps + 1 /\ dump_clocks' = DumpSteps - 1
    <3>1. dumps = 0 /\ dumps' = 1
      BY <1>6, <2>1, SMT
    <3>2. dump_counter = 0
      BY <3>1 DEF TimingInv, DumpInv
    <3>3. dump_counter' = 1 /\ dump_clocks' = 7 * EepromSize
      BY <1>3, <1>6, <2>1, <3>2, SMT DEF DumpSteps
    <3> QED
      BY <1>6, <3>1, <3>2, <3>3, SMT
  <2>2. CASE dump_clocks > 0 /\ dump_clocks' = dump_clocks - 1 /\ dumps' = dumps
    <3>1. dumps > 0 /\ (dump_clocks + dump_counter) % 7 = 1
      BY <2>2 DEF TimingInv, DumpInv
    <3> QED
      BY <1>3, <1>6, <2>2, <3>1, SMT
  <2> QED
    BY <2>1, <2>2 DEF DumpEdge
<1>8. dumps' > 0 /\ dumps' \in Nat
  <2>1. LinkInv'
    BY LinkStep DEF LinkNext
  <2>2. dumps' \in Nat
    BY <2>1 DEF LinkInv
  <2> QED
    BY <1>7, <2>2, SMT
<1>9. DumpInv'
  BY <1>1, <1>5, <1>7, <1>8 DEF DumpInv
<1>10. EeconInv' /\ IdleInv'
  BY <1>3, <1>5, <1>7 DEF EeconInv, IdleInv
<1>11. PendingInv'
  BY <1>1 DEF PendingInv, Pending
<1> QED
  BY <1>2, <1>9, <1>10, <1>11 DEF TimingInv

\* Where reset leaves the master.
LEMMA ResetMaster ==
  /\ Idle(InitMaster) /\ Unasked(InitMaster) /\ Placed(InitMaster, "low_rise")
  /\ ClearedRam[EECON_ADDRESS] % 4 = 0
<1>1. ClearedRam[EECON_ADDRESS] = 0 /\ 0 % 4 = 0
  BY RegisterCells, SMT DEF ClearedRam
<1>2. Idle(InitMaster) /\ Unasked(InitMaster)
  BY DEF InitMaster, Idle, Unasked
<1>3. Placed(InitMaster, "low_rise")
  BY SMT DEF InitMaster, Placed, Taken, Followers, WaitCycles, ByteStates
<1> QED
  BY <1>1, <1>2, <1>3

\* The timing at power-up,
LEMMA InitTiming == SuitableTiming /\ InitLink => TimingInv
<1> SUFFICES ASSUME SuitableTiming, InitLink PROVE TimingInv
  OBVIOUS
<1>1. /\ master = InitMaster /\ phase = "low_rise" /\ since = PauseClocks
      /\ request = "none" /\ dump_clocks = 0
      /\ ram_block = ClearedRam /\ reset_eecon = FALSE /\ dump_counter = 0 /\ dump_addr = 0 /\ eecon_int = 0
  BY DEF InitLink, RamInit
<1> HIDE DEF PauseClocks
<1>2. ~(dump_clocks > 0) /\ ~(since < PauseClocks) /\ eecon_int % 4 = 0
  BY <1>1, LinkStart, ClockFacts, SMT
<1> QED
  BY <1>1, <1>2, ResetMaster DEF TimingInv, DumpInv, EeconInv, IdleInv, PendingInv, Pending

\* and after a reset.
LEMMA ResetKeeps ==
  ASSUME LinkInv, SuitableTiming, TimingInv, Reset
  PROVE  TimingInv'
<1>1. /\ master' = InitMaster /\ phase' = "low_rise" /\ since' = PauseClocks
      /\ request' = "none" /\ dump_clocks' = 0 /\ period' = period
      /\ ram_block' = ClearedRam /\ reset_eecon' = FALSE /\ dump_counter' = 0 /\ dump_addr' = 0 /\ eecon_int' = 0
  BY DEF Reset, RamReset
<1>2. PauseClocks' = PauseClocks
  BY <1>1 DEF PauseClocks
<1> HIDE DEF PauseClocks
<1>3. ~(dump_clocks' > 0) /\ ~(since' < PauseClocks') /\ eecon_int' % 4 = 0
  BY <1>1, <1>2, ClockFacts, SMT
<1>4. DumpInv' /\ EeconInv'
  BY <1>1, <1>2, <1>3, ResetMaster DEF DumpInv, EeconInv
<1>5. IdleInv' /\ PendingInv'
  BY <1>1, <1>2, <1>3, ResetMaster DEF IdleInv, PendingInv, Pending
<1> QED
  BY <1>1, <1>4, <1>5, ResetMaster DEF TimingInv

\* Every step of the system keeps the timing.
LEMMA TimingStep ==
  SuitableTiming /\ LinkInv /\ TimingInv /\ [LinkNext]_link_vars => TimingInv'
<1> SUFFICES ASSUME SuitableTiming, LinkInv, TimingInv, [LinkNext]_link_vars
             PROVE  TimingInv'
  OBVIOUS
<1>1. CASE I2cStep
  BY <1>1, StepKeepsIdle, StepKeepsPending, I2cMove DEF TimingInv
<1>2. CASE IdleEdge
  BY <1>2, IdleEdgeKeeps
<1>3. CASE WriteOperand
  BY <1>3, WriteOperandKeeps
<1>4. CASE WriteRequest
  BY <1>4, WriteRequestKeeps
<1>5. CASE DumpEdge
  BY <1>5, DumpEdgeKeeps
<1>6. CASE Reset
  BY <1>6, ResetKeeps
<1>7. CASE UNCHANGED link_vars
  <2>1. UNCHANGED <<master, phase, period, tick, since, dump_clocks, dumps, request, ram_vars>>
    BY <1>7 DEF link_vars, wire_vars, clock_vars, count_vars
  <2>2. UNCHANGED <<PauseClocks, SinceEdge, Elapsed, Pending, Latched>>
    BY <2>1 DEF ram_vars, PauseClocks, SinceEdge, Elapsed, Pending, Latched
  <2>3. UNCHANGED <<ram_block, reset_eecon, dump_counter, dump_addr, eecon_int>>
    BY <2>1 DEF ram_vars
  <2>4. DumpInv' /\ EeconInv'
    BY <2>1, <2>2, <2>3 DEF TimingInv, DumpInv, EeconInv
  <2>5. IdleInv' /\ Placed(master', phase')
    BY <2>1, <2>2, <2>3 DEF TimingInv, IdleInv
  <2>6. PendingInv'
    BY <2>1, <2>2, <2>3 DEF TimingInv, PendingInv
  <2> QED
    BY <2>4, <2>5, <2>6 DEF TimingInv
<1> QED
  BY <1>1, <1>2, <1>3, <1>4, <1>5, <1>6, <1>7 DEF LinkNext

\* At every step the master is as far from the end of its procedure as the
\* edges of the two clocks since the request allow.
THEOREM TimingCorrect ==
  ASSUME SuitableTiming
  PROVE  LinkSpec => [](LinkInv /\ TimingInv)
<1>1. InitLink => LinkInv /\ TimingInv
  BY LinkStart, InitTiming
<1>2. LinkInv /\ TimingInv /\ [LinkNext]_link_vars => LinkInv' /\ TimingInv'
  BY LinkStep, TimingStep
<1> QED
  BY <1>1, <1>2, PTL DEF LinkSpec

\* With clocks and pauses that suit each other, whatever their alignment, a
\* request has been seen by the master, has been carried out and the master is
\* idle again before the next command can reach ram.vhd.
THEOREM RequestsOver ==
  ASSUME SuitableTiming
  PROVE  LinkSpec => []OverBeforeNextCommand
<1>1. LinkInv /\ TimingInv => OverBeforeNextCommand
  BY WhenSettled DEF OverBeforeNextCommand, Settled, Idle
<1> QED
  BY <1>1, TimingCorrect, PTL

-----------------------------------------------------------------------------
\* What the edges leave of the chip's registers.
SameBytes(c, d) == /\ d.received_data = c.received_data /\ d.mem_address = c.mem_address
                   /\ d.eeprom = c.eeprom
SameCounts(c, d) == /\ d.count = c.count /\ d.trig_state_machine = c.trig_state_machine
SameBits(c, d) == /\ d.write_bits_used = c.write_bits_used /\ d.read_bits_used = c.read_bits_used
                  /\ d.jump_to_slave_address_read = c.jump_to_slave_address_read
SameStates(c, d) == /\ d.state = c.state /\ d.next_state = c.next_state
                    /\ d.prev_state = c.prev_state /\ d.outputs = c.outputs
                    /\ d.cycles_waited = c.cycles_waited /\ d.is_read = c.is_read

\* A start condition is noticed, and nothing else moves.
LEMMA PollStartFields ==
  ASSUME NEW c \in Chips, NEW old, NEW new, NEW scl
  PROVE  LET d == PollStart(c, old, new, scl)
         IN  /\ SameStates(c, d) /\ SameBits(c, d) /\ SameCounts(c, d) /\ SameBytes(c, d)
             /\ d.sda_output = c.sda_output
             /\ d.start_cond_found = IF old = 1 /\ new = 0 THEN scl = 1 ELSE c.start_cond_found
BY DEF PollStart, SameStates, SameBits, SameCounts, SameBytes, Chips

\* The fields of the EEPROM after a rising edge of clk_200khz under a low clk_100khz.
LEMMA ChipRiseLowFields ==
  ASSUME NEW c \in Chips
  PROVE  LET d == ChipRiseLow(c)
             moves == c.outputs \in ChipByteStates /\ c.cycles_waited < 7
             idle == c.next_state = "receive_slave_address" /\ c.prev_state = "receive_slave_address"
         IN  /\ d.state = IF c.jump_to_slave_address_read THEN "receive_slave_address"
                          ELSE IF moves THEN c.state ELSE c.next_state
             /\ d.cycles_waited = IF ~c.jump_to_slave_address_read /\ moves
                                  THEN c.cycles_waited + 1 ELSE 0
             /\ d.is_read = (c.jump_to_slave_address_read \/ (c.is_read /\ ~idle))
             /\ d.next_state = c.next_state /\ d.prev_state = c.prev_state /\ d.outputs = c.outputs
             /\ SameBits(c, d) /\ SameCounts(c, d) /\ SameBytes(c, d)
             /\ d.sda_output = c.sda_output /\ d.start_cond_found = c.start_cond_found
<1> DEFINE idle == c.next_state = "receive_slave_address" /\ c.prev_state = "receive_slave_address"
           k == c.cycles_waited + 1
           moves == c.outputs \in ChipByteStates /\ c.cycles_waited < 7
<1>1. c.is_read \in BOOLEAN /\ c.jump_to_slave_address_read \in BOOLEAN
  BY ChipFacts
<1>2. ChipRiseLow(c) =
        CASE c.jump_to_slave_address_read ->
               [[c EXCEPT !.is_read = @ /\ ~idle] EXCEPT
                   !.state = "receive_slave_address", !.cycles_waited = 0, !.is_read = TRUE]
          [] ~c.jump_to_slave_address_read /\ moves ->
               [[c EXCEPT !.is_read = @ /\ ~idle] EXCEPT !.cycles_waited = k]
          [] OTHER -> [[c EXCEPT !.is_read = @ /\ ~idle] EXCEPT
                          !.state = c.next_state, !.cycles_waited = 0]
  BY Zenon DEF ChipRiseLow
<1> HIDE DEF idle, k, moves
<1> QED
  BY <1>1, <1>2 DEF SameBits, SameCounts, SameBytes, Chips, idle, k, moves

\* The fields of the EEPROM after a falling edge of clk_200khz.
LEMMA ChipFall200Fields ==
  ASSUME NEW c \in Chips
  PROVE  LET d == ChipFall200(c)
         IN  /\ d.next_state = ChipSuccessor(c)
             /\ d.prev_state = IF c.state = "send_ack" /\ c.prev_state \notin ChipByteStates \ {"send_data"}
                              THEN c.prev_state ELSE c.state
             /\ d.outputs = IF c.state = "receive_slave_address" /\ ~c.trig_state_machine
                           THEN "idle" ELSE c.state
             /\ d.state = c.state /\ d.cycles_waited = c.cycles_waited /\ d.is_read = c.is_read
             /\ SameBits(c, d) /\ SameCounts(c, d) /\ SameBytes(c, d)
             /\ d.sda_output = c.sda_output /\ d.start_cond_found = c.start_cond_found
BY DEF ChipFall200, SameBits, SameCounts, SameBytes, Chips

\* The fields of the EEPROM after a rising edge of SCL.
LEMMA ChipRiseSclFields ==
  ASSUME NEW c \in Chips
  PROVE  LET d == ChipRiseScl(c)
             count == IF c.start_cond_found /\ c.sda_output = Released THEN 12 ELSE c.count
         IN  /\ SameStates(c, d) /\ d.start_cond_found = c.start_cond_found
             /\ d.count = IF count > 0 THEN count - 1 ELSE 0
             /\ d.trig_state_machine = (count > 0)
             /\ d.read_bits_used = c.read_bits_used
             /\ d.jump_to_slave_address_read = c.jump_to_slave_address_read
             /\ d.write_bits_used = IF c.outputs = "send_data" THEN (c.write_bits_used + 1) % 8
                                   ELSE c.write_bits_used
             /\ d.received_data = c.received_data
             /\ d.sda_output = CASE c.outputs = "send_ack" -> 0
                                [] c.outputs = "send_data" ->
                                     Bit(Stored(c.eeprom, c.mem_address), 7 - c.write_bits_used)
                                [] OTHER -> Released
             /\ d.mem_address = IF c.outputs = "send_ack" /\ c.next_state = "receive_data"
                               THEN c.received_data ELSE c.mem_address
             /\ d.eeprom = IF Stores(c) THEN Store(c.eeprom, c.mem_address, c.received_data)
                          ELSE c.eeprom
<1> DEFINE count == IF c.start_cond_found /\ c.sda_output = Released THEN 12 ELSE c.count
           k == IF count > 0 THEN count - 1 ELSE 0
           t == count > 0
           w == (c.write_bits_used + 1) % 8
           b == Bit(Stored(c.eeprom, c.mem_address), 7 - c.write_bits_used)
           f == Store(c.eeprom, c.mem_address, c.received_data)
<1>1. CountBits(c).count = k /\ CountBits(c).trig_state_machine = t
  <2>1. CountBits(c) = [c EXCEPT !.count = k, !.trig_state_machine = t]
    BY DEF CountBits
  <2> HIDE DEF k, t
  <2> QED
    BY <2>1 DEF Chips
<1>2. ChipDrive(c) =
        CASE c.outputs = "send_ack" ->
               [c EXCEPT !.sda_output = 0,
                         !.mem_address = IF c.next_state = "receive_data" THEN c.received_data ELSE @,
                         !.eeprom = IF Stores(c) THEN f ELSE @]
          [] c.outputs = "send_data" -> [c EXCEPT !.sda_output = b, !.write_bits_used = w]
          [] OTHER -> [c EXCEPT !.sda_output = Released]
  BY DEF ChipDrive
<1>3. ChipRiseScl(c) = [ChipDrive(c) EXCEPT !.count = CountBits(c).count,
                                            !.trig_state_machine = CountBits(c).trig_state_machine]
  BY DEF ChipRiseScl
<1>4. Stores(c) => c.outputs = "send_ack"
  BY DEF Stores
<1>5. ChipRiseScl(c) = [ChipDrive(c) EXCEPT !.count = k, !.trig_state_machine = t]
  BY <1>1, <1>3
<1> HIDE DEF k, t, w, b, f
<1>6. LET d == ChipRiseScl(c)
      IN  /\ SameStates(c, d) /\ d.start_cond_found = c.start_cond_found
          /\ d.count = k /\ d.trig_state_machine = t
          /\ d.read_bits_used = c.read_bits_used
          /\ d.jump_to_slave_address_read = c.jump_to_slave_address_read
          /\ d.write_bits_used = IF c.outputs = "send_data" THEN w ELSE c.write_bits_used
          /\ d.received_data = c.received_data
          /\ d.sda_output = CASE c.outputs = "send_ack" -> 0
                             [] c.outputs = "send_data" -> b [] OTHER -> Released
          /\ d.mem_address = IF c.outputs = "send_ack" /\ c.next_state = "receive_data"
                            THEN c.received_data ELSE c.mem_address
          /\ d.eeprom = IF Stores(c) THEN f ELSE c.eeprom
  BY <1>2, <1>4, <1>5 DEF SameStates, Chips
<1> QED
  BY <1>6 DEF k, t, w, b, f

\* The fields of the EEPROM after a falling edge of SCL.
LEMMA ChipFallSclFields ==
  ASSUME NEW c \in Chips, NEW line
  PROVE  LET d == ChipFallScl(c, line)
             byte  == c.outputs \in ChipByteStates
             takes == c.outputs \in {"receive_slave_address", "receive_word_address",
                                     "receive_data", "receive_ack"}
             last  == ~byte \/ c.read_bits_used = 7
             start == ~last /\ c.outputs = "receive_data" /\ c.start_cond_found
             index == IF byte THEN 7 - c.read_bits_used ELSE 0
         IN  /\ SameStates(c, d) /\ SameCounts(c, d)
             /\ d.sda_output = c.sda_output /\ d.start_cond_found = c.start_cond_found
             /\ d.write_bits_used = c.write_bits_used
             /\ d.mem_address = c.mem_address /\ d.eeprom = c.eeprom
             /\ d.received_data = IF takes THEN PutBit(c.received_data, index, IF line = 1 THEN 1 ELSE 0)
                                 ELSE c.received_data
             /\ d.read_bits_used = IF takes THEN IF last \/ start THEN 0 ELSE c.read_bits_used + 1
                                  ELSE c.read_bits_used
             /\ d.jump_to_slave_address_read = IF takes THEN start ELSE c.jump_to_slave_address_read
<1> DEFINE byte  == c.outputs \in ChipByteStates
           takes == c.outputs \in {"receive_slave_address", "receive_word_address",
                                   "receive_data", "receive_ack"}
           last  == ~byte \/ c.read_bits_used = 7
           start == ~last /\ c.outputs = "receive_data" /\ c.start_cond_found
           index == IF byte THEN 7 - c.read_bits_used ELSE 0
           r == PutBit(c.received_data, index, IF line = 1 THEN 1 ELSE 0)
           u == IF last \/ start THEN 0 ELSE c.read_bits_used + 1
<1>1. ChipFallScl(c, line) = IF takes THEN [c EXCEPT !.received_data = r, !.read_bits_used = u,
                                                     !.jump_to_slave_address_read = start]
                             ELSE c
  BY DEF ChipFallScl
<1> HIDE DEF takes, r, u, start
<1>2. LET d == ChipFallScl(c, line)
      IN  /\ SameStates(c, d) /\ SameCounts(c, d)
          /\ d.sda_output = c.sda_output /\ d.start_cond_found = c.start_cond_found
          /\ d.write_bits_used = c.write_bits_used
          /\ d.mem_address = c.mem_address /\ d.eeprom = c.eeprom
          /\ d.received_data = IF takes THEN r ELSE c.received_data
          /\ d.read_bits_used = IF takes THEN u ELSE c.read_bits_used
          /\ d.jump_to_slave_address_read = IF takes THEN start ELSE c.jump_to_slave_address_read
  BY <1>1 DEF SameStates, SameCounts, Chips
<1> QED
  BY <1>2 DEF takes, r, u, start

\* What the edges leave of the master's registers.
SamePlace(m, n) == /\ SameStage(m, n) /\ n.state = m.state /\ n.prev_state = m.prev_state
                   /\ n.eeprom_write_enable_bit = m.eeprom_write_enable_bit
SameDrive(m, n) == n.sda_output = m.sda_output /\ n.write_bits_used = m.write_bits_used
SameClock(m, n) == n.scl_enable = m.scl_enable /\ n.is_ack_received = m.is_ack_received
SameAnswer(m, n) == n.data_out = m.data_out /\ n.read_bits_used = m.read_bits_used

\* The fields of the master after a rising edge of clk_200khz under a low clk_100khz.
LEMMA MasterRiseLowFields ==
  ASSUME NEW m \in Masters, NEW a, NEW d
  PROVE  LET n == MasterRiseLow(m, a, d)
         IN  /\ SamePlace(m, n) /\ SameStarts(m, n) /\ SameClock(m, n) /\ SameAnswer(m, n)
             /\ n.cycles_waited = m.cycles_waited /\ n.trig_state_machine = FALSE
             /\ n.write_bits_used = IF m.outputs \in Sending THEN (m.write_bits_used + 1) % 8
                                   ELSE m.write_bits_used
             /\ n.sda_output =
                  CASE m.outputs \in Sending -> Bit(SentByte(m, a, d), 7 - m.write_bits_used)
                    [] m.outputs \in {"create_start_cond", "create_stop_cond"} -> 0
                    [] m.outputs \in {"create_repeated_start_cond", "send_ack"} -> 1
                    [] m.outputs = "receive_ack" -> Released
                    [] OTHER -> m.sda_output
<1> DEFINE b == Bit(SentByte(m, a, d), 7 - m.write_bits_used)
           w == (m.write_bits_used + 1) % 8
<1>1. DriveWhileLow(m, a, d) =
        CASE m.outputs \in Sending -> [m EXCEPT !.sda_output = b, !.write_bits_used = w]
          [] m.outputs \in {"create_start_cond", "create_stop_cond"} -> [m EXCEPT !.sda_output = 0]
          [] m.outputs \in {"create_repeated_start_cond", "send_ack"} -> [m EXCEPT !.sda_output = 1]
          [] m.outputs = "receive_ack" -> [m EXCEPT !.sda_output = Released]
          [] OTHER -> m
  BY DEF DriveWhileLow, Sending
<1> HIDE DEF b, w
<1>2. LET n == MasterRiseLow(m, a, d)
      IN  /\ SamePlace(m, n) /\ SameStarts(m, n) /\ SameClock(m, n) /\ SameAnswer(m, n)
          /\ n.cycles_waited = m.cycles_waited /\ n.trig_state_machine = FALSE
          /\ n.write_bits_used = IF m.outputs \in Sending THEN w ELSE m.write_bits_used
          /\ n.sda_output =
               CASE m.outputs \in Sending -> b
                 [] m.outputs \in {"create_start_cond", "create_stop_cond"} -> 0
                 [] m.outputs \in {"create_repeated_start_cond", "send_ack"} -> 1
                 [] m.outputs = "receive_ack" -> Released
                 [] OTHER -> m.sda_output
  BY <1>1 DEF MasterRiseLow, SamePlace, SameStage, SameStarts, SameClock, SameAnswer, Masters,
              Sending, ByteStates
<1> QED
  BY <1>2 DEF b, w

\* The fields of the master after a rising edge of clk_100khz.
LEMMA MasterRise100Fields ==
  ASSUME NEW m \in Masters, NEW control
  PROVE  LET n == MasterRise100(m, control)
         IN  /\ SamePlace(m, n) /\ SameClock(m, n) /\ SameAnswer(m, n) /\ SameDrive(m, n)
             /\ n.cycles_waited = m.cycles_waited /\ n.trig_state_machine = m.trig_state_machine
             /\ n.start_read_procedure = (Bit(control, 0) = 1)
             /\ n.start_write_procedure = (Bit(control, 1) = 1)
BY DEF MasterRise100, SamePlace, SameStage, SameClock, SameAnswer, SameDrive, Masters

\* The fields of the master after a rising edge of clk_200khz under a high clk_100khz.
LEMMA MasterRiseHighFields ==
  ASSUME NEW m \in Masters, NEW line
  PROVE  LET n == MasterRiseHigh(m, line)
             waits == m.cycles_waited < WaitCycles(m)
         IN  /\ SameStage(m, n) /\ SameStarts(m, n) /\ SameAnswer(m, n)
             /\ n.prev_state = m.prev_state
             /\ n.eeprom_write_enable_bit = m.eeprom_write_enable_bit
             /\ n.write_bits_used = m.write_bits_used
             /\ n.sda_output =
                  CASE m.outputs \in {"create_start_cond", "create_repeated_start_cond"} -> 0
                    [] m.outputs = "create_stop_cond" -> 1
                    [] OTHER -> m.sda_output
             /\ n.cycles_waited = IF waits THEN m.cycles_waited + 1 ELSE 0
             /\ n.trig_state_machine = ~waits
             /\ n.state = IF waits THEN m.state ELSE m.next_state
             /\ n.scl_enable = ((m.scl_enable \/ m.outputs = "enable_scl")
                                 /\ m.outputs # "create_stop_cond")
             /\ n.is_ack_received = (m.outputs = "receive_ack" /\ line = 0)
<1> DEFINE waits == m.cycles_waited < WaitCycles(m)
           k == m.cycles_waited + 1
           d == DriveWhileHigh(m)
           e == (m.scl_enable \/ m.outputs = "enable_scl") /\ m.outputs # "create_stop_cond"
           r == m.outputs = "receive_ack" /\ line = 0
<1>1. /\ d = CASE m.outputs \in {"create_start_cond", "create_repeated_start_cond"} ->
                    [m EXCEPT !.sda_output = 0]
               [] m.outputs = "create_stop_cond" -> [m EXCEPT !.sda_output = 1]
               [] OTHER -> m
  BY DEF DriveWhileHigh
<1>2. /\ d.cycles_waited = m.cycles_waited /\ WaitCycles(d) = WaitCycles(m)
      /\ d.outputs = m.outputs /\ d.next_state = m.next_state
  BY <1>1 DEF WaitCycles, Masters
<1>3. ChangeState(d) =
        IF waits THEN [d EXCEPT !.cycles_waited = k, !.trig_state_machine = FALSE]
        ELSE [d EXCEPT !.cycles_waited = 0, !.trig_state_machine = TRUE, !.state = m.next_state]
  <2>1. ChangeState(d) =
          IF d.cycles_waited < WaitCycles(d)
          THEN [d EXCEPT !.cycles_waited = d.cycles_waited + 1, !.trig_state_machine = FALSE]
          ELSE [d EXCEPT !.cycles_waited = 0, !.trig_state_machine = TRUE, !.state = d.next_state]
    BY <1>1 DEF ChangeState, Masters
  <2> QED
    BY <1>2, <2>1
<1>4. MasterRiseHigh(m, line) =
        [ChangeState(d) EXCEPT !.scl_enable = e, !.is_ack_received = r]
  <2>1. MasterRiseHigh(m, line) =
          [ChangeState(d) EXCEPT
             !.scl_enable = (@ \/ m.outputs = "enable_scl") /\ m.outputs # "create_stop_cond",
             !.is_ack_received = r]
    BY DEF MasterRiseHigh
  <2>2. ChangeState(d).scl_enable = m.scl_enable
    BY <1>1, <1>3 DEF Masters
  <2> QED
    BY <2>1, <2>2
<1>6. d \in Masters /\ waits \in BOOLEAN /\ e \in BOOLEAN /\ r \in BOOLEAN
  BY DriveWhileHighType
<1> HIDE DEF waits, k, d, e, r
<1>5. LET n == MasterRiseHigh(m, line)
      IN  /\ SameStage(m, n) /\ SameStarts(m, n) /\ SameAnswer(m, n)
          /\ n.prev_state = m.prev_state
          /\ n.eeprom_write_enable_bit = m.eeprom_write_enable_bit
          /\ n.write_bits_used = m.write_bits_used
          /\ n.sda_output =
               CASE m.outputs \in {"create_start_cond", "create_repeated_start_cond"} -> 0
                 [] m.outputs = "create_stop_cond" -> 1
                 [] OTHER -> m.sda_output
          /\ n.cycles_waited = IF waits THEN k ELSE 0
          /\ n.trig_state_machine = ~waits
          /\ n.state = IF waits THEN m.state ELSE m.next_state
          /\ n.scl_enable = e /\ n.is_ack_received = r
  <2> DEFINE n == MasterRiseHigh(m, line)
             x == ChangeState(d)
  <2>1. /\ SameStage(m, d) /\ SameStarts(m, d) /\ SameAnswer(m, d)
        /\ d.prev_state = m.prev_state /\ d.state = m.state
        /\ d.eeprom_write_enable_bit = m.eeprom_write_enable_bit
        /\ d.write_bits_used = m.write_bits_used
        /\ d.sda_output =
             CASE m.outputs \in {"create_start_cond", "create_repeated_start_cond"} -> 0
               [] m.outputs = "create_stop_cond" -> 1
               [] OTHER -> m.sda_output
    BY <1>1 DEF SameStage, SameStarts, SameAnswer, Masters
  <2>2. /\ SameStage(d, x) /\ SameStarts(d, x) /\ SameAnswer(d, x)
        /\ x.prev_state = d.prev_state /\ x.eeprom_write_enable_bit = d.eeprom_write_enable_bit
        /\ SameDrive(d, x)
        /\ x.cycles_waited = IF waits THEN k ELSE 0
        /\ x.trig_state_machine = ~waits
        /\ x.state = IF waits THEN d.state ELSE m.next_state
    BY <1>3, <1>6 DEF SameStage, SameStarts, SameAnswer, SameDrive, Masters
  <2>3. x \in Masters
    BY <1>6, ChangeStateType
  <2> HIDE DEF x
  <2>4. /\ SameStage(x, n) /\ SameStarts(x, n) /\ SameAnswer(x, n) /\ SameDrive(x, n)
        /\ n.prev_state = x.prev_state /\ n.eeprom_write_enable_bit = x.eeprom_write_enable_bit
        /\ n.cycles_waited = x.cycles_waited /\ n.trig_state_machine = x.trig_state_machine
        /\ n.state = x.state /\ n.scl_enable = e /\ n.is_ack_received = r
    BY <1>4, <1>6, <2>3 DEF SameStage, SameStarts, SameAnswer, SameDrive, Masters, x
  <2> HIDE DEF n
  <2>5. /\ SameStage(m, n) /\ SameStarts(m, n) /\ SameAnswer(m, n)
    BY <2>1, <2>2, <2>4 DEF SameStage, SameStarts, SameAnswer
  <2> QED
    BY <2>1, <2>2, <2>4, <2>5 DEF SameDrive, n
<1> QED
  BY <1>5 DEF waits, k, e, r

\* The fields of the master after a falling edge of clk_100khz.
LEMMA MasterFallFields ==
  ASSUME NEW m \in Masters, NEW control, NEW line
  PROVE  LET n == MasterFall(m, control, line)
             next == Successor(m, control)
         IN  /\ SameStarts(m, n) /\ SameDrive(m, n) /\ SameClock(m, n)
             /\ n.cycles_waited = m.cycles_waited /\ n.trig_state_machine = m.trig_state_machine
             /\ ~m.trig_state_machine => SamePlace(m, n)
             /\ m.trig_state_machine =>
                  /\ n.outputs = m.state /\ n.next_state = next /\ n.state = m.state
                  /\ n.prev_state = IF next = "i2c_nop" /\ m.state # "write_to_ram"
                                    THEN "i2c_nop" ELSE m.state
                  /\ n.eeprom_write_enable_bit =
                       IF m.state = "i2c_nop" THEN next # "i2c_nop" /\ ~m.start_read_procedure
                       ELSE m.eeprom_write_enable_bit
             /\ n.data_out = IF m.outputs = "read_data"
                             THEN PutBit(m.data_out, 7 - m.read_bits_used, IF line = 1 THEN 1 ELSE 0)
                             ELSE m.data_out
             /\ n.read_bits_used = IF m.outputs = "read_data" THEN (m.read_bits_used + 1) % 8
                                   ELSE m.read_bits_used
<1> DEFINE next == Successor(m, control)
           p == IF next = "i2c_nop" /\ m.state # "write_to_ram" THEN "i2c_nop" ELSE m.state
           w == IF m.state = "i2c_nop" THEN next # "i2c_nop" /\ ~m.start_read_procedure
                ELSE m.eeprom_write_enable_bit
           v == StateMachine(m, control)
           b == IF m.outputs = "read_data"
                THEN PutBit(m.data_out, 7 - m.read_bits_used, IF line = 1 THEN 1 ELSE 0)
                ELSE m.data_out
           u == IF m.outputs = "read_data" THEN (m.read_bits_used + 1) % 8 ELSE m.read_bits_used
<1>1. v = IF ~m.trig_state_machine THEN m
          ELSE [m EXCEPT !.next_state = next, !.prev_state = p, !.outputs = m.state,
                         !.eeprom_write_enable_bit = w]
  BY DEF StateMachine
<1>2. ReadBit(m, line).data_out = b /\ ReadBit(m, line).read_bits_used = u
  <2> DEFINE x == PutBit(m.data_out, 7 - m.read_bits_used, IF line = 1 THEN 1 ELSE 0)
             y == (m.read_bits_used + 1) % 8
  <2>1. ReadBit(m, line) = IF m.outputs = "read_data"
                           THEN [m EXCEPT !.data_out = x, !.read_bits_used = y] ELSE m
    BY DEF ReadBit
  <2>2. b = (IF m.outputs = "read_data" THEN x ELSE m.data_out)
        /\ u = (IF m.outputs = "read_data" THEN y ELSE m.read_bits_used)
    OBVIOUS
  <2> HIDE DEF x, y, b, u
  <2> QED
    BY <2>1, <2>2 DEF Masters
<1>3. MasterFall(m, control, line) = [v EXCEPT !.data_out = b, !.read_bits_used = u]
  BY <1>2 DEF MasterFall
<1> HIDE DEF next, p, w, v, b, u
<1>4. LET n == MasterFall(m, control, line)
      IN  /\ SameStarts(m, n) /\ SameDrive(m, n) /\ SameClock(m, n)
          /\ n.cycles_waited = m.cycles_waited /\ n.trig_state_machine = m.trig_state_machine
          /\ ~m.trig_state_machine => SamePlace(m, n)
          /\ m.trig_state_machine =>
               /\ n.outputs = m.state /\ n.next_state = next /\ n.state = m.state
               /\ n.prev_state = p /\ n.eeprom_write_enable_bit = w
          /\ n.data_out = b /\ n.read_bits_used = u
  BY <1>1, <1>3 DEF SameStarts, SameDrive, SameClock, SamePlace, SameStage, Masters
<1> QED
  BY <1>4 DEF next, p, w, b, u

-----------------------------------------------------------------------------
MasterTypes(m) ==
    /\ m.outputs \in MasterStates /\ m.next_state \in MasterStates
    /\ m.state \in MasterStates /\ m.prev_state \in MasterStates
    /\ m.cycles_waited \in Nat /\ m.trig_state_machine \in BOOLEAN
    /\ m.write_bits_used \in 0..7 /\ m.read_bits_used \in 0..7
    /\ m.sda_output \in Driven /\ m.scl_enable \in BOOLEAN /\ m.is_ack_received \in BOOLEAN
    /\ m.eeprom_write_enable_bit \in BOOLEAN

\* The master within its types, in the form the protocol lemmas use.
LEMMA MasterTyped == ASSUME NEW m \in Masters PROVE MasterTypes(m)
<1>1. m.cycles_waited \in 0..7 \cup 0..RamWait
  BY DEF Masters
<1>2. m.cycles_waited \in Nat
  BY <1>1, RamWaitAssumption, SMT
<1> QED
  BY <1>2 DEF Masters, MasterTypes

\* The value on SDA.
LEMMA LineValue ==
  ASSUME NEW m, NEW c, m.sda_output \in Driven, c.sda_output \in Driven
  PROVE  Line(m, c) = IF c.sda_output = Released THEN m.sda_output
                      ELSE IF m.sda_output \in {Released, c.sda_output} THEN c.sda_output
                      ELSE Conflict
<1> DEFINE driven == {m.sda_output, c.sda_output} \ {Released}
<1>1. Released \notin {0, 1}
  BY SMT DEF Released
<1>2. CASE driven = {}
  BY <1>2 DEF Line
<1>3. CASE driven = {0, 1}
  BY <1>1, <1>3 DEF Line, Driven
<1>4. CASE driven \notin {{}, {0, 1}}
  <2>1. PICK v \in driven : driven = {v}
    BY <1>4 DEF Driven
  <2>2. Line(m, c) = v
    BY <1>4, <2>1 DEF Line
  <2> QED
    BY <1>4, <2>1, <2>2 DEF Driven
<1> QED
  BY <1>2, <1>3, <1>4

\* The tables, entry by entry.
LEMMA HearsAt ==
  /\ \A s \in {"i2c_nop", "create_start_cond", "enable_scl", "write_slave_addr_write_mode",
               "write_slave_addr_read_mode", "write_to_ram"} : Hears[s] = "receive_slave_address"
  /\ Hears["write_word_addr"] = "receive_word_address"
  /\ Hears["create_repeated_start_cond"] = "receive_data" /\ Hears["write_data"] = "receive_data"
  /\ Hears["read_data"] = "send_data" /\ Hears["receive_ack"] = "send_ack"
  /\ Hears["send_ack"] = "receive_ack" /\ Hears["create_stop_cond"] = "expect_stop_cond"
BY DEF Hears

\* Follows, state by state.
LEMMA FollowsAt ==
  /\ \A x \in {"receive_slave_address", "receive_word_address", "receive_data"} :
        Follows[x] = "send_ack"
  /\ Follows["send_data"] = "receive_ack" /\ Follows["receive_ack"] = "expect_stop_cond"
  /\ Follows["expect_stop_cond"] = "receive_slave_address"
BY DEF Follows

Quietly(m, n) == /\ SamePlace(m, n) /\ n.cycles_waited = m.cycles_waited

\* n and d are m and c after the edge, as far as the protocol goes; b is the bit sent.
LowRiseMove(m, c, n, d, b) ==
    /\ Quietly(m, n) /\ SameClock(m, n) /\ n.read_bits_used = m.read_bits_used
    /\ ~n.trig_state_machine
    /\ n.write_bits_used = IF m.outputs \in Sending THEN (m.write_bits_used + 1) % 8
                           ELSE m.write_bits_used
    /\ n.sda_output =
          CASE m.outputs \in Sending -> b
            [] m.outputs \in {"create_start_cond", "create_stop_cond"} -> 0
            [] m.outputs \in {"create_repeated_start_cond", "send_ack"} -> 1
            [] m.outputs = "receive_ack" -> Released
            [] OTHER -> m.sda_output
    /\ d.state = IF c.jump_to_slave_address_read THEN "receive_slave_address"
                 ELSE IF c.outputs \in ChipByteStates /\ c.cycles_waited < 7
                 THEN c.state ELSE c.next_state
    /\ d.cycles_waited = IF /\ ~c.jump_to_slave_address_read
                            /\ c.outputs \in ChipByteStates /\ c.cycles_waited < 7
                         THEN c.cycles_waited + 1 ELSE 0
    /\ d.is_read <=> (c.jump_to_slave_address_read
          \/ (c.is_read /\ ~(/\ c.next_state = "receive_slave_address"
                             /\ c.prev_state = "receive_slave_address")))
    /\ d.next_state = c.next_state /\ d.prev_state = c.prev_state /\ d.outputs = c.outputs
    /\ SameBits(c, d) /\ SameCounts(c, d)
    /\ d.sda_output = c.sda_output
    /\ d.start_cond_found <=> IF Line(m, c) = 1 /\ Line(n, d) = 0 THEN ~m.scl_enable
                              ELSE c.start_cond_found

\* The edge changes none of the numbers that the invariant is stated in.
LEMMA LowRiseView ==
  ASSUME NEW m, NEW c, NEW n, NEW d, NEW b, LowRiseMove(m, c, n, d, b), MasterTypes(m),
         Placed(m, "low_rise"), OnCourse(m)
  PROVE  /\ n.outputs = m.outputs /\ n.next_state = m.next_state
         /\ n.eeprom_write_enable_bit = m.eeprom_write_enable_bit
         /\ BitNo(m, "low_rise") = m.cycles_waited /\ BitNo(n, "high_fall") = m.cycles_waited
         /\ Shown(n, "high_fall") = Shown(m, "low_rise")
         /\ Silent(n, "high_fall") <=> Silent(m, "low_rise")
         /\ EdgesLeft(n, "high_fall") = EdgesLeft(m, "low_rise")
         /\ m.cycles_waited # 0 => m.outputs \in ByteStates \cup {"write_to_ram"}
         /\ m.outputs \in ByteStates => m.cycles_waited <= 7
         /\ m.cycles_waited \in Nat /\ m.outputs \in MasterStates
         /\ Shown(m, "low_rise") =
              IF m.cycles_waited = 0 THEN Heard(m.outputs, m.next_state, m.eeprom_write_enable_bit)
              ELSE Hears[m.outputs]
<1>1. n.outputs = m.outputs /\ n.cycles_waited = m.cycles_waited /\ n.next_state = m.next_state
      /\ n.eeprom_write_enable_bit = m.eeprom_write_enable_bit
  BY DEF LowRiseMove, Quietly, SamePlace, SameStage
<1>2. /\ Shown(n, "high_fall") = Shown(m, "low_rise")
      /\ BitNo(n, "high_fall") = m.cycles_waited /\ BitNo(m, "low_rise") = m.cycles_waited
  BY <1>1 DEF Shown, BitNo, Early
<1>3. /\ Silent(n, "high_fall") <=> Silent(m, "low_rise")
      /\ EdgesLeft(n, "high_fall") = EdgesLeft(m, "low_rise")
  BY <1>1, <1>2 DEF Silent, EdgesLeft, Early
<1>4. m.cycles_waited <= WaitCycles(m) /\ m.cycles_waited \in Nat /\ m.outputs \in MasterStates
  BY DEF MasterTypes, Placed, Taken
<1>5. /\ m.cycles_waited # 0 => m.outputs \in ByteStates \cup {"write_to_ram"}
      /\ m.outputs \in ByteStates => m.cycles_waited <= 7
  BY <1>4, SMT DEF WaitCycles
<1> QED
  BY <1>1, <1>2, <1>3, <1>4, <1>5 DEF Shown, Early

\* The master stays on its course at the rise of clk_200khz under a low clk_100khz.
LEMMA LowRiseOnCourse ==
  ASSUME NEW m, NEW c, NEW n, NEW d, NEW b, LowRiseMove(m, c, n, d, b), OnCourse(m)
  PROVE  OnCourse(n)
BY DEF OnCourse, LowRiseMove, Quietly, SamePlace, SameStage

\* The states and counters of the EEPROM after the rise of clk_200khz under a low clk_100khz.
LEMMA LowRisePlaced ==
  ASSUME NEW m, NEW c, NEW n, NEW d, NEW b, LowRiseMove(m, c, n, d, b), OnCourse(m),
         MasterTypes(m), Placed(m, "low_rise"), ChipTypeOK(c), ChipPlaced(m, c, "low_rise")
  PROVE  ChipPlaced(n, d, "high_fall")
<1> DEFINE s == m.outputs
           k == m.cycles_waited
<1>1. n.outputs = s /\ n.cycles_waited = k /\ n.next_state = m.next_state
      /\ n.eeprom_write_enable_bit = m.eeprom_write_enable_bit
  BY DEF LowRiseMove, Quietly, SamePlace, SameStage
<1>2. /\ Shown(n, "high_fall") = Shown(m, "low_rise") /\ (Silent(n, "high_fall") <=> Silent(m, "low_rise"))
      /\ BitNo(n, "high_fall") = k /\ BitNo(m, "low_rise") = k
  BY <1>1 DEF Shown, Silent, BitNo, Early
<1>3. k \in Nat /\ k <= WaitCycles(m) /\ s \in MasterStates
  BY DEF MasterTypes, Placed, Taken
<1> DEFINE x == Shown(m, "low_rise")
           y == Silent(m, "low_rise")
<1>4. /\ c.state = x /\ c.prev_state = x /\ c.outputs = IF y THEN "idle" ELSE x
      /\ c.next_state = IF y THEN x
                        ELSE IF x = "send_ack"
                             THEN Hears[IF s = "receive_ack" THEN m.next_state ELSE s]
                        ELSE Follows[x]
      /\ s \in ByteStates => (k # 0 => c.cycles_waited = k - 1)
      /\ s \in {"receive_ack", "send_ack"} => c.cycles_waited = 7
      /\ c.read_bits_used = IF s \in Sending THEN k ELSE 0
      /\ c.write_bits_used = IF s = "read_data" THEN k ELSE 0
      /\ c.jump_to_slave_address_read <=> (s = "write_slave_addr_read_mode" /\ k = 0)
  BY <1>2 DEF ChipPlaced, Early
<1>5. /\ d.prev_state = x /\ d.outputs = IF y THEN "idle" ELSE x
      /\ d.next_state = c.next_state
      /\ d.read_bits_used = IF s \in Sending THEN k ELSE 0
      /\ d.write_bits_used = IF s = "read_data" THEN k ELSE 0
      /\ d.jump_to_slave_address_read <=> (s = "write_slave_addr_read_mode" /\ k = 0)
  BY <1>4 DEF LowRiseMove, SameBits
<1>6. x = IF k = 0 THEN Heard(s, m.next_state, m.eeprom_write_enable_bit) ELSE Hears[s]
  BY DEF Shown, Early
<1>9. y <=> x = "receive_slave_address" /\ s # "receive_ack"
             /\ (s \in {"write_slave_addr_write_mode", "write_slave_addr_read_mode"} => k = 0)
  BY <1>2 DEF Silent
<1>10. k # 0 => s \in ByteStates \cup {"write_to_ram"}
  BY <1>3, SMT DEF WaitCycles
<1>11. s \in ByteStates => k <= 7
  BY <1>3, SMT DEF WaitCycles
<1>12. /\ d.state = IF c.jump_to_slave_address_read THEN "receive_slave_address"
                    ELSE IF c.outputs \in ChipByteStates /\ c.cycles_waited < 7
                    THEN c.state ELSE c.next_state
       /\ d.cycles_waited = IF /\ ~c.jump_to_slave_address_read
                               /\ c.outputs \in ChipByteStates /\ c.cycles_waited < 7
                            THEN c.cycles_waited + 1 ELSE 0
  BY DEF LowRiseMove
<1> HIDE DEF s, k, x, y
<1>7. d.state = Hears[s] /\ (s \in ByteStates => d.cycles_waited = k)
  <2>1. CASE k # 0 /\ s = "write_to_ram"
    BY <1>4, <1>6, <1>9, <1>12, <2>1 DEF Hears, ByteStates, ChipByteStates
  <2>2. CASE k # 0 /\ s \in ByteStates
    <3>1. c.cycles_waited = k - 1 /\ c.cycles_waited < 7 /\ c.cycles_waited + 1 = k
      BY <1>3, <1>4, <1>11, <2>2, SMT DEF k
    <3>2. ~y /\ x \in ChipByteStates /\ x = Hears[s]
      BY <1>6, <1>9, <2>2 DEF Hears, ByteStates, ChipByteStates
    <3> QED
      BY <1>4, <1>12, <2>2, <3>1, <3>2
  <2>3. CASE k = 0
    <3>1. x = Heard(s, m.next_state, m.eeprom_write_enable_bit)
      BY <1>6, <2>3
    <3>2. CASE s \in {"i2c_nop", "create_start_cond", "enable_scl", "write_slave_addr_write_mode"}
      BY <1>4, <1>9, <1>12, <2>3, <3>1, <3>2 DEF Hears, Heard, ChipByteStates
    <3>3. CASE s = "write_slave_addr_read_mode"
      BY <1>4, <1>12, <2>3, <3>3 DEF Hears
    <3>4. CASE s \in {"receive_ack", "send_ack"}
      <4>1. ~(c.cycles_waited < 7)
        BY <1>4, <3>4, SMT
      <4>2. d.state = c.next_state /\ s \notin ByteStates
        BY <1>4, <1>12, <3>4, <4>1 DEF ByteStates
      <4>3. x \in {"receive_slave_address", "receive_word_address", "receive_data", "send_data"}
            /\ ~y /\ (s = "receive_ack" => x # "send_data") /\ (s = "send_ack" => x = "send_data")
        BY <1>9, <3>1, <3>4 DEF Heard
      <4> QED
        BY <1>4, <3>4, <4>2, <4>3, HearsAt, FollowsAt
    <3>5. CASE s \in {"write_word_addr", "create_repeated_start_cond", "write_data", "read_data"}
      BY <1>4, <1>9, <1>12, <2>3, <3>1, <3>5 DEF Hears, Heard, ChipByteStates
    <3>6. CASE s \in {"create_stop_cond", "write_to_ram"}
      BY <1>4, <1>9, <1>12, <2>3, <3>1, <3>6, HearsAt, FollowsAt DEF Heard, ChipByteStates, ByteStates
    <3> QED
      BY <1>3, <3>2, <3>3, <3>4, <3>5, <3>6 DEF MasterStates, ByteStates
  <2> QED
    BY <1>10, <2>1, <2>2, <2>3
<1> QED
  BY <1>1, <1>2, <1>4, <1>5, <1>7 DEF ChipPlaced, Early

\* Whether the EEPROM takes the transfer for a read, after the rise of clk_200khz under a low clk_100khz.
LEMMA LowRiseReads ==
  ASSUME NEW m, NEW c, NEW n, NEW d, NEW b, LowRiseMove(m, c, n, d, b), OnCourse(m),
         MasterTypes(m), Placed(m, "low_rise"), ChipTypeOK(c), ChipPlaced(m, c, "low_rise"),
         ChipStarted(m, c, "low_rise"), ChipReads(m, c, "low_rise")
  PROVE  ChipReads(n, d, "high_fall")
<1> DEFINE s == m.outputs
           k == m.cycles_waited
           x == Shown(m, "low_rise")
<1>1. d.is_read <=> (c.jump_to_slave_address_read
          \/ (c.is_read /\ ~(/\ c.next_state = "receive_slave_address"
                             /\ c.prev_state = "receive_slave_address")))
  BY DEF LowRiseMove
<1>2. /\ c.prev_state = x
      /\ c.next_state = IF Silent(m, "low_rise") THEN x
                        ELSE IF x = "send_ack"
                             THEN Hears[IF s = "receive_ack" THEN m.next_state ELSE s]
                        ELSE Follows[x]
      /\ c.jump_to_slave_address_read <=> (s = "write_slave_addr_read_mode" /\ k = 0)
  BY LowRiseView DEF ChipPlaced
<1>3. CASE s = "write_slave_addr_read_mode" /\ k = 0
  BY <1>1, <1>2, <1>3, LowRiseView DEF ChipReads
<1>4. CASE s = "write_slave_addr_read_mode" /\ k # 0
  <2>1. x = "receive_slave_address" /\ ~Silent(m, "low_rise") /\ c.is_read
    BY <1>4, LowRiseView, HearsAt DEF Silent, ChipReads
  <2> QED
    BY <1>1, <1>2, <1>4, <2>1, LowRiseView, FollowsAt DEF ChipReads
<1>5. CASE s = "read_data" \/ (s = "receive_ack" /\ m.next_state = "read_data")
  <2>1. c.is_read /\ (s = "read_data" => x \in {"send_ack", "send_data"})
        /\ (s = "receive_ack" => x = "receive_slave_address" \/ x = "send_ack")
        /\ (s = "receive_ack" => ~Silent(m, "low_rise"))
    BY <1>5, LowRiseView, HearsAt DEF ChipReads, Heard, Silent
  <2>2. c.next_state # "receive_slave_address" \/ c.prev_state # "receive_slave_address"
    BY <1>2, <1>5, <2>1, FollowsAt
  <2> QED
    BY <1>1, <2>1, <2>2 DEF ChipReads
<1>6. n.outputs = s /\ n.next_state = m.next_state
  BY LowRiseView
<1> QED
  BY <1>3, <1>4, <1>5, <1>6 DEF ChipReads

\* What the EEPROM knows of start conditions after the rise of clk_200khz under a low clk_100khz.
LEMMA LowRiseStarted ==
  ASSUME NEW m, NEW c, NEW n, NEW d, NEW b, LowRiseMove(m, c, n, d, b), OnCourse(m),
         MasterTypes(m), Placed(m, "low_rise"), ChipTypeOK(c), ChipPlaced(m, c, "low_rise"),
         ChipStarted(m, c, "low_rise"), Wires(m, c, "low_rise"), b \in {0, 1},
         (/\ m.outputs \in {"write_slave_addr_write_mode", "write_slave_addr_read_mode"}
          /\ m.write_bits_used = 1) => b = 0
  PROVE  ChipStarted(n, d, "high_fall")
<1> DEFINE s == m.outputs
           k == m.cycles_waited
           x == Shown(m, "low_rise")
           falls == Line(m, c) = 1 /\ Line(n, d) = 0
           reads == {"write_slave_addr_write_mode", "write_slave_addr_read_mode"}
<1>1. d.is_read <=> (c.jump_to_slave_address_read
          \/ (c.is_read /\ ~(/\ c.next_state = "receive_slave_address"
                             /\ c.prev_state = "receive_slave_address")))
  BY DEF LowRiseMove
<1>2. /\ d.count = c.count /\ d.trig_state_machine = c.trig_state_machine /\ d.sda_output = c.sda_output
      /\ d.start_cond_found <=> IF falls THEN ~m.scl_enable ELSE c.start_cond_found
  BY DEF LowRiseMove, SameCounts
<1>3. /\ c.prev_state = x
      /\ c.next_state = IF Silent(m, "low_rise") THEN x
                        ELSE IF x = "send_ack"
                             THEN Hears[IF s = "receive_ack" THEN m.next_state ELSE s]
                        ELSE Follows[x]
      /\ c.jump_to_slave_address_read <=> (s = "write_slave_addr_read_mode" /\ k = 0)
  BY LowRiseView DEF ChipPlaced
<1>4. /\ s \in {"enable_scl", "write_slave_addr_write_mode", "write_word_addr", "write_data",
               "create_repeated_start_cond", "create_start_cond"}
         \/ (s = "receive_ack" /\ m.next_state # "read_data") => ~d.is_read
  <2>1. CASE s = "create_start_cond"
    <3>1. k = 0 /\ x = "receive_slave_address" /\ Silent(m, "low_rise")
      BY <2>1, LowRiseView DEF Heard, Silent, ByteStates
    <3> QED
      BY <1>1, <1>3, <2>1, <3>1
  <2>2. CASE s # "create_start_cond"
    BY <1>1, <1>3, <2>2 DEF ChipStarted
  <2> QED
    BY <2>1, <2>2
<1>5. CASE s \in {"read_data", "send_ack"}
  BY <1>2, <1>4, <1>5, LowRiseView DEF ChipStarted, Early
<1>6. /\ m.sda_output \in Driven /\ c.sda_output \in Driven /\ n.sda_output \in Driven
      /\ d.sda_output = c.sda_output
      /\ n.sda_output =
          CASE m.outputs \in Sending -> b
            [] m.outputs \in {"create_start_cond", "create_stop_cond"} -> 0
            [] m.outputs \in {"create_repeated_start_cond", "send_ack"} -> 1
            [] m.outputs = "receive_ack" -> Released
            [] OTHER -> m.sda_output
  BY DEF LowRiseMove, MasterTypes, ChipTypeOK, Driven
<1>7. /\ Line(m, c) = IF c.sda_output = Released THEN m.sda_output
                      ELSE IF m.sda_output \in {Released, c.sda_output} THEN c.sda_output
                      ELSE Conflict
      /\ Line(n, d) = IF c.sda_output = Released THEN n.sda_output
                      ELSE IF n.sda_output \in {Released, c.sda_output} THEN c.sda_output
                      ELSE Conflict
  BY <1>6, LineValue
<1>8. /\ x = "send_ack" => c.sda_output = 0
      /\ x \notin {"send_ack", "send_data"} => c.sda_output = Released
      /\ m.scl_enable <=> s \in ByteStates \cup {"receive_ack", "create_repeated_start_cond",
                                               "send_ack", "create_stop_cond"}
  BY DEF Wires
<1>9. ASSUME s \notin {"read_data", "send_ack"}
      PROVE  d.start_cond_found <=> (s \in {"create_start_cond", "enable_scl"} \/ (s \in reads /\ k = 0))
  <2>1. CASE s = "create_start_cond"
    <3>1. x = "receive_slave_address" /\ m.sda_output = 1 /\ n.sda_output = 0 /\ ~m.scl_enable
      BY <1>6, <1>8, <2>1, LowRiseView DEF Heard, ByteStates, Wires, Sending
    <3> QED
      BY <1>2, <1>7, <1>8, <2>1, <3>1
  <2>2. CASE s = "enable_scl"
    <3>1. x = "receive_slave_address" /\ m.sda_output = 0 /\ c.start_cond_found
      BY <1>8, <2>2, LowRiseView DEF Heard, ByteStates, Wires, ChipStarted
    <3> QED
      BY <1>2, <1>7, <1>8, <2>2, <3>1
  <2>3. CASE s \in reads /\ k = 0
    <3>1. x \in {"receive_slave_address", "receive_data"} /\ m.sda_output = 0 /\ c.start_cond_found
      BY <1>8, <2>3, LowRiseView DEF Heard, ByteStates, Wires, ChipStarted
    <3> QED
      BY <1>2, <1>7, <1>8, <2>3, <3>1
  <2>4. CASE s \in reads /\ k = 1
    <3>1. x = "receive_slave_address" /\ m.sda_output = 1 /\ m.write_bits_used = 1
      BY <1>8, <2>4, LowRiseView, HearsAt DEF Wires, Sending, ByteStates
    <3>2. n.sda_output = 0 /\ m.scl_enable
      BY <1>6, <1>8, <2>4, <3>1 DEF Sending, ByteStates
    <3> QED
      BY <1>2, <1>7, <1>8, <2>4, <3>1, <3>2
  <2>5. CASE s \in reads /\ k \notin {0, 1}
    <3>1. ~c.start_cond_found /\ m.scl_enable
      BY <1>8, <2>5, LowRiseView DEF ChipStarted, ByteStates
    <3> QED
      BY <1>2, <2>5, <3>1
  <2>6. CASE s = "create_stop_cond"
    <3>1. k = 0 /\ m.scl_enable
      BY <1>8, <2>6, LowRiseView DEF ByteStates
    <3>2. CASE m.eeprom_write_enable_bit
      <4>1. m.sda_output = Released /\ c.sda_output = 0 /\ ~c.start_cond_found
        BY <1>8, <2>6, <3>1, <3>2, LowRiseView DEF Heard, Wires, ChipStarted
      <4> QED
        BY <1>2, <1>7, <2>6, <3>1, <4>1
    <3>3. CASE ~m.eeprom_write_enable_bit
      <4>1. m.sda_output = 1 /\ c.sda_output = Released /\ n.sda_output = 0
        BY <1>6, <1>8, <2>6, <3>1, <3>3, LowRiseView DEF Heard, Wires, Sending, ByteStates
      <4> QED
        BY <1>2, <1>7, <2>6, <3>1, <4>1
    <3> QED
      BY <3>2, <3>3
  <2>7. CASE s \in {"i2c_nop", "write_to_ram"}
    <3>1. ~c.start_cond_found /\ n.sda_output = m.sda_output
      BY <1>6, <2>7 DEF ChipStarted, Sending, ByteStates
    <3> QED
      BY <1>2, <1>7, <2>7, <3>1
  <2>8. CASE s \in {"write_word_addr", "write_data", "create_repeated_start_cond", "receive_ack"}
    <3>1. ~c.start_cond_found /\ m.scl_enable
      BY <1>8, <2>8 DEF ChipStarted, ByteStates
    <3> QED
      BY <1>2, <2>8, <3>1
  <2> QED
    BY <1>9, <2>1, <2>2, <2>3, <2>4, <2>5, <2>6, <2>7, <2>8, LowRiseView DEF MasterStates, ByteStates
<1>10. /\ c.count = EdgesLeft(m, "low_rise")
       /\ s \in reads => c.trig_state_machine <=> (k # 0)
       /\ c.trig_state_machine => EdgesLeft(m, "low_rise") > 0 \/ s \in {"write_word_addr", "read_data"}
       /\ s \in {"write_word_addr", "read_data"} /\ c.trig_state_machine => k <= 3
  BY LowRiseView DEF ChipStarted, Early
<1>11. /\ n.outputs = s /\ n.next_state = m.next_state /\ BitNo(n, "high_fall") = k
       /\ EdgesLeft(n, "high_fall") = EdgesLeft(m, "low_rise") /\ Early("high_fall")
  BY LowRiseView DEF Early
<1> HIDE DEF s, k, x, falls
<1> QED
  BY <1>2, <1>4, <1>9, <1>10, <1>11 DEF ChipStarted

\* What drives the wires after the rise of clk_200khz under a low clk_100khz.
LEMMA LowRiseWires ==
  ASSUME NEW m, NEW c, NEW n, NEW d, NEW b, LowRiseMove(m, c, n, d, b), OnCourse(m),
         MasterTypes(m), Placed(m, "low_rise"), ChipTypeOK(c), Wires(m, c, "low_rise"),
         b \in {0, 1},
         m.outputs \in {"write_slave_addr_write_mode", "write_slave_addr_read_mode"} =>
            (m.write_bits_used = 0 => b = 1) /\ (m.write_bits_used = 1 => b = 0)
  PROVE  Wires(n, d, "high_fall")
<1> DEFINE s == m.outputs
           k == m.cycles_waited
           x == Shown(m, "low_rise")
<1>1. /\ n.outputs = s /\ n.next_state = m.next_state /\ BitNo(n, "high_fall") = k
      /\ n.eeprom_write_enable_bit = m.eeprom_write_enable_bit
      /\ Shown(n, "high_fall") = x /\ BitNo(m, "low_rise") = k
      /\ k # 0 => s \in ByteStates \cup {"write_to_ram"}
      /\ s \in MasterStates
  BY LowRiseView
<1>2. /\ n.write_bits_used = IF s \in Sending THEN (m.write_bits_used + 1) % 8 ELSE m.write_bits_used
      /\ n.scl_enable = m.scl_enable /\ n.read_bits_used = m.read_bits_used
      /\ d.sda_output = c.sda_output
      /\ n.sda_output =
          CASE s \in Sending -> b
            [] s \in {"create_start_cond", "create_stop_cond"} -> 0
            [] s \in {"create_repeated_start_cond", "send_ack"} -> 1
            [] s = "receive_ack" -> Released
            [] OTHER -> m.sda_output
  BY DEF LowRiseMove, SameClock
<1>3. /\ m.write_bits_used = IF s \in Sending THEN k ELSE 0
      /\ n.scl_enable <=> \/ s \in ByteStates \cup {"receive_ack", "create_repeated_start_cond", "send_ack"}
                         \/ s = "create_stop_cond"
      /\ n.read_bits_used = IF s = "read_data" THEN k ELSE 0
  BY <1>1, <1>2 DEF Wires
<1>4. /\ CASE x = "send_ack" -> d.sda_output = 0
           [] x = "send_data" -> d.sda_output \in {0, 1}
           [] OTHER -> d.sda_output = Released
  BY <1>2 DEF Wires
<1>5. /\ s \in {"i2c_nop", "write_to_ram"} => n.sda_output = 1
      /\ s \in {"create_start_cond", "enable_scl", "create_stop_cond"} => n.sda_output = 0
      /\ s \in {"write_slave_addr_write_mode", "write_slave_addr_read_mode"} =>
            (k = 0 => n.sda_output = 1) /\ (k = 1 => n.sda_output = 0)
      /\ s \in Sending => n.sda_output \in {0, 1}
      /\ s \in {"receive_ack", "read_data"} => n.sda_output = Released
      /\ s \in {"create_repeated_start_cond", "send_ack"} => n.sda_output = 1
  BY <1>2, <1>3 DEF Wires, Sending, ByteStates
<1> HIDE DEF s, k, x
<1> QED
  BY <1>1, <1>2, <1>3, <1>4, <1>5 DEF Wires

-----------------------------------------------------------------------------
\* What ChipFall200 leaves alone, and what it does.
Falls(c, f) ==
    /\ f.next_state = ChipSuccessor(c)
    /\ f.prev_state = IF c.state = "send_ack" /\ c.prev_state \notin ChipByteStates \ {"send_data"}
                      THEN c.prev_state ELSE c.state
    /\ f.outputs = IF c.state = "receive_slave_address" /\ ~c.trig_state_machine
                   THEN "idle" ELSE c.state
    /\ f.state = c.state /\ f.cycles_waited = c.cycles_waited /\ f.is_read = c.is_read
    /\ SameBits(c, f) /\ SameCounts(c, f) /\ SameBytes(c, f)
    /\ f.sda_output = c.sda_output /\ f.start_cond_found = c.start_cond_found

\* m and c rise to n and d, f is the chip in between; b is the bit the chip sends.
HighFallMove(m, c, f, n, d, b) ==
    /\ Quietly(m, n) /\ SameDrive(m, n) /\ n.read_bits_used = m.read_bits_used
    /\ n.scl_enable = m.scl_enable /\ n.trig_state_machine = m.trig_state_machine
    /\ Falls(c, f)
    /\ d.state = f.state /\ d.next_state = f.next_state /\ d.prev_state = f.prev_state
    /\ d.outputs = f.outputs /\ d.cycles_waited = f.cycles_waited /\ d.is_read = f.is_read
    /\ d.read_bits_used = f.read_bits_used
    /\ d.jump_to_slave_address_read = f.jump_to_slave_address_read
    /\ d.count = IF m.scl_enable
                 THEN IF f.start_cond_found /\ f.sda_output = Released THEN 11
                      ELSE IF f.count > 0 THEN f.count - 1 ELSE 0
                 ELSE f.count
    /\ d.trig_state_machine <=>
          IF m.scl_enable THEN (f.start_cond_found /\ f.sda_output = Released) \/ f.count > 0
          ELSE f.trig_state_machine
    /\ d.write_bits_used = IF m.scl_enable /\ f.outputs = "send_data" THEN (f.write_bits_used + 1) % 8
                           ELSE f.write_bits_used
    /\ d.sda_output = IF m.scl_enable THEN CASE f.outputs = "send_ack" -> 0
                                            [] f.outputs = "send_data" -> b
                                            [] OTHER -> Released
                      ELSE f.sda_output
    /\ d.start_cond_found <=> (Line(m, c) = 1 /\ Line(n, d) = 0) \/ f.start_cond_found

\* Before and after this edge the same state is shown, and it is the one the master is in.
LEMMA HighFallView ==
  ASSUME NEW m, NEW n, Quietly(m, n), MasterTypes(m), Placed(m, "high_fall")
  PROVE  /\ n.outputs = m.outputs /\ n.next_state = m.next_state
         /\ n.eeprom_write_enable_bit = m.eeprom_write_enable_bit
         /\ BitNo(m, "high_fall") = m.cycles_waited /\ BitNo(n, "high_rise") = m.cycles_waited
         /\ Early("high_fall") /\ ~Early("high_rise")
         /\ Shown(n, "high_rise") = Hears[m.outputs]
         /\ m.cycles_waited # 0 => m.outputs \in ByteStates \cup {"write_to_ram"}
         /\ m.outputs \in ByteStates => m.cycles_waited <= 7
         /\ m.cycles_waited \in Nat /\ m.outputs \in MasterStates
         /\ Shown(m, "high_fall") =
              IF m.cycles_waited = 0 THEN Heard(m.outputs, m.next_state, m.eeprom_write_enable_bit)
              ELSE Hears[m.outputs]
         /\ Silent(n, "high_rise") <=>
              /\ m.outputs \in {"i2c_nop", "create_start_cond", "enable_scl", "write_to_ram",
                               "write_slave_addr_write_mode", "write_slave_addr_read_mode"}
              /\ m.outputs \in {"write_slave_addr_write_mode", "write_slave_addr_read_mode"} =>
                    m.cycles_waited = 0
<1>1. n.outputs = m.outputs /\ n.cycles_waited = m.cycles_waited /\ n.next_state = m.next_state
      /\ n.eeprom_write_enable_bit = m.eeprom_write_enable_bit
  BY DEF Quietly, SamePlace, SameStage
<1>2. BitNo(n, "high_rise") = m.cycles_waited /\ BitNo(m, "high_fall") = m.cycles_waited
      /\ Early("high_fall") /\ ~Early("high_rise") /\ Shown(n, "high_rise") = Hears[m.outputs]
  BY <1>1 DEF Shown, BitNo, Early
<1>3. m.cycles_waited <= WaitCycles(m) /\ m.cycles_waited \in Nat /\ m.outputs \in MasterStates
  BY DEF MasterTypes, Placed, Taken
<1>4. /\ m.cycles_waited # 0 => m.outputs \in ByteStates \cup {"write_to_ram"}
      /\ m.outputs \in ByteStates => m.cycles_waited <= 7
  BY <1>3, SMT DEF WaitCycles
<1>5. Silent(n, "high_rise") <=>
         /\ m.outputs \in {"i2c_nop", "create_start_cond", "enable_scl", "write_to_ram",
                          "write_slave_addr_write_mode", "write_slave_addr_read_mode"}
         /\ m.outputs \in {"write_slave_addr_write_mode", "write_slave_addr_read_mode"} =>
               m.cycles_waited = 0
  BY <1>1, <1>2, <1>3, HearsAt DEF Silent, MasterStates, ByteStates
<1> QED
  BY <1>1, <1>2, <1>3, <1>4, <1>5 DEF Shown

\* The chip takes the state that the master's calls for.
LEMMA HighFallState ==
  ASSUME NEW m, NEW c, NEW f, NEW n, Quietly(m, n), OnCourse(m), MasterTypes(m),
         Placed(m, "high_fall"), Falls(c, f), ChipPlaced(m, c, "high_fall"),
         ChipStarted(m, c, "high_fall"), ChipReads(m, c, "high_fall")
  PROVE  LET s == m.outputs  x == Hears[s] IN
         /\ f.state = x /\ f.prev_state = x
         /\ f.outputs = IF Silent(n, "high_rise") THEN "idle" ELSE x
         /\ f.next_state = IF Silent(n, "high_rise") THEN x
                           ELSE IF s = "receive_ack" THEN Hears[m.next_state] ELSE Follows[x]
<1> DEFINE s == m.outputs
           k == m.cycles_waited
           x == Shown(m, "high_fall")
           quiet == Silent(n, "high_rise")
<1>1. /\ c.state = Hears[s] /\ c.prev_state = x
  BY DEF ChipPlaced
<1>2. CASE s \in {"i2c_nop", "create_start_cond", "enable_scl", "write_to_ram",
                 "write_slave_addr_write_mode", "write_slave_addr_read_mode"}
  <2>1. c.trig_state_machine <=> ~quiet
    <3>1. CASE s \in {"write_slave_addr_write_mode", "write_slave_addr_read_mode"}
      BY <3>1, HighFallView DEF ChipStarted
    <3>2. CASE s \notin {"write_slave_addr_write_mode", "write_slave_addr_read_mode"}
      <4>1. EdgesLeft(m, "high_fall") = 0 /\ quiet
        BY <1>2, <3>2, HighFallView DEF EdgesLeft
      <4> QED
        BY <1>2, <3>2, <4>1, SMT DEF ChipStarted
    <3> QED
      BY <3>1, <3>2
  <2>2. Hears[s] = "receive_slave_address"
    BY <1>2, HearsAt
  <2> QED
    BY <1>1, <1>2, <2>1, <2>2, FollowsAt DEF Falls, ChipSuccessor
<1>3. CASE s \in {"write_word_addr", "create_repeated_start_cond", "write_data", "read_data",
                 "send_ack", "create_stop_cond"}
  <2>1. ~quiet
    BY <1>3, HighFallView
  <2> QED
    BY <1>1, <1>3, <2>1, HearsAt, FollowsAt DEF Falls, ChipSuccessor
<1>4. CASE s = "receive_ack"
  <2>1. ~quiet /\ k = 0 /\ c.state = "send_ack"
    BY <1>1, <1>4, HighFallView, HearsAt DEF ByteStates
  <2>2. x = Heard(s, m.next_state, m.eeprom_write_enable_bit)
    BY <2>1, HighFallView
  <2>3. f.next_state = AfterAck(c)
    BY <2>1 DEF Falls, ChipSuccessor
  <2>4. m.next_state \in {"write_word_addr", "create_repeated_start_cond", "read_data",
                         "write_data", "create_stop_cond"}
    BY <1>4 DEF OnCourse
  <2>5. AfterAck(c) = Hears[m.next_state]
    <3>1. CASE m.next_state = "write_word_addr"
      <4>1. x = "receive_slave_address" /\ ~c.is_read
        BY <1>4, <2>2, <3>1 DEF Heard, ChipStarted
      <4> QED
        BY <1>1, <3>1, <4>1, HearsAt DEF AfterAck
    <3>2. CASE m.next_state = "read_data"
      <4>1. x = "receive_slave_address" /\ c.is_read
        BY <1>4, <2>2, <3>2 DEF Heard, ChipReads
      <4> QED
        BY <1>1, <3>2, <4>1, HearsAt DEF AfterAck
    <3>3. CASE m.next_state \in {"create_repeated_start_cond", "write_data"}
      <4>1. x = "receive_word_address"
        BY <1>4, <2>2, <3>3 DEF Heard
      <4> QED
        BY <1>1, <3>3, <4>1, HearsAt DEF AfterAck
    <3>4. CASE m.next_state = "create_stop_cond"
      <4>1. x = "receive_data"
        BY <1>4, <2>2, <3>4 DEF Heard
      <4> QED
        BY <1>1, <3>4, <4>1, HearsAt DEF AfterAck
    <3> QED
      BY <2>4, <3>1, <3>2, <3>3, <3>4
  <2>6. f.prev_state = "send_ack" /\ f.outputs = "send_ack" /\ f.state = "send_ack"
    <3>1. x \in {"receive_slave_address", "receive_word_address", "receive_data"}
      BY <1>4, <2>2, <2>4 DEF Heard
    <3> QED
      BY <1>1, <2>1, <3>1 DEF Falls, ChipByteStates
  <2> QED
    BY <1>1, <1>4, <2>1, <2>3, <2>5, <2>6
<1> QED
  BY <1>2, <1>3, <1>4 DEF MasterTypes, MasterStates, ByteStates

\* The states and counters of the EEPROM after the rise of clk_100khz.
LEMMA HighFallPlaced ==
  ASSUME NEW m, NEW c, NEW f, NEW n, NEW d, NEW b, HighFallMove(m, c, f, n, d, b), OnCourse(m),
         MasterTypes(m), Placed(m, "high_fall"), ChipPlaced(m, c, "high_fall"),
         ChipStarted(m, c, "high_fall"), ChipReads(m, c, "high_fall"), Wires(m, c, "high_fall")
  PROVE  ChipPlaced(n, d, "high_rise")
<1> DEFINE s == m.outputs
           k == m.cycles_waited
           x == Hears[s]
           quiet == Silent(n, "high_rise")
<1>1. /\ f.state = x /\ f.prev_state = x /\ f.outputs = IF quiet THEN "idle" ELSE x
      /\ f.next_state = IF quiet THEN x
                        ELSE IF s = "receive_ack" THEN Hears[m.next_state] ELSE Follows[x]
  BY HighFallState DEF HighFallMove
<1>2. x = "send_ack" <=> s = "receive_ack"
  BY HearsAt DEF MasterTypes, MasterStates, ByteStates
<1>3. /\ n.outputs = s /\ n.next_state = m.next_state /\ BitNo(n, "high_rise") = k
      /\ Shown(n, "high_rise") = x /\ BitNo(m, "high_fall") = k
      /\ Early("high_fall") /\ ~Early("high_rise")
  BY HighFallView DEF HighFallMove
<1>4. /\ s \in ByteStates => d.cycles_waited = k
      /\ d.read_bits_used = IF s \in Sending THEN k ELSE 0
      /\ d.jump_to_slave_address_read <=> (s = "write_slave_addr_read_mode" /\ k = 0)
  BY <1>3 DEF ChipPlaced, HighFallMove, Falls, SameBits
<1>5. d.write_bits_used = IF s = "read_data" THEN (k + 1) % 8 ELSE 0
  <2>1. f.write_bits_used = IF s = "read_data" THEN k ELSE 0
    BY <1>3 DEF ChipPlaced, HighFallMove, Falls, SameBits
  <2>2. s = "read_data" => m.scl_enable /\ f.outputs = "send_data"
    <3>1. s = "read_data" => ~quiet /\ x = "send_data"
      BY HearsAt, HighFallView DEF HighFallMove
    <3>2. s = "read_data" => m.scl_enable
      BY DEF Wires, ByteStates
    <3> QED
      BY <1>1, <3>1, <3>2
  <2>3. s # "read_data" => f.outputs # "send_data"
    BY <1>1, HearsAt DEF MasterTypes, MasterStates, ByteStates
  <2> QED
    BY <2>1, <2>2, <2>3 DEF HighFallMove
<1>6. /\ d.state = x /\ d.prev_state = x /\ d.outputs = IF quiet THEN "idle" ELSE x
      /\ d.next_state = IF quiet THEN x
                        ELSE IF x = "send_ack" THEN Hears[m.next_state] ELSE Follows[x]
  BY <1>1, <1>2 DEF HighFallMove
<1> HIDE DEF s, k, x
<1> QED
  BY <1>2, <1>3, <1>4, <1>5, <1>6 DEF ChipPlaced, s, x

\* Whether the EEPROM takes the transfer for a read, after the rise of clk_100khz.
LEMMA HighFallReads ==
  ASSUME NEW m, NEW c, NEW f, NEW n, NEW d, NEW b, HighFallMove(m, c, f, n, d, b),
         MasterTypes(m), Placed(m, "high_fall"), ChipReads(m, c, "high_fall")
  PROVE  ChipReads(n, d, "high_rise")
<1>1. n.outputs = m.outputs /\ n.next_state = m.next_state
  BY HighFallView DEF HighFallMove
<1> QED
  BY <1>1 DEF ChipReads, HighFallMove, Falls

\* What drives the wires after the rise of clk_100khz.
LEMMA HighFallWires ==
  ASSUME NEW m, NEW c, NEW f, NEW n, NEW d, NEW b, HighFallMove(m, c, f, n, d, b), OnCourse(m),
         MasterTypes(m), Placed(m, "high_fall"), ChipPlaced(m, c, "high_fall"),
         ChipStarted(m, c, "high_fall"), ChipReads(m, c, "high_fall"), Wires(m, c, "high_fall"),
         b \in {0, 1}
  PROVE  Wires(n, d, "high_rise")
<1> DEFINE s == m.outputs
           k == m.cycles_waited
           x == Hears[s]
           quiet == Silent(n, "high_rise")
<1>1. f.outputs = IF quiet THEN "idle" ELSE x
  BY HighFallState DEF HighFallMove
<1>2. /\ n.outputs = s /\ n.next_state = m.next_state /\ BitNo(n, "high_rise") = k
      /\ n.eeprom_write_enable_bit = m.eeprom_write_enable_bit
      /\ Shown(n, "high_rise") = x /\ BitNo(m, "high_fall") = k /\ s \in MasterStates
      /\ quiet => x = "receive_slave_address"
  <2>1. quiet => x = "receive_slave_address"
    BY HighFallView, HearsAt DEF HighFallMove
  <2> QED
    BY <2>1, HighFallView DEF HighFallMove
<1>3. (CASE x = "send_ack"  -> d.sda_output = 0
         [] x = "send_data" -> d.sda_output \in {0, 1}
         [] OTHER -> d.sda_output = Released)
  <2>1. CASE m.scl_enable
    BY <1>1, <1>2, <2>1 DEF HighFallMove
  <2>2. CASE ~m.scl_enable
    <3>1. s \in {"i2c_nop", "create_start_cond", "enable_scl", "write_to_ram"}
      BY <1>2, <2>2 DEF Wires, MasterStates
    <3>2. Shown(m, "high_fall") \in {"receive_slave_address", "expect_stop_cond"}
      BY <3>1, HighFallView, HearsAt DEF Heard, HighFallMove
    <3>3. d.sda_output = Released /\ x = "receive_slave_address"
      BY <2>2, <3>1, <3>2, HearsAt DEF Wires, HighFallMove, Falls
    <3> QED
      BY <3>3
  <2> QED
    BY <2>1, <2>2
<1>4. /\ n.write_bits_used = m.write_bits_used /\ n.read_bits_used = m.read_bits_used
      /\ n.scl_enable = m.scl_enable /\ n.sda_output = m.sda_output
  BY DEF HighFallMove, SameDrive
<1> HIDE DEF s, k, x
<1> QED
  BY <1>2, <1>3, <1>4 DEF Wires, s

\* What the EEPROM knows of start conditions after the rise of clk_100khz.
LEMMA HighFallStarted ==
  ASSUME NEW m, NEW c, NEW f, NEW n, NEW d, NEW b, HighFallMove(m, c, f, n, d, b), OnCourse(m),
         MasterTypes(m), Placed(m, "high_fall"), ChipTypeOK(c), ChipPlaced(m, c, "high_fall"),
         ChipStarted(m, c, "high_fall"), ChipReads(m, c, "high_fall"), Wires(m, c, "high_fall"),
         b \in {0, 1}
  PROVE  ChipStarted(n, d, "high_rise")
<1> DEFINE s == m.outputs
           k == m.cycles_waited
           x == Shown(m, "high_fall")
           e == EdgesLeft(m, "high_fall")
           addressed == s \in {"write_slave_addr_write_mode", "write_slave_addr_read_mode"}
           falls == Line(m, c) = 1 /\ Line(n, d) = 0
           again == c.start_cond_found /\ c.sda_output = Released
<1>1. /\ n.outputs = s /\ n.next_state = m.next_state /\ BitNo(n, "high_rise") = k
      /\ BitNo(m, "high_fall") = k /\ s \in MasterStates /\ k \in Nat
      /\ s \in ByteStates => k <= 7
      /\ k # 0 => s \in ByteStates \cup {"write_to_ram"}
      /\ Early("high_fall") /\ ~Early("high_rise")
      /\ x = IF k = 0 THEN Heard(s, m.next_state, m.eeprom_write_enable_bit) ELSE Hears[s]
  BY HighFallView DEF HighFallMove
<1>2. /\ d.count = IF m.scl_enable THEN IF again THEN 11 ELSE IF c.count > 0 THEN c.count - 1 ELSE 0
                   ELSE c.count
      /\ d.trig_state_machine <=> IF m.scl_enable THEN again \/ c.count > 0 ELSE c.trig_state_machine
      /\ d.is_read = c.is_read
      /\ d.start_cond_found <=> falls \/ c.start_cond_found
  BY DEF HighFallMove, Falls, SameCounts
<1>3. /\ x = "send_ack" => c.sda_output = 0
      /\ x \notin {"send_ack", "send_data"} => c.sda_output = Released
      /\ x = "send_data" => c.sda_output \in {0, 1}
      /\ m.scl_enable <=> s \in ByteStates \cup {"receive_ack", "create_repeated_start_cond",
                                               "send_ack", "create_stop_cond"}
  BY DEF Wires
<1>4. /\ c.count = e
      /\ addressed => (c.trig_state_machine <=> k # 0)
      /\ c.trig_state_machine => e > 0 \/ s \in {"write_word_addr", "read_data"}
      /\ s \notin {"read_data", "send_ack"} =>
           (c.start_cond_found <=> \/ s \in {"create_start_cond", "enable_scl"}
                                   \/ addressed /\ k = 0)
  BY <1>1 DEF ChipStarted
<1>5. again <=> s \in {"create_start_cond", "enable_scl"} \/ (addressed /\ k = 0)
  <2>1. CASE s \in {"create_start_cond", "enable_scl"} \/ (addressed /\ k = 0)
    <3>1. k = 0
      BY <1>1, <2>1 DEF ByteStates
    <3>2. x \in {"receive_slave_address", "receive_data"}
      BY <1>1, <2>1, <3>1 DEF Heard
    <3> QED
      BY <1>3, <1>4, <2>1, <3>2
  <2>2. CASE s \in {"read_data", "send_ack"}
    <3>1. x \in {"send_ack", "send_data"} \/ (s = "send_ack" /\ k # 0)
      BY <1>1, <2>2, HearsAt DEF Heard
    <3>2. c.sda_output # Released
      BY <1>1, <1>3, <2>2, <3>1 DEF ByteStates, Released
    <3> QED
      BY <2>2, <3>2
  <2> QED
    BY <1>4, <2>1, <2>2
<1>6. /\ EdgesLeft(n, "high_rise") = d.count
      /\ addressed => d.trig_state_machine
      /\ d.trig_state_machine => d.count > 0 \/ s \in {"write_word_addr", "read_data"}
      /\ s \in {"write_word_addr", "read_data"} /\ d.trig_state_machine => k <= 2
  <2>1. CASE addressed
    <3>1. EdgesLeft(n, "high_rise") = 11 - k /\ e = IF k = 0 THEN 0 ELSE 12 - k
      BY <1>1, <2>1, SMT DEF EdgesLeft
    <3> QED
      BY <1>1, <1>2, <1>3, <1>4, <1>5, <2>1, <3>1, SMT DEF ByteStates
  <2>2. CASE s = "receive_ack" /\ m.next_state \in {"write_word_addr", "read_data"}
    <3>1. EdgesLeft(n, "high_rise") = 3 /\ e = 4
      BY <1>1, <2>2, SMT DEF EdgesLeft
    <3> QED
      BY <1>1, <1>2, <1>3, <1>4, <1>5, <2>2, <3>1, SMT
  <2>3. CASE s \in {"write_word_addr", "read_data"}
    <3>1. EdgesLeft(n, "high_rise") = (IF k < 2 THEN 2 - k ELSE 0) /\ e = IF k < 3 THEN 3 - k ELSE 0
      BY <1>1, <2>3, SMT DEF EdgesLeft
    <3> QED
      BY <1>1, <1>2, <1>3, <1>4, <1>5, <2>3, <3>1, SMT DEF ByteStates
  <2>4. CASE ~addressed /\ s \notin {"write_word_addr", "read_data"}
             /\ ~(s = "receive_ack" /\ m.next_state \in {"write_word_addr", "read_data"})
    <3>1. EdgesLeft(n, "high_rise") = 0 /\ e = 0
      BY <1>1, <2>4 DEF EdgesLeft
    <3> QED
      BY <1>1, <1>2, <1>3, <1>4, <1>5, <2>4, <3>1, SMT DEF ByteStates
  <2> QED
    BY <2>1, <2>2, <2>3, <2>4
<1>7. ASSUME s \notin {"read_data", "send_ack"} PROVE ~falls
  <2>1. n.sda_output = m.sda_output
    BY DEF HighFallMove, SameDrive
  <2>2. x # "send_data"
    BY <1>1, <1>7, HearsAt DEF Heard, MasterStates, ByteStates
  <2>3. c.sda_output \in Driven /\ d.sda_output \in Driven /\ m.sda_output \in Driven
    BY DEF ChipTypeOK, MasterTypes, HighFallMove, Falls, Driven
  <2>4. /\ Line(m, c) = IF c.sda_output = Released THEN m.sda_output
                        ELSE IF m.sda_output \in {Released, c.sda_output} THEN c.sda_output
                        ELSE Conflict
        /\ Line(n, d) = IF d.sda_output = Released THEN m.sda_output
                        ELSE IF m.sda_output \in {Released, d.sda_output} THEN d.sda_output
                        ELSE Conflict
    BY <2>1, <2>3, LineValue
  <2>5. c.sda_output # Released => Line(m, c) # 1
    BY <1>3, <2>2, <2>4, SMT DEF Released, Conflict
  <2>6. s = "receive_ack" => m.sda_output = Released
    BY DEF Wires
  <2>7. s # "receive_ack" => d.sda_output = Released
    <3>1. Wires(n, d, "high_rise")
      BY HighFallWires
    <3>2. n.outputs = s /\ Shown(n, "high_rise") = Hears[s]
      BY HighFallView DEF HighFallMove
    <3> QED
      BY <1>1, <1>7, <3>1, <3>2, HearsAt DEF Wires, MasterStates, ByteStates
  <2> QED
    BY <2>4, <2>5, <2>6, <2>7 DEF Released
<1>8. s \notin {"read_data", "send_ack"} =>
        (d.start_cond_found <=> s \in {"create_start_cond", "enable_scl"} \/ (addressed /\ k = 0))
  BY <1>2, <1>4, <1>7
<1> HIDE DEF k, e, falls, again, x
<1> QED
  BY <1>1, <1>2, <1>6, <1>8 DEF ChipStarted

-----------------------------------------------------------------------------
HighRiseMove(m, c, n, d) ==
    /\ SameStage(m, n) /\ n.prev_state = m.prev_state
    /\ n.eeprom_write_enable_bit = m.eeprom_write_enable_bit
    /\ n.write_bits_used = m.write_bits_used /\ n.read_bits_used = m.read_bits_used
    /\ n.sda_output =
          CASE m.outputs \in {"create_start_cond", "create_repeated_start_cond"} -> 0
            [] m.outputs = "create_stop_cond" -> 1
            [] OTHER -> m.sda_output
    /\ n.cycles_waited = IF m.cycles_waited < WaitCycles(m) THEN m.cycles_waited + 1 ELSE 0
    /\ n.trig_state_machine <=> ~(m.cycles_waited < WaitCycles(m))
    /\ n.scl_enable <=> (m.scl_enable \/ m.outputs = "enable_scl") /\ m.outputs # "create_stop_cond"
    /\ n.is_ack_received <=> m.outputs = "receive_ack" /\ Line(m, c) = 0
    /\ SameStates(c, d) /\ SameBits(c, d) /\ SameCounts(c, d)
    /\ d.sda_output = c.sda_output
    /\ d.start_cond_found <=> (Line(m, c) = 1 /\ Line(n, d) = 0) \/ c.start_cond_found

\* Before and after this edge the same state is shown.
LEMMA HighRiseView ==
  ASSUME NEW m, NEW c, NEW n, NEW d, HighRiseMove(m, c, n, d), MasterTypes(m), Placed(m, "high_rise")
  PROVE  /\ n.outputs = m.outputs /\ n.next_state = m.next_state
         /\ n.eeprom_write_enable_bit = m.eeprom_write_enable_bit
         /\ BitNo(m, "high_rise") = m.cycles_waited /\ BitNo(n, "low_fall") = m.cycles_waited
         /\ ~Early("high_rise") /\ ~Early("low_fall")
         /\ Shown(m, "high_rise") = Hears[m.outputs] /\ Shown(n, "low_fall") = Hears[m.outputs]
         /\ Silent(n, "low_fall") <=> Silent(m, "high_rise")
         /\ EdgesLeft(n, "low_fall") = EdgesLeft(m, "high_rise")
<1>1. n.outputs = m.outputs /\ n.next_state = m.next_state /\ WaitCycles(n) = WaitCycles(m)
      /\ n.eeprom_write_enable_bit = m.eeprom_write_enable_bit
  BY DEF HighRiseMove, SameStage, WaitCycles
<1>2. /\ ~Early("high_rise") /\ ~Early("low_fall")
      /\ Shown(m, "high_rise") = Hears[m.outputs] /\ Shown(n, "low_fall") = Hears[m.outputs]
  BY <1>1 DEF Early, Shown
<1>3. BitNo(m, "high_rise") = m.cycles_waited /\ BitNo(n, "low_fall") = m.cycles_waited
  <2>1. m.cycles_waited <= WaitCycles(m) /\ m.cycles_waited \in Nat /\ WaitCycles(m) \in Nat
    BY WaitType DEF MasterTypes, Placed, Taken
  <2> DEFINE k == m.cycles_waited
             w == WaitCycles(m)
  <2>2. BitNo(n, "low_fall") = IF n.trig_state_machine THEN w ELSE n.cycles_waited - 1
    BY <1>1 DEF BitNo
  <2>3. n.cycles_waited = (IF k < w THEN k + 1 ELSE 0) /\ (n.trig_state_machine <=> ~(k < w))
    BY DEF HighRiseMove
  <2>4. BitNo(m, "high_rise") = k
    BY DEF BitNo
  <2> HIDE DEF k, w
  <2>5. k \in Nat /\ w \in Nat /\ k <= w
    BY <2>1 DEF k, w
  <2>6. BitNo(n, "low_fall") = k
    BY <2>2, <2>3, <2>5, SMT
  <2> QED
    BY <2>4, <2>6 DEF k
<1>4. /\ Silent(n, "low_fall") <=> Silent(m, "high_rise")
      /\ EdgesLeft(n, "low_fall") = EdgesLeft(m, "high_rise")
  BY <1>1, <1>2, <1>3 DEF Silent, EdgesLeft
<1> QED
  BY <1>1, <1>2, <1>3, <1>4

\* The states and counters of the EEPROM after the rise of clk_200khz under a high clk_100khz.
LEMMA HighRisePlaced ==
  ASSUME NEW m, NEW c, NEW n, NEW d, HighRiseMove(m, c, n, d), MasterTypes(m),
         Placed(m, "high_rise"), ChipPlaced(m, c, "high_rise"), OnCourse(m),
         ChipReads(m, c, "high_rise")
  PROVE  OnCourse(n) /\ ChipPlaced(n, d, "low_fall") /\ ChipReads(n, d, "low_fall")
<1>1. /\ n.outputs = m.outputs /\ n.next_state = m.next_state
      /\ n.eeprom_write_enable_bit = m.eeprom_write_enable_bit
      /\ BitNo(n, "low_fall") = BitNo(m, "high_rise")
      /\ ~Early("high_rise") /\ ~Early("low_fall")
      /\ Shown(n, "low_fall") = Shown(m, "high_rise")
      /\ Silent(n, "low_fall") <=> Silent(m, "high_rise")
  BY HighRiseView
<1>2. SameStates(c, d) /\ SameBits(c, d)
  BY DEF HighRiseMove
<1>3. OnCourse(n)
  BY <1>1 DEF OnCourse
<1>4. ChipReads(n, d, "low_fall")
  BY <1>1, <1>2 DEF ChipReads, SameStates
<1>5. ChipPlaced(n, d, "low_fall")
  BY <1>1, <1>2 DEF ChipPlaced, SameStates, SameBits
<1> QED
  BY <1>3, <1>4, <1>5

\* What drives the wires after the rise of clk_200khz under a high clk_100khz.
LEMMA HighRiseWires ==
  ASSUME NEW m, NEW c, NEW n, NEW d, HighRiseMove(m, c, n, d), MasterTypes(m), ChipTypeOK(c),
         Placed(m, "high_rise"), Wires(m, c, "high_rise"), ChipStarted(m, c, "high_rise")
  PROVE  Wires(n, d, "low_fall") /\ ChipStarted(n, d, "low_fall")
<1> DEFINE s == m.outputs
           k == m.cycles_waited
           x == Hears[s]
           falls == Line(m, c) = 1 /\ Line(n, d) = 0
<1>1. /\ n.outputs = s /\ n.next_state = m.next_state
      /\ n.eeprom_write_enable_bit = m.eeprom_write_enable_bit
      /\ BitNo(n, "low_fall") = k /\ BitNo(m, "high_rise") = k
      /\ ~Early("high_rise") /\ ~Early("low_fall")
      /\ Shown(n, "low_fall") = x /\ Shown(m, "high_rise") = x
      /\ EdgesLeft(n, "low_fall") = EdgesLeft(m, "high_rise")
      /\ s \in MasterStates
  BY HighRiseView DEF MasterTypes
<1>2. /\ n.sda_output \in Driven /\ m.sda_output \in Driven /\ c.sda_output \in Driven
      /\ d.sda_output = c.sda_output
      /\ n.sda_output = CASE s \in {"create_start_cond", "create_repeated_start_cond"} -> 0
                          [] s = "create_stop_cond" -> 1
                          [] OTHER -> m.sda_output
  BY DEF HighRiseMove, MasterTypes, ChipTypeOK, Driven
<1>3. /\ Line(m, c) = IF c.sda_output = Released THEN m.sda_output
                      ELSE IF m.sda_output \in {Released, c.sda_output} THEN c.sda_output
                      ELSE Conflict
      /\ Line(n, d) = IF c.sda_output = Released THEN n.sda_output
                      ELSE IF n.sda_output \in {Released, c.sda_output} THEN c.sda_output
                      ELSE Conflict
  BY <1>2, LineValue
<1>4. s = "receive_ack" => n.is_ack_received
  <2>1. s = "receive_ack" => m.sda_output = Released /\ c.sda_output = 0
    BY <1>1, HearsAt DEF Wires
  <2> QED
    BY <1>3, <2>1, SMT DEF HighRiseMove, Released
<1>5. /\ CASE x = "send_ack"  -> d.sda_output = 0
           [] x = "send_data" -> d.sda_output \in {0, 1}
           [] OTHER -> d.sda_output = Released
  BY <1>1, <1>2 DEF Wires
<1>6. /\ n.scl_enable <=> s \in ByteStates \cup {"receive_ack", "create_repeated_start_cond",
                                               "send_ack", "enable_scl"}
      /\ n.write_bits_used = m.write_bits_used /\ n.read_bits_used = m.read_bits_used
  BY DEF Wires, HighRiseMove, ByteStates
<1>7. Wires(n, d, "low_fall")
  <2> HIDE DEF s, k, x, falls
  <2> QED
    BY <1>1, <1>2, <1>4, <1>5, <1>6 DEF Wires, s
<1>8. falls <=> s = "create_repeated_start_cond"
  <2>1. CASE s = "create_repeated_start_cond"
    <3>1. x = "receive_data" /\ m.sda_output = 1
      BY <1>1, <2>1, HearsAt DEF Wires
    <3> QED
      BY <1>2, <1>3, <1>5, <2>1, <3>1
  <2>2. CASE s = "create_start_cond"
    <3>1. m.sda_output = 0 /\ x = "receive_slave_address"
      BY <1>1, <2>2, HearsAt DEF Wires
    <3> QED
      BY <1>2, <1>3, <1>5, <2>2, <3>1
  <2>3. CASE s = "create_stop_cond"
    <3>1. m.sda_output = 0 /\ x = "expect_stop_cond"
      BY <1>1, <2>3, HearsAt DEF Wires
    <3> QED
      BY <1>2, <1>3, <1>5, <2>3, <3>1
  <2>4. CASE s \notin {"create_start_cond", "create_repeated_start_cond", "create_stop_cond"}
    BY <1>2, <1>3, <2>4
  <2> QED
    BY <2>1, <2>2, <2>3, <2>4
<1>9. /\ d.count = c.count /\ d.trig_state_machine = c.trig_state_machine /\ d.is_read = c.is_read
      /\ d.start_cond_found <=> falls \/ c.start_cond_found
  BY DEF HighRiseMove, SameCounts, SameStates
<1>10. ChipStarted(n, d, "low_fall")
  <2> HIDE DEF k, x, falls
  <2> QED
    BY <1>1, <1>8, <1>9 DEF ChipStarted
<1> QED
  BY <1>7, <1>10

-----------------------------------------------------------------------------
\* The turns of a procedure: from s to t, with u to follow.
Turn(s, t, u, w) ==
    \/ s \in {"i2c_nop", "write_to_ram"} /\ t = "i2c_nop" /\ u \in {"i2c_nop", "create_start_cond"}
    \/ s = "i2c_nop" /\ t = "create_start_cond" /\ u = "enable_scl"
    \/ s = "create_start_cond" /\ t = "enable_scl" /\ u = "write_slave_addr_write_mode"
    \/ s = "enable_scl" /\ t = "write_slave_addr_write_mode" /\ u = "receive_ack"
    \/ s = "write_slave_addr_write_mode" /\ t = "receive_ack" /\ u = "write_word_addr"
    \/ s = "receive_ack" /\ t = "write_word_addr" /\ u = "receive_ack"
    \/ s = "write_word_addr" /\ t = "receive_ack"
       /\ u = IF w THEN "write_data" ELSE "create_repeated_start_cond"
    \/ s = "receive_ack" /\ t = "create_repeated_start_cond" /\ u = "write_slave_addr_read_mode" /\ ~w
    \/ s = "create_repeated_start_cond" /\ t = "write_slave_addr_read_mode" /\ u = "receive_ack" /\ ~w
    \/ s = "write_slave_addr_read_mode" /\ t = "receive_ack" /\ u = "read_data" /\ ~w
    \/ s = "receive_ack" /\ t = "read_data" /\ u = "send_ack" /\ ~w
    \/ s = "read_data" /\ t = "send_ack" /\ u = "create_stop_cond" /\ ~w
    \/ s = "send_ack" /\ t = "create_stop_cond" /\ u = "write_to_ram" /\ ~w
    \/ s = "receive_ack" /\ t = "write_data" /\ u = "receive_ack" /\ w
    \/ s = "write_data" /\ t = "receive_ack" /\ u = "create_stop_cond" /\ w
    \/ s = "receive_ack" /\ t = "create_stop_cond" /\ u = "write_to_ram" /\ w
    \/ s = "create_stop_cond" /\ t = "write_to_ram" /\ u = "i2c_nop"

\* The strobe is still there when the word address is over.
Held(m, p) ==
    m.outputs = "write_word_addr" /\ Taken(m, p) =>
       IF m.eeprom_write_enable_bit THEN m.start_write_procedure /\ ~m.start_read_procedure
       ELSE m.start_read_procedure

\* What the state machine can turn to, as the answers of the EEPROM let it.
LEMMA Turns ==
  ASSUME NEW m, NEW control, MasterTypes(m), Placed(m, "low_fall"), Taken(m, "low_fall"),
         OnCourse(m), m.outputs = "receive_ack" => m.is_ack_received, Held(m, "low_fall")
  PROVE  Turn(m.outputs, m.next_state, Successor(m, control), m.eeprom_write_enable_bit)
<1> DEFINE s == m.outputs
           t == m.next_state
           u == Successor(m, control)
           w == m.eeprom_write_enable_bit
<1>1. /\ m.state = t /\ t \in Followers[s]
      /\ m.prev_state = IF t = "i2c_nop" /\ s # "write_to_ram" THEN "i2c_nop" ELSE s
      /\ s \in MasterStates /\ w \in BOOLEAN
  BY DEF Placed, MasterTypes
<1>2. CASE s = "i2c_nop"
  <2>1. t \in {"i2c_nop", "create_start_cond"}
    BY <1>1, <1>2 DEF Followers
  <2> QED
    BY <1>1, <1>2, <2>1 DEF Turn, Successor
<1>3. CASE s = "create_start_cond"
  BY <1>1, <1>3 DEF Followers, Turn, Successor
<1>4. CASE s = "enable_scl"
  BY <1>1, <1>4 DEF Followers, Turn, Successor
<1>5. CASE s = "write_slave_addr_write_mode"
  BY <1>1, <1>5 DEF Followers, Turn, Successor
<1>6. CASE s = "write_slave_addr_read_mode"
  BY <1>1, <1>6 DEF Followers, Turn, Successor, OnCourse, Reading
<1>7. CASE s = "write_word_addr"
  <2>1. t = "receive_ack"
    BY <1>7 DEF OnCourse
  <2>2. IF w THEN m.start_write_procedure /\ ~m.start_read_procedure ELSE m.start_read_procedure
    BY <1>7 DEF Held
  <2>3. u = IF w THEN "write_data" ELSE "create_repeated_start_cond"
    BY <1>1, <1>7, <2>1, <2>2 DEF Successor
  <2> QED
    BY <1>7, <2>1, <2>3 DEF Turn
<1>8. CASE s = "create_repeated_start_cond"
  BY <1>1, <1>8 DEF Turn, Successor, OnCourse, Reading
<1>9. CASE s = "write_data"
  BY <1>1, <1>9 DEF Turn, Successor, OnCourse
<1>10. CASE s = "read_data"
  BY <1>1, <1>10 DEF Turn, Successor, OnCourse, Reading
<1>11. CASE s = "receive_ack"
  <2>1. t \in IF w THEN {"write_word_addr", "write_data", "create_stop_cond"}
             ELSE {"write_word_addr", "create_repeated_start_cond", "read_data"}
    BY <1>11 DEF OnCourse
  <2> QED
    BY <1>1, <1>11, <2>1 DEF Turn, Successor
<1>12. CASE s = "send_ack"
  BY <1>1, <1>12 DEF Followers, Turn, Successor, OnCourse, Reading
<1>13. CASE s = "create_stop_cond"
  BY <1>1, <1>13 DEF Followers, Turn, Successor
<1>14. CASE s = "write_to_ram"
  <2>1. t = "i2c_nop"
    BY <1>1, <1>14 DEF Followers
  <2> QED
    BY <1>1, <1>14, <2>1 DEF Turn, Successor
<1> QED
  BY <1>1, <1>2, <1>3, <1>4, <1>5, <1>6, <1>7, <1>8, <1>9, <1>10, <1>11, <1>12, <1>13, <1>14
     DEF MasterStates, ByteStates

\* m and c fall to n and d, f is the chip in between, u the master's new next state.
LowFallMove(m, c, f, n, d, u) ==
    /\ SameDrive(m, n) /\ SameClock(m, n)
    /\ n.cycles_waited = m.cycles_waited
    /\ ~m.trig_state_machine => SamePlace(m, n)
    /\ m.trig_state_machine =>
         /\ n.outputs = m.state /\ n.next_state = u
         /\ n.eeprom_write_enable_bit <=>
               IF m.state = "i2c_nop" THEN u # "i2c_nop" /\ ~m.start_read_procedure
               ELSE m.eeprom_write_enable_bit
    /\ n.read_bits_used = IF m.outputs = "read_data" THEN (m.read_bits_used + 1) % 8
                          ELSE m.read_bits_used
    /\ Falls(c, f)
    /\ SameStates(f, d) /\ SameCounts(f, d)
    /\ d.sda_output = f.sda_output /\ d.start_cond_found = f.start_cond_found
    /\ d.write_bits_used = f.write_bits_used
    /\ LET takes == m.scl_enable /\ f.outputs \in {"receive_slave_address", "receive_word_address",
                                                   "receive_data", "receive_ack"}
           last  == f.outputs \notin ChipByteStates \/ f.read_bits_used = 7
           start == ~last /\ f.outputs = "receive_data" /\ f.start_cond_found
       IN  /\ d.read_bits_used = IF takes THEN IF last \/ start THEN 0 ELSE f.read_bits_used + 1
                                 ELSE f.read_bits_used
           /\ d.jump_to_slave_address_read <=> IF takes THEN start ELSE f.jump_to_slave_address_read

\* The chip's state machine finds nothing new at the second falling edge but
\* the start condition.
LEMMA LowFallState ==
  ASSUME NEW m, NEW c, NEW f, MasterTypes(m), Falls(c, f), ChipPlaced(m, c, "low_fall"),
         ChipStarted(m, c, "low_fall")
  PROVE  LET s == m.outputs  x == Hears[s]
             quiet == s \in {"i2c_nop", "create_start_cond", "enable_scl", "write_to_ram"} IN
         /\ f.state = x /\ f.prev_state = x
         /\ f.outputs = IF quiet THEN "idle" ELSE x
         /\ f.next_state = IF quiet THEN x
                           ELSE IF s = "receive_ack" THEN Hears[m.next_state] ELSE Follows[x]
<1> DEFINE s == m.outputs
           x == Hears[s]
           quiet == s \in {"i2c_nop", "create_start_cond", "enable_scl", "write_to_ram"}
<1>1. Shown(m, "low_fall") = x /\ ~Early("low_fall")
  BY DEF Shown, Early
<1>2. c.state = x /\ c.prev_state = x
  BY <1>1 DEF ChipPlaced
<1>3. CASE quiet
  <2>1. EdgesLeft(m, "low_fall") = 0
    BY <1>3 DEF EdgesLeft
  <2>2. ~c.trig_state_machine
    BY <1>3, <2>1, SMT DEF ChipStarted
  <2>3. x = "receive_slave_address"
    BY <1>3, HearsAt
  <2> QED
    BY <1>2, <1>3, <2>2, <2>3 DEF Falls, ChipSuccessor
<1>4. CASE s \in {"write_slave_addr_write_mode", "write_slave_addr_read_mode"}
  <2>1. c.trig_state_machine
    BY <1>1, <1>4 DEF ChipStarted
  <2> QED
    BY <1>2, <1>4, <2>1, HearsAt, FollowsAt DEF Falls, ChipSuccessor
<1>5. CASE s \in {"write_word_addr", "create_repeated_start_cond", "write_data", "read_data",
                 "send_ack", "create_stop_cond"}
  BY <1>2, <1>5, HearsAt, FollowsAt DEF Falls, ChipSuccessor
<1>6. CASE s = "receive_ack"
  <2>1. x = "send_ack"
    BY <1>6, HearsAt
  <2>2. ~Silent(m, "low_fall")
    BY <1>6 DEF Silent
  <2>3. c.next_state = Hears[m.next_state]
    BY <1>1, <1>6, <2>1, <2>2 DEF ChipPlaced
  <2>4. f.next_state = c.next_state
    BY <1>2, <2>1 DEF Falls, ChipSuccessor, AfterAck
  <2> QED
    BY <1>2, <1>6, <2>1, <2>3, <2>4 DEF Falls, ChipByteStates
<1> QED
  BY <1>3, <1>4, <1>5, <1>6 DEF MasterTypes, MasterStates, ByteStates

\* The state goes on for another cycle.
LEMMA LowFallWaitsView ==
  ASSUME NEW m, NEW c, NEW f, NEW n, NEW d, NEW u, LowFallMove(m, c, f, n, d, u),
         MasterTypes(m), Placed(m, "low_fall"), ~Taken(m, "low_fall")
  PROVE  LET s == m.outputs  k == m.cycles_waited IN
         /\ n.outputs = s /\ n.next_state = m.next_state
         /\ n.eeprom_write_enable_bit = m.eeprom_write_enable_bit
         /\ s \in ByteStates \cup {"write_to_ram"} /\ k \in Nat \ {0}
         /\ s \in ByteStates => k <= 7
         /\ ~Early("low_fall") /\ Early("low_rise")
         /\ BitNo(m, "low_fall") = k - 1 /\ BitNo(n, "low_rise") = k
         /\ Shown(m, "low_fall") = Hears[s] /\ Shown(n, "low_rise") = Hears[s]
         /\ Silent(n, "low_rise") <=> s = "write_to_ram"
<1> DEFINE s == m.outputs
           k == m.cycles_waited
<1>1. /\ n.outputs = s /\ n.next_state = m.next_state /\ n.cycles_waited = k
      /\ n.eeprom_write_enable_bit = m.eeprom_write_enable_bit /\ ~m.trig_state_machine
  BY DEF LowFallMove, SamePlace, SameStage, Taken
<1>2. k <= WaitCycles(m) /\ k > 0 /\ k \in Nat
  BY DEF Placed, MasterTypes
<1>3. /\ s \in ByteStates \cup {"write_to_ram"} /\ k \in Nat \ {0}
      /\ s \in ByteStates => k <= 7
  BY <1>2, SMT DEF WaitCycles
<1>4. BitNo(m, "low_fall") = k - 1 /\ BitNo(n, "low_rise") = k
  BY <1>1 DEF BitNo
<1>5. /\ ~Early("low_fall") /\ Early("low_rise")
      /\ Shown(m, "low_fall") = Hears[s] /\ Shown(n, "low_rise") = Hears[s]
  BY <1>1, <1>3 DEF Early, Shown
<1>6. Silent(n, "low_rise") <=> s = "write_to_ram"
  <2>1. k # 0
    BY <1>3
  <2> QED
    BY <1>1, <1>3, <1>4, <1>5, <2>1, HearsAt DEF Silent, ByteStates
<1> QED
  BY <1>1, <1>3, <1>4, <1>5, <1>6

\* The states and counters of the EEPROM after the fall of clk_100khz within a state.
LEMMA LowFallWaitsPlaced ==
  ASSUME NEW m, NEW c, NEW f, NEW n, NEW d, NEW u, LowFallMove(m, c, f, n, d, u),
         MasterTypes(m), Placed(m, "low_fall"), ~Taken(m, "low_fall"), OnCourse(m),
         ChipPlaced(m, c, "low_fall"), ChipStarted(m, c, "low_fall"), Wires(m, c, "low_fall")
  PROVE  ChipPlaced(n, d, "low_rise")
<1> DEFINE s == m.outputs
           k == m.cycles_waited
           x == Hears[s]
           addressed == s \in {"write_slave_addr_write_mode", "write_slave_addr_read_mode"}
           takes == m.scl_enable /\ f.outputs \in {"receive_slave_address", "receive_word_address",
                                                   "receive_data", "receive_ack"}
           last  == f.outputs \notin ChipByteStates \/ f.read_bits_used = 7
           start == ~last /\ f.outputs = "receive_data" /\ f.start_cond_found
<1>1. /\ n.outputs = s /\ n.next_state = m.next_state
      /\ s \in ByteStates \cup {"write_to_ram"} /\ k \in Nat \ {0}
      /\ s \in ByteStates => k <= 7
      /\ ~Early("low_fall") /\ Early("low_rise")
      /\ BitNo(m, "low_fall") = k - 1 /\ BitNo(n, "low_rise") = k
      /\ Shown(m, "low_fall") = x /\ Shown(n, "low_rise") = x
      /\ Silent(n, "low_rise") <=> s = "write_to_ram"
  BY LowFallWaitsView
<1>2. /\ f.state = x /\ f.prev_state = x
      /\ f.outputs = IF s = "write_to_ram" THEN "idle" ELSE x
      /\ f.next_state = IF s = "write_to_ram" THEN x ELSE Follows[x]
  BY <1>1, LowFallState DEF LowFallMove, ByteStates
<1>3. d.state = x /\ d.prev_state = x /\ d.outputs = f.outputs /\ d.next_state = f.next_state
      /\ d.cycles_waited = c.cycles_waited
  BY <1>2 DEF LowFallMove, Falls, SameStates
<1>4. x # "send_ack"
  BY <1>1, HearsAt DEF ByteStates
<1>5. s \in ByteStates => d.cycles_waited = k - 1
  BY <1>1, <1>3 DEF ChipPlaced
<1>6. d.write_bits_used = IF s = "read_data" THEN k ELSE 0
  <2>1. d.write_bits_used = IF s = "read_data" THEN (k - 1 + 1) % 8 ELSE 0
    BY <1>1 DEF ChipPlaced, LowFallMove, Falls, SameBits
  <2>2. s = "read_data" => (k - 1 + 1) % 8 = k
    BY <1>1, SMT DEF ByteStates
  <2> QED
    BY <2>1, <2>2
<1>7. /\ c.read_bits_used = IF s \in Sending THEN k - 1 ELSE 0
      /\ f.read_bits_used = c.read_bits_used
      /\ f.start_cond_found = c.start_cond_found
      /\ f.jump_to_slave_address_read = c.jump_to_slave_address_read
      /\ c.jump_to_slave_address_read <=> (s = "write_slave_addr_read_mode" /\ k - 1 = 0)
      /\ d.read_bits_used = IF takes THEN IF last \/ start THEN 0 ELSE f.read_bits_used + 1
                            ELSE f.read_bits_used
      /\ d.jump_to_slave_address_read <=> IF takes THEN start ELSE f.jump_to_slave_address_read
      /\ m.scl_enable <=> s \in ByteStates
  BY <1>1 DEF ChipPlaced, LowFallMove, Falls, SameBits, Wires, ByteStates
<1>8. CASE s \in Sending
  <2>1. takes /\ f.outputs = x
    BY <1>2, <1>7, <1>8, HearsAt DEF Sending, ByteStates
  <2>2. ~last
    BY <1>1, <1>7, <1>8, <2>1, HearsAt, SMT DEF Sending, ByteStates, ChipByteStates
  <2>3. ~start
    <3>1. x = "receive_data" => s = "write_data"
      BY <1>8, HearsAt DEF Sending, ByteStates
    <3>2. s = "write_data" => ~c.start_cond_found
      BY <1>1 DEF ChipStarted
    <3> QED
      BY <1>7, <2>1, <3>1, <3>2
  <2>4. d.read_bits_used = k - 1 + 1 /\ ~d.jump_to_slave_address_read
    BY <1>7, <1>8, <2>1, <2>2, <2>3
  <2>5. k - 1 + 1 = k
    BY <1>1, SMT
  <2>6. s # "write_to_ram" /\ s # "receive_ack" /\ s # "send_ack" /\ s # "read_data"
    BY <1>8 DEF Sending, ByteStates
  <2> HIDE DEF s, k, x, takes, last, start
  <2> QED
    BY <1>1, <1>2, <1>3, <1>4, <1>5, <1>6, <1>8, <2>4, <2>5, <2>6 DEF ChipPlaced, s
<1>9. CASE s \in {"read_data", "write_to_ram"}
  <2>1. ~takes
    BY <1>2, <1>7, <1>9, HearsAt DEF ByteStates
  <2>2. d.read_bits_used = 0 /\ ~d.jump_to_slave_address_read /\ s \notin Sending
    BY <1>7, <1>9, <2>1 DEF Sending, ByteStates
  <2> HIDE DEF k, x, takes, last, start
  <2> QED
    BY <1>1, <1>2, <1>3, <1>4, <1>5, <1>6, <1>9, <2>2 DEF ChipPlaced
<1> QED
  BY <1>1, <1>8, <1>9 DEF Sending

\* What drives the wires after the fall of clk_100khz within a state.
LEMMA LowFallWaitsWires ==
  ASSUME NEW m, NEW c, NEW f, NEW n, NEW d, NEW u, LowFallMove(m, c, f, n, d, u),
         MasterTypes(m), Placed(m, "low_fall"), ~Taken(m, "low_fall"), OnCourse(m),
         ChipStarted(m, c, "low_fall"), ChipReads(m, c, "low_fall"), Wires(m, c, "low_fall")
  PROVE  /\ OnCourse(n) /\ ChipStarted(n, d, "low_rise") /\ ChipReads(n, d, "low_rise")
         /\ Wires(n, d, "low_rise")
<1> DEFINE s == m.outputs
           k == m.cycles_waited
           x == Hears[s]
           addressed == s \in {"write_slave_addr_write_mode", "write_slave_addr_read_mode"}
<1>1. /\ n.outputs = s /\ n.next_state = m.next_state
      /\ n.eeprom_write_enable_bit = m.eeprom_write_enable_bit
      /\ s \in ByteStates \cup {"write_to_ram"} /\ k \in Nat \ {0}
      /\ s \in ByteStates => k <= 7
      /\ ~Early("low_fall") /\ Early("low_rise")
      /\ BitNo(m, "low_fall") = k - 1 /\ BitNo(n, "low_rise") = k
      /\ Shown(m, "low_fall") = x /\ Shown(n, "low_rise") = x
  BY LowFallWaitsView
<1>2. OnCourse(n)
  BY <1>1 DEF OnCourse
<1>3. /\ d.count = c.count /\ d.trig_state_machine = c.trig_state_machine /\ d.is_read = c.is_read
      /\ d.start_cond_found = c.start_cond_found /\ d.sda_output = c.sda_output
  BY DEF LowFallMove, Falls, SameStates, SameCounts
<1>4. ChipReads(n, d, "low_rise")
  BY <1>1, <1>3 DEF ChipReads
<1>5. ChipStarted(n, d, "low_rise")
  <2>1. EdgesLeft(n, "low_rise") = EdgesLeft(m, "low_fall")
    <3>1. CASE addressed
      <4>1. EdgesLeft(n, "low_rise") = 12 - k /\ EdgesLeft(m, "low_fall") = 11 - (k - 1)
        BY <1>1, <3>1, SMT DEF EdgesLeft
      <4> QED
        BY <1>1, <4>1, SMT
    <3>2. CASE s \in {"write_word_addr", "read_data"}
      <4>1. EdgesLeft(n, "low_rise") = (IF k < 3 THEN 3 - k ELSE 0)
            /\ EdgesLeft(m, "low_fall") = IF k - 1 < 2 THEN 2 - (k - 1) ELSE 0
        BY <1>1, <3>2, SMT DEF EdgesLeft
      <4> QED
        BY <1>1, <4>1, SMT
    <3>3. CASE s \in {"write_data", "write_to_ram"}
      BY <1>1, <3>3 DEF EdgesLeft
    <3> QED
      BY <1>1, <3>1, <3>2, <3>3 DEF ByteStates
  <2>2. /\ addressed => d.trig_state_machine
        /\ d.trig_state_machine => EdgesLeft(n, "low_rise") > 0 \/ s \in {"write_word_addr", "read_data"}
        /\ s \in {"write_word_addr", "read_data"} /\ d.trig_state_machine => k <= 3
    BY <1>1, <1>3, <2>1, SMT DEF ChipStarted
  <2>3. s # "read_data" => (d.start_cond_found <=> addressed /\ k = 1)
    <3>1. s # "read_data" => (d.start_cond_found <=> addressed /\ k - 1 = 0)
      BY <1>1, <1>3 DEF ChipStarted, ByteStates
    <3>2. k - 1 = 0 <=> k = 1
      BY <1>1, SMT
    <3> QED
      BY <3>1, <3>2
  <2>4. d.count = EdgesLeft(n, "low_rise")
    BY <1>3, <2>1 DEF ChipStarted
  <2>5. s \in {"write_slave_addr_write_mode", "write_word_addr", "write_data"} => ~d.is_read
    BY <1>3 DEF ChipStarted
  <2>6. k # 0 /\ s \notin {"create_start_cond", "enable_scl", "create_repeated_start_cond",
                          "receive_ack", "send_ack", "create_stop_cond"}
    BY <1>1 DEF ByteStates
  <2> HIDE DEF s, k, x
  <2> QED
    BY <1>1, <2>2, <2>3, <2>4, <2>5, <2>6 DEF ChipStarted, s
<1>6. Wires(n, d, "low_rise")
  <2>1. /\ n.sda_output = m.sda_output /\ n.write_bits_used = m.write_bits_used
        /\ n.scl_enable = m.scl_enable
        /\ n.read_bits_used = IF s = "read_data" THEN (m.read_bits_used + 1) % 8 ELSE m.read_bits_used
    BY DEF LowFallMove, SameDrive, SameClock
  <2>2. /\ s \in ByteStates => (k - 1 + 1) % 8 = k
        /\ k - 1 = 0 <=> k = 1
    BY <1>1, SMT
  <2>3. /\ n.write_bits_used = IF s \in Sending THEN k ELSE 0
        /\ n.read_bits_used = IF s = "read_data" THEN k ELSE 0
    BY <1>1, <2>1, <2>2 DEF Wires, Sending, ByteStates
  <2>4. /\ s \in {"write_slave_addr_write_mode", "write_slave_addr_read_mode"} =>
              (k = 1 => n.sda_output = 1)
        /\ s \in Sending => n.sda_output \in {0, 1}
        /\ s = "read_data" => n.sda_output = Released
        /\ s = "write_to_ram" => n.sda_output = 1
        /\ n.scl_enable <=> s \in ByteStates
    BY <1>1, <2>1, <2>2 DEF Wires, ByteStates, Sending
  <2>5. /\ CASE x = "send_ack"  -> d.sda_output = 0
             [] x = "send_data" -> d.sda_output \in {0, 1}
             [] OTHER -> d.sda_output = Released
    BY <1>1, <1>3 DEF Wires
  <2>6. k # 0 /\ s \notin {"i2c_nop", "create_start_cond", "enable_scl", "create_repeated_start_cond",
                          "receive_ack", "send_ack", "create_stop_cond"}
    BY <1>1 DEF ByteStates
  <2> HIDE DEF s, k, x
  <2> QED
    BY <1>1, <2>3, <2>4, <2>5, <2>6 DEF Wires, s
<1> QED
  BY <1>2, <1>4, <1>5, <1>6

\* The master takes its next state.
LEMMA LowFallTurnsView ==
  ASSUME NEW m, NEW c, NEW f, NEW n, NEW d, NEW u, LowFallMove(m, c, f, n, d, u),
         MasterTypes(m), Placed(m, "low_fall"), Taken(m, "low_fall"), OnCourse(m),
         Turn(m.outputs, m.next_state, u, m.eeprom_write_enable_bit)
  PROVE  LET s == m.outputs  t == m.next_state IN
         /\ n.outputs = t /\ n.next_state = u /\ n.cycles_waited = 0
         /\ t # "i2c_nop" => (n.eeprom_write_enable_bit <=> m.eeprom_write_enable_bit)
         /\ ~Early("low_fall") /\ Early("low_rise")
         /\ BitNo(m, "low_fall") = WaitCycles(m) /\ BitNo(n, "low_rise") = 0
         /\ s \in ByteStates => BitNo(m, "low_fall") = 7
         /\ Shown(m, "low_fall") = Hears[s] /\ Shown(n, "low_rise") = Hears[s]
         /\ Silent(n, "low_rise") <=>
               s \in {"i2c_nop", "create_start_cond", "enable_scl", "write_to_ram"}
         /\ EdgesLeft(n, "low_rise") = EdgesLeft(m, "low_fall")
         /\ EdgesLeft(n, "low_rise") = IF t = "receive_ack" /\ u \in {"write_word_addr", "read_data"} THEN 4
                                       ELSE IF t \in {"write_word_addr", "read_data"} THEN 3 ELSE 0
<1> DEFINE s == m.outputs
           t == m.next_state
           w == m.eeprom_write_enable_bit
           v == n.eeprom_write_enable_bit
<1>1. /\ n.outputs = t /\ n.next_state = u /\ n.cycles_waited = 0 /\ m.trig_state_machine
      /\ t # "i2c_nop" => (v <=> w)
  BY DEF LowFallMove, Taken, Placed
<1>2. ~Early("low_fall") /\ Early("low_rise")
  BY DEF Early
<1>3. BitNo(m, "low_fall") = WaitCycles(m) /\ BitNo(n, "low_rise") = 0
      /\ Shown(m, "low_fall") = Hears[s] /\ Shown(n, "low_rise") = Heard(t, u, v)
  BY <1>1, <1>2 DEF BitNo, Shown
<1>4. s \in ByteStates => BitNo(m, "low_fall") = 7
  BY <1>3 DEF WaitCycles
<1>5. Turn(s, t, u, w)
  OBVIOUS
<1>6. Heard(t, u, v) = Hears[s]
  <2> HIDE DEF s, t, w, v
  <2> QED
    BY <1>1, <1>5, HearsAt DEF Turn, Heard
<1>7. Silent(n, "low_rise") <=> s \in {"i2c_nop", "create_start_cond", "enable_scl", "write_to_ram"}
  <2>1. Silent(n, "low_rise") <=> Hears[s] = "receive_slave_address" /\ t # "receive_ack"
    BY <1>1, <1>3, <1>6 DEF Silent
  <2> HIDE DEF s, t, w, v
  <2> QED
    BY <1>5, <2>1, HearsAt DEF Turn
<1>8. EdgesLeft(n, "low_rise") = IF t = "receive_ack" /\ u \in {"write_word_addr", "read_data"} THEN 4
                                 ELSE IF t \in {"write_word_addr", "read_data"} THEN 3 ELSE 0
  BY <1>1, <1>2, <1>3, SMT DEF EdgesLeft
<1>9. EdgesLeft(m, "low_fall") = IF s \in {"write_slave_addr_write_mode", "write_slave_addr_read_mode"} THEN 4
                                 ELSE IF s = "receive_ack" /\ t \in {"write_word_addr", "read_data"} THEN 3 ELSE 0
  BY <1>2, <1>4, SMT DEF EdgesLeft, ByteStates
<1>10. EdgesLeft(n, "low_rise") = EdgesLeft(m, "low_fall")
  <2> HIDE DEF s, t, w, v
  <2> QED
    BY <1>5, <1>8, <1>9 DEF Turn
<1> QED
  BY <1>1, <1>2, <1>3, <1>4, <1>6, <1>7, <1>8, <1>10

\* The states and counters of the EEPROM after the fall of clk_100khz that changes the state.
LEMMA LowFallTurnsPlaced ==
  ASSUME NEW m, NEW c, NEW f, NEW n, NEW d, NEW u, LowFallMove(m, c, f, n, d, u),
         MasterTypes(m), Placed(m, "low_fall"), Taken(m, "low_fall"), OnCourse(m),
         Turn(m.outputs, m.next_state, u, m.eeprom_write_enable_bit),
         ChipPlaced(m, c, "low_fall"), ChipStarted(m, c, "low_fall"), Wires(m, c, "low_fall")
  PROVE  ChipPlaced(n, d, "low_rise")
<1> DEFINE s == m.outputs
           t == m.next_state
           w == m.eeprom_write_enable_bit
           x == Hears[s]
           quiet == s \in {"i2c_nop", "create_start_cond", "enable_scl", "write_to_ram"}
           takes == m.scl_enable /\ f.outputs \in {"receive_slave_address", "receive_word_address",
                                                   "receive_data", "receive_ack"}
           last  == f.outputs \notin ChipByteStates \/ f.read_bits_used = 7
           start == ~last /\ f.outputs = "receive_data" /\ f.start_cond_found
           k == BitNo(m, "low_fall")
<1>1. /\ n.outputs = t /\ n.next_state = u
      /\ ~Early("low_fall") /\ Early("low_rise")
      /\ BitNo(n, "low_rise") = 0
      /\ s \in ByteStates => k = 7
      /\ Shown(m, "low_fall") = x /\ Shown(n, "low_rise") = x
      /\ Silent(n, "low_rise") <=> quiet
      /\ s \in MasterStates
  BY LowFallTurnsView DEF MasterTypes
<1>2. /\ f.state = x /\ f.prev_state = x /\ f.outputs = IF quiet THEN "idle" ELSE x
      /\ f.next_state = IF quiet THEN x
                        ELSE IF s = "receive_ack" THEN Hears[t] ELSE Follows[x]
  BY LowFallState DEF LowFallMove
<1>3. d.state = x /\ d.prev_state = x /\ d.outputs = f.outputs /\ d.next_state = f.next_state
      /\ d.cycles_waited = c.cycles_waited
  BY <1>2 DEF LowFallMove, Falls, SameStates
<1>4. Turn(s, t, u, w)
  OBVIOUS
<1>5. x = "send_ack" <=> s = "receive_ack"
  BY <1>1, HearsAt DEF MasterStates, ByteStates
<1>6. s = "receive_ack" => t # "receive_ack"
  BY <1>4 DEF Turn
<1>7. d.next_state = IF quiet THEN x
                     ELSE IF x = "send_ack" THEN Hears[IF t = "receive_ack" THEN u ELSE t]
                     ELSE Follows[x]
  BY <1>2, <1>3, <1>5, <1>6
<1>8. t \in {"receive_ack", "send_ack"} => d.cycles_waited = 7
  <2>1. t \in {"receive_ack", "send_ack"} => s \in ByteStates
    BY <1>4 DEF Turn, ByteStates
  <2> QED
    BY <1>1, <1>3, <2>1 DEF ChipPlaced
<1>9. d.write_bits_used = 0
  <2>1. d.write_bits_used = IF s = "read_data" THEN (k + 1) % 8 ELSE 0
    BY <1>1 DEF ChipPlaced, LowFallMove, Falls, SameBits
  <2>2. s = "read_data" => k = 7
    BY <1>1 DEF ByteStates
  <2> QED
    BY <2>1, <2>2, SMT
<1>10. /\ f.read_bits_used = IF s \in Sending THEN k ELSE 0
       /\ f.start_cond_found = c.start_cond_found
       /\ f.jump_to_slave_address_read <=> (s = "write_slave_addr_read_mode" /\ k = 0)
       /\ d.read_bits_used = IF takes THEN IF last \/ start THEN 0 ELSE f.read_bits_used + 1
                             ELSE f.read_bits_used
       /\ d.jump_to_slave_address_read <=> IF takes THEN start ELSE f.jump_to_slave_address_read
       /\ m.scl_enable <=> s \in ByteStates \cup {"receive_ack", "create_repeated_start_cond",
                                                "send_ack", "enable_scl"}
  BY <1>1 DEF ChipPlaced, LowFallMove, Falls, SameBits, Wires, ByteStates
<1>11. d.read_bits_used = 0
       /\ (d.jump_to_slave_address_read <=> s = "create_repeated_start_cond")
  <2>1. CASE s \in Sending
    <3>1. k = 7 /\ takes /\ last
      BY <1>1, <1>2, <1>10, <2>1, HearsAt DEF Sending, ByteStates
    <3> QED
      BY <1>10, <2>1, <3>1 DEF Sending, ByteStates
  <2>2. CASE s = "create_repeated_start_cond"
    <3>1. f.outputs = "receive_data" /\ takes
      BY <1>2, <1>10, <2>2, HearsAt
    <3>2. f.read_bits_used = 0 /\ f.start_cond_found
      BY <1>1, <1>10, <2>2 DEF Sending, ByteStates, ChipStarted
    <3>3. start
      BY <3>1, <3>2, SMT DEF ChipByteStates
    <3> QED
      BY <1>10, <2>2, <3>1, <3>3
  <2>3. CASE s = "send_ack"
    <3>1. f.outputs = "receive_ack" /\ last
      BY <1>2, <2>3, HearsAt DEF ChipByteStates
    <3>2. f.read_bits_used = 0
      BY <1>10, <2>3 DEF Sending, ByteStates
    <3> QED
      BY <1>10, <2>3, <3>1, <3>2
  <2>4. CASE s \notin Sending \cup {"create_repeated_start_cond", "send_ack"}
    <3>1. ~takes
      BY <1>1, <1>2, <2>4, HearsAt DEF Sending, ByteStates, MasterStates
    <3>2. s # "write_slave_addr_read_mode"
      BY <2>4 DEF Sending, ByteStates
    <3> QED
      BY <1>10, <2>4, <3>1, <3>2
  <2> QED
    BY <2>1, <2>2, <2>3, <2>4
<1>12. s = "create_repeated_start_cond" <=> t = "write_slave_addr_read_mode"
  BY <1>4 DEF Turn
<1>13. d.outputs = IF quiet THEN "idle" ELSE x
  BY <1>2, <1>3
<1> HIDE DEF s, t, w, x, k, takes, last, start, quiet
<1> QED
  BY <1>1, <1>3, <1>7, <1>8, <1>9, <1>11, <1>12, <1>13 DEF ChipPlaced

\* What the EEPROM knows of start conditions after the fall of clk_100khz that changes the state.
LEMMA LowFallTurnsStarted ==
  ASSUME NEW m, NEW c, NEW f, NEW n, NEW d, NEW u, LowFallMove(m, c, f, n, d, u),
         MasterTypes(m), Placed(m, "low_fall"), Taken(m, "low_fall"), OnCourse(m),
         Turn(m.outputs, m.next_state, u, m.eeprom_write_enable_bit),
         ChipStarted(m, c, "low_fall"), ChipReads(m, c, "low_fall")
  PROVE  OnCourse(n) /\ ChipStarted(n, d, "low_rise") /\ ChipReads(n, d, "low_rise")
<1> DEFINE s == m.outputs
           t == m.next_state
           w == m.eeprom_write_enable_bit
           v == n.eeprom_write_enable_bit
           k == BitNo(m, "low_fall")
           e == EdgesLeft(m, "low_fall")
           addressed == {"write_slave_addr_write_mode", "write_slave_addr_read_mode"}
<1>1. /\ n.outputs = t /\ n.next_state = u
      /\ ~Early("low_fall") /\ Early("low_rise")
      /\ BitNo(n, "low_rise") = 0
      /\ s \in ByteStates => k = 7
      /\ s \in MasterStates
      /\ t # "i2c_nop" => (v <=> w)
      /\ EdgesLeft(n, "low_rise") = e
      /\ e = IF t = "receive_ack" /\ u \in {"write_word_addr", "read_data"} THEN 4
             ELSE IF t \in {"write_word_addr", "read_data"} THEN 3 ELSE 0
  BY LowFallTurnsView DEF MasterTypes
<1>2. /\ d.count = c.count /\ d.trig_state_machine = c.trig_state_machine /\ d.is_read = c.is_read
      /\ d.start_cond_found = c.start_cond_found
  BY DEF LowFallMove, Falls, SameStates, SameCounts
<1>3. Turn(s, t, u, w) /\ s \in ByteStates => k # 0 /\ k # 1 /\ ~(k <= 2)
  BY <1>1, SMT
<1>4. OnCourse(n)
  <2> HIDE DEF s, t, w, v
  <2>1. Turn(s, t, u, w)
    BY DEF s, t, w
  <2> QED
    BY <1>1, <2>1 DEF OnCourse, Turn, Reading, v
<1>5. ChipReads(n, d, "low_rise")
  <2>1. t = "read_data" => d.is_read
    <3>1. t = "read_data" => s = "receive_ack"
      BY DEF Turn
    <3> QED
      BY <1>2, <3>1 DEF ChipReads
  <2>2. t = "receive_ack" /\ u = "read_data" => d.is_read
    <3>1. t = "receive_ack" /\ u = "read_data" => s = "write_slave_addr_read_mode"
      BY DEF Turn
    <3>2. s = "write_slave_addr_read_mode" => c.is_read
      BY DEF ChipReads
    <3> QED
      BY <1>2, <3>1, <3>2
  <2> QED
    BY <1>1, <2>1, <2>2 DEF ChipReads
<1>6. d.count = EdgesLeft(n, "low_rise")
  BY <1>1, <1>2 DEF ChipStarted
<1>7. /\ t \in addressed => ~d.trig_state_machine
      /\ d.trig_state_machine => e > 0 \/ t \in {"write_word_addr", "read_data"}
  <2>1. s \in {"write_word_addr", "read_data"} => ~c.trig_state_machine
    BY <1>1, SMT DEF ChipStarted, ByteStates
  <2>2. c.trig_state_machine => e > 0
    BY <2>1 DEF ChipStarted
  <2>3. t \in addressed => ~(e > 0)
    BY <1>1, SMT
  <2> QED
    BY <1>2, <2>2, <2>3
<1>8. CASE t \in {"read_data", "send_ack"} \/ (t = "create_stop_cond" /\ ~v)
  <2>1. (t = "receive_ack" /\ u # "read_data")
           \/ t \in {"enable_scl", "write_slave_addr_write_mode", "write_word_addr", "write_data",
                    "create_repeated_start_cond"} => ~d.is_read
    BY <1>8
  <2> HIDE DEF s, t, w, k, e
  <2> QED
    BY <1>1, <1>4, <1>5, <1>6, <1>7, <1>8, <2>1, SMT DEF ChipStarted, v
<1>9. CASE ~(t \in {"read_data", "send_ack"} \/ (t = "create_stop_cond" /\ ~v))
  <2>1. d.start_cond_found <=> t = "enable_scl" \/ t \in addressed
    <3>1. s \notin {"read_data", "send_ack"}
      BY <1>1, <1>9 DEF Turn
    <3>2. c.start_cond_found <=>
             s \in {"create_start_cond", "enable_scl", "create_repeated_start_cond"}
      BY <1>1, <3>1, SMT DEF ChipStarted, ByteStates
    <3>3. t = "enable_scl" \/ t \in addressed <=>
             s \in {"create_start_cond", "enable_scl", "create_repeated_start_cond"}
      BY DEF Turn
    <3> QED
      BY <1>2, <3>2, <3>3
  <2>2. (t = "receive_ack" /\ u # "read_data")
           \/ t \in {"enable_scl", "write_slave_addr_write_mode", "write_word_addr", "write_data",
                    "create_repeated_start_cond"} => ~d.is_read
    <3>1. (t = "receive_ack" /\ u # "read_data")
             \/ t \in {"enable_scl", "write_slave_addr_write_mode", "write_word_addr", "write_data",
                      "create_repeated_start_cond"} =>
            \/ s \in {"create_start_cond", "enable_scl", "write_slave_addr_write_mode",
                     "write_word_addr", "write_data"}
            \/ s = "receive_ack" /\ t # "read_data"
      BY DEF Turn
    <3> QED
      BY <1>2, <3>1 DEF ChipStarted
  <2> HIDE DEF s, t, w, k, e
  <2> QED
    BY <1>1, <1>4, <1>5, <1>6, <1>7, <1>9, <2>1, <2>2, SMT DEF ChipStarted, v
<1> QED
  BY <1>8, <1>9

\* What drives the wires after the fall of clk_100khz that changes the state.
LEMMA LowFallTurnsWires ==
  ASSUME NEW m, NEW c, NEW f, NEW n, NEW d, NEW u, LowFallMove(m, c, f, n, d, u),
         MasterTypes(m), Placed(m, "low_fall"), Taken(m, "low_fall"), OnCourse(m),
         Turn(m.outputs, m.next_state, u, m.eeprom_write_enable_bit),
         Wires(m, c, "low_fall")
  PROVE  Wires(n, d, "low_rise")
<1> DEFINE s == m.outputs
           t == m.next_state
           w == m.eeprom_write_enable_bit
           v == n.eeprom_write_enable_bit
           k == BitNo(m, "low_fall")
           x == Hears[s]
<1>1. /\ n.outputs = t /\ n.next_state = u
      /\ BitNo(n, "low_rise") = 0
      /\ s \in ByteStates => k = 7
      /\ Shown(m, "low_fall") = x /\ Shown(n, "low_rise") = x
      /\ t # "i2c_nop" => (v <=> w)
  BY LowFallTurnsView
<1>2. Turn(s, t, u, w)
  OBVIOUS
<1>3. /\ n.sda_output = m.sda_output /\ n.write_bits_used = m.write_bits_used
      /\ n.scl_enable = m.scl_enable /\ d.sda_output = c.sda_output
      /\ n.read_bits_used = IF s = "read_data" THEN (m.read_bits_used + 1) % 8 ELSE m.read_bits_used
  BY DEF LowFallMove, SameDrive, SameClock, Falls
<1>4. n.write_bits_used = 0 /\ n.read_bits_used = 0
  <2>1. s \in ByteStates => (k + 1) % 8 = 0
    BY <1>1, SMT
  <2>2. /\ m.write_bits_used = IF s \in Sending THEN (k + 1) % 8 ELSE 0
        /\ m.read_bits_used = IF s = "read_data" THEN k ELSE 0
    BY DEF Wires
  <2> HIDE DEF k
  <2> QED
    BY <1>3, <2>1, <2>2 DEF Sending, ByteStates
<1>5. (CASE x = "send_ack"  -> d.sda_output = 0
         [] x = "send_data" -> d.sda_output \in {0, 1}
         [] OTHER -> d.sda_output = Released)
  BY <1>1, <1>3 DEF Wires
<1>6. n.scl_enable <=> t \in ByteStates \cup {"receive_ack", "create_repeated_start_cond",
                                            "send_ack", "create_stop_cond"}
  <2>1. n.scl_enable <=> s \in ByteStates \cup {"receive_ack", "create_repeated_start_cond",
                                              "send_ack", "enable_scl"}
    BY <1>3 DEF Wires, ByteStates
  <2> HIDE DEF s, t, w
  <2> QED
    BY <1>2, <2>1 DEF Turn, ByteStates
<1>7. /\ s \in {"i2c_nop", "write_to_ram"} => n.sda_output = 1
      /\ s \in {"create_start_cond", "enable_scl", "create_repeated_start_cond"} => n.sda_output = 0
      /\ s \in {"receive_ack", "read_data"} => n.sda_output = Released
      /\ s \in {"send_ack", "create_stop_cond"} => n.sda_output = 1
  BY <1>3 DEF Wires
<1>8. /\ t \in {"i2c_nop", "write_to_ram", "create_start_cond"} => n.sda_output = 1
      /\ t \in {"enable_scl", "write_slave_addr_write_mode", "write_slave_addr_read_mode"} =>
            n.sda_output = 0
      /\ t \in {"read_data", "create_repeated_start_cond", "send_ack"} => n.sda_output = Released
      /\ t = "create_stop_cond" => n.sda_output = IF v THEN Released ELSE 1
  <2> HIDE DEF s, t, w, v
  <2> QED
    BY <1>1, <1>2, <1>7 DEF Turn
<1> HIDE DEF s, t, w, k, x
<1> QED
  BY <1>1, <1>4, <1>5, <1>6, <1>8 DEF Wires, v

-----------------------------------------------------------------------------
\* The level of the line depends on what the two ends drive alone.
LEMMA SameLine ==
  ASSUME NEW m, NEW c, NEW d, d.sda_output = c.sda_output
  PROVE  Line(m, d) = Line(m, c)
BY DEF Line

SentBit(m, a, d) ==
    IF m.outputs \in Sending THEN Bit(SentByte(m, a, d), 7 - m.write_bits_used) ELSE 0

\* The bits of the bytes sent; a slave address begins with 1 and 0.
LEMMA SentBits ==
  ASSUME NEW m \in Masters, NEW a \in Byte, NEW d \in Byte
  PROVE  /\ SentBit(m, a, d) \in {0, 1}
         /\ m.outputs \in {"write_slave_addr_write_mode", "write_slave_addr_read_mode"} =>
              /\ m.write_bits_used = 0 => SentBit(m, a, d) = 1
              /\ m.write_bits_used = 1 => SentBit(m, a, d) = 0
<1>1. m.outputs \in Sending => SentByte(m, a, d) \in Byte
  BY SMT DEF SentByte, Sending, ByteStates, Byte, SLAVE_ADDRESS_READ, SLAVE_ADDRESS_WRITE
<1>2. 7 - m.write_bits_used \in 0..7
  BY BitFacts DEF Masters
<1>3. SentBit(m, a, d) \in {0, 1}
  <2>1. CASE m.outputs \in Sending
    BY <1>1, <1>2, <2>1, BitType, SMT DEF SentBit, Byte
  <2>2. CASE m.outputs \notin Sending
    BY <2>2 DEF SentBit
  <2> QED
    BY <2>1, <2>2
<1>4. /\ Bit(160, 7) = 1 /\ Bit(160, 6) = 0 /\ Bit(161, 7) = 1 /\ Bit(161, 6) = 0
  BY SMT DEF Bit, Weight
<1>5. ASSUME m.outputs \in {"write_slave_addr_write_mode", "write_slave_addr_read_mode"},
             NEW k \in {0, 1}, m.write_bits_used = k
      PROVE  SentBit(m, a, d) = 1 - k
  <2>1. SentByte(m, a, d) \in {160, 161}
    BY <1>5 DEF SentByte, SLAVE_ADDRESS_READ, SLAVE_ADDRESS_WRITE
  <2>2. SentBit(m, a, d) = Bit(SentByte(m, a, d), 7 - k)
    BY <1>5 DEF SentBit, Sending, ByteStates
  <2>3. 7 - 0 = 7 /\ 7 - 1 = 6 /\ 1 - 0 = 1 /\ 1 - 1 = 0
    OBVIOUS
  <2> QED
    BY <1>4, <2>1, <2>2, <2>3
<1> QED
  BY <1>3, <1>5, SMT

\* The fields that the rise of clk_200khz under a low clk_100khz moves, in both state machines.
LEMMA LowRiseMoves ==
  ASSUME NEW m \in Masters, NEW c \in Chips, NEW a, NEW b,
         master = m, chip = c, LowRise, eeadr_int = a, eedata_int = b
  PROVE  /\ LowRiseMove(m, c, master', chip', SentBit(m, a, b))
         /\ SameStarts(m, master') /\ SameBytes(c, chip') /\ master'.data_out = m.data_out
<1> DEFINE n == master'
           g == ChipRiseLow(c)
           d == chip'
<1>1. n = MasterRiseLow(m, a, b) /\ d = PollStart(g, Line(m, c), Line(n, g), Scl(0))
  BY DEF LowRise, Moved, sda
<1>2. g \in Chips
  BY ChipRiseLowType
<1>3. LET moves == c.outputs \in ChipByteStates /\ c.cycles_waited < 7
          idle == c.next_state = "receive_slave_address" /\ c.prev_state = "receive_slave_address"
      IN  /\ g.state = IF c.jump_to_slave_address_read THEN "receive_slave_address"
                       ELSE IF moves THEN c.state ELSE c.next_state
          /\ g.cycles_waited = IF ~c.jump_to_slave_address_read /\ moves
                               THEN c.cycles_waited + 1 ELSE 0
          /\ g.is_read <=> (c.jump_to_slave_address_read \/ (c.is_read /\ ~idle))
          /\ g.next_state = c.next_state /\ g.prev_state = c.prev_state /\ g.outputs = c.outputs
          /\ SameBits(c, g) /\ SameCounts(c, g) /\ SameBytes(c, g)
          /\ g.sda_output = c.sda_output /\ g.start_cond_found = c.start_cond_found
  BY ChipRiseLowFields
<1>4. /\ SameStates(g, d) /\ SameBits(g, d) /\ SameCounts(g, d) /\ SameBytes(g, d)
      /\ d.sda_output = g.sda_output
      /\ d.start_cond_found = IF Line(m, c) = 1 /\ Line(n, g) = 0 THEN Scl(0) = 1
                              ELSE g.start_cond_found
  BY <1>1, <1>2, PollStartFields
<1>5. Line(n, g) = Line(n, d) /\ (Scl(0) = 1 <=> ~m.scl_enable)
  BY <1>4, SameLine DEF Scl
<1>6. /\ SamePlace(m, n) /\ SameStarts(m, n) /\ SameClock(m, n) /\ SameAnswer(m, n)
      /\ n.cycles_waited = m.cycles_waited /\ n.trig_state_machine = FALSE
      /\ n.write_bits_used = IF m.outputs \in Sending THEN (m.write_bits_used + 1) % 8
                            ELSE m.write_bits_used
      /\ n.sda_output =
           CASE m.outputs \in Sending -> Bit(SentByte(m, a, b), 7 - m.write_bits_used)
             [] m.outputs \in {"create_start_cond", "create_stop_cond"} -> 0
             [] m.outputs \in {"create_repeated_start_cond", "send_ack"} -> 1
             [] m.outputs = "receive_ack" -> Released
             [] OTHER -> m.sda_output
  BY <1>1, MasterRiseLowFields
<1> HIDE DEF g
<1>7. n.sda_output =
           CASE m.outputs \in Sending -> SentBit(m, a, b)
             [] m.outputs \in {"create_start_cond", "create_stop_cond"} -> 0
             [] m.outputs \in {"create_repeated_start_cond", "send_ack"} -> 1
             [] m.outputs = "receive_ack" -> Released
             [] OTHER -> m.sda_output
  BY <1>6 DEF SentBit
<1>8. /\ d.state = g.state /\ d.cycles_waited = g.cycles_waited /\ d.is_read = g.is_read
      /\ d.next_state = g.next_state /\ d.prev_state = g.prev_state /\ d.outputs = g.outputs
      /\ SameBits(c, d) /\ SameCounts(c, d) /\ SameBytes(c, d)
  BY <1>3, <1>4 DEF SameStates, SameBits, SameCounts, SameBytes
<1>9. d.start_cond_found <=> IF Line(m, c) = 1 /\ Line(n, d) = 0 THEN ~m.scl_enable
                             ELSE c.start_cond_found
  BY <1>3, <1>4, <1>5
<1> HIDE DEF n, d
<1> QED
  BY <1>3, <1>4, <1>6, <1>7, <1>8, <1>9 DEF LowRiseMove, Quietly, SameAnswer, n, d

\* The fields that the rise of clk_200khz under a high clk_100khz moves, in both state machines.
LEMMA HighRiseMoves ==
  ASSUME NEW m \in Masters, NEW c \in Chips, master = m, chip = c, HighRise
  PROVE  /\ HighRiseMove(m, c, master', chip')
         /\ SameStarts(m, master') /\ SameBytes(c, chip') /\ master'.data_out = m.data_out
<1> DEFINE n == master'
           d == chip'
<1>1. n = MasterRiseHigh(m, Line(m, c)) /\ d = PollStart(c, Line(m, c), Line(n, c), 1)
  BY DEF HighRise, Moved, sda
<1>2. /\ SameStates(c, d) /\ SameBits(c, d) /\ SameCounts(c, d) /\ SameBytes(c, d)
      /\ d.sda_output = c.sda_output
      /\ d.start_cond_found = IF Line(m, c) = 1 /\ Line(n, c) = 0 THEN 1 = 1 ELSE c.start_cond_found
  BY <1>1, PollStartFields
<1>3. Line(n, c) = Line(n, d)
  BY <1>2, SameLine
<1>4. LET waits == m.cycles_waited < WaitCycles(m)
      IN  /\ SameStage(m, n) /\ SameStarts(m, n) /\ SameAnswer(m, n)
          /\ n.prev_state = m.prev_state
          /\ n.eeprom_write_enable_bit = m.eeprom_write_enable_bit
          /\ n.write_bits_used = m.write_bits_used
          /\ n.sda_output =
               CASE m.outputs \in {"create_start_cond", "create_repeated_start_cond"} -> 0
                 [] m.outputs = "create_stop_cond" -> 1
                 [] OTHER -> m.sda_output
          /\ n.cycles_waited = IF waits THEN m.cycles_waited + 1 ELSE 0
          /\ n.trig_state_machine = ~waits
          /\ n.state = IF waits THEN m.state ELSE m.next_state
          /\ n.scl_enable = ((m.scl_enable \/ m.outputs = "enable_scl")
                              /\ m.outputs # "create_stop_cond")
          /\ n.is_ack_received = (m.outputs = "receive_ack" /\ Line(m, c) = 0)
  BY <1>1, MasterRiseHighFields
<1>5. d.start_cond_found <=> (Line(m, c) = 1 /\ Line(n, d) = 0) \/ c.start_cond_found
  BY <1>2, <1>3
<1> HIDE DEF n, d
<1> QED
  BY <1>2, <1>4, <1>5 DEF HighRiseMove, SameAnswer, n, d

\* The fields that the rise of clk_100khz moves, in both state machines.
LEMMA HighFallMoves ==
  ASSUME NEW m \in Masters, NEW c \in Chips, NEW f, f = ChipFall200(c),
         master = m, chip = c, HighFall
  PROVE  /\ HighFallMove(m, c, f, master', chip',
                         Bit(Stored(c.eeprom, c.mem_address), 7 - c.write_bits_used))
         /\ master'.data_out = m.data_out
         /\ chip'.received_data = c.received_data
         /\ chip'.mem_address = IF m.scl_enable /\ f.outputs = "send_ack" /\ f.next_state = "receive_data"
                                THEN c.received_data ELSE c.mem_address
         /\ chip'.eeprom = IF m.scl_enable /\ Stores(f) THEN Store(c.eeprom, c.mem_address, c.received_data)
                           ELSE c.eeprom
         /\ served' = (served \/ (m.scl_enable /\ Stores(f)))
<1> DEFINE n == master'
           g == IF m.scl_enable THEN ChipRiseScl(f) ELSE f
           d == chip'
           b == Bit(Stored(c.eeprom, c.mem_address), 7 - c.write_bits_used)
           counts == f.start_cond_found /\ f.sda_output = Released
<1>1. /\ n = MasterRise100(m, eecon_int) /\ d = PollStart(g, Line(m, c), Line(n, g), 1)
      /\ served' = (served \/ (m.scl_enable /\ Stores(f)))
  BY DEF HighFall, Moved, sda
<1>2. f \in Chips /\ g \in Chips
  BY ChipFall200Type, ChipRiseSclType
<1>3. Falls(c, f)
  BY ChipFall200Fields DEF Falls
<1>4. /\ f.eeprom = c.eeprom /\ f.mem_address = c.mem_address /\ f.received_data = c.received_data
      /\ f.write_bits_used = c.write_bits_used
  BY <1>3 DEF Falls, SameBits, SameBytes
<1>5. LET count == IF counts THEN 12 ELSE f.count
          e == ChipRiseScl(f)
      IN  /\ SameStates(f, e) /\ e.start_cond_found = f.start_cond_found
          /\ e.count = IF count > 0 THEN count - 1 ELSE 0
          /\ e.trig_state_machine = (count > 0)
          /\ e.read_bits_used = f.read_bits_used
          /\ e.jump_to_slave_address_read = f.jump_to_slave_address_read
          /\ e.write_bits_used = IF f.outputs = "send_data" THEN (f.write_bits_used + 1) % 8
                                ELSE f.write_bits_used
          /\ e.received_data = f.received_data
          /\ e.sda_output = CASE f.outputs = "send_ack" -> 0
                             [] f.outputs = "send_data" ->
                                  Bit(Stored(f.eeprom, f.mem_address), 7 - f.write_bits_used)
                             [] OTHER -> Released
          /\ e.mem_address = IF f.outputs = "send_ack" /\ f.next_state = "receive_data"
                            THEN f.received_data ELSE f.mem_address
          /\ e.eeprom = IF Stores(f) THEN Store(f.eeprom, f.mem_address, f.received_data)
                       ELSE f.eeprom
  BY <1>2, ChipRiseSclFields
<1>6. LET e == ChipRiseScl(f)
      IN  /\ e.count = IF counts THEN 11 ELSE IF f.count > 0 THEN f.count - 1 ELSE 0
          /\ e.trig_state_machine <=> counts \/ f.count > 0
  <2>1. f.count \in 0..12
    BY <1>2, ChipFacts
  <2> DEFINE t == IF counts THEN 12 ELSE f.count
             e == ChipRiseScl(f)
  <2>2. e.count = (IF t > 0 THEN t - 1 ELSE 0) /\ (e.trig_state_machine <=> t > 0)
    BY <1>5
  <2>3. t = IF counts THEN 12 ELSE f.count
    OBVIOUS
  <2> HIDE DEF counts, t, e
  <2>4. CASE counts
    BY <2>2, <2>3, <2>4, SMT DEF e
  <2>5. CASE ~counts
    BY <2>1, <2>2, <2>3, <2>5, SMT DEF e
  <2> QED
    BY <2>4, <2>5
<1>7. /\ SameStates(g, d) /\ SameBits(g, d) /\ SameCounts(g, d) /\ SameBytes(g, d)
      /\ d.sda_output = g.sda_output
      /\ d.start_cond_found = IF Line(m, c) = 1 /\ Line(n, g) = 0 THEN 1 = 1 ELSE g.start_cond_found
  BY <1>1, <1>2, PollStartFields
<1>8. Line(n, g) = Line(n, d)
  BY <1>7, SameLine
<1>9. /\ SamePlace(m, n) /\ SameClock(m, n) /\ SameAnswer(m, n) /\ SameDrive(m, n)
      /\ n.cycles_waited = m.cycles_waited /\ n.trig_state_machine = m.trig_state_machine
  BY <1>1, MasterRise100Fields
<1> HIDE DEF b, counts
<1>10. /\ SameStates(f, d) /\ d.read_bits_used = f.read_bits_used
       /\ d.jump_to_slave_address_read = f.jump_to_slave_address_read
       /\ d.count = IF m.scl_enable
                    THEN IF counts THEN 11 ELSE IF f.count > 0 THEN f.count - 1 ELSE 0
                    ELSE f.count
       /\ d.trig_state_machine <=>
             IF m.scl_enable THEN counts \/ f.count > 0 ELSE f.trig_state_machine
       /\ d.write_bits_used = IF m.scl_enable /\ f.outputs = "send_data"
                              THEN (f.write_bits_used + 1) % 8 ELSE f.write_bits_used
       /\ d.sda_output = IF m.scl_enable THEN CASE f.outputs = "send_ack" -> 0
                                               [] f.outputs = "send_data" -> b
                                               [] OTHER -> Released
                         ELSE f.sda_output
       /\ g.start_cond_found = f.start_cond_found
       /\ d.received_data = c.received_data
       /\ d.mem_address = IF m.scl_enable /\ f.outputs = "send_ack" /\ f.next_state = "receive_data"
                          THEN c.received_data ELSE c.mem_address
       /\ d.eeprom = IF m.scl_enable /\ Stores(f) THEN Store(c.eeprom, c.mem_address, c.received_data)
                     ELSE c.eeprom
  <2> HIDE DEF d
  <2>1. CASE m.scl_enable
    <3>1. g = ChipRiseScl(f)
      BY <2>1
    <3>2. g.sda_output = CASE f.outputs = "send_ack" -> 0
                          [] f.outputs = "send_data" -> b
                          [] OTHER -> Released
      BY <1>4, <1>5, <3>1 DEF b
    <3> HIDE DEF g
    <3> QED
      BY <1>4, <1>5, <1>6, <1>7, <2>1, <3>1, <3>2
         DEF SameStates, SameBits, SameCounts, SameBytes
  <2>2. CASE ~m.scl_enable
    <3>1. g = f
      BY <2>2
    <3> HIDE DEF g
    <3> QED
      BY <1>4, <1>7, <2>2, <3>1 DEF SameStates, SameBits, SameCounts, SameBytes
  <2> QED
    BY <2>1, <2>2
<1>11. d.start_cond_found <=> (Line(m, c) = 1 /\ Line(n, d) = 0) \/ f.start_cond_found
  BY <1>7, <1>8, <1>10
<1> HIDE DEF n, d, g
<1> QED
  BY <1>1, <1>3, <1>9, <1>10, <1>11
  DEF HighFallMove, Quietly, SameAnswer, SameClock, SameStates, counts, n, d, b

\* The fields that the fall of clk_100khz moves, in both state machines.
LEMMA LowFallMoves ==
  ASSUME NEW m \in Masters, NEW c \in Chips, NEW f, f = ChipFall200(c),
         master = m, chip = c, LowFall
  PROVE  LET takes == m.scl_enable /\ f.outputs \in {"receive_slave_address", "receive_word_address",
                                                     "receive_data", "receive_ack"}
             index == IF f.outputs \in ChipByteStates THEN 7 - c.read_bits_used ELSE 0
         IN  /\ LowFallMove(m, c, f, master', chip', Successor(m, eecon_int))
             /\ SameStarts(m, master')
             /\ master'.data_out = IF m.outputs = "read_data"
                                   THEN PutBit(m.data_out, 7 - m.read_bits_used,
                                               IF Line(m, c) = 1 THEN 1 ELSE 0)
                                   ELSE m.data_out
             /\ chip'.received_data = IF takes
                                      THEN PutBit(c.received_data, index, IF Line(m, c) = 1 THEN 1 ELSE 0)
                                      ELSE c.received_data
             /\ chip'.mem_address = c.mem_address /\ chip'.eeprom = c.eeprom
<1> DEFINE n == master'
           e == ChipFallScl(f, Line(m, c))
           g == IF m.scl_enable THEN e ELSE f
           d == chip'
           rcv == f.outputs \in {"receive_slave_address", "receive_word_address",
                                 "receive_data", "receive_ack"}
           last  == f.outputs \notin ChipByteStates \/ f.read_bits_used = 7
           start == ~last /\ f.outputs = "receive_data" /\ f.start_cond_found
           r == PutBit(c.received_data, IF f.outputs \in ChipByteStates THEN 7 - c.read_bits_used ELSE 0,
                       IF Line(m, c) = 1 THEN 1 ELSE 0)
<1>1. n = MasterFall(m, eecon_int, Line(m, c)) /\ d = PollStart(g, Line(m, c), Line(n, g), Scl(0))
  BY DEF LowFall, Moved, sda
<1>2. f \in Chips /\ g \in Chips
  BY ChipFall200Type, ChipFallSclType
<1>3. Falls(c, f)
  BY ChipFall200Fields DEF Falls
<1>4. /\ f.eeprom = c.eeprom /\ f.mem_address = c.mem_address /\ f.received_data = c.received_data
      /\ f.write_bits_used = c.write_bits_used /\ f.sda_output = c.sda_output
      /\ f.read_bits_used = c.read_bits_used
  BY <1>3 DEF Falls, SameBits, SameBytes
<1>5. /\ SameStates(f, e) /\ SameCounts(f, e)
      /\ e.sda_output = f.sda_output /\ e.start_cond_found = f.start_cond_found
      /\ e.write_bits_used = f.write_bits_used
      /\ e.mem_address = f.mem_address /\ e.eeprom = f.eeprom
      /\ e.received_data = IF rcv THEN r ELSE c.received_data
      /\ e.read_bits_used = IF rcv THEN IF last \/ start THEN 0 ELSE f.read_bits_used + 1
                            ELSE f.read_bits_used
      /\ e.jump_to_slave_address_read = IF rcv THEN start ELSE f.jump_to_slave_address_read
  BY <1>2, <1>4, ChipFallSclFields
<1>6. /\ SameStates(g, d) /\ SameBits(g, d) /\ SameCounts(g, d) /\ SameBytes(g, d)
      /\ d.sda_output = g.sda_output
      /\ d.start_cond_found = IF Line(m, c) = 1 /\ Line(n, g) = 0 THEN Scl(0) = 1
                              ELSE g.start_cond_found
  BY <1>1, <1>2, PollStartFields
<1>7. /\ SameStarts(m, n) /\ SameDrive(m, n) /\ SameClock(m, n)
      /\ n.cycles_waited = m.cycles_waited
      /\ ~m.trig_state_machine => SamePlace(m, n)
      /\ m.trig_state_machine =>
           /\ n.outputs = m.state /\ n.next_state = Successor(m, eecon_int)
           /\ n.eeprom_write_enable_bit =
                IF m.state = "i2c_nop"
                THEN Successor(m, eecon_int) # "i2c_nop" /\ ~m.start_read_procedure
                ELSE m.eeprom_write_enable_bit
      /\ n.data_out = IF m.outputs = "read_data"
                      THEN PutBit(m.data_out, 7 - m.read_bits_used, IF Line(m, c) = 1 THEN 1 ELSE 0)
                      ELSE m.data_out
      /\ n.read_bits_used = IF m.outputs = "read_data" THEN (m.read_bits_used + 1) % 8
                            ELSE m.read_bits_used
  BY <1>1, MasterFallFields
<1>8. g.sda_output = c.sda_output /\ g.start_cond_found = f.start_cond_found
  BY <1>4, <1>5
<1>9. d.start_cond_found = f.start_cond_found
  <2>1. Line(n, g) = Line(m, c)
    BY <1>7, <1>8 DEF Line, SameDrive
  <2> QED
    BY <1>6, <1>8, <2>1, SMT
<1> HIDE DEF n, d, r, e, last, start, rcv
<1>10. /\ SameStates(f, d) /\ SameCounts(f, d)
       /\ d.sda_output = f.sda_output /\ d.write_bits_used = f.write_bits_used
       /\ d.mem_address = c.mem_address /\ d.eeprom = c.eeprom
       /\ d.received_data = IF m.scl_enable /\ rcv THEN r ELSE c.received_data
       /\ d.read_bits_used = IF m.scl_enable /\ rcv
                             THEN IF last \/ start THEN 0 ELSE f.read_bits_used + 1
                             ELSE f.read_bits_used
       /\ d.jump_to_slave_address_read <=> IF m.scl_enable /\ rcv THEN start
                                           ELSE f.jump_to_slave_address_read
  <2>1. CASE m.scl_enable
    <3>1. g = e
      BY <2>1
    <3> HIDE DEF g
    <3> QED
      BY <1>4, <1>5, <1>6, <2>1, <3>1 DEF SameStates, SameBits, SameCounts, SameBytes
  <2>2. CASE ~m.scl_enable
    <3>1. g = f
      BY <2>2
    <3> HIDE DEF g
    <3> QED
      BY <1>4, <1>6, <2>2, <3>1 DEF SameStates, SameBits, SameCounts, SameBytes
  <2> QED
    BY <2>1, <2>2
<1>11. m.trig_state_machine =>
          (n.eeprom_write_enable_bit <=>
             IF m.state = "i2c_nop"
             THEN Successor(m, eecon_int) # "i2c_nop" /\ ~m.start_read_procedure
             ELSE m.eeprom_write_enable_bit)
  BY <1>7
<1> HIDE DEF g
<1> QED
  BY <1>3, <1>7, <1>9, <1>10, <1>11 DEF LowFallMove, n, d, r, last, start, rcv

-----------------------------------------------------------------------------
\* What the earlier invariants give for the steps of the protocol.
LEMMA ProtocolTypes ==
  ASSUME LinkInv, TimingInv
  PROVE  /\ master \in Masters /\ chip \in Chips /\ phase \in Phases
         /\ MasterTypes(master) /\ ChipTypeOK(chip) /\ Placed(master, phase)
         /\ eeadr_int \in Byte /\ eedata_int \in Byte /\ eecon_int \in Byte
BY MasterTyped, ChipsTyped DEF LinkInv, EepromTypeOK, RamType, TimingInv

\* The two state machines stay in step at the rise of clk_200khz under a low clk_100khz.
LEMMA LowRiseProtocol ==
  ASSUME LinkInv, TimingInv, ProtocolInv, phase = "low_rise", phase' = "high_fall", LowRise
  PROVE  ProtocolInv'
<1> DEFINE b == SentBit(master, eeadr_int, eedata_int)
<1>1. /\ master \in Masters /\ chip \in Chips /\ MasterTypes(master) /\ ChipTypeOK(chip)
      /\ Placed(master, "low_rise") /\ eeadr_int \in Byte /\ eedata_int \in Byte
  BY ProtocolTypes
<1>2. LowRiseMove(master, chip, master', chip', b)
  BY <1>1, LowRiseMoves
<1>3. /\ OnCourse(master) /\ ChipPlaced(master, chip, "low_rise")
      /\ ChipStarted(master, chip, "low_rise") /\ ChipReads(master, chip, "low_rise")
      /\ Wires(master, chip, "low_rise")
  BY DEF ProtocolInv
<1>4. /\ b \in {0, 1}
      /\ master.outputs \in {"write_slave_addr_write_mode", "write_slave_addr_read_mode"} =>
            (master.write_bits_used = 0 => b = 1) /\ (master.write_bits_used = 1 => b = 0)
  BY <1>1, SentBits
<1> HIDE DEF b
<1>5. OnCourse(master')
  BY <1>2, <1>3, LowRiseOnCourse
<1>6. ChipPlaced(master', chip', "high_fall")
  BY <1>1, <1>2, <1>3, LowRisePlaced
<1>7. ChipStarted(master', chip', "high_fall")
  BY <1>1, <1>2, <1>3, <1>4, LowRiseStarted
<1>8. ChipReads(master', chip', "high_fall")
  BY <1>1, <1>2, <1>3, LowRiseReads
<1>9. Wires(master', chip', "high_fall")
  BY <1>1, <1>2, <1>3, <1>4, LowRiseWires
<1> QED
  BY <1>5, <1>6, <1>7, <1>8, <1>9 DEF ProtocolInv

\* The two state machines stay in step at the rise of clk_100khz.
LEMMA HighFallProtocol ==
  ASSUME LinkInv, TimingInv, ProtocolInv, phase = "high_fall", phase' = "high_rise", HighFall
  PROVE  ProtocolInv'
<1> DEFINE b == Bit(Stored(chip.eeprom, chip.mem_address), 7 - chip.write_bits_used)
           f == ChipFall200(chip)
<1>1. /\ master \in Masters /\ chip \in Chips /\ MasterTypes(master) /\ ChipTypeOK(chip)
      /\ Placed(master, "high_fall")
  BY ProtocolTypes
<1>2. HighFallMove(master, chip, f, master', chip', b)
  BY <1>1, HighFallMoves
<1>3. /\ OnCourse(master) /\ ChipPlaced(master, chip, "high_fall")
      /\ ChipStarted(master, chip, "high_fall") /\ ChipReads(master, chip, "high_fall")
      /\ Wires(master, chip, "high_fall")
  BY DEF ProtocolInv
<1>4. b \in {0, 1}
  <2>1. chip.eeprom \in Contents /\ chip.mem_address \in Byte /\ chip.write_bits_used \in 0..7
        /\ \A a \in DOMAIN chip.eeprom : chip.eeprom[a] \in Byte
    BY <1>1, ChipFacts
  <2>2. Stored(chip.eeprom, chip.mem_address) \in Nat
    BY <2>1, SMT DEF Stored, Byte
  <2>3. 7 - chip.write_bits_used \in 0..7
    BY <2>1, BitFacts
  <2> QED
    BY <2>2, <2>3, BitType
<1> HIDE DEF b, f
<1>5. OnCourse(master')
  <2>1. master'.outputs = master.outputs /\ master'.next_state = master.next_state
        /\ master'.eeprom_write_enable_bit = master.eeprom_write_enable_bit
    BY <1>2 DEF HighFallMove, Quietly, SamePlace, SameStage
  <2> QED
    BY <1>3, <2>1 DEF OnCourse
<1>6. ChipPlaced(master', chip', "high_rise")
  BY <1>1, <1>2, <1>3, HighFallPlaced
<1>7. ChipStarted(master', chip', "high_rise")
  BY <1>1, <1>2, <1>3, <1>4, HighFallStarted
<1>8. ChipReads(master', chip', "high_rise")
  BY <1>1, <1>2, <1>3, HighFallReads
<1>9. Wires(master', chip', "high_rise")
  BY <1>1, <1>2, <1>3, <1>4, HighFallWires
<1> QED
  BY <1>5, <1>6, <1>7, <1>8, <1>9 DEF ProtocolInv

\* The two state machines stay in step at the rise of clk_200khz under a high clk_100khz.
LEMMA HighRiseProtocol ==
  ASSUME LinkInv, TimingInv, ProtocolInv, phase = "high_rise", phase' = "low_fall", HighRise
  PROVE  ProtocolInv'
<1>1. /\ master \in Masters /\ chip \in Chips /\ MasterTypes(master) /\ ChipTypeOK(chip)
      /\ Placed(master, "high_rise")
  BY ProtocolTypes
<1>2. HighRiseMove(master, chip, master', chip')
  BY <1>1, HighRiseMoves
<1>3. /\ OnCourse(master) /\ ChipPlaced(master, chip, "high_rise")
      /\ ChipStarted(master, chip, "high_rise") /\ ChipReads(master, chip, "high_rise")
      /\ Wires(master, chip, "high_rise")
  BY DEF ProtocolInv
<1>4. OnCourse(master') /\ ChipPlaced(master', chip', "low_fall")
      /\ ChipReads(master', chip', "low_fall")
  BY <1>1, <1>2, <1>3, HighRisePlaced
<1>5. Wires(master', chip', "low_fall") /\ ChipStarted(master', chip', "low_fall")
  BY <1>1, <1>2, <1>3, HighRiseWires
<1> QED
  BY <1>4, <1>5 DEF ProtocolInv

\* The two state machines stay in step at the fall of clk_100khz.
LEMMA LowFallProtocol ==
  ASSUME LinkInv, TimingInv, ProtocolInv, Held(master, "low_fall"),
         phase = "low_fall", phase' = "low_rise", LowFall
  PROVE  ProtocolInv'
<1> DEFINE u == Successor(master, eecon_int)
           f == ChipFall200(chip)
<1>1. /\ master \in Masters /\ chip \in Chips /\ MasterTypes(master) /\ ChipTypeOK(chip)
      /\ Placed(master, "low_fall")
  BY ProtocolTypes
<1>2. LowFallMove(master, chip, f, master', chip', u)
  BY <1>1, LowFallMoves
<1>3. /\ OnCourse(master) /\ ChipPlaced(master, chip, "low_fall")
      /\ ChipStarted(master, chip, "low_fall") /\ ChipReads(master, chip, "low_fall")
      /\ Wires(master, chip, "low_fall")
  BY DEF ProtocolInv
<1>4. CASE ~Taken(master, "low_fall")
  <2> HIDE DEF u, f
  <2>1. ChipPlaced(master', chip', "low_rise")
    BY <1>1, <1>2, <1>3, <1>4, LowFallWaitsPlaced
  <2>2. /\ OnCourse(master') /\ ChipStarted(master', chip', "low_rise")
        /\ ChipReads(master', chip', "low_rise") /\ Wires(master', chip', "low_rise")
    BY <1>1, <1>2, <1>3, <1>4, LowFallWaitsWires
  <2> QED
    BY <2>1, <2>2 DEF ProtocolInv
<1>5. CASE Taken(master, "low_fall")
  <2>1. master.outputs = "receive_ack" => master.is_ack_received
    BY <1>3 DEF Wires
  <2>2. Turn(master.outputs, master.next_state, u, master.eeprom_write_enable_bit)
    BY <1>1, <1>3, <1>5, <2>1, Turns
  <2> HIDE DEF u, f
  <2>3. ChipPlaced(master', chip', "low_rise")
    BY <1>1, <1>2, <1>3, <1>5, <2>2, LowFallTurnsPlaced
  <2>4. /\ OnCourse(master') /\ ChipStarted(master', chip', "low_rise")
        /\ ChipReads(master', chip', "low_rise")
    BY <1>1, <1>2, <1>3, <1>5, <2>2, LowFallTurnsStarted
  <2>5. Wires(master', chip', "low_rise")
    BY <1>1, <1>2, <1>3, <1>5, <2>2, LowFallTurnsWires
  <2> QED
    BY <2>3, <2>4, <2>5 DEF ProtocolInv
<1> QED
  BY <1>4, <1>5

\* After power-up and after a reset both sides are at rest.
LEMMA ProtocolAtRest ==
  /\ OnCourse(InitMaster) /\ ChipPlaced(InitMaster, InitChip, "low_rise")
  /\ ChipStarted(InitMaster, InitChip, "low_rise") /\ ChipReads(InitMaster, InitChip, "low_rise")
  /\ Wires(InitMaster, InitChip, "low_rise")
<1> DEFINE m == InitMaster
           c == InitChip
<1>1. /\ m.outputs = "i2c_nop" /\ m.next_state = "i2c_nop" /\ m.cycles_waited = 0
      /\ m.sda_output = 1 /\ ~m.scl_enable /\ m.write_bits_used = 0 /\ m.read_bits_used = 0
  BY DEF InitMaster
<1>2. /\ c.state = "receive_slave_address" /\ c.next_state = "receive_slave_address"
      /\ c.prev_state = "receive_slave_address" /\ c.outputs = "idle"
      /\ ~c.is_read /\ ~c.trig_state_machine /\ c.count = 0 /\ ~c.start_cond_found
      /\ c.sda_output = Released /\ c.write_bits_used = 0 /\ c.read_bits_used = 0
      /\ ~c.jump_to_slave_address_read
  BY DEF InitChip
<1> HIDE DEF m, c
<1>3. /\ Early("low_rise") /\ BitNo(m, "low_rise") = 0 /\ Shown(m, "low_rise") = "receive_slave_address"
      /\ Silent(m, "low_rise") /\ EdgesLeft(m, "low_rise") = 0
  BY <1>1 DEF Early, BitNo, Shown, Heard, Silent, EdgesLeft
<1>4. OnCourse(m) /\ ChipReads(m, c, "low_rise")
  BY <1>1 DEF OnCourse, ChipReads, Reading
<1>5. ChipPlaced(m, c, "low_rise")
  BY <1>1, <1>2, <1>3 DEF ChipPlaced, ByteStates, Sending
<1>6. ChipStarted(m, c, "low_rise")
  BY <1>1, <1>2, <1>3 DEF ChipStarted
<1>7. Wires(m, c, "low_rise")
  BY <1>1, <1>2, <1>3 DEF Wires, ByteStates, Sending
<1> QED
  BY <1>4, <1>5, <1>6, <1>7 DEF m, c

\* Every step of the system keeps the two state machines in step.
LEMMA ProtocolStep ==
  ASSUME LinkInv, TimingInv, ProtocolInv, Held(master, phase), [LinkNext]_link_vars
  PROVE  ProtocolInv'
<1>1. CASE I2cStep
  <2>1. phase' = NextPhase /\ (LowRise \/ HighFall \/ HighRise \/ LowFall)
    BY <1>1 DEF I2cStep
  <2>2. CASE LowRise
    BY <2>1, <2>2, LowRiseProtocol DEF LowRise, NextPhase
  <2>3. CASE HighFall
    BY <2>1, <2>3, HighFallProtocol DEF HighFall, NextPhase
  <2>4. CASE HighRise
    BY <2>1, <2>4, HighRiseProtocol DEF HighRise, NextPhase
  <2>5. CASE LowFall
    BY <2>1, <2>5, LowFallProtocol DEF LowFall, NextPhase
  <2> QED
    BY <2>1, <2>2, <2>3, <2>4, <2>5
<1>2. CASE IdleEdge \/ WriteOperand \/ WriteRequest \/ DumpEdge \/ UNCHANGED link_vars
  <2>1. UNCHANGED wire_vars
    BY <1>2 DEF IdleEdge, WriteOperand, WriteRequest, DumpEdge, HostEdge, link_vars
  <2>2. master' = master /\ chip' = chip /\ phase' = phase
    BY <2>1 DEF wire_vars
  <2> QED
    BY <2>2 DEF ProtocolInv
<1>3. CASE Reset
  <2>1. master' = InitMaster /\ chip' = InitChip /\ phase' = "low_rise"
    BY <1>3 DEF Reset
  <2> QED
    BY <2>1, ProtocolAtRest DEF ProtocolInv
<1> QED
  BY <1>1, <1>2, <1>3 DEF LinkNext

\* One more bit of a byte agrees after it has been put in its place.
LEMMA AgreeStep ==
  ASSUME NEW x \in Byte, NEW y \in Byte, NEW k \in 0..7, Agree(x, y, k)
  PROVE  Agree(PutBit(x, 7 - k, Bit(y, 7 - k)), y, k + 1)
<1> DEFINE z == PutBit(x, 7 - k, Bit(y, 7 - k))
           w == Weight(7 - k)
<1>1. x \in 0..255 /\ y \in 0..255
  BY DEF Byte
<1>2. /\ w \in {1, 2, 4, 8, 16, 32, 64, 128}
      /\ k = 0 => w = 128
      /\ k # 0 => Weight(8 - k) = 2 * w
      /\ Weight(8 - (k + 1)) = w
  BY SMT DEF Weight
<1>3. z = x + (((y \div w) % 2) - ((x \div w) % 2)) * w
  BY DEF PutBit, Bit
<1>4. w = 128 \/ x \div (2 * w) = y \div (2 * w)
  BY <1>2 DEF Agree
<1> HIDE DEF z, w
<1>5. z \div w = y \div w
  <2>1. CASE w = 1
    BY <1>1, <1>3, <1>4, <2>1, SMT
  <2>2. CASE w = 2
    BY <1>1, <1>3, <1>4, <2>2, SMT
  <2>3. CASE w = 4
    BY <1>1, <1>3, <1>4, <2>3, SMT
  <2>4. CASE w = 8
    BY <1>1, <1>3, <1>4, <2>4, SMT
  <2>5. CASE w = 16
    BY <1>1, <1>3, <1>4, <2>5, SMT
  <2>6. CASE w = 32
    BY <1>1, <1>3, <1>4, <2>6, SMT
  <2>7. CASE w = 64
    BY <1>1, <1>3, <1>4, <2>7, SMT
  <2>8. CASE w = 128
    BY <1>1, <1>3, <1>4, <2>8, SMT
  <2> QED
    BY <1>2, <2>1, <2>2, <2>3, <2>4, <2>5, <2>6, <2>7, <2>8
<1> QED
  BY <1>2, <1>5 DEF Agree, z

\* Bytes that agree in all eight bits are equal.
LEMMA AgreeAll == ASSUME NEW x \in Byte, NEW y \in Byte, Agree(x, y, 8) PROVE x = y
<1>1. 8 - 8 = 0 /\ Weight(0) = 1 /\ 8 # 0
  BY SMT DEF Weight
<1>2. x \div 1 = y \div 1
  BY <1>1 DEF Agree
<1> QED
  BY <1>2, SMT DEF Byte

\* The two things that happen to EECON besides a write.
LEMMA ControlBits ==
  ASSUME NEW v \in Byte
  PROVE  /\ PutLow(PutBit(v, 4, 1), 4, 0) = PutBit(PutLow(v, 4, 0), 4, 1)
         /\ PutLow(PutLow(v, 4, 0), 4, 0) = PutLow(v, 4, 0)
         /\ Bit(PutLow(v, 4, 0), 2) = Bit(v, 2) /\ Bit(PutBit(v, 4, 1), 2) = Bit(v, 2)
         /\ Bit(PutLow(v, 4, 0), 4) = Bit(v, 4) /\ Bit(PutBit(v, 4, 1), 4) = 1
         /\ Bit(v, 4) = 1 => PutBit(v, 4, 1) = v
<1> DEFINE l == PutLow(v, 4, 0)
           b == PutBit(v, 4, 1)
<1>1. v \in 0..255
  BY DEF Byte
<1>2. Weight(2) = 4 /\ Weight(4) = 16
  BY DEF Weight
<1>3. l = (v \div 4) * 4 /\ l \in 0..255
  BY <1>1, SMT DEF PutLow
<1>4. (v \div 16) % 2 \in {0, 1}
  BY <1>1, SMT
<1>5. b = v + (1 - ((v \div 16) % 2)) * 16
  BY <1>2 DEF PutBit, Bit
<1>6. \/ (v \div 16) % 2 = 1 /\ b = v
      \/ (v \div 16) % 2 = 0 /\ b = v + 16
  BY <1>1, <1>4, <1>5, SMT
<1>7. Bit(v, 4) = (v \div 16) % 2 /\ Bit(l, 4) = (l \div 16) % 2 /\ Bit(b, 4) = (b \div 16) % 2
      /\ Bit(v, 2) = (v \div 4) % 2 /\ Bit(l, 2) = (l \div 4) % 2 /\ Bit(b, 2) = (b \div 4) % 2
  BY <1>2 DEF Bit
<1>8. PutLow(b, 4, 0) = (b \div 4) * 4 + (0 % 4) /\ PutLow(l, 4, 0) = (l \div 4) * 4 + (0 % 4)
      /\ PutBit(l, 4, 1) = l + (1 - ((l \div 16) % 2)) * 16
  BY <1>2, <1>7 DEF PutLow, PutBit
<1> HIDE DEF l, b
<1>9. (l \div 16) % 2 = (v \div 16) % 2 /\ (l \div 4) % 2 = (v \div 4) % 2 /\ (l \div 4) * 4 = l
  BY <1>1, <1>3, SMT
<1>10. (b \div 16) % 2 = 1 /\ (b \div 4) % 2 = (v \div 4) % 2
  BY <1>1, <1>6, SMT
<1>11. (b \div 4) * 4 = l + (1 - ((l \div 16) % 2)) * 16
  BY <1>1, <1>3, <1>6, <1>9, SMT
<1>12. PutLow(b, 4, 0) = PutBit(l, 4, 1) /\ PutLow(l, 4, 0) = l
  <2>1. 0 % 4 = 0
    BY SMT
  <2> QED
    BY <1>1, <1>3, <1>6, <1>8, <1>9, <1>11, <2>1, SMT
<1>13. Bit(v, 4) = 1 => b = v
  BY <1>6, <1>7, SMT
<1> QED
  BY <1>7, <1>9, <1>10, <1>12, <1>13 DEF l, b

-----------------------------------------------------------------------------
\* What a clock of the memory that is no dump leaves in EEADR and EEDATA.
LEMMA OperandCells ==
  ASSUME RamType, NEW en, "status_write" \notin en, "timer_write" \notin en,
         NEW read, NEW written, NEW e, NEW d,
         NEW address \in {0, EEADR_ADDRESS, EEDATA_ADDRESS, EECON_ADDRESS},
         Access(en) = IF address = 0 THEN "none" ELSE "ram_write"
  PROVE  LET r == NextBlock(en, read, written, 0, 0, e, d, 0, address) IN
         /\ r[EEADR_ADDRESS] = IF address = EEADR_ADDRESS THEN d ELSE ram_block[EEADR_ADDRESS]
         /\ r[EEDATA_ADDRESS] = IF address = EEDATA_ADDRESS THEN d
                                ELSE IF read THEN e ELSE ram_block[EEDATA_ADDRESS]
<1> DEFINE external == Bit(ram_block[OPTION_ADDRESS], 5) = 1
           m1 == IF read THEN [ram_block EXCEPT ![EEDATA_ADDRESS] = e] ELSE ram_block
           m2 == IF reset_eecon THEN [m1 EXCEPT ![EECON_ADDRESS] = PutLow(@, 4, 0)] ELSE m1
           m3 == CASE Access(en) = "eeprom_dump" -> DumpStep(m2)
                   [] Access(en) = "ram_write"   -> WriteRam(m2, address, d)
                   [] OTHER                      -> m2
           m6 == IF external
                 THEN [m3 EXCEPT ![TMR0_ADDRESS] = (0 + 0) % 256] ELSE m3
           r == NextBlock(en, read, written, 0, 0, e, d, 0, address)
           adr == ram_block[EEADR_ADDRESS]
           data == IF read THEN e ELSE ram_block[EEDATA_ADDRESS]
<1>1. r = IF written THEN [m6 EXCEPT ![EECON_ADDRESS] = PutBit(@, 4, 1)] ELSE m6
  BY DEF NextBlock
<1>2. /\ {EEADR_ADDRESS, EEDATA_ADDRESS} \cap {EECON_ADDRESS, TMR0_ADDRESS, STATUS_ADDRESS, INDF_ADDRESS} = {}
      /\ EEADR_ADDRESS # EEDATA_ADDRESS /\ EECON_ADDRESS # STATUS_ADDRESS /\ EECON_ADDRESS # INDF_ADDRESS
      /\ INDF_ADDRESS = 0
  BY SMT DEF EECON_ADDRESS, EEDATA_ADDRESS, EEADR_ADDRESS, TMR0_ADDRESS, STATUS_ADDRESS,
             INDF_ADDRESS
<1>3. {EEADR_ADDRESS, EEDATA_ADDRESS} \subseteq RamAddress /\ DOMAIN ram_block = RamAddress
  BY RegisterCells DEF RamType, Memory
<1>4. m1[EEADR_ADDRESS] = adr /\ m1[EEDATA_ADDRESS] = data /\ DOMAIN m1 = RamAddress
  BY <1>2, <1>3
<1> HIDE DEF m1
<1>5. m2[EEADR_ADDRESS] = adr /\ m2[EEDATA_ADDRESS] = data /\ DOMAIN m2 = RamAddress
  BY <1>2, <1>3, <1>4
<1> HIDE DEF m2, adr, data
<1>6. /\ m3[EEADR_ADDRESS] = IF address = EEADR_ADDRESS THEN d ELSE adr
      /\ m3[EEDATA_ADDRESS] = IF address = EEDATA_ADDRESS THEN d ELSE data
      /\ DOMAIN m3 = RamAddress
  <2>1. CASE address = 0
    BY <1>2, <1>5, <2>1
  <2>2. CASE address # 0
    <3>1. Target(address) = address
      BY <1>2, <2>2 DEF Target
    <3>2. m3 = [m2 EXCEPT ![address] = d]
      BY <1>2, <2>2, <3>1 DEF WriteRam
    <3> QED
      BY <1>2, <1>3, <1>5, <3>2
  <2> QED
    BY <2>1, <2>2
<1> HIDE DEF m3
<1>7. m6[EEADR_ADDRESS] = m3[EEADR_ADDRESS] /\ m6[EEDATA_ADDRESS] = m3[EEDATA_ADDRESS]
      /\ DOMAIN m6 = RamAddress
  BY <1>2, <1>3, <1>6
<1> HIDE DEF m6, r
<1>8. r[EEADR_ADDRESS] = m6[EEADR_ADDRESS] /\ r[EEDATA_ADDRESS] = m6[EEDATA_ADDRESS]
  BY <1>1, <1>2, <1>3, <1>7
<1> QED
  BY <1>6, <1>7, <1>8 DEF r, adr, data

\* The registers after an edge of the host's clock.
LEMMA EdgeCells ==
  ASSUME LinkInv, NEW en \in {{}, {"ram_write"}}, NEW d,
         NEW address \in {0, EEADR_ADDRESS, EEDATA_ADDRESS, EECON_ADDRESS}, en = {} <=> address = 0,
         HostEdge(en, d, address)
  PROVE  LET x == IF address = EECON_ADDRESS THEN d
                  ELSE IF reset_eecon THEN PutLow(ram_block[EECON_ADDRESS], 4, 0)
                  ELSE ram_block[EECON_ADDRESS] IN
         /\ ram_block'[EEADR_ADDRESS] = IF address = EEADR_ADDRESS THEN d ELSE ram_block[EEADR_ADDRESS]
         /\ ram_block'[EEDATA_ADDRESS] = IF address = EEDATA_ADDRESS THEN d
                                         ELSE IF WritesToRam(master) THEN master.data_out
                                         ELSE ram_block[EEDATA_ADDRESS]
         /\ ram_block'[EECON_ADDRESS] = IF CompletesWrite(master) THEN PutBit(x, 4, 1) ELSE x
         /\ reset_eecon' <=> address = EECON_ADDRESS
         /\ eeadr_int' = ram_block[EEADR_ADDRESS] /\ eedata_int' = ram_block[EEDATA_ADDRESS]
         /\ eecon_int' = ram_block[EECON_ADDRESS]
         /\ master' = master /\ chip' = chip /\ phase' = phase /\ buffer' = buffer
<1>1. RamType
  BY DEF LinkInv, EepromTypeOK
<1>2. Access(en) = IF en = {} THEN "none" ELSE "ram_write"
  BY DEF Access
<1>3. /\ ram_block' = NextBlock(en, WritesToRam(master), CompletesWrite(master), 0, 0,
                                master.data_out, d, 0, address)
      /\ reset_eecon' = (Access(en) = "ram_write" /\ address = EECON_ADDRESS)
      /\ eeadr_int' = ram_block[EEADR_ADDRESS] /\ eedata_int' = ram_block[EEDATA_ADDRESS]
      /\ eecon_int' = ram_block[EECON_ADDRESS]
  BY DEF HostEdge, RamRise
<1>4. EECON_ADDRESS # 0
  BY SMT DEF EECON_ADDRESS
<1> DEFINE r == NextBlock(en, WritesToRam(master), CompletesWrite(master), 0, 0,
                          master.data_out, d, 0, address)
           x == IF address = EECON_ADDRESS THEN d
                ELSE IF reset_eecon THEN PutLow(ram_block[EECON_ADDRESS], 4, 0)
                ELSE ram_block[EECON_ADDRESS]
<1>5. "status_write" \notin en /\ "timer_write" \notin en
  OBVIOUS
<1>6. r[EECON_ADDRESS] = IF CompletesWrite(master) THEN PutBit(x, 4, 1) ELSE x
  BY <1>1, <1>2, <1>4, <1>5, EeconCell
<1>7. /\ r[EEADR_ADDRESS] = IF address = EEADR_ADDRESS THEN d ELSE ram_block[EEADR_ADDRESS]
      /\ r[EEDATA_ADDRESS] = IF address = EEDATA_ADDRESS THEN d
                             ELSE IF WritesToRam(master) THEN master.data_out
                             ELSE ram_block[EEDATA_ADDRESS]
  BY <1>1, <1>2, <1>5, OperandCells
<1>8. master' = master /\ chip' = chip /\ phase' = phase /\ buffer' = buffer
  BY DEF HostEdge, wire_vars
<1> HIDE DEF r, x
<1>9. ram_block' = r
  BY <1>3 DEF r
<1> QED
  BY <1>2, <1>3, <1>4, <1>6, <1>7, <1>8, <1>9 DEF x

-----------------------------------------------------------------------------
\* The bytes on their way.
LEMMA LowRiseCarried ==
  ASSUME NEW m, NEW c, NEW n, NEW d, NEW a, NEW v,
         LowRiseMove(m, c, n, d, SentBit(m, a, v)), MasterTypes(m), Placed(m, "low_rise"),
         OnCourse(m), Wires(m, c, "low_rise"), SameBytes(c, d), n.data_out = m.data_out,
         Carried(m, c, "low_rise", a, v)
  PROVE  Carried(n, d, "high_fall", a, v) /\ (DoneAt(n, "high_fall") <=> DoneAt(m, "low_rise"))
<1> DEFINE s == m.outputs
           t == m.next_state
           k == m.cycles_waited
<1>1. n.outputs = s /\ n.next_state = t /\ BitNo(m, "low_rise") = k /\ BitNo(n, "high_fall") = k
      /\ Early("low_rise") /\ Early("high_fall")
  BY LowRiseView DEF Early
<1>2. d.received_data = c.received_data /\ d.mem_address = c.mem_address /\ d.eeprom = c.eeprom
  BY DEF SameBytes
<1>3. s \in Sending => n.sda_output = Bit(SentByte(n, a, v), 7 - k)
  <2> SUFFICES ASSUME s \in Sending PROVE n.sda_output = Bit(SentByte(n, a, v), 7 - k)
    OBVIOUS
  <2>1. m.write_bits_used = k
    BY <1>1 DEF Wires
  <2>2. n.sda_output = Bit(SentByte(m, a, v), 7 - k)
    <3>1. n.sda_output = SentBit(m, a, v)
      BY DEF LowRiseMove, Sending, ByteStates
    <3> QED
      BY <2>1, <3>1 DEF SentBit
  <2>3. SentByte(n, a, v) = SentByte(m, a, v)
    BY <1>1 DEF SentByte
  <2> QED
    BY <2>2, <2>3
<1>4. AddressHeard(n, "high_fall") <=> AddressHeard(m, "low_rise")
  BY <1>1 DEF AddressHeard
<1>5. DoneAt(n, "high_fall") <=> DoneAt(m, "low_rise")
  BY <1>1 DEF DoneAt
<1> HIDE DEF s, t, k
<1> QED
  BY <1>1, <1>2, <1>3, <1>4, <1>5 DEF Carried, s, t

\* The bits carried over after the rise of clk_200khz under a high clk_100khz.
LEMMA HighRiseCarried ==
  ASSUME NEW m, NEW c, NEW n, NEW d, NEW a, NEW v, HighRiseMove(m, c, n, d),
         MasterTypes(m), Placed(m, "high_rise"), SameBytes(c, d), n.data_out = m.data_out,
         Carried(m, c, "high_rise", a, v)
  PROVE  Carried(n, d, "low_fall", a, v) /\ (DoneAt(n, "low_fall") <=> DoneAt(m, "high_rise"))
<1> DEFINE s == m.outputs
           t == m.next_state
           k == m.cycles_waited
<1>1. n.outputs = s /\ n.next_state = t /\ BitNo(m, "high_rise") = k /\ BitNo(n, "low_fall") = k
      /\ ~Early("high_rise") /\ ~Early("low_fall")
  BY HighRiseView
<1>2. d.received_data = c.received_data /\ d.mem_address = c.mem_address /\ d.eeprom = c.eeprom
      /\ d.sda_output = c.sda_output
  BY DEF SameBytes, HighRiseMove
<1>3. s \in Sending => n.sda_output = m.sda_output
  BY DEF HighRiseMove, Sending, ByteStates
<1>4. SentByte(n, a, v) = SentByte(m, a, v)
  BY <1>1 DEF SentByte
<1>5. (AddressHeard(n, "low_fall") <=> AddressHeard(m, "high_rise"))
      /\ (DoneAt(n, "low_fall") <=> DoneAt(m, "high_rise"))
  BY <1>1 DEF AddressHeard, DoneAt
<1> HIDE DEF s, t, k
<1> QED
  BY <1>1, <1>2, <1>3, <1>4, <1>5 DEF Carried, s, t

\* What the acknowledge does to the chip's bytes.
HighFallBytes(m, c, f, d) ==
    /\ d.received_data = c.received_data
    /\ d.mem_address = IF m.scl_enable /\ f.outputs = "send_ack" /\ f.next_state = "receive_data"
                       THEN c.received_data ELSE c.mem_address
    /\ d.eeprom = IF m.scl_enable /\ Stores(f) THEN Store(c.eeprom, c.mem_address, c.received_data)
                  ELSE c.eeprom

\* A byte is stored with the acknowledge of a write, and at no other rise of clk_100khz.
LEMMA HighFallStores ==
  ASSUME NEW m, NEW c, NEW f, NEW n, NEW d, NEW b, HighFallMove(m, c, f, n, d, b), OnCourse(m),
         MasterTypes(m), Placed(m, "high_fall"), ChipPlaced(m, c, "high_fall"),
         ChipStarted(m, c, "high_fall"), ChipReads(m, c, "high_fall"), Wires(m, c, "high_fall")
  PROVE  m.scl_enable /\ Stores(f) <=> m.outputs = "receive_ack" /\ m.next_state = "create_stop_cond"
<1> DEFINE s == m.outputs
           t == m.next_state
           x == Hears[s]
           quiet == Silent(n, "high_rise")
<1>1. /\ f.outputs = IF quiet THEN "idle" ELSE x
      /\ f.next_state = IF quiet THEN x ELSE IF s = "receive_ack" THEN Hears[t] ELSE Follows[x]
  BY HighFallState DEF HighFallMove
<1>2. s \in MasterStates /\ (s = "receive_ack" => ~quiet)
  BY HighFallView DEF HighFallMove
<1>3. x = "send_ack" <=> s = "receive_ack"
  BY <1>2, HearsAt DEF MasterStates, ByteStates
<1>4. s = "receive_ack" => t \in {"write_word_addr", "write_data", "create_stop_cond",
                                  "create_repeated_start_cond", "read_data"}
  BY DEF OnCourse
<1>5. s = "receive_ack" =>
         /\ m.scl_enable /\ f.outputs = "send_ack"
         /\ f.next_state = "expect_stop_cond" <=> t = "create_stop_cond"
  BY <1>1, <1>2, <1>3, <1>4, HearsAt DEF Wires
<1>6. f.outputs = "send_ack" => s = "receive_ack"
  BY <1>1, <1>3
<1> QED
  BY <1>5, <1>6 DEF Stores

\* The bits carried over after the rise of clk_100khz.
LEMMA HighFallCarried ==
  ASSUME NEW m, NEW c, NEW f, NEW n, NEW d, NEW a, NEW v,
         HighFallMove(m, c, f, n, d, Bit(Stored(c.eeprom, c.mem_address), 7 - c.write_bits_used)),
         HighFallBytes(m, c, f, d), n.data_out = m.data_out, OnCourse(m),
         MasterTypes(m), Placed(m, "high_fall"), ChipPlaced(m, c, "high_fall"),
         ChipStarted(m, c, "high_fall"), ChipReads(m, c, "high_fall"), Wires(m, c, "high_fall"),
         Carried(m, c, "high_fall", a, v)
  PROVE  LET stores == m.outputs = "receive_ack" /\ m.next_state = "create_stop_cond" IN
         /\ Carried(n, d, "high_rise", a, v)
         /\ m.scl_enable /\ Stores(f) <=> stores
         /\ DoneAt(n, "high_rise") <=> DoneAt(m, "high_fall") \/ stores
         /\ d.eeprom = IF stores THEN Store(c.eeprom, a, v) ELSE c.eeprom
<1> DEFINE s == m.outputs
           t == m.next_state
           k == m.cycles_waited
           x == Hears[s]
           quiet == Silent(n, "high_rise")
           stores == s = "receive_ack" /\ t = "create_stop_cond"
           b == Bit(Stored(c.eeprom, c.mem_address), 7 - c.write_bits_used)
<1>1. /\ f.outputs = IF quiet THEN "idle" ELSE x
      /\ f.next_state = IF quiet THEN x ELSE IF s = "receive_ack" THEN Hears[t] ELSE Follows[x]
  BY HighFallState DEF HighFallMove
<1>2. n.outputs = s /\ n.next_state = t /\ BitNo(m, "high_fall") = k /\ BitNo(n, "high_rise") = k
      /\ Early("high_fall") /\ ~Early("high_rise") /\ s \in MasterStates
      /\ (s \in {"receive_ack", "read_data"} => ~quiet)
  BY HighFallView DEF HighFallMove
<1>3. x = "send_ack" <=> s = "receive_ack"
  BY <1>2, HearsAt DEF MasterStates, ByteStates
<1>4. s = "receive_ack" => t \in {"write_word_addr", "write_data", "create_stop_cond",
                                  "create_repeated_start_cond", "read_data"}
  BY DEF OnCourse
<1>5. s = "receive_ack" =>
         /\ m.scl_enable /\ f.outputs = "send_ack" /\ f.next_state = Hears[t]
         /\ f.next_state = "receive_data" <=> t \in {"create_repeated_start_cond", "write_data"}
         /\ f.next_state = "expect_stop_cond" <=> t = "create_stop_cond"
  BY <1>1, <1>2, <1>3, <1>4, HearsAt DEF Wires
<1>6. f.outputs = "send_ack" => s = "receive_ack"
  BY <1>1, <1>3
<1>7. m.scl_enable /\ Stores(f) <=> stores
  BY HighFallStores
<1>8. s = "read_data" => d.sda_output = Bit(Stored(d.eeprom, a), 7 - k)
  <2> SUFFICES ASSUME s = "read_data" PROVE d.sda_output = Bit(Stored(d.eeprom, a), 7 - k)
    OBVIOUS
  <2>1. m.scl_enable /\ f.outputs = "send_data"
    BY <1>1, <1>2, HearsAt DEF Wires, ByteStates
  <2>2. d.sda_output = b
    BY <2>1 DEF HighFallMove
  <2>3. c.mem_address = a /\ c.write_bits_used = k
    BY <1>2 DEF Carried, AddressHeard, ChipPlaced
  <2>4. d.eeprom = c.eeprom
    BY <1>7 DEF HighFallBytes
  <2> QED
    BY <2>2, <2>3, <2>4
<1>9. AddressHeard(n, "high_rise") => d.mem_address = a
  <2>1. CASE s = "receive_ack" /\ t \in {"create_repeated_start_cond", "write_data"}
    <3>1. c.received_data = a
      BY <1>2, <2>1 DEF Carried
    <3> QED
      BY <1>5, <2>1, <3>1 DEF HighFallBytes
  <2>2. CASE ~(s = "receive_ack" /\ t \in {"create_repeated_start_cond", "write_data"})
    <3>1. d.mem_address = c.mem_address
      BY <1>5, <1>6, <2>2 DEF HighFallBytes
    <3>2. AddressHeard(n, "high_rise") => AddressHeard(m, "high_fall")
      BY <1>2, <2>2 DEF AddressHeard
    <3> QED
      BY <3>1, <3>2 DEF Carried
  <2> QED
    BY <2>1, <2>2
<1>10. d.eeprom = IF stores THEN Store(c.eeprom, a, v) ELSE c.eeprom
  <2>1. stores => c.mem_address = a /\ c.received_data = v
    BY <1>2 DEF Carried, AddressHeard
  <2> QED
    BY <1>7, <2>1 DEF HighFallBytes
<1>11. DoneAt(n, "high_rise") <=> DoneAt(m, "high_fall") \/ stores
  BY <1>2 DEF DoneAt
<1>12. SentByte(n, a, v) = SentByte(m, a, v) /\ n.sda_output = m.sda_output
       /\ d.received_data = c.received_data
  BY <1>2 DEF SentByte, HighFallMove, SameDrive, HighFallBytes
<1>13. s = "read_data" => d.eeprom = c.eeprom
  BY <1>10
<1>14. Carried(n, d, "high_rise", a, v)
  <2> HIDE DEF s, t, k, x, quiet, b, stores
  <2> QED
    BY <1>2, <1>8, <1>9, <1>12, <1>13 DEF Carried, s, t
<1> HIDE DEF b
<1> QED
  BY <1>7, <1>10, <1>11, <1>14

\* What the falling edge of SCL does to the bytes.
LowFallBytes(m, c, f, n, d) ==
    LET takes == m.scl_enable /\ f.outputs \in {"receive_slave_address", "receive_word_address",
                                                "receive_data", "receive_ack"}
        index == IF f.outputs \in ChipByteStates THEN 7 - c.read_bits_used ELSE 0
        bit   == IF Line(m, c) = 1 THEN 1 ELSE 0
    IN  /\ n.data_out = IF m.outputs = "read_data"
                        THEN PutBit(m.data_out, 7 - m.read_bits_used, bit) ELSE m.data_out
        /\ d.received_data = IF takes THEN PutBit(c.received_data, index, bit) ELSE c.received_data
        /\ d.mem_address = c.mem_address /\ d.eeprom = c.eeprom

\* One bit more, from either end.
LEMMA LowFallBit ==
  ASSUME NEW m \in Masters, NEW c \in Chips, NEW f, NEW n, NEW d, NEW a \in Byte, NEW v \in Byte,
         NEW u, LowFallMove(m, c, f, n, d, u), LowFallBytes(m, c, f, n, d),
         ChipPlaced(m, c, "low_fall"), ChipStarted(m, c, "low_fall"), Wires(m, c, "low_fall"),
         Carried(m, c, "low_fall", a, v), NEW k \in 0..7, BitNo(m, "low_fall") = k
  PROVE  /\ m.outputs = "write_word_addr" => Agree(d.received_data, a, k + 1)
         /\ m.outputs = "write_data" => Agree(d.received_data, v, k + 1)
         /\ m.outputs = "read_data" => Agree(n.data_out, Stored(c.eeprom, a), k + 1)
<1> DEFINE s == m.outputs
           x == Hears[s]
           bit == IF Line(m, c) = 1 THEN 1 ELSE 0
<1>1. f.outputs = x \/ s \in {"i2c_nop", "create_start_cond", "enable_scl", "write_to_ram"}
  BY LowFallState, MasterTyped DEF LowFallMove
<1>2. /\ m.data_out \in Byte /\ c.received_data \in Byte /\ Stored(c.eeprom, a) \in Byte
      /\ m.sda_output \in Driven /\ c.sda_output \in Driven
      /\ Bit(a, 7 - k) \in {0, 1} /\ Bit(v, 7 - k) \in {0, 1} /\ Bit(Stored(c.eeprom, a), 7 - k) \in {0, 1}
  <2>1. c.eeprom \in Contents /\ \A i \in DOMAIN c.eeprom : c.eeprom[i] \in Byte
    BY ChipFacts
  <2>2. Stored(c.eeprom, a) \in Byte
    BY <2>1, SMT DEF Stored, Byte
  <2>3. 7 - k \in 0..7 /\ \A i \in Byte : i \in Nat
    BY SMT DEF Byte
  <2> QED
    BY <2>2, <2>3, BitType, ChipFacts DEF Masters
<1>3. Shown(m, "low_fall") = x /\ ~Early("low_fall")
  BY DEF Shown, Early
<1>4. ASSUME NEW y \in Byte, s \in {"write_word_addr", "write_data"},
             SentByte(m, a, v) = y, Agree(c.received_data, y, k)
      PROVE  Agree(d.received_data, y, k + 1)
  <2>1. m.scl_enable /\ f.outputs = x /\ x \in {"receive_word_address", "receive_data"}
    BY <1>1, <1>4, HearsAt DEF Wires, ByteStates
  <2>2. c.read_bits_used = k /\ c.sda_output = Released
    BY <1>3, <1>4, <2>1 DEF ChipPlaced, Wires, Sending, ByteStates
  <2>3. m.sda_output = Bit(y, 7 - k)
    BY <1>4 DEF Carried, Sending, ByteStates
  <2>4. Bit(y, 7 - k) \in {0, 1}
    <3>1. 7 - k \in 0..7 /\ y \in Nat
      BY SMT DEF Byte
    <3> QED
      BY <3>1, BitType
  <2>5. Line(m, c) = Bit(y, 7 - k)
    BY <1>2, <2>2, <2>3, LineValue
  <2>6. bit = Bit(y, 7 - k)
    BY <2>4, <2>5
  <2> HIDE DEF bit
  <2>7. d.received_data = PutBit(c.received_data, 7 - k, Bit(y, 7 - k))
    BY <2>1, <2>2, <2>6 DEF LowFallBytes, ChipByteStates, bit
  <2> QED
    BY <1>2, <1>4, <2>7, AgreeStep
<1>5. s = "write_word_addr" => Agree(d.received_data, a, k + 1)
  BY <1>4 DEF Carried, SentByte
<1>6. s = "write_data" => Agree(d.received_data, v, k + 1)
  BY <1>4 DEF Carried, SentByte
<1>7. s = "read_data" => Agree(n.data_out, Stored(c.eeprom, a), k + 1)
  <2> SUFFICES ASSUME s = "read_data" PROVE Agree(n.data_out, Stored(c.eeprom, a), k + 1)
    OBVIOUS
  <2> DEFINE y == Stored(c.eeprom, a)
  <2>1. /\ Agree(m.data_out, y, k) /\ c.sda_output = Bit(y, 7 - k)
    BY <1>3 DEF Carried
  <2>2. m.read_bits_used = k /\ m.sda_output = Released
    BY DEF Wires
  <2> HIDE DEF y
  <2>3. Line(m, c) = Bit(y, 7 - k)
    BY <1>2, <2>1, <2>2, LineValue DEF y
  <2>4. bit = Bit(y, 7 - k)
    BY <1>2, <2>3 DEF y
  <2> HIDE DEF bit
  <2>5. n.data_out = PutBit(m.data_out, 7 - k, Bit(y, 7 - k))
    BY <2>2, <2>4 DEF LowFallBytes, bit
  <2>6. Agree(n.data_out, y, k + 1)
    BY <1>2, <2>1, <2>5, AgreeStep DEF y
  <2> QED
    BY <2>6 DEF y
<1> QED
  BY <1>5, <1>6, <1>7

\* The bits carried over after the fall of clk_100khz within a state.
LEMMA LowFallWaitsCarried ==
  ASSUME NEW m \in Masters, NEW c \in Chips, NEW f, NEW n, NEW d, NEW a \in Byte, NEW v \in Byte,
         NEW u, LowFallMove(m, c, f, n, d, u), LowFallBytes(m, c, f, n, d),
         Placed(m, "low_fall"), ~Taken(m, "low_fall"),
         ChipPlaced(m, c, "low_fall"), ChipStarted(m, c, "low_fall"), Wires(m, c, "low_fall"),
         Carried(m, c, "low_fall", a, v)
  PROVE  Carried(n, d, "low_rise", a, v) /\ (DoneAt(n, "low_rise") <=> DoneAt(m, "low_fall"))
<1> DEFINE s == m.outputs
           k == m.cycles_waited
<1>1. /\ n.outputs = s /\ n.next_state = m.next_state
      /\ s \in ByteStates \cup {"write_to_ram"} /\ k \in Nat \ {0}
      /\ s \in ByteStates => k <= 7
      /\ ~Early("low_fall") /\ Early("low_rise")
      /\ BitNo(m, "low_fall") = k - 1 /\ BitNo(n, "low_rise") = k
  BY LowFallWaitsView, MasterTyped
<1>2. s \in ByteStates => k - 1 \in 0..7 /\ (k - 1) + 1 = k
  BY <1>1, SMT
<1>3. /\ s = "write_word_addr" => Agree(d.received_data, a, k)
      /\ s = "write_data" => Agree(d.received_data, v, k)
      /\ s = "read_data" => Agree(n.data_out, Stored(d.eeprom, a), k)
  <2>1. CASE s \in ByteStates
    <3> DEFINE j == k - 1
    <3>1. j \in 0..7 /\ BitNo(m, "low_fall") = j /\ j + 1 = k /\ d.eeprom = c.eeprom
      BY <1>1, <1>2, <2>1 DEF LowFallBytes
    <3> HIDE DEF j, k, s
    <3> QED
      BY <3>1, LowFallBit DEF s
  <2>2. CASE s \notin ByteStates
    BY <2>2 DEF ByteStates
  <2> QED
    BY <2>1, <2>2
<1>4. AddressHeard(n, "low_rise") => d.mem_address = a
  <2>1. AddressHeard(n, "low_rise") => AddressHeard(m, "low_fall")
    BY <1>1 DEF AddressHeard
  <2>2. d.mem_address = c.mem_address
    BY DEF LowFallBytes
  <2> QED
    BY <2>1, <2>2 DEF Carried
<1>5. s # "receive_ack"
  BY <1>1 DEF ByteStates
<1>6. DoneAt(n, "low_rise") <=> DoneAt(m, "low_fall")
  BY <1>1, <1>5 DEF DoneAt
<1> HIDE DEF s, k
<1> QED
  BY <1>1, <1>3, <1>4, <1>5, <1>6 DEF Carried, s

\* The bits carried over after the fall of clk_100khz that changes the state.
LEMMA LowFallTurnsCarried ==
  ASSUME NEW m \in Masters, NEW c \in Chips, NEW f, NEW n, NEW d, NEW a \in Byte, NEW v \in Byte,
         NEW u, LowFallMove(m, c, f, n, d, u), LowFallBytes(m, c, f, n, d),
         d \in Chips, n \in Masters, OnCourse(m),
         Placed(m, "low_fall"), Taken(m, "low_fall"),
         Turn(m.outputs, m.next_state, u, m.eeprom_write_enable_bit),
         ChipPlaced(m, c, "low_fall"), ChipStarted(m, c, "low_fall"), Wires(m, c, "low_fall"),
         Carried(m, c, "low_fall", a, v)
  PROVE  /\ Carried(n, d, "low_rise", a, v)
         /\ m.outputs = "read_data" => n.data_out = Stored(c.eeprom, a)
         /\ m.outputs # "write_to_ram" =>
               (DoneAt(n, "low_rise") <=> DoneAt(m, "low_fall") \/ m.outputs = "read_data")
<1> DEFINE s == m.outputs
           t == m.next_state
           w == m.eeprom_write_enable_bit
<1>1. /\ n.outputs = t /\ n.next_state = u /\ ~Early("low_fall") /\ Early("low_rise")
      /\ BitNo(n, "low_rise") = 0 /\ (s \in ByteStates => BitNo(m, "low_fall") = 7)
  BY LowFallTurnsView, MasterTyped
<1>2. /\ s = "write_word_addr" => d.received_data = a
      /\ s = "write_data" => d.received_data = v
      /\ s = "read_data" => n.data_out = Stored(c.eeprom, a)
  <2>1. CASE s \in ByteStates
    <3>1. 7 \in 0..7 /\ BitNo(m, "low_fall") = 7 /\ 7 + 1 = 8
      BY <1>1, <2>1, SMT
    <3>2. /\ s = "write_word_addr" => Agree(d.received_data, a, 8)
          /\ s = "write_data" => Agree(d.received_data, v, 8)
          /\ s = "read_data" => Agree(n.data_out, Stored(c.eeprom, a), 8)
      BY <3>1, LowFallBit
    <3>3. d.received_data \in Byte /\ n.data_out \in Byte /\ Stored(c.eeprom, a) \in Byte
      <4>1. c.eeprom \in Contents /\ \A i \in DOMAIN c.eeprom : c.eeprom[i] \in Byte
        BY ChipFacts
      <4>2. Stored(c.eeprom, a) \in Byte
        BY <4>1, SMT DEF Stored, Byte
      <4> QED
        BY <4>2, ChipFacts DEF Masters
    <3> QED
      BY <3>2, <3>3, AgreeAll
  <2>2. CASE s \notin ByteStates
    BY <2>2 DEF ByteStates
  <2> QED
    BY <2>1, <2>2
<1>3. AddressHeard(n, "low_rise") => d.mem_address = a
  <2>1. AddressHeard(n, "low_rise") => AddressHeard(m, "low_fall")
    BY <1>1 DEF AddressHeard, Turn
  <2>2. d.mem_address = c.mem_address
    BY DEF LowFallBytes
  <2> QED
    BY <2>1, <2>2 DEF Carried
<1>4. /\ t = "receive_ack" /\ u \in {"create_repeated_start_cond", "write_data"} => s = "write_word_addr"
      /\ t = "receive_ack" /\ u = "create_stop_cond" => s = "write_data"
  BY DEF Turn
<1>5. s # "write_to_ram" =>
        (DoneAt(n, "low_rise") <=> DoneAt(m, "low_fall") \/ s = "read_data")
  BY <1>1 DEF DoneAt, Turn
<1>6. Agree(d.received_data, a, 0) /\ Agree(d.received_data, v, 0)
      /\ Agree(n.data_out, Stored(d.eeprom, a), 0)
  BY DEF Agree
<1> HIDE DEF s, t, w
<1> QED
  BY <1>1, <1>2, <1>3, <1>4, <1>5, <1>6 DEF Carried, s, t

-----------------------------------------------------------------------------
\* A turn brings the end of the procedure nearer by one step, unless a read
\* would still have to turn the line round.
LEMMA LateStep ==
  ASSUME NEW m \in Masters, NEW n \in Masters, NEW u, Taken(m, "low_fall"),
         n.outputs = m.next_state, n.next_state = u, n.cycles_waited = 0,
         Turn(m.outputs, m.next_state, u, m.eeprom_write_enable_bit),
         m.outputs # "write_to_ram", ~Idle(n)
  PROVE  \/ Left(n, "low_rise") = Left(m, "low_fall") - 1
         \/ Left(n, "low_rise") >= 4 * RamWait + 48 /\ (Idle(m) \/ m.eeprom_write_enable_bit)
<1> DEFINE s == m.outputs
           t == m.next_state
           r == Rest(s, t)
           q == Rest(t, u) + WaitCycles(n)
<1>1. Cycles(m, "low_fall") = r + -1 /\ Cycles(n, "low_rise") = q
  <2>0. t \in MasterStates /\ u \in MasterStates
    BY MasterFacts
  <2>1. Rest(t, u) \in Int /\ WaitCycles(n) \in Int
    BY <2>0, RestType, WaitType, SMT
  <2>2. Cycles(n, "low_rise") = Rest(t, u) + (WaitCycles(n) - 0)
    BY DEF Cycles, Taken
  <2>3. Cycles(m, "low_fall") = r + -1
    BY DEF Cycles
  <2> QED
    BY <2>1, <2>2, <2>3, SMT
<1>2. r \in Int /\ q \in Int /\ RamWait \in Nat
  <2>1. s \in MasterStates /\ t \in MasterStates /\ u \in MasterStates
    BY MasterFacts
  <2>2. r \in Nat /\ Rest(t, u) \in Nat /\ WaitCycles(n) \in Nat
    BY <2>1, RestType, WaitType
  <2>3. q \in Int
    BY <2>2, SMT
  <2> QED
    BY <2>2, <2>3, RamWaitAssumption, SMT
<1>3. Left(m, "low_fall") = 4 * (r + -1) + 1 /\ Left(n, "low_rise") = 4 * q
  BY <1>1, <1>2, PhaseValues
<1>4. q = r - 1 \/ (q >= RamWait + 12 /\ (Idle(m) \/ m.eeprom_write_enable_bit))
  <2>1. CASE s = "i2c_nop" /\ t = "i2c_nop" /\ u = "create_start_cond"
    <3>1. q = RamWait + 42 + 0
      BY <2>1 DEF Rest, WaitCycles, ByteStates
    <3>2. Idle(m)
      BY <2>1 DEF Idle
    <3> HIDE DEF q, r
    <3> QED
      BY <1>2, <3>1, <3>2, SMT
  <2>2. CASE s = "i2c_nop" /\ t = "create_start_cond" /\ u = "enable_scl"
    <3>1. q = RamWait + 41 + 0 /\ r = RamWait + 42
      BY <2>2 DEF Rest, WaitCycles, ByteStates
    <3> HIDE DEF q, r
    <3> QED
      BY <1>2, <3>1, SMT
  <2>3. CASE s = "create_start_cond" /\ t = "enable_scl" /\ u = "write_slave_addr_write_mode"
    <3>1. q = RamWait + 40 + 0 /\ r = RamWait + 41
      BY <2>3 DEF Rest, WaitCycles, ByteStates
    <3> HIDE DEF q, r
    <3> QED
      BY <1>2, <3>1, SMT
  <2>4. CASE s = "enable_scl" /\ t = "write_slave_addr_write_mode" /\ u = "receive_ack"
    <3>1. q = RamWait + 32 + 7 /\ r = RamWait + 40
      BY <2>4 DEF Rest, WaitCycles, ByteStates
    <3> HIDE DEF q, r
    <3> QED
      BY <1>2, <3>1, SMT
  <2>5. CASE s = "write_slave_addr_write_mode" /\ t = "receive_ack" /\ u = "write_word_addr"
    <3>1. q = RamWait + 31 + 0 /\ r = RamWait + 32
      BY <2>5 DEF Rest, WaitCycles, ByteStates
    <3> HIDE DEF q, r
    <3> QED
      BY <1>2, <3>1, SMT
  <2>6. CASE s = "receive_ack" /\ t = "write_word_addr" /\ u = "receive_ack"
    <3>1. q = RamWait + 23 + 7 /\ r = RamWait + 31
      BY <2>6 DEF Rest, WaitCycles, ByteStates
    <3> HIDE DEF q, r
    <3> QED
      BY <1>2, <3>1, SMT
  <2>7. CASE /\ s = "write_word_addr" /\ t = "receive_ack" /\ u = "write_data"
             /\ m.eeprom_write_enable_bit
    <3>1. q = RamWait + 12 + 0
      BY <2>7 DEF Rest, WaitCycles, ByteStates
    <3> HIDE DEF q, r
    <3> QED
      BY <1>2, <2>7, <3>1, SMT
  <2>8. CASE s = "write_word_addr" /\ t = "receive_ack" /\ u = "create_repeated_start_cond"
    <3>1. q = RamWait + 22 + 0 /\ r = RamWait + 23
      BY <2>8 DEF Rest, WaitCycles, ByteStates
    <3> HIDE DEF q, r
    <3> QED
      BY <1>2, <3>1, SMT
  <2>9. CASE s = "receive_ack" /\ t = "create_repeated_start_cond" /\ u = "write_slave_addr_read_mode"
    <3>1. q = RamWait + 21 + 0 /\ r = RamWait + 22
      BY <2>9 DEF Rest, WaitCycles, ByteStates
    <3> HIDE DEF q, r
    <3> QED
      BY <1>2, <3>1, SMT
  <2>10. CASE s = "create_repeated_start_cond" /\ t = "write_slave_addr_read_mode" /\ u = "receive_ack"
    <3>1. q = RamWait + 13 + 7 /\ r = RamWait + 21
      BY <2>10 DEF Rest, WaitCycles, ByteStates
    <3> HIDE DEF q, r
    <3> QED
      BY <1>2, <3>1, SMT
  <2>11. CASE s = "write_slave_addr_read_mode" /\ t = "receive_ack" /\ u = "read_data"
    <3>1. q = RamWait + 12 + 0 /\ r = RamWait + 13
      BY <2>11 DEF Rest, WaitCycles, ByteStates
    <3> HIDE DEF q, r
    <3> QED
      BY <1>2, <3>1, SMT
  <2>12. CASE s = "receive_ack" /\ t = "read_data" /\ u = "send_ack"
    <3>1. q = RamWait + 4 + 7 /\ r = RamWait + 12
      BY <2>12 DEF Rest, WaitCycles, ByteStates
    <3> HIDE DEF q, r
    <3> QED
      BY <1>2, <3>1, SMT
  <2>13. CASE s = "read_data" /\ t = "send_ack" /\ u = "create_stop_cond"
    <3>1. q = RamWait + 3 + 0 /\ r = RamWait + 4
      BY <2>13 DEF Rest, WaitCycles, ByteStates
    <3> HIDE DEF q, r
    <3> QED
      BY <1>2, <3>1, SMT
  <2>14. CASE s \in {"send_ack", "receive_ack"} /\ t = "create_stop_cond" /\ u = "write_to_ram"
    <3>1. q = RamWait + 2 + 0 /\ r = RamWait + 3
      BY <2>14 DEF Rest, WaitCycles, ByteStates
    <3> HIDE DEF q, r
    <3> QED
      BY <1>2, <3>1, SMT
  <2>15. CASE s = "receive_ack" /\ t = "write_data" /\ u = "receive_ack"
    <3>1. q = RamWait + 4 + 7 /\ r = RamWait + 12
      BY <2>15 DEF Rest, WaitCycles, ByteStates
    <3> HIDE DEF q, r
    <3> QED
      BY <1>2, <3>1, SMT
  <2>16. CASE s = "write_data" /\ t = "receive_ack" /\ u = "create_stop_cond"
    <3>1. q = RamWait + 3 + 0 /\ r = RamWait + 4
      BY <2>16 DEF Rest, WaitCycles, ByteStates
    <3> HIDE DEF q, r
    <3> QED
      BY <1>2, <3>1, SMT
  <2>17. CASE s = "create_stop_cond" /\ t = "write_to_ram" /\ u = "i2c_nop"
    <3>1. q = 1 + RamWait /\ r = RamWait + 2
      BY <2>17 DEF Rest, WaitCycles, ByteStates
    <3> HIDE DEF q, r
    <3> QED
      BY <1>2, <3>1, SMT
  <2> HIDE DEF q, r
  <2> QED
    BY <2>1, <2>2, <2>3, <2>4, <2>5, <2>6, <2>7, <2>8, <2>9, <2>10,
       <2>11, <2>12, <2>13, <2>14, <2>15, <2>16, <2>17 DEF Turn, Idle
<1> HIDE DEF q, r
<1> QED
  BY <1>2, <1>3, <1>4, SMT

-----------------------------------------------------------------------------
\* The byte is stored, or read, at this step.
StoresNow == /\ phase = "high_fall"
             /\ master.outputs = "receive_ack" /\ master.next_state = "create_stop_cond"
ReadsNow == Taken(master, phase) /\ master.outputs = "read_data"

\* The step of the I2C clocks, by its phase.
LEMMA StepPhases ==
  ASSUME LinkInv, I2cStep
  PROVE  /\ \/ phase = "low_rise" /\ phase' = "high_fall" /\ LowRise
            \/ phase = "high_fall" /\ phase' = "high_rise" /\ HighFall
            \/ phase = "high_rise" /\ phase' = "low_fall" /\ HighRise
            \/ phase = "low_fall" /\ phase' = "low_rise" /\ LowFall
         /\ ram_block' = ram_block /\ eeadr_int' = eeadr_int /\ eedata_int' = eedata_int
         /\ eecon_int' = eecon_int /\ reset_eecon' = reset_eecon
         /\ since' = since /\ request' = request /\ dumps' = dumps /\ dump_clocks' = dump_clocks
<1>1. phase' = NextPhase /\ (LowRise \/ HighFall \/ HighRise \/ LowFall)
  BY DEF I2cStep
<1>2. UNCHANGED ram_vars /\ UNCHANGED count_vars /\ since' = since /\ request' = request
      /\ dump_clocks' = dump_clocks
  BY DEF I2cStep
<1>3. \/ phase = "low_rise" /\ phase' = "high_fall" /\ LowRise
      \/ phase = "high_fall" /\ phase' = "high_rise" /\ HighFall
      \/ phase = "high_rise" /\ phase' = "low_fall" /\ HighRise
      \/ phase = "low_fall" /\ phase' = "low_rise" /\ LowFall
  BY <1>1 DEF NextPhase, LowRise, HighFall, HighRise, LowFall
<1> QED
  BY <1>2, <1>3 DEF ram_vars, count_vars

\* The turns the master takes, and its register w.
LEMMA I2cTurns ==
  ASSUME LinkInv, TimingInv, ProtocolInv, Held(master, phase), I2cStep
  PROVE  LET w == master.eeprom_write_enable_bit IN
         /\ Taken(master, phase) =>
              /\ Turn(master.outputs, master.next_state, Successor(master, eecon_int), w)
              /\ master.next_state = "i2c_nop" =>
                   (master'.eeprom_write_enable_bit <=>
                      Successor(master, eecon_int) # "i2c_nop" /\ ~master.start_read_procedure)
         /\ ~Taken(master, phase) \/ master.next_state # "i2c_nop" =>
              (master'.eeprom_write_enable_bit <=> w)
<1>1. /\ master \in Masters /\ chip \in Chips /\ MasterTypes(master) /\ Placed(master, phase)
  BY ProtocolTypes
<1>2. CASE phase = "low_rise" /\ LowRise
  <2>1. LowRiseMove(master, chip, master', chip', SentBit(master, eeadr_int, eedata_int))
    BY <1>1, <1>2, LowRiseMoves
  <2> QED
    BY <1>2, <2>1 DEF Taken, LowRiseMove, Quietly, SamePlace
<1>3. CASE phase = "high_fall" /\ HighFall
  <2>1. HighFallMove(master, chip, ChipFall200(chip), master', chip',
                     Bit(Stored(chip.eeprom, chip.mem_address), 7 - chip.write_bits_used))
    BY <1>1, <1>3, HighFallMoves
  <2> QED
    BY <1>3, <2>1 DEF Taken, HighFallMove, Quietly, SamePlace
<1>4. CASE phase = "high_rise" /\ HighRise
  <2>1. HighRiseMove(master, chip, master', chip')
    BY <1>1, <1>4, HighRiseMoves
  <2> QED
    BY <1>4, <2>1 DEF Taken, HighRiseMove
<1>5. CASE phase = "low_fall" /\ LowFall
  <2> DEFINE u == Successor(master, eecon_int)
             f == ChipFall200(chip)
  <2>1. LowFallMove(master, chip, f, master', chip', u)
    BY <1>1, <1>5, LowFallMoves
  <2>2. /\ OnCourse(master) /\ (master.outputs = "receive_ack" => master.is_ack_received)
    BY <1>5 DEF ProtocolInv, Wires
  <2>3. Taken(master, "low_fall") =>
          Turn(master.outputs, master.next_state, u, master.eeprom_write_enable_bit)
    BY <1>1, <1>5, <2>2, Turns
  <2>4. Taken(master, "low_fall") => master.trig_state_machine /\ master.state = master.next_state
    BY <1>1, <1>5 DEF Taken, Placed
  <2>5. ~Taken(master, "low_fall") => ~master.trig_state_machine
    BY DEF Taken
  <2> HIDE DEF u, f
  <2> QED
    BY <1>5, <2>1, <2>3, <2>4, <2>5 DEF LowFallMove, SamePlace, u
<1> QED
  BY <1>2, <1>3, <1>4, <1>5, StepPhases

\* When a bit of the byte read is the last.
LEMMA LastBit ==
  ASSUME NEW m \in Masters, NEW c, Placed(m, "low_fall"), Wires(m, c, "low_fall"),
         m.outputs = "read_data"
  PROVE  m.read_bits_used = 7 <=> Taken(m, "low_fall")
<1>1. WaitCycles(m) = 7 /\ m.cycles_waited \in Nat /\ m.read_bits_used = BitNo(m, "low_fall")
  BY MasterFacts DEF WaitCycles, ByteStates, Wires
<1>2. CASE m.trig_state_machine
  BY <1>1, <1>2 DEF BitNo, Taken
<1>3. CASE ~m.trig_state_machine
  <2>1. m.cycles_waited <= 7 /\ m.read_bits_used = m.cycles_waited - 1
    BY <1>1, <1>3 DEF BitNo, Taken, Placed
  <2>2. m.read_bits_used # 7
    BY <1>1, <2>1, SMT
  <2> QED
    BY <1>3, <2>2 DEF Taken
<1> QED
  BY <1>2, <1>3

\* What a step does to the byte read, and who else touches the bytes.
LEMMA I2cBytes ==
  ASSUME LinkInv, TimingInv, ProtocolInv, I2cStep
  PROVE  /\ buffer' = IF ReadsNow THEN master'.data_out ELSE buffer
         /\ master.outputs # "read_data" => master'.data_out = master.data_out
         /\ phase # "high_fall" => (served' <=> served \/ ReadsNow) /\ chip'.eeprom = chip.eeprom
         /\ ~master.scl_enable /\ master.outputs # "read_data" =>
              (served' <=> served) /\ chip'.eeprom = chip.eeprom
<1>1. /\ master \in Masters /\ chip \in Chips /\ Placed(master, phase)
  BY ProtocolTypes
<1>2. CASE phase = "low_rise" /\ LowRise
  <2>1. SameBytes(chip, chip') /\ master'.data_out = master.data_out
    BY <1>1, <1>2, LowRiseMoves
  <2>2. served' = served /\ buffer' = buffer
    BY <1>2 DEF LowRise
  <2> QED
    BY <1>2, <2>1, <2>2 DEF SameBytes, ReadsNow, Taken
<1>3. CASE phase = "high_fall" /\ HighFall
  <2> DEFINE f == ChipFall200(chip)
  <2>1. /\ master'.data_out = master.data_out
        /\ chip'.eeprom = IF master.scl_enable /\ Stores(f)
                          THEN Store(chip.eeprom, chip.mem_address, chip.received_data) ELSE chip.eeprom
        /\ served' = (served \/ (master.scl_enable /\ Stores(f)))
    BY <1>1, <1>3, HighFallMoves
  <2>2. buffer' = buffer
    BY <1>3 DEF HighFall
  <2> HIDE DEF f
  <2> QED
    BY <1>3, <2>1, <2>2 DEF ReadsNow, Taken
<1>4. CASE phase = "high_rise" /\ HighRise
  <2>1. SameBytes(chip, chip') /\ master'.data_out = master.data_out
    BY <1>1, <1>4, HighRiseMoves
  <2>2. served' = served /\ buffer' = buffer
    BY <1>4 DEF HighRise
  <2> QED
    BY <1>4, <2>1, <2>2 DEF SameBytes, ReadsNow, Taken
<1>5. CASE phase = "low_fall" /\ LowFall
  <2>1. /\ master.outputs # "read_data" => master'.data_out = master.data_out
        /\ chip'.eeprom = chip.eeprom
    BY <1>1, <1>5, LowFallMoves
  <2> DEFINE last == master.outputs = "read_data" /\ master.read_bits_used = 7
  <2>2. served' = (served \/ last) /\ buffer' = IF last THEN master'.data_out ELSE buffer
    BY <1>5 DEF LowFall
  <2>3. last <=> ReadsNow
    BY <1>1, <1>5, LastBit DEF ReadsNow, ProtocolInv, Taken
  <2> QED
    BY <1>5, <2>1, <2>2, <2>3
<1> QED
  BY <1>2, <1>3, <1>4, <1>5, StepPhases

-----------------------------------------------------------------------------
\* The bytes of a transfer go on as they should.
LEMMA I2cCarries ==
  ASSUME LinkInv, TimingInv, ProtocolInv, Held(master, phase), I2cStep,
         NEW a \in Byte, NEW v \in Byte, a = eeadr_int, v = eedata_int,
         Carried(master, chip, phase, a, v)
  PROVE  /\ Carried(master', chip', phase', a, v)
         /\ ~(master.outputs = "write_to_ram" /\ Taken(master, phase)) =>
               (DoneAt(master', phase') <=> DoneAt(master, phase) \/ StoresNow \/ ReadsNow)
         /\ served' <=> served \/ StoresNow \/ ReadsNow
         /\ StoresNow \/ ReadsNow => ~DoneAt(master, phase)
         /\ chip'.eeprom = IF StoresNow THEN Store(chip.eeprom, a, v) ELSE chip.eeprom
         /\ buffer' = IF ReadsNow THEN Stored(chip.eeprom, a) ELSE buffer
<1>1. /\ master \in Masters /\ chip \in Chips /\ MasterTypes(master) /\ Placed(master, phase)
      /\ OnCourse(master) /\ ChipPlaced(master, chip, phase) /\ ChipStarted(master, chip, phase)
      /\ ChipReads(master, chip, phase) /\ Wires(master, chip, phase)
  BY ProtocolTypes DEF ProtocolInv
<1>2. /\ buffer' = IF ReadsNow THEN master'.data_out ELSE buffer
      /\ phase # "high_fall" => (served' <=> served \/ ReadsNow) /\ chip'.eeprom = chip.eeprom
  BY I2cBytes
<1>3. StoresNow \/ ReadsNow => ~DoneAt(master, phase)
  BY DEF StoresNow, ReadsNow, DoneAt, Taken, Early
<1>4. CASE phase = "low_rise" /\ phase' = "high_fall" /\ LowRise
  <2>1. /\ LowRiseMove(master, chip, master', chip', SentBit(master, a, v))
        /\ SameBytes(chip, chip') /\ master'.data_out = master.data_out
    BY <1>1, <1>4, LowRiseMoves
  <2>2. Carried(master', chip', "high_fall", a, v)
        /\ (DoneAt(master', "high_fall") <=> DoneAt(master, "low_rise"))
    BY <1>1, <1>4, <2>1, LowRiseCarried
  <2>3. ~StoresNow /\ ~ReadsNow
    BY <1>4 DEF StoresNow, ReadsNow, Taken
  <2> QED
    BY <1>2, <1>4, <2>2, <2>3
<1>5. CASE phase = "high_fall" /\ phase' = "high_rise" /\ HighFall
  <2> DEFINE f == ChipFall200(chip)
             b == Bit(Stored(chip.eeprom, chip.mem_address), 7 - chip.write_bits_used)
             stores == master.outputs = "receive_ack" /\ master.next_state = "create_stop_cond"
  <2>1. /\ HighFallMove(master, chip, f, master', chip', b)
        /\ HighFallBytes(master, chip, f, chip') /\ master'.data_out = master.data_out
        /\ served' = (served \/ (master.scl_enable /\ Stores(f)))
    BY <1>1, <1>5, HighFallMoves DEF HighFallBytes
  <2> HIDE DEF f
  <2>2. /\ Carried(master', chip', "high_rise", a, v)
        /\ master.scl_enable /\ Stores(f) <=> stores
        /\ DoneAt(master', "high_rise") <=> DoneAt(master, "high_fall") \/ stores
        /\ chip'.eeprom = IF stores THEN Store(chip.eeprom, a, v) ELSE chip.eeprom
    BY <1>1, <1>5, <2>1, HighFallCarried
  <2>3. (StoresNow <=> stores) /\ ~ReadsNow
    BY <1>5 DEF StoresNow, ReadsNow, Taken
  <2> HIDE DEF b, stores
  <2>4. served' <=> served \/ stores
    BY <2>1, <2>2
  <2> QED
    BY <1>2, <1>3, <1>5, <2>2, <2>3, <2>4
<1>6. CASE phase = "high_rise" /\ phase' = "low_fall" /\ HighRise
  <2>1. /\ HighRiseMove(master, chip, master', chip')
        /\ SameBytes(chip, chip') /\ master'.data_out = master.data_out
    BY <1>1, <1>6, HighRiseMoves
  <2>2. Carried(master', chip', "low_fall", a, v)
        /\ (DoneAt(master', "low_fall") <=> DoneAt(master, "high_rise"))
    BY <1>1, <1>6, <2>1, HighRiseCarried
  <2>3. ~StoresNow /\ ~ReadsNow
    BY <1>6 DEF StoresNow, ReadsNow, Taken
  <2> QED
    BY <1>2, <1>6, <2>2, <2>3
<1>7. CASE phase = "low_fall" /\ phase' = "low_rise" /\ LowFall
  <2> DEFINE f == ChipFall200(chip)
             u == Successor(master, eecon_int)
  <2>1. /\ LowFallMove(master, chip, f, master', chip', u)
        /\ LowFallBytes(master, chip, f, master', chip')
    BY <1>1, <1>7, LowFallMoves DEF LowFallBytes
  <2> HIDE DEF f
  <2>2. ~StoresNow /\ (ReadsNow <=> Taken(master, "low_fall") /\ master.outputs = "read_data")
    BY <1>7 DEF StoresNow, ReadsNow
  <2>3. CASE ~Taken(master, "low_fall")
    <3> HIDE DEF u
    <3>1. Carried(master', chip', "low_rise", a, v)
          /\ (DoneAt(master', "low_rise") <=> DoneAt(master, "low_fall"))
      BY <1>1, <1>7, <2>1, <2>3, LowFallWaitsCarried
    <3> QED
      BY <1>2, <1>7, <2>2, <2>3, <3>1
  <2>4. CASE Taken(master, "low_fall")
    <3>1. Turn(master.outputs, master.next_state, u, master.eeprom_write_enable_bit)
      BY <1>7, <2>4, I2cTurns
    <3>2. chip' \in Chips /\ master' \in Masters
      BY I2cStepType DEF LinkInv, EepromTypeOK
    <3> HIDE DEF u
    <3>3. /\ Carried(master', chip', "low_rise", a, v)
          /\ master.outputs = "read_data" => master'.data_out = Stored(chip.eeprom, a)
          /\ master.outputs # "write_to_ram" =>
                (DoneAt(master', "low_rise") <=> DoneAt(master, "low_fall") \/ master.outputs = "read_data")
      BY <1>1, <1>7, <2>1, <2>4, <3>1, <3>2, LowFallTurnsCarried
    <3> QED
      BY <1>2, <1>3, <1>7, <2>2, <2>4, <3>3
  <2> QED
    BY <2>3, <2>4
<1> QED
  BY <1>4, <1>5, <1>6, <1>7, StepPhases

-----------------------------------------------------------------------------
\* The request is one of these when there are no dumps.
LEMMA Requests ==
  ASSUME LinkInv, TransferInv
  PROVE  /\ request = "none" \/ Pending
         /\ Pending => request \in {"read", "write"}
         /\ served \in BOOLEAN
BY DEF LinkInv, EepromTypeOK, TransferInv, NoDumps, Pending

\* The strobe is still there when the word address is over.
LEMMA StrobeHeld ==
  ASSUME LinkInv, SuitableTiming, TimingInv, ProtocolInv, TransferInv
  PROVE  Held(master, phase)
<1> SUFFICES ASSUME master.outputs = "write_word_addr", Taken(master, phase)
             PROVE  IF master.eeprom_write_enable_bit
                    THEN master.start_write_procedure /\ ~master.start_read_procedure
                    ELSE master.start_read_procedure
  BY DEF Held
<1>1. phase = "low_fall" /\ master \in Masters /\ since \in Nat /\ RamWait \in Nat
  BY ProtocolTypes, ClockFacts DEF Taken
<1>2. Left(master, phase) = 4 * RamWait + 89
  <2>1. master.next_state = "receive_ack"
    BY DEF ProtocolInv, OnCourse
  <2> QED
    BY <1>1, <2>1, Milestones
<1>3. Pending /\ ~Idle(master)
  BY Requests DEF TransferInv, RestInv, Idle
<1>4. (master.eeprom_write_enable_bit <=> request = "write")
      /\ (request = "write" => ~master.start_read_procedure)
  BY <1>3 DEF TransferInv, CarryInv
<1>5. since = 1
  <2>1. since >= 2 => Left(master, phase) <= 4 * RamWait + 88
    BY <1>3 DEF TimingInv, PendingInv
  <2>2. since # 0
    BY <1>3 DEF TimingInv, PendingInv
  <2> QED
    BY <1>1, <1>2, <2>1, <2>2, SMT
<1>6. Latched
  BY <1>3, <1>5 DEF TimingInv, PendingInv
<1> QED
  BY <1>3, <1>4, <1>6, Requests DEF Latched

\* The answer is held until the host's clock has taken it.
LEMMA AnswerHeld ==
  ASSUME LinkInv, SuitableTiming, TimingInv, I2cStep, Pending, master.outputs = "write_to_ram"
  PROVE  ~Taken(master, phase)
<1> SUFFICES ASSUME Taken(master, phase) PROVE FALSE
  OBVIOUS
<1>1. phase = "low_fall" /\ master \in Masters /\ Placed(master, "low_fall")
  BY DEF LinkInv, EepromTypeOK, TimingInv, Taken
<1>2. Left(master, phase) = 1
  BY <1>1, Milestones
<1>3. 4 * (RamWait + 1) - Left(master, phase) <= SinceEdge
  BY DEF TimingInv, PendingInv
<1>4. SinceEdge < period /\ period <= 4 * RamWait + 3 /\ RamWait \in Nat /\ SinceEdge \in Nat
      /\ period \in Nat
  BY TimePasses, ClockFacts
<1> QED
  BY <1>2, <1>3, <1>4, SMT

\* The strobes that the memory holds out to the master.
LEMMA StrobesSeen ==
  ASSUME LinkInv, SuitableTiming, TimingInv, TransferInv
  PROVE  /\ Pending /\ request = "write" => Bit(eecon_int, 0) # 1
         /\ request = "none" /\ since = 0 => Bit(eecon_int, 0) # 1 /\ Bit(eecon_int, 1) # 1
         /\ request = "none" =>
              ~(Bit(eecon_int, 0) = 1 \/ (Bit(eecon_int, 1) = 1 /\ Bit(eecon_int, 2) = 1))
<1>1. since \in Nat /\ eecon_int \in Byte
  BY ProtocolTypes, ClockFacts
<1>2. eecon_int % 4 = 0 => Bit(eecon_int, 0) # 1 /\ Bit(eecon_int, 1) # 1
  <2>1. eecon_int % 4 = 0 => Bit(eecon_int, 0) = 0 /\ Bit(eecon_int, 1) = 0
    BY <1>1, StrobeBits
  <2> QED
    BY <2>1, SMT
<1>3. since >= 2 => eecon_int % 4 = 0
  BY DEF TimingInv, EeconInv
<1>4. since = 0 \/ since = 1 \/ since >= 2
  BY <1>1, SMT
<1>5. Port!Asked(eecon_int) = "none" =>
        ~(Bit(eecon_int, 0) = 1 \/ (Bit(eecon_int, 1) = 1 /\ Bit(eecon_int, 2) = 1))
  BY DEF Port!Asked, Port!Bit, Port!Weight, Bit, Weight
<1>6. Pending /\ request = "write" => Bit(eecon_int, 0) # 1
  <2> SUFFICES ASSUME Pending, request = "write" PROVE Bit(eecon_int, 0) # 1
    OBVIOUS
  <2>1. since = 0 => eecon_int % 4 = 0
    BY DEF TimingInv, PendingInv
  <2>2. since = 1 => Port!Asked(eecon_int) = "write"
    BY DEF TimingInv, PendingInv
  <2> QED
    BY <1>2, <1>3, <1>4, <2>1, <2>2, AskedBits
<1>7. request = "none" => (since = 0 => eecon_int % 4 = 0) /\ (since = 1 => Port!Asked(eecon_int) = "none")
  BY DEF TransferInv, RestInv
<1> QED
  BY <1>2, <1>3, <1>4, <1>5, <1>6, <1>7

-----------------------------------------------------------------------------
\* A request goes on.
LEMMA I2cKeepsCarry ==
  ASSUME LinkInv, SuitableTiming, TimingInv, ProtocolInv, TransferInv, I2cStep
  PROVE  CarryInv'
<1> SUFFICES ASSUME Pending'
             PROVE  /\ served' <=> DoneAt(master', phase')
                    /\ ~Idle(master') => (master'.eeprom_write_enable_bit <=> request' = "write")
                    /\ request' = "write" => ~master'.start_read_procedure
                    /\ eeadr_int' = ram_block'[EEADR_ADDRESS] /\ eedata_int' = ram_block'[EEDATA_ADDRESS]
                    /\ Carried(master', chip', phase', eeadr_int', eedata_int')
                    /\ since' = 1 /\ ~Idle(master') =>
                         Left(master', phase') + SinceEdge' >= 4 * RamWait + 12
  BY DEF CarryInv
<1>1. /\ ram_block' = ram_block /\ eeadr_int' = eeadr_int /\ eedata_int' = eedata_int
      /\ since' = since /\ request' = request
  BY StepPhases
<1>2. Pending /\ request \in {"read", "write"}
  BY <1>1 DEF Pending
<1>3. /\ served <=> DoneAt(master, phase)
      /\ ~Idle(master) => (master.eeprom_write_enable_bit <=> request = "write")
      /\ request = "write" => ~master.start_read_procedure
      /\ eeadr_int = ram_block[EEADR_ADDRESS] /\ eedata_int = ram_block[EEDATA_ADDRESS]
      /\ Carried(master, chip, phase, eeadr_int, eedata_int)
      /\ since = 1 /\ ~Idle(master) => Left(master, phase) + SinceEdge >= 4 * RamWait + 12
  BY <1>2 DEF TransferInv, CarryInv
<1>4. Held(master, phase)
  BY StrobeHeld
<1>5. master.outputs = "write_to_ram" => ~Taken(master, phase)
  BY <1>2, AnswerHeld
<1>6. /\ master \in Masters /\ master' \in Masters /\ phase \in Phases /\ phase' \in Phases
      /\ eeadr_int \in Byte /\ eedata_int \in Byte /\ Placed(master, phase)
  BY ProtocolTypes, I2cStepType DEF LinkInv, EepromTypeOK
<1>7. (served' <=> DoneAt(master', phase')) /\ Carried(master', chip', phase', eeadr_int', eedata_int')
  BY <1>1, <1>3, <1>4, <1>5, <1>6, I2cCarries
<1>8. LET w == master.eeprom_write_enable_bit IN
      /\ Taken(master, phase) =>
           /\ Turn(master.outputs, master.next_state, Successor(master, eecon_int), w)
           /\ master.next_state = "i2c_nop" =>
                (master'.eeprom_write_enable_bit <=>
                   Successor(master, eecon_int) # "i2c_nop" /\ ~master.start_read_procedure)
      /\ ~Taken(master, phase) \/ master.next_state # "i2c_nop" =>
           (master'.eeprom_write_enable_bit <=> w)
  BY <1>4, I2cTurns
<1>9. /\ Placed(master', phase')
      /\ phase # "high_fall" => SameStarts(master, master')
      /\ phase = "high_fall" => master'.start_read_procedure = (Bit(eecon_int, 0) = 1)
      /\ Idle(master) /\ Unasked(master) => Idle(master')
      /\ ~Taken(master, phase) =>
           SameStage(master, master') /\ Left(master', phase') = Left(master, phase) - 1
      /\ Taken(master, phase) =>
           /\ master'.outputs = master.next_state
           /\ master'.next_state = Successor(master, eecon_int)
           /\ master'.cycles_waited = 0
  BY <1>6, I2cMove
<1>10. since \in Nat /\ RamWait \in Nat /\ SinceEdge \in Nat /\ SinceEdge' = SinceEdge + 1
  BY ClockFacts, TimePasses
<1>11. ~Idle(master') => (master'.eeprom_write_enable_bit <=> request = "write")
  <2> SUFFICES ASSUME ~Idle(master')
               PROVE  master'.eeprom_write_enable_bit <=> request = "write"
    OBVIOUS
  <2>1. CASE ~Taken(master, phase)
    BY <1>3, <1>8, <1>9, <2>1 DEF Idle, SameStage
  <2>2. CASE Taken(master, phase) /\ master.next_state # "i2c_nop"
    BY <1>3, <1>8, <2>2 DEF Idle
  <2>3. CASE Taken(master, phase) /\ master.next_state = "i2c_nop"
    <3>1. master.outputs = "i2c_nop" /\ Idle(master)
      BY <1>5, <1>8, <2>3 DEF Turn, Idle
    <3>2. master'.eeprom_write_enable_bit <=> ~master.start_read_procedure
      BY <1>8, <1>9, <2>3 DEF Idle
    <3>3. ~Unasked(master)
      BY <1>9, <3>1
    <3>4. ~Started(master)
      BY <3>1 DEF Started, Idle
    <3>5. request = "read" => master.start_read_procedure
      <4>1. since = 0 \/ since = 1 \/ since >= 2
        BY <1>10, SMT
      <4>2. Latched
        BY <1>2, <3>3, <3>4, <4>1 DEF TimingInv, PendingInv
      <4> QED
        BY <4>2 DEF Latched
    <3> QED
      BY <1>2, <1>3, <3>2, <3>5
  <2> QED
    BY <2>1, <2>2, <2>3
<1>12. request = "write" => ~master'.start_read_procedure
  <2>1. request = "write" => Bit(eecon_int, 0) # 1
    BY <1>2, StrobesSeen
  <2> QED
    BY <1>3, <1>9, <2>1 DEF SameStarts
<1>13. since = 1 /\ ~Idle(master') => Left(master', phase') + SinceEdge' >= 4 * RamWait + 12
  <2> SUFFICES ASSUME since = 1, ~Idle(master')
               PROVE  Left(master', phase') + SinceEdge' >= 4 * RamWait + 12
    OBVIOUS
  <2> DEFINE l == Left(master, phase)
             r == Left(master', phase')
             e == SinceEdge
  <2>1. /\ l \in Int /\ r \in Int /\ (l <= 0 <=> Idle(master)) /\ (r <= 0 <=> Idle(master'))
    BY <1>6, <1>9, LeftBound
  <2>2. r = l - 1 \/ r >= 4 * RamWait + 48
    <3>1. CASE ~Taken(master, phase)
      BY <1>9, <3>1
    <3>2. CASE Taken(master, phase)
      <4>1. phase = "low_fall" /\ phase' = "low_rise"
        BY <3>2, StepPhases DEF Taken
      <4> QED
        BY <1>5, <1>6, <1>8, <1>9, <3>2, <4>1, LateStep
    <3> QED
      BY <3>1, <3>2
  <2>3. ~Idle(master) => l + e >= 4 * RamWait + 12
    BY <1>3
  <2> HIDE DEF l, r, e
  <2>4. e \in Nat /\ SinceEdge' = e + 1 /\ RamWait \in Nat
    BY <1>10 DEF e
  <2>5. r + (e + 1) >= 4 * RamWait + 12
    BY <2>1, <2>2, <2>3, <2>4, SMT
  <2> QED
    BY <2>4, <2>5 DEF r
<1> QED
  BY <1>1, <1>3, <1>7, <1>11, <1>12, <1>13

\* Without one, nothing starts.
LEMMA I2cKeepsRest ==
  ASSUME LinkInv, SuitableTiming, TimingInv, ProtocolInv, TransferInv, I2cStep
  PROVE  RestInv'
<1> SUFFICES ASSUME request' = "none"
             PROVE  /\ ~served'
                    /\ master'.outputs \in {"i2c_nop", "write_to_ram"} /\ master'.next_state = "i2c_nop"
                    /\ WritesToRam(master') =>
                         /\ ram_block'[EEDATA_ADDRESS] = master'.data_out
                         /\ CompletesWrite(master') => Bit(ram_block'[EECON_ADDRESS], 4) = 1
                    /\ since' = 0 => /\ eecon_int' % 4 = 0 /\ Unasked(master') /\ reset_eecon'
                                     /\ Port!Asked(ram_block'[EECON_ADDRESS]) = "none"
                    /\ since' = 1 => /\ Port!Asked(eecon_int') = "none"
                                     /\ Bit(ram_block'[EECON_ADDRESS], 2) = Bit(eecon_int', 2)
                    /\ since' > 0 =>
                          \/ ~Starts(master', eecon_int')
                          \/ /\ since' = 2 /\ SinceEdge' < Age(phase') /\ WritesToRam(master')
                             /\ Left(master', phase') + SinceEdge' >= 9
  BY DEF RestInv, Port!Asked, Port!Bit, Port!Weight
<1>1. /\ ram_block' = ram_block /\ eecon_int' = eecon_int /\ reset_eecon' = reset_eecon
      /\ since' = since /\ request' = request
  BY StepPhases
<1>2. request = "none"
  BY <1>1
<1>3. /\ ~served
      /\ master.outputs \in {"i2c_nop", "write_to_ram"} /\ master.next_state = "i2c_nop"
      /\ WritesToRam(master) =>
           /\ ram_block[EEDATA_ADDRESS] = master.data_out
           /\ CompletesWrite(master) => Bit(ram_block[EECON_ADDRESS], 4) = 1
      /\ since = 0 => /\ eecon_int % 4 = 0 /\ Unasked(master) /\ reset_eecon
                      /\ Port!Asked(ram_block[EECON_ADDRESS]) = "none"
      /\ since = 1 => /\ Port!Asked(eecon_int) = "none"
                      /\ Bit(ram_block[EECON_ADDRESS], 2) = Bit(eecon_int, 2)
      /\ since > 0 =>
            \/ ~Starts(master, eecon_int)
            \/ /\ since = 2 /\ SinceEdge < Age(phase) /\ WritesToRam(master)
               /\ Left(master, phase) + SinceEdge >= 9
  BY <1>2 DEF TransferInv, RestInv
<1>4. Held(master, phase)
  BY StrobeHeld
<1>5. master \in Masters /\ phase \in Phases /\ Placed(master, phase) /\ since \in Nat
      /\ SinceEdge \in Nat /\ SinceEdge' = SinceEdge + 1
  BY ProtocolTypes, ClockFacts, TimePasses
<1>6. /\ phase # "high_fall" => SameStarts(master, master')
      /\ phase = "high_fall" =>
           /\ master'.start_read_procedure = (Bit(eecon_int, 0) = 1)
           /\ master'.start_write_procedure = (Bit(eecon_int, 1) = 1)
      /\ Idle(master) /\ Unasked(master) => Idle(master')
      /\ ~Taken(master, phase) =>
           SameStage(master, master') /\ Left(master', phase') = Left(master, phase) - 1
      /\ Taken(master, phase) =>
           /\ master'.outputs = master.next_state
           /\ master'.next_state = Successor(master, eecon_int)
  BY <1>5, I2cMove
<1>7. master.outputs # "read_data" /\ ~master.scl_enable
  <2>1. Wires(master, chip, phase)
    BY DEF ProtocolInv
  <2> QED
    BY <1>3, <2>1 DEF Wires, ByteStates
<1>8. (served' <=> served) /\ master'.data_out = master.data_out
  BY <1>7, I2cBytes
<1>9. ~Taken(master, phase) => (master'.eeprom_write_enable_bit <=> master.eeprom_write_enable_bit)
  BY <1>4, I2cTurns
\* The strobe of an answered request is gone before the answer is over.
<1>10. Taken(master, phase) => ~Starts(master, eecon_int)
  <2> SUFFICES ASSUME Taken(master, phase), Starts(master, eecon_int) PROVE FALSE
    OBVIOUS
  <2>1. since > 0
    <3>1. since = 0 \/ since > 0
      BY <1>5, SMT
    <3> QED
      BY <1>3, <3>1 DEF Unasked, Starts
  <2>2. /\ SinceEdge < Age(phase) /\ master.outputs = "write_to_ram"
        /\ Left(master, phase) + SinceEdge >= 9
    BY <1>3, <2>1 DEF WritesToRam
  <2>3. phase = "low_fall"
    BY DEF Taken
  <2>4. Left(master, phase) = 1
    BY <1>5, <2>2, <2>3, Milestones
  <2>5. Age(phase) = 2
    BY <2>3 DEF Age
  <2> QED
    BY <1>5, <2>2, <2>4, <2>5, SMT
<1>11. master'.outputs \in {"i2c_nop", "write_to_ram"} /\ master'.next_state = "i2c_nop"
  <2>1. CASE ~Taken(master, phase)
    BY <1>3, <1>6, <2>1 DEF SameStage
  <2>2. CASE Taken(master, phase)
    <3>1. master.state = "i2c_nop"
      BY <1>3, <1>5, <2>2 DEF Placed
    <3>2. Successor(master, eecon_int) = "i2c_nop"
      BY <1>10, <2>2, <3>1 DEF Successor, Starts
    <3> QED
      BY <1>3, <1>6, <2>2, <3>2
  <2> QED
    BY <2>1, <2>2
<1>12. WritesToRam(master') => ~Taken(master, phase) /\ WritesToRam(master)
  BY <1>3, <1>6 DEF WritesToRam, SameStage
<1>13. WritesToRam(master') =>
         /\ ram_block'[EEDATA_ADDRESS] = master'.data_out
         /\ CompletesWrite(master') => Bit(ram_block'[EECON_ADDRESS], 4) = 1
  BY <1>1, <1>3, <1>8, <1>9, <1>12 DEF CompletesWrite
<1>14. since = 0 => Unasked(master')
  <2>1. since = 0 => Bit(eecon_int, 0) # 1 /\ Bit(eecon_int, 1) # 1
    BY <1>2, StrobesSeen
  <2> QED
    BY <1>3, <1>6, <2>1 DEF Unasked, SameStarts
<1>15. since > 0 =>
         \/ ~Starts(master', eecon_int)
         \/ /\ since = 2 /\ SinceEdge' < Age(phase') /\ WritesToRam(master')
            /\ Left(master', phase') + SinceEdge' >= 9
  <2> SUFFICES ASSUME since > 0, Starts(master', eecon_int)
               PROVE  /\ since = 2 /\ SinceEdge' < Age(phase') /\ WritesToRam(master')
                      /\ Left(master', phase') + SinceEdge' >= 9
    OBVIOUS
  <2>1. phase # "high_fall"
    <3>1. ~(Bit(eecon_int, 0) = 1 \/ (Bit(eecon_int, 1) = 1 /\ Bit(eecon_int, 2) = 1))
      BY <1>2, StrobesSeen
    <3> QED
      BY <1>6, <3>1 DEF Starts
  <2>2. Starts(master, eecon_int)
    BY <1>6, <2>1 DEF Starts, SameStarts
  <2>3. /\ since = 2 /\ SinceEdge < Age(phase) /\ WritesToRam(master)
        /\ Left(master, phase) + SinceEdge >= 9
    BY <1>3, <2>2
  <2>4. ~Taken(master, phase)
    BY <1>10, <2>2
  <2>5. WritesToRam(master') /\ Left(master', phase') = Left(master, phase) - 1
    BY <1>6, <2>3, <2>4 DEF WritesToRam, SameStage
  <2>6. Age(phase') = Age(phase) + 1 /\ Age(phase) \in Nat
    <3>1. \/ phase = "low_rise" /\ phase' = "high_fall"
          \/ phase = "high_rise" /\ phase' = "low_fall"
          \/ phase = "low_fall" /\ phase' = "low_rise"
      BY <2>1, StepPhases
    <3> QED
      BY <3>1, SMT DEF Age
  <2>7. Left(master, phase) \in Int
    BY <1>5, LeftBound
  <2> DEFINE l == Left(master, phase)
             e == SinceEdge
  <2>8. e \in Nat /\ SinceEdge' = e + 1 /\ l \in Int /\ Left(master', phase') = l - 1
        /\ e < Age(phase) /\ l + e >= 9
    BY <1>5, <2>3, <2>5, <2>7
  <2> HIDE DEF l, e
  <2>9. e + 1 < Age(phase) + 1 /\ (l - 1) + (e + 1) >= 9
    BY <2>6, <2>8, SMT
  <2> QED
    BY <2>3, <2>5, <2>6, <2>8, <2>9
<1> QED
  BY <1>1, <1>3, <1>8, <1>11, <1>13, <1>14, <1>15

\* The whole of a step of the I2C clocks.
LEMMA I2cKeeps ==
  ASSUME LinkInv, SuitableTiming, TimingInv, ProtocolInv, TransferInv, I2cStep
  PROVE  TransferInv'
<1>1. CarryInv' /\ RestInv'
  BY I2cKeepsCarry, I2cKeepsRest
<1>2. NoDumps'
  BY StepPhases DEF TransferInv, NoDumps
<1>3. master'.outputs # "read_data" => buffer' = master'.data_out
  <2>1. /\ buffer' = IF ReadsNow THEN master'.data_out ELSE buffer
        /\ master.outputs # "read_data" => master'.data_out = master.data_out
    BY I2cBytes
  <2>2. ~Taken(master, phase) => SameStage(master, master')
    BY I2cMove DEF TimingInv
  <2>3. master.outputs # "read_data" => buffer = master.data_out
    BY DEF TransferInv
  <2> QED
    BY <2>1, <2>2, <2>3 DEF ReadsNow, SameStage
<1> QED
  BY <1>1, <1>2, <1>3 DEF TransferInv

-----------------------------------------------------------------------------
\* Products of numbers are not negative.
LEMMA Product == ASSUME NEW a \in Nat, NEW b \in Nat PROVE a * b >= 0
BY Z3

\* Once the host's clock has risen twice since the strobe, it is gone.
LEMMA NoLongerAsked ==
  ASSUME LinkInv, SuitableTiming, TimingInv, SinceEdge = period, since >= 2
  PROVE  Unasked(master)
<1>1. /\ period \in Nat /\ period >= 86 /\ since \in Nat /\ since <= PauseClocks
      /\ PauseClocks \in Nat
  BY ClockFacts
<1>2. CASE since = PauseClocks
  BY <1>2 DEF TimingInv, IdleInv
<1>3. CASE since # PauseClocks
  <2> HIDE DEF PauseClocks
  <2>1. since < PauseClocks /\ since - 2 \in Nat
    BY <1>1, <1>3, SMT
  <2> DEFINE q == (since - 2) * period
  <2>2. q >= 0
    BY <1>1, <2>1, Product
  <2>3. q \in Int /\ Elapsed = q + period
    BY <1>1 DEF Elapsed
  <2> HIDE DEF q
  <2>4. Age(phase) \in Nat /\ Age(phase) <= 4
    BY SMT DEF Age, Phases, LinkInv, EepromTypeOK
  <2>5. Elapsed >= Age(phase)
    BY <1>1, <2>2, <2>3, <2>4, SMT
  <2> QED
    BY <2>1, <2>5 DEF TimingInv, IdleInv
<1> QED
  BY <1>2, <1>3

\* What an edge at which nothing is written changes.
LEMMA IdleEdgeCells ==
  ASSUME LinkInv, SuitableTiming, TimingInv, TransferInv, IdleEdge
  PROVE  LET x == IF reset_eecon THEN PutLow(ram_block[EECON_ADDRESS], 4, 0)
                  ELSE ram_block[EECON_ADDRESS] IN
         /\ ram_block'[EEADR_ADDRESS] = ram_block[EEADR_ADDRESS]
         /\ ram_block'[EEDATA_ADDRESS] = IF WritesToRam(master) THEN master.data_out
                                         ELSE ram_block[EEDATA_ADDRESS]
         /\ ram_block'[EECON_ADDRESS] = IF CompletesWrite(master) THEN PutBit(x, 4, 1) ELSE x
         /\ x \in Byte /\ ram_block[EECON_ADDRESS] \in Byte
         /\ eeadr_int' = ram_block[EEADR_ADDRESS] /\ eedata_int' = ram_block[EEDATA_ADDRESS]
         /\ eecon_int' = ram_block[EECON_ADDRESS]
         /\ master' = master /\ chip' = chip /\ phase' = phase /\ buffer' = buffer
         /\ dumps' = dumps /\ dump_clocks' = dump_clocks /\ dump_clocks = 0
         /\ request' = IF WritesToRam(master) THEN "none" ELSE request
         /\ served' = IF WritesToRam(master) THEN FALSE ELSE served
         /\ SinceEdge = period /\ SinceEdge' = 0
         /\ since' # 0 /\ (since' = 1 => since = 0) /\ (since' = 2 => since = 1 \/ since >= 2)
<1>1. HostEdge({}, 0, 0)
  BY DEF IdleEdge
<1>2. /\ dumps' = dumps /\ dump_clocks' = dump_clocks /\ dump_clocks = 0
      /\ request' = IF WritesToRam(master) THEN "none" ELSE request
      /\ served' = IF WritesToRam(master) THEN FALSE ELSE served
  <2>1. request # "dump"
    BY DEF TransferInv, NoDumps
  <2> QED
    BY <2>1 DEF IdleEdge, Answered
<1>3. 0 # EEADR_ADDRESS /\ 0 # EEDATA_ADDRESS /\ 0 # EECON_ADDRESS
  BY SMT DEF EEADR_ADDRESS, EEDATA_ADDRESS, EECON_ADDRESS
<1>4. LET x == IF 0 = EECON_ADDRESS THEN 0
               ELSE IF reset_eecon THEN PutLow(ram_block[EECON_ADDRESS], 4, 0)
               ELSE ram_block[EECON_ADDRESS] IN
      /\ ram_block'[EEADR_ADDRESS] = IF 0 = EEADR_ADDRESS THEN 0 ELSE ram_block[EEADR_ADDRESS]
      /\ ram_block'[EEDATA_ADDRESS] = IF 0 = EEDATA_ADDRESS THEN 0
                                      ELSE IF WritesToRam(master) THEN master.data_out
                                      ELSE ram_block[EEDATA_ADDRESS]
      /\ ram_block'[EECON_ADDRESS] = IF CompletesWrite(master) THEN PutBit(x, 4, 1) ELSE x
      /\ eeadr_int' = ram_block[EEADR_ADDRESS] /\ eedata_int' = ram_block[EEDATA_ADDRESS]
      /\ eecon_int' = ram_block[EECON_ADDRESS]
      /\ master' = master /\ chip' = chip /\ phase' = phase /\ buffer' = buffer
  BY <1>1, EdgeCells
<1>5. SinceEdge = period /\ SinceEdge' = 0
  BY <1>1, EdgeCounts
<1>6. ram_block[EECON_ADDRESS] \in Byte
  BY RegisterCells DEF LinkInv, EepromTypeOK, RamType, Memory
<1>7. PutLow(ram_block[EECON_ADDRESS], 4, 0) \in Byte
  <2>1. ram_block[EECON_ADDRESS] \in 0..255
    BY <1>6 DEF Byte
  <2> QED
    BY <2>1, SMT DEF PutLow, Byte
<1>8. since' # 0 /\ (since' = 1 => since = 0) /\ (since' = 2 => since = 1 \/ since >= 2)
  <2>1. since' = IF since < PauseClocks THEN since + 1 ELSE since
    BY DEF IdleEdge
  <2>2. since \in Nat /\ PauseClocks \in Nat /\ PauseClocks >= 3 /\ since <= PauseClocks
    BY ClockFacts
  <2> HIDE DEF PauseClocks
  <2> QED
    BY <2>1, <2>2, SMT
<1> QED
  BY <1>2, <1>3, <1>4, <1>5, <1>6, <1>7, <1>8

\* A clock of the host without a command keeps the transfer.
LEMMA IdleKeepsTransfer ==
  ASSUME LinkInv, SuitableTiming, TimingInv, TransferInv, IdleEdge
  PROVE  TransferInv'
<1> DEFINE x == IF reset_eecon THEN PutLow(ram_block[EECON_ADDRESS], 4, 0)
                ELSE ram_block[EECON_ADDRESS]
<1>1. /\ ram_block'[EEADR_ADDRESS] = ram_block[EEADR_ADDRESS]
      /\ ram_block'[EEDATA_ADDRESS] = IF WritesToRam(master) THEN master.data_out
                                      ELSE ram_block[EEDATA_ADDRESS]
      /\ ram_block'[EECON_ADDRESS] = IF CompletesWrite(master) THEN PutBit(x, 4, 1) ELSE x
      /\ x \in Byte /\ ram_block[EECON_ADDRESS] \in Byte
      /\ eeadr_int' = ram_block[EEADR_ADDRESS] /\ eedata_int' = ram_block[EEDATA_ADDRESS]
      /\ eecon_int' = ram_block[EECON_ADDRESS]
      /\ master' = master /\ chip' = chip /\ phase' = phase /\ buffer' = buffer
      /\ dumps' = dumps /\ dump_clocks' = dump_clocks
      /\ request' = IF WritesToRam(master) THEN "none" ELSE request
      /\ served' = IF WritesToRam(master) THEN FALSE ELSE served
      /\ SinceEdge = period /\ SinceEdge' = 0
      /\ since' # 0 /\ (since' = 1 => since = 0) /\ (since' = 2 => since = 1 \/ since >= 2)
  BY IdleEdgeCells
<1>2. /\ Bit(x, 2) = Bit(ram_block[EECON_ADDRESS], 2)
      /\ Bit(PutBit(x, 4, 1), 2) = Bit(x, 2) /\ Bit(PutBit(x, 4, 1), 4) = 1
  BY <1>1, ControlBits
<1> HIDE DEF x
<1>3. Bit(ram_block'[EECON_ADDRESS], 2) = Bit(ram_block[EECON_ADDRESS], 2)
      /\ (CompletesWrite(master) => Bit(ram_block'[EECON_ADDRESS], 4) = 1)
  BY <1>1, <1>2
<1>4. since \in Nat /\ (since = 0 \/ since = 1 \/ since >= 2) /\ period <= 4 * RamWait + 3
      /\ period \in Nat /\ RamWait \in Nat
  <2>1. since \in Nat /\ period <= 4 * RamWait + 3 /\ period \in Nat /\ RamWait \in Nat
    BY ClockFacts
  <2>2. since = 0 \/ since = 1 \/ since >= 2
    BY <2>1, SMT
  <2> QED
    BY <2>1, <2>2
<1>5. since >= 2 => Unasked(master)
  BY <1>1, NoLongerAsked
<1>6. NoDumps'
  BY <1>1, Requests DEF TransferInv, NoDumps
<1>7. CarryInv'
  <2> SUFFICES ASSUME Pending' PROVE CarryInv'
    BY DEF CarryInv
  <2>1. Pending /\ ~WritesToRam(master) /\ request' = request /\ served' = served
    BY <1>1 DEF Pending
  <2>2. /\ served <=> DoneAt(master, phase)
        /\ ~Idle(master) => (master.eeprom_write_enable_bit <=> request = "write")
        /\ request = "write" => ~master.start_read_procedure
        /\ eeadr_int = ram_block[EEADR_ADDRESS] /\ eedata_int = ram_block[EEDATA_ADDRESS]
        /\ Carried(master, chip, phase, eeadr_int, eedata_int)
    BY <2>1 DEF TransferInv, CarryInv
  <2>3. since' = 1 => Idle(master)
    BY <1>1, <2>1 DEF TimingInv, PendingInv
  <2>4. eeadr_int' = eeadr_int /\ eedata_int' = eedata_int
    BY <1>1, <2>2
  <2> QED
    BY <1>1, <2>1, <2>2, <2>3, <2>4 DEF CarryInv
<1>8. RestInv'
  <2> SUFFICES ASSUME request' = "none" PROVE RestInv'
    BY DEF RestInv
  <2>1. request = "none" \/ (Pending /\ WritesToRam(master))
    BY <1>1, Requests
  <2>2. request = "none" =>
          /\ ~served
          /\ master.outputs \in {"i2c_nop", "write_to_ram"} /\ master.next_state = "i2c_nop"
          /\ WritesToRam(master) =>
               /\ ram_block[EEDATA_ADDRESS] = master.data_out
               /\ CompletesWrite(master) => Bit(ram_block[EECON_ADDRESS], 4) = 1
          /\ since = 0 => /\ eecon_int % 4 = 0 /\ Unasked(master) /\ reset_eecon
                          /\ Port!Asked(ram_block[EECON_ADDRESS]) = "none"
          /\ since = 1 => /\ Port!Asked(eecon_int) = "none"
                          /\ Bit(ram_block[EECON_ADDRESS], 2) = Bit(eecon_int, 2)
          /\ since > 0 =>
                \/ ~Starts(master, eecon_int)
                \/ /\ since = 2 /\ SinceEdge < Age(phase) /\ WritesToRam(master)
                   /\ Left(master, phase) + SinceEdge >= 9
    BY DEF TransferInv, RestInv
  <2>3. WritesToRam(master) => master.outputs = "write_to_ram" /\ master.next_state = "i2c_nop"
    <3>1. WritesToRam(master) => master.outputs = "write_to_ram"
      BY DEF WritesToRam
    <3>2. master.outputs = "write_to_ram" => master.next_state = "i2c_nop"
      BY DEF TimingInv, Placed, Followers
    <3> QED
      BY <3>1, <3>2
  <2>4. ~served' /\ master.outputs \in {"i2c_nop", "write_to_ram"} /\ master.next_state = "i2c_nop"
    BY <1>1, <2>1, <2>2, <2>3
  <2>5. WritesToRam(master) => ram_block'[EEDATA_ADDRESS] = master.data_out
    BY <1>1
  <2>6. since' = 1 => request = "none"
    BY <1>1, <2>1, <2>3 DEF TimingInv, PendingInv, Idle
  <2>7. since' = 1 => /\ Port!Asked(eecon_int') = "none"
                      /\ Bit(ram_block'[EECON_ADDRESS], 2) = Bit(eecon_int', 2)
    <3> SUFFICES ASSUME since' = 1
                 PROVE  /\ Port!Asked(eecon_int') = "none"
                        /\ Bit(ram_block'[EECON_ADDRESS], 2) = Bit(eecon_int', 2)
      OBVIOUS
    <3>1. Port!Asked(ram_block[EECON_ADDRESS]) = "none"
      BY <1>1, <2>2, <2>6
    <3> QED
      BY <1>1, <1>3, <3>1
  <2>8. \/ ~Starts(master, eecon_int')
        \/ /\ since' = 2 /\ SinceEdge' < Age(phase) /\ WritesToRam(master)
           /\ Left(master, phase) + SinceEdge' >= 9
    <3>1. CASE since = 0
      <4>1. Unasked(master)
        BY <2>1, <2>2, <3>1 DEF TimingInv, PendingInv
      <4> QED
        BY <4>1 DEF Unasked, Starts
    <3>2. CASE since = 1 /\ request = "none"
      <4>1. ~Starts(master, eecon_int) /\ Bit(ram_block[EECON_ADDRESS], 2) = Bit(eecon_int, 2)
        BY <2>2, <3>2, SMT
      <4> QED
        BY <1>1, <4>1 DEF Starts
    <3>3. CASE since = 1 /\ Pending /\ WritesToRam(master)
      <4>1. ~Idle(master)
        BY <2>3, <3>3 DEF Idle
      <4>2. Left(master, phase) + SinceEdge >= 4 * RamWait + 12
        BY <3>3, <4>1 DEF TransferInv, CarryInv
      <4>3. Left(master, phase) \in Int /\ Age(phase) \in Nat /\ Age(phase) >= 1
        <5>1. HostEdge({}, 0, 0)
          BY DEF IdleEdge
        <5> QED
          BY <5>1, EdgeFacts
      <4>4. Left(master, phase) + 0 >= 9 /\ 0 < Age(phase)
        BY <1>1, <1>4, <4>2, <4>3, SMT
      <4>5. since' = 2
        <5>1. since' = IF since < PauseClocks THEN since + 1 ELSE since
          BY DEF IdleEdge
        <5>2. PauseClocks \in Nat /\ PauseClocks >= 3
          BY ClockFacts
        <5> HIDE DEF PauseClocks
        <5> QED
          BY <3>3, <5>1, <5>2, SMT
      <4> QED
        BY <1>1, <3>3, <4>4, <4>5
    <3>4. CASE since >= 2
      BY <1>5, <3>4 DEF Unasked, Starts
    <3> QED
      BY <1>4, <2>1, <3>1, <3>2, <3>3, <3>4
  <2> QED
    BY <1>1, <1>3, <2>4, <2>5, <2>7, <2>8 DEF RestInv
<1> QED
  BY <1>1, <1>6, <1>7, <1>8 DEF TransferInv

-----------------------------------------------------------------------------
\* The registers that a program writes, one at a time.
LEMMA WriteCells ==
  ASSUME LinkInv, SuitableTiming, TimingInv, TransferInv, since = PauseClocks, dump_clocks = 0,
         NEW d, NEW address \in {EEADR_ADDRESS, EEDATA_ADDRESS, EECON_ADDRESS},
         HostEdge({"ram_write"}, d, address)
  PROVE  /\ ram_block'[EEADR_ADDRESS] = IF address = EEADR_ADDRESS THEN d ELSE ram_block[EEADR_ADDRESS]
         /\ ram_block'[EEDATA_ADDRESS] = IF address = EEDATA_ADDRESS THEN d
                                         ELSE ram_block[EEDATA_ADDRESS]
         /\ ram_block'[EECON_ADDRESS] = IF address = EECON_ADDRESS THEN d ELSE ram_block[EECON_ADDRESS]
         /\ reset_eecon' <=> address = EECON_ADDRESS
         /\ eeadr_int' = ram_block[EEADR_ADDRESS] /\ eedata_int' = ram_block[EEDATA_ADDRESS]
         /\ eecon_int' = ram_block[EECON_ADDRESS] /\ ram_block[EECON_ADDRESS] % 4 = 0
         /\ master' = master /\ chip' = chip /\ phase' = phase /\ buffer' = buffer
         /\ Idle(master) /\ Unasked(master) /\ request = "none" /\ ~served
         /\ ~WritesToRam(master) /\ ~CompletesWrite(master)
         /\ PauseClocks' = PauseClocks /\ PauseClocks \in Nat /\ PauseClocks >= 3
<1>1. /\ Idle(master) /\ Unasked(master) /\ request = "none" /\ ~WritesToRam(master)
      /\ ~reset_eecon /\ ram_block[EECON_ADDRESS] % 4 = 0
  BY WhenSettled
<1>2. ~CompletesWrite(master) /\ ~served
  BY <1>1 DEF CompletesWrite, TransferInv, RestInv
<1>3. PauseClocks' = PauseClocks /\ PauseClocks \in Nat /\ PauseClocks >= 3
  BY ClockFacts, EdgeCounts
<1> HIDE DEF PauseClocks
<1>4. address # 0 /\ {"ram_write"} # {}
  BY SMT DEF EEADR_ADDRESS, EEDATA_ADDRESS, EECON_ADDRESS
<1>5. LET x == IF address = EECON_ADDRESS THEN d
               ELSE IF reset_eecon THEN PutLow(ram_block[EECON_ADDRESS], 4, 0)
               ELSE ram_block[EECON_ADDRESS] IN
      /\ ram_block'[EEADR_ADDRESS] = IF address = EEADR_ADDRESS THEN d ELSE ram_block[EEADR_ADDRESS]
      /\ ram_block'[EEDATA_ADDRESS] = IF address = EEDATA_ADDRESS THEN d
                                      ELSE IF WritesToRam(master) THEN master.data_out
                                      ELSE ram_block[EEDATA_ADDRESS]
      /\ ram_block'[EECON_ADDRESS] = IF CompletesWrite(master) THEN PutBit(x, 4, 1) ELSE x
      /\ reset_eecon' <=> address = EECON_ADDRESS
      /\ eeadr_int' = ram_block[EEADR_ADDRESS] /\ eedata_int' = ram_block[EEDATA_ADDRESS]
      /\ eecon_int' = ram_block[EECON_ADDRESS]
      /\ master' = master /\ chip' = chip /\ phase' = phase /\ buffer' = buffer
  BY <1>4, EdgeCells
<1> QED
  BY <1>1, <1>2, <1>3, <1>5

\* So does a write to EEADR or EEDATA,
LEMMA OperandKeepsTransfer ==
  ASSUME LinkInv, SuitableTiming, TimingInv, TransferInv, WriteOperand
  PROVE  TransferInv'
<1>1. PICK d \in Byte, address \in {EEADR_ADDRESS, EEDATA_ADDRESS} :
             HostEdge({"ram_write"}, d, address)
  BY LinkConstants DEF WriteOperand
<1>2. /\ since = PauseClocks /\ dump_clocks = 0 /\ since' = since /\ dump_clocks' = dump_clocks
      /\ dumps' = dumps /\ request' = request /\ served' = served
  BY DEF WriteOperand, Settled
<1>3. /\ master' = master /\ phase' = phase /\ buffer' = buffer
      /\ Idle(master) /\ Unasked(master) /\ request = "none" /\ ~served /\ ~WritesToRam(master)
      /\ PauseClocks' = PauseClocks /\ PauseClocks \in Nat /\ PauseClocks >= 3
  BY <1>1, <1>2, WriteCells
<1> HIDE DEF PauseClocks
<1>4. since' # 0 /\ since' # 1
  BY <1>2, <1>3, SMT
<1>5. NoDumps' /\ CarryInv'
  BY <1>2, <1>3 DEF TransferInv, NoDumps, CarryInv, Pending
<1>6. RestInv'
  BY <1>2, <1>3, <1>4 DEF RestInv, Idle, Unasked, Starts
<1> QED
  BY <1>3, <1>5, <1>6 DEF TransferInv

\* a write to EECON, whose strobe may ask for a transfer,
LEMMA RequestKeepsTransfer ==
  ASSUME LinkInv, SuitableTiming, TimingInv, TransferInv, WriteRequest
  PROVE  TransferInv'
<1>1. PICK control : HostEdge({"ram_write"}, control, EECON_ADDRESS) /\ request' = Port!Asked(control)
  BY DEF WriteRequest
<1>2. /\ since = PauseClocks /\ dump_clocks = 0 /\ since' = 0 /\ dump_clocks' = dump_clocks
      /\ dumps' = dumps /\ served' = served
  BY DEF WriteRequest, Settled
<1>3. /\ EECON_ADDRESS # EEADR_ADDRESS /\ EECON_ADDRESS # EEDATA_ADDRESS
  BY SMT DEF EEADR_ADDRESS, EEDATA_ADDRESS, EECON_ADDRESS
<1>4. /\ ram_block'[EEADR_ADDRESS] = ram_block[EEADR_ADDRESS]
      /\ ram_block'[EEDATA_ADDRESS] = ram_block[EEDATA_ADDRESS]
      /\ ram_block'[EECON_ADDRESS] = control /\ reset_eecon'
      /\ eeadr_int' = ram_block[EEADR_ADDRESS] /\ eedata_int' = ram_block[EEDATA_ADDRESS]
      /\ eecon_int' = ram_block[EECON_ADDRESS] /\ ram_block[EECON_ADDRESS] % 4 = 0
      /\ master' = master /\ chip' = chip /\ phase' = phase /\ buffer' = buffer
      /\ Idle(master) /\ Unasked(master) /\ ~served /\ ~WritesToRam(master)
  BY <1>1, <1>2, <1>3, WriteCells
<1>5. master.outputs = "i2c_nop" /\ master.next_state = "i2c_nop"
  BY <1>4 DEF Idle
<1>6. request' \in {"read", "write", "none"}
  BY <1>1 DEF Port!Asked
<1>7. NoDumps'
  BY <1>2, <1>6 DEF TransferInv, NoDumps
<1>8. CarryInv'
  <2>1. ~DoneAt(master, phase) /\ ~AddressHeard(master, phase)
    BY <1>5 DEF DoneAt, AddressHeard
  <2>2. Carried(master, chip, phase, eeadr_int', eedata_int')
    BY <1>5, <2>1 DEF Carried, Sending, ByteStates
  <2> QED
    BY <1>2, <1>4, <2>1, <2>2 DEF CarryInv, Unasked
<1>9. RestInv'
  <2>1. ~(since' > 0) /\ since' # 1
    BY <1>2, SMT
  <2> QED
    BY <1>1, <1>2, <1>4, <1>5, <2>1 DEF RestInv, Unasked, Port!Asked, Port!Bit, Port!Weight
<1> QED
  BY <1>4, <1>5, <1>7, <1>8, <1>9 DEF TransferInv

\* After a reset, and before anything has happened.
LEMMA AtRest ==
  /\ InitMaster.outputs = "i2c_nop" /\ InitMaster.next_state = "i2c_nop" /\ InitMaster.data_out = 0
  /\ ~InitMaster.start_read_procedure /\ ~InitMaster.start_write_procedure
BY DEF InitMaster

\* and a reset.
LEMMA ResetKeepsTransfer ==
  ASSUME LinkInv, SuitableTiming, Reset
  PROVE  TransferInv'
<1>1. /\ master' = InitMaster /\ since' = PauseClocks /\ dump_clocks' = 0 /\ dumps' = dumps
      /\ request' = "none" /\ ~served' /\ buffer' = 0
  BY DEF Reset
<1>2. PauseClocks \in Nat /\ PauseClocks >= 3
  BY ClockFacts
<1> HIDE DEF PauseClocks
<1>3. since' # 0 /\ since' # 1
  BY <1>1, <1>2, SMT
<1>4. NoDumps' /\ CarryInv'
  BY <1>1 DEF TransferInv, NoDumps, CarryInv, Pending
<1>5. RestInv'
  BY <1>1, <1>3, AtRest DEF RestInv, Starts, WritesToRam
<1> QED
  BY <1>1, <1>4, <1>5, AtRest DEF TransferInv

\* The invariants hold at power-up.
LEMMA TransferStart == SuitableTiming /\ InitLink => ProtocolInv /\ TransferInv
<1> SUFFICES ASSUME SuitableTiming, InitLink PROVE ProtocolInv /\ TransferInv
  OBVIOUS
<1>1. /\ master = InitMaster /\ chip = InitChip /\ phase = "low_rise" /\ since = PauseClocks
      /\ dump_clocks = 0 /\ dumps = 0 /\ request = "none" /\ ~served /\ buffer = 0
  BY DEF InitLink
<1>2. PauseClocks \in Nat /\ PauseClocks >= 3
  BY LinkStart, ClockFacts
<1> HIDE DEF PauseClocks
<1>3. since # 0 /\ since # 1
  BY <1>1, <1>2, SMT
<1>4. ProtocolInv
  BY <1>1, ProtocolAtRest DEF ProtocolInv
<1>5. NoDumps /\ CarryInv
  BY <1>1 DEF NoDumps, CarryInv, Pending
<1>6. RestInv
  BY <1>1, <1>3, AtRest DEF RestInv, Starts, WritesToRam
<1> QED
  BY <1>1, <1>4, <1>5, <1>6, AtRest DEF TransferInv

\* A stopped world.
LEMMA TransferStutters ==
  ASSUME TransferInv, UNCHANGED link_vars
  PROVE  TransferInv'
<1>1. UNCHANGED <<master, chip, phase, period, tick, since, dump_clocks, dumps, request, served,
                  buffer, ram_vars>>
  BY DEF link_vars, wire_vars, clock_vars, count_vars
<1>2. UNCHANGED <<SinceEdge, Pending, ram_block, reset_eecon, eecon_int, eeadr_int, eedata_int>>
  BY <1>1 DEF ram_vars, SinceEdge, Pending
<1>3. NoDumps'
  BY <1>1 DEF TransferInv, NoDumps
<1>4. CarryInv'
  BY <1>1, <1>2 DEF TransferInv, CarryInv
<1>5. RestInv'
  BY <1>1, <1>2 DEF TransferInv, RestInv, Port!Asked, Port!Bit, Port!Weight
<1> QED
  BY <1>1, <1>3, <1>4, <1>5 DEF TransferInv

\* Every step of the system but a dump keeps the transfer.
LEMMA TransferStep ==
  ASSUME LinkInv, SuitableTiming, TimingInv, ProtocolInv, TransferInv,
         [LinkNext]_link_vars, ~DumpEdge
  PROVE  TransferInv'
<1>1. CASE I2cStep
  BY <1>1, I2cKeeps
<1>2. CASE IdleEdge
  BY <1>2, IdleKeepsTransfer
<1>3. CASE WriteOperand
  BY <1>3, OperandKeepsTransfer
<1>4. CASE WriteRequest
  BY <1>4, RequestKeepsTransfer
<1>5. CASE Reset
  BY <1>5, ResetKeepsTransfer
<1>6. CASE UNCHANGED link_vars
  BY <1>6, TransferStutters
<1> QED
  BY <1>1, <1>2, <1>3, <1>4, <1>5, <1>6 DEF LinkNext

-----------------------------------------------------------------------------
\* The registers of the port.
EeconSeen == PutLow(ram_block[EECON_ADDRESS], 4, 0)
PortSame == /\ chip'.eeprom = chip.eeprom /\ buffer' = buffer
            /\ request' = request /\ (served' <=> served)
            /\ ram_block'[EEADR_ADDRESS] = ram_block[EEADR_ADDRESS]
            /\ ram_block'[EEDATA_ADDRESS] = ram_block[EEDATA_ADDRESS]
            /\ EeconSeen' = EeconSeen /\ dump_clocks = 0 /\ dump_clocks' = 0
            /\ request # "dump"

\* A step that leaves the registers of the port alone is a stutter of EepromPort.
LEMMA PortStutters ==
  ASSUME LinkInv, LinkInv', PortSame
  PROVE  UNCHANGED Port!port_vars
<1>1. served' = served
  BY DEF PortSame, LinkInv, EepromTypeOK
<1>2. (dump_clocks > 0 \/ request = "dump")' = (dump_clocks > 0 \/ request = "dump")
  BY DEF PortSame
<1> QED
  BY <1>1, <1>2 DEF Port!port_vars, PortSame, EeconSeen

\* A step of the wires is a byte stored, a byte read, or nothing.
LEMMA I2cServes ==
  ASSUME LinkInv, SuitableTiming, TimingInv, ProtocolInv, TransferInv, I2cStep
  PROVE  Port!Serve \/ UNCHANGED Port!port_vars
<1>1. /\ ram_block' = ram_block /\ eeadr_int' = eeadr_int /\ eedata_int' = eedata_int
      /\ request' = request /\ dump_clocks' = dump_clocks
  BY StepPhases
<1>2. LinkInv' /\ dump_clocks = 0 /\ dump_clocks' = 0 /\ request # "dump"
  BY <1>1, I2cStepType DEF TransferInv, NoDumps
<1>3. CASE request = "none"
  <2>1. master.outputs \in {"i2c_nop", "write_to_ram"}
    BY <1>3 DEF TransferInv, RestInv
  <2>2. master.outputs # "read_data" /\ ~master.scl_enable
    <3>1. Wires(master, chip, phase)
      BY DEF ProtocolInv
    <3> QED
      BY <2>1, <3>1 DEF Wires, ByteStates
  <2>3. (served' <=> served) /\ chip'.eeprom = chip.eeprom /\ buffer' = buffer
    BY <2>2, I2cBytes DEF ReadsNow
  <2> QED
    BY <1>1, <1>2, <2>3, PortStutters DEF PortSame, EeconSeen
<1>4. CASE Pending
  <2>1. /\ served <=> DoneAt(master, phase)
        /\ ~Idle(master) => (master.eeprom_write_enable_bit <=> request = "write")
        /\ eeadr_int = ram_block[EEADR_ADDRESS] /\ eedata_int = ram_block[EEDATA_ADDRESS]
        /\ Carried(master, chip, phase, eeadr_int, eedata_int)
    BY <1>4 DEF TransferInv, CarryInv
  <2>2. /\ served' <=> served \/ StoresNow \/ ReadsNow
        /\ StoresNow \/ ReadsNow => ~DoneAt(master, phase)
        /\ chip'.eeprom = IF StoresNow THEN Store(chip.eeprom, eeadr_int, eedata_int) ELSE chip.eeprom
        /\ buffer' = IF ReadsNow THEN Stored(chip.eeprom, eeadr_int) ELSE buffer
    BY <1>4, <2>1, ProtocolTypes, StrobeHeld, AnswerHeld, I2cCarries
  <2>3. OnCourse(master)
    BY DEF ProtocolInv
  <2>4. CASE StoresNow
    <3>1. request = "write" /\ ~ReadsNow
      BY <2>1, <2>3, <2>4 DEF StoresNow, ReadsNow, Idle, OnCourse
    <3>2. /\ request # "none" /\ ~served /\ served' = TRUE /\ buffer' = buffer
          /\ chip'.eeprom = [x \in DOMAIN chip.eeprom \cup {ram_block[EEADR_ADDRESS]} |->
                               IF x = ram_block[EEADR_ADDRESS] THEN ram_block[EEDATA_ADDRESS]
                               ELSE chip.eeprom[x]]
      <4>1. ~served /\ served' /\ served' \in BOOLEAN
        BY <1>2, <2>1, <2>2, <2>4 DEF LinkInv, EepromTypeOK
      <4> QED
        BY <2>1, <2>2, <2>4, <3>1, <4>1 DEF Store
    <3> QED
      BY <1>1, <1>2, <3>1, <3>2 DEF Port!Serve
  <2>5. CASE ReadsNow
    <3>1. request = "read" /\ ~StoresNow
      BY <1>4, <2>1, <2>3, <2>5 DEF StoresNow, ReadsNow, Idle, OnCourse, Reading, Pending
    <3>2. /\ request # "none" /\ ~served /\ served' = TRUE /\ chip'.eeprom = chip.eeprom
          /\ buffer' = IF ram_block[EEADR_ADDRESS] \in DOMAIN chip.eeprom
                       THEN chip.eeprom[ram_block[EEADR_ADDRESS]] ELSE 0
      <4>1. ~served /\ served' /\ served' \in BOOLEAN
        BY <1>2, <2>1, <2>2, <2>5 DEF LinkInv, EepromTypeOK
      <4> QED
        BY <2>1, <2>2, <2>5, <3>1, <4>1 DEF Stored
    <3> QED
      BY <1>1, <1>2, <3>1, <3>2 DEF Port!Serve, Port!ByteAt
  <2>6. CASE ~StoresNow /\ ~ReadsNow
    BY <1>1, <1>2, <2>2, <2>6, PortStutters DEF PortSame, EeconSeen
  <2> QED
    BY <2>4, <2>5, <2>6
<1> QED
  BY <1>3, <1>4, Requests

\* An edge of the host's clock takes an answer, or changes nothing.
LEMMA IdleCompletes ==
  ASSUME LinkInv, LinkInv', SuitableTiming, TimingInv, ProtocolInv, TransferInv, IdleEdge
  PROVE  Port!Complete \/ UNCHANGED Port!port_vars
<1> DEFINE r == ram_block[EECON_ADDRESS]
           x == IF reset_eecon THEN PutLow(r, 4, 0) ELSE r
<1>1. /\ ram_block'[EEADR_ADDRESS] = ram_block[EEADR_ADDRESS]
      /\ ram_block'[EEDATA_ADDRESS] = IF WritesToRam(master) THEN master.data_out
                                      ELSE ram_block[EEDATA_ADDRESS]
      /\ ram_block'[EECON_ADDRESS] = IF CompletesWrite(master) THEN PutBit(x, 4, 1) ELSE x
      /\ x \in Byte /\ r \in Byte
      /\ chip' = chip /\ buffer' = buffer
      /\ dump_clocks' = 0 /\ dump_clocks = 0
      /\ request' = IF WritesToRam(master) THEN "none" ELSE request
      /\ served' = IF WritesToRam(master) THEN FALSE ELSE served
  BY IdleEdgeCells
<1>2. request # "dump"
  BY DEF TransferInv, NoDumps
<1>3. PutLow(x, 4, 0) = EeconSeen /\ PutLow(PutBit(x, 4, 1), 4, 0) = PutBit(PutLow(x, 4, 0), 4, 1)
  BY <1>1, ControlBits DEF EeconSeen
<1>4. EeconSeen \in Byte /\ Bit(EeconSeen, 4) = Bit(r, 4)
  <2>1. r \in 0..255
    BY <1>1 DEF Byte
  <2>2. PutLow(r, 4, 0) \in 0..255
    BY <2>1, SMT DEF PutLow
  <2> QED
    BY <1>1, <2>2, ControlBits DEF EeconSeen, Byte
<1> HIDE DEF x
<1>5. EeconSeen' = IF CompletesWrite(master) THEN PutBit(EeconSeen, 4, 1) ELSE EeconSeen
  <2>1. EeconSeen' = PutLow(ram_block'[EECON_ADDRESS], 4, 0)
    BY DEF EeconSeen, PutLow
  <2> QED
    BY <1>1, <1>3, <2>1
<1>6. CASE request = "none"
  <2>1. /\ ~served
        /\ WritesToRam(master) =>
             /\ ram_block[EEDATA_ADDRESS] = master.data_out
             /\ CompletesWrite(master) => Bit(r, 4) = 1
    BY <1>6 DEF TransferInv, RestInv
  <2>2. Bit(EeconSeen, 4) = 1 => PutBit(EeconSeen, 4, 1) = EeconSeen
    BY <1>4, ControlBits
  <2>3. EeconSeen' = EeconSeen
    BY <1>4, <1>5, <2>1, <2>2 DEF CompletesWrite
  <2> HIDE DEF r
  <2>4. PortSame
    BY <1>1, <1>2, <1>6, <2>1, <2>3 DEF PortSame
  <2> QED
    BY <2>4, PortStutters
<1>7. CASE Pending /\ WritesToRam(master)
  <2>1. ~Idle(master) /\ DoneAt(master, phase) /\ master.outputs # "read_data"
    BY <1>7 DEF WritesToRam, Idle, DoneAt
  <2>2. served /\ (master.eeprom_write_enable_bit <=> request = "write") /\ buffer = master.data_out
    BY <1>7, <2>1 DEF TransferInv, CarryInv
  <2>3. EeconSeen' = IF request = "write" THEN PutBit(EeconSeen, 4, 1) ELSE EeconSeen
    BY <1>5, <1>7, <2>2 DEF CompletesWrite
  <2>4. /\ ram_block'[EEDATA_ADDRESS] = buffer /\ request' = "none" /\ served' = FALSE
        /\ ~(dump_clocks > 0 \/ request = "dump")
        /\ (dump_clocks > 0 \/ request = "dump")' = (dump_clocks > 0 \/ request = "dump")
    <3>1. ~(dump_clocks > 0) /\ ~(dump_clocks' > 0)
      BY <1>1, SMT
    <3> QED
      BY <1>1, <1>2, <1>7, <2>2, <3>1
  <2> QED
    BY <1>1, <2>2, <2>3, <2>4 DEF Port!Complete, EeconSeen, PutBit, Bit, Weight,
       Port!PutBit, Port!Bit, Port!Weight
<1>8. CASE ~WritesToRam(master)
  <2>1. EeconSeen' = EeconSeen
    BY <1>5, <1>8 DEF CompletesWrite
  <2> HIDE DEF r
  <2>2. PortSame
    BY <1>1, <1>2, <1>8, <2>1 DEF PortSame
  <2> QED
    BY <2>2, PortStutters
<1> QED
  BY <1>6, <1>7, <1>8, Requests

-----------------------------------------------------------------------------
\* A write to EEADR or EEDATA is that step of EepromPort.
LEMMA OperandWrites ==
  ASSUME LinkInv, LinkInv', SuitableTiming, TimingInv, ProtocolInv, TransferInv, WriteOperand
  PROVE  Port!WriteAddress \/ Port!WriteData
<1>1. PICK d \in Byte, address \in {EEADR_ADDRESS, EEDATA_ADDRESS} :
             HostEdge({"ram_write"}, d, address)
  BY LinkConstants DEF WriteOperand
<1>2. /\ since = PauseClocks /\ dump_clocks = 0 /\ dump_clocks' = 0
      /\ request' = request /\ served' = served
  BY DEF WriteOperand, Settled
<1>3. EECON_ADDRESS # EEADR_ADDRESS /\ EECON_ADDRESS # EEDATA_ADDRESS /\ EEADR_ADDRESS # EEDATA_ADDRESS
  BY SMT DEF EEADR_ADDRESS, EEDATA_ADDRESS, EECON_ADDRESS
<1>4. /\ ram_block'[EEADR_ADDRESS] = IF address = EEADR_ADDRESS THEN d ELSE ram_block[EEADR_ADDRESS]
      /\ ram_block'[EEDATA_ADDRESS] = IF address = EEDATA_ADDRESS THEN d
                                      ELSE ram_block[EEDATA_ADDRESS]
      /\ ram_block'[EECON_ADDRESS] = ram_block[EECON_ADDRESS]
      /\ chip' = chip /\ buffer' = buffer /\ request = "none"
  BY <1>1, <1>2, <1>3, WriteCells
<1>5. ~(dump_clocks > 0 \/ request = "dump") /\ ~(dump_clocks > 0 \/ request = "dump")'
  BY <1>2, <1>4, SMT
<1>6. d \in Port!Byte
  BY DEF Port!Byte, Byte
<1>7. CASE address = EEADR_ADDRESS
  BY <1>2, <1>3, <1>4, <1>5, <1>6, <1>7 DEF Port!WriteAddress, Port!Quiet
<1>8. CASE address = EEDATA_ADDRESS
  BY <1>2, <1>3, <1>4, <1>5, <1>6, <1>8 DEF Port!WriteData, Port!Quiet
<1> QED
  BY <1>7, <1>8

\* A write to EECON is the step of EepromPort that may put a request.
LEMMA RequestWrites ==
  ASSUME LinkInv, LinkInv', SuitableTiming, TimingInv, ProtocolInv, TransferInv, WriteRequest
  PROVE  Port!WriteControl
<1>1. PICK control \in Byte : /\ HostEdge({"ram_write"}, control, EECON_ADDRESS)
                              /\ request' = Port!Asked(control)
  BY LinkConstants DEF WriteRequest
<1>2. /\ since = PauseClocks /\ dump_clocks = 0 /\ dump_clocks' = 0 /\ served' = served
  BY DEF WriteRequest, Settled
<1>3. EECON_ADDRESS # EEADR_ADDRESS /\ EECON_ADDRESS # EEDATA_ADDRESS
  BY SMT DEF EEADR_ADDRESS, EEDATA_ADDRESS, EECON_ADDRESS
<1>4. /\ ram_block'[EEADR_ADDRESS] = ram_block[EEADR_ADDRESS]
      /\ ram_block'[EEDATA_ADDRESS] = ram_block[EEDATA_ADDRESS]
      /\ ram_block'[EECON_ADDRESS] = control
      /\ chip' = chip /\ buffer' = buffer /\ request = "none"
  BY <1>1, <1>2, <1>3, WriteCells
<1>5. ~(dump_clocks > 0 \/ request = "dump") /\ ~(dump_clocks > 0 \/ request = "dump")'
  <2>1. request' # "dump"
    BY <1>1 DEF Port!Asked
  <2> QED
    BY <1>2, <1>4, <2>1, SMT
<1>6. control \in Port!Byte
  BY DEF Port!Byte, Byte
<1>7. PutLow(ram_block[EECON_ADDRESS], 4, 0)' = Port!PutLow(control, 4, 0)
  BY <1>4 DEF PutLow, Port!PutLow
<1> QED
  BY <1>1, <1>2, <1>4, <1>5, <1>6, <1>7 DEF Port!WriteControl, Port!Quiet

\* The registers and the memory that a reset leaves.
LEMMA Clears ==
  /\ ClearedRam[EEADR_ADDRESS] = 0 /\ ClearedRam[EEDATA_ADDRESS] = 0
  /\ PutLow(ClearedRam[EECON_ADDRESS], 4, 0) = 0 /\ InitChip.eeprom = <<>>
<1>1. {EEADR_ADDRESS, EEDATA_ADDRESS, EECON_ADDRESS} \subseteq RamAddress
  BY RegisterCells
<1>2. PutLow(0, 4, 0) = 0
  BY SMT DEF PutLow
<1> QED
  BY <1>1, <1>2 DEF ClearedRam, InitChip

\* A reset is the reset of EepromPort.
LEMMA ResetsPort ==
  ASSUME Reset
  PROVE  Port!PortReset
<1>1. /\ ram_block' = ClearedRam /\ chip' = InitChip /\ request' = "none" /\ served' = FALSE
      /\ buffer' = 0 /\ dump_clocks' = 0
  BY DEF Reset, RamReset
<1>2. ~(dump_clocks > 0 \/ request = "dump")'
  BY <1>1, SMT
<1> QED
  BY <1>1, <1>2, Clears DEF Port!PortReset

\* Power-up is a first state of EepromPort.
LEMMA StartsPort ==
  ASSUME InitLink
  PROVE  Port!PortInit
<1>1. /\ ram_block = ClearedRam /\ chip = InitChip /\ request = "none" /\ served = FALSE
      /\ buffer = 0 /\ dump_clocks = 0
  BY DEF InitLink, RamInit
<1>2. ~(dump_clocks > 0 \/ request = "dump")
  BY <1>1, SMT
<1> QED
  BY <1>1, <1>2, Clears DEF Port!PortInit

\* Every step of the system but a dump is a step of EepromPort or a stutter.
LEMMA PortStep ==
  ASSUME LinkInv, LinkInv', SuitableTiming, TimingInv, ProtocolInv, TransferInv,
         [LinkNext]_link_vars, ~DumpEdge
  PROVE  [Port!PortNext]_Port!port_vars
<1>1. CASE I2cStep
  BY <1>1, I2cServes DEF Port!PortNext
<1>2. CASE IdleEdge
  BY <1>2, IdleCompletes DEF Port!PortNext
<1>3. CASE WriteOperand
  BY <1>3, OperandWrites DEF Port!PortNext
<1>4. CASE WriteRequest
  BY <1>4, RequestWrites DEF Port!PortNext
<1>5. CASE Reset
  BY <1>5, ResetsPort DEF Port!PortNext
<1>6. CASE UNCHANGED link_vars
  <2>1. UNCHANGED <<chip, ram_block, buffer, request, served, dump_clocks>>
    BY <1>6 DEF link_vars, wire_vars, ram_vars
  <2> QED
    BY <2>1 DEF Port!port_vars, PutLow
<1> QED
  BY <1>1, <1>2, <1>3, <1>4, <1>5, <1>6 DEF LinkNext

-----------------------------------------------------------------------------
\* The clocks of a dump: when the strobe was put on eecon, by the counter.
LEMMA DumpClock ==
  ASSUME LinkInv, SuitableTiming, SuitableDumps, TimingInv, period \in DumpPeriods, DumpCells
  PROVE  /\ period >= 86 /\ 7 * period >= 4 * RamWait + 174 /\ 2 * period <= 4 * RamWait + 166
         /\ dump_counter \in 0..6 /\ dump_addr \in 0..EepromSize - 1 /\ EepromSize \in 1..256
         /\ dump_clocks = 0 => dump_counter = 1 /\ dump_addr = 0
         /\ dump_counter # 1 => since = 0
         /\ DumpTime \in Nat
         /\ dump_counter = 3 => DumpTime = SinceEdge
         /\ dump_counter = 4 => DumpTime = period + SinceEdge
         /\ dump_counter = 5 => DumpTime = 2 * period + SinceEdge
         /\ dump_counter = 6 => DumpTime = 3 * period + SinceEdge
         /\ dump_counter = 0 => DumpTime = 4 * period + SinceEdge
         /\ dump_counter = 1 => DumpTime >= 5 * period + SinceEdge
         /\ dump_counter = 2 => DumpTime = 6 * period + SinceEdge
<1>1. /\ period \in Nat /\ period >= 86 /\ since \in Nat /\ SinceEdge \in Nat /\ RamWait \in Nat
  BY ClockFacts
<1>2. 7 * period >= 4 * RamWait + 174 /\ 2 * period <= 4 * RamWait + 166
  BY DEF SuitableDumps
<1>3. dump_counter \in 0..6 /\ dump_addr \in 0..EepromSize - 1 /\ EepromSize \in 1..256
  BY MemoryAssumption DEF LinkInv, EepromTypeOK, RamType
<1>4. dump_clocks = 0 => dump_counter = 1 /\ dump_addr = 0
  <2> SUFFICES ASSUME dump_clocks = 0 PROVE dump_counter = 1 /\ dump_addr = 0
    OBVIOUS
  <2>1. \/ dump_clocks + dump_counter + 7 * dump_addr = DumpSteps
        \/ dump_clocks + dump_counter = 1 /\ dump_addr = 0
    BY DEF DumpCells
  <2>2. DumpSteps = 7 * EepromSize + 1
    BY DEF DumpSteps
  <2> HIDE DEF DumpSteps
  <2> QED
    BY <1>3, <2>1, <2>2, SMT
<1>5. dump_counter # 1 => since = 0
  <2>1. since > 0 => dump_clocks = 0
    BY DEF DumpCells
  <2> QED
    BY <1>1, <1>4, <2>1, SMT
<1> DEFINE f(x) == (x + since) * period
           k == (dump_counter + 4) % 7
<1>6. DumpTime = f(k) + SinceEdge
  BY DEF DumpTime
<1>7. /\ dump_counter = 3 => k = 0
      /\ dump_counter = 4 => k = 1
      /\ dump_counter = 5 => k = 2
      /\ dump_counter = 6 => k = 3
      /\ dump_counter = 0 => k = 4
      /\ dump_counter = 1 => k = 5
      /\ dump_counter = 2 => k = 6
  BY <1>3, SMT
<1>8. since = 0 => /\ f(0) = 0 /\ f(1) = period /\ f(2) = 2 * period /\ f(3) = 3 * period
                   /\ f(4) = 4 * period /\ f(5) = 5 * period /\ f(6) = 6 * period
  BY <1>1, SMT
<1>9. f(5) \in Nat /\ f(5) >= 5 * period
  <2> DEFINE q == since * period
  <2>1. q >= 0 /\ q \in Int
    BY <1>1, Product, SMT
  <2>2. f(5) = 5 * period + q
    BY <1>1, SMT
  <2> HIDE DEF q, f
  <2> QED
    BY <1>1, <2>1, <2>2, SMT
<1> HIDE DEF f, k
<1>10. /\ dump_counter = 3 => DumpTime = SinceEdge
       /\ dump_counter = 4 => DumpTime = period + SinceEdge
       /\ dump_counter = 5 => DumpTime = 2 * period + SinceEdge
       /\ dump_counter = 6 => DumpTime = 3 * period + SinceEdge
       /\ dump_counter = 0 => DumpTime = 4 * period + SinceEdge
       /\ dump_counter = 2 => DumpTime = 6 * period + SinceEdge
       /\ dump_counter = 1 => DumpTime >= 5 * period + SinceEdge /\ DumpTime \in Nat
  BY <1>1, <1>3, <1>5, <1>6, <1>7, <1>8, <1>9, SMT
<1>11. DumpTime \in Nat
  BY <1>1, <1>3, <1>10, SMT
<1> QED
  BY <1>1, <1>2, <1>3, <1>4, <1>5, <1>10, <1>11

\* The strobe of the dump is still there when the word address is over.
LEMMA DumpHeld ==
  ASSUME LinkInv, SuitableTiming, SuitableDumps, TimingInv, ProtocolInv, DumpingInv
  PROVE  Held(master, phase)
<1> SUFFICES ASSUME master.outputs = "write_word_addr", Taken(master, phase)
             PROVE  ~master.eeprom_write_enable_bit /\ master.start_read_procedure
  BY DEF Held
<1>1. phase = "low_fall" /\ master \in Masters /\ RamWait \in Nat
  BY ProtocolTypes, ClockFacts DEF Taken
<1>2. Left(master, phase) = 4 * RamWait + 89
  <2>1. master.next_state = "receive_ack"
    BY DEF ProtocolInv, OnCourse
  <2> QED
    BY <1>1, <2>1, Milestones
<1>3. /\ ~master.eeprom_write_enable_bit
      /\ master.start_read_procedure <=> Age(phase) <= DumpTime /\ DumpTime < 2 * period + Age(phase)
      /\ Left(master, phase) + DumpTime \in 4 * RamWait + 171..4 * RamWait + 174
  BY DEF DumpingInv, DumpCourse, Idle
<1>4. DumpTime \in Nat /\ period \in Nat /\ period >= 86
  BY DumpClock, ClockFacts DEF DumpingInv
<1>5. Age(phase) = 2
  BY <1>1 DEF Age
<1>6. Age(phase) <= DumpTime /\ DumpTime < 2 * period + Age(phase)
  BY <1>1, <1>2, <1>3, <1>4, <1>5, SMT
<1> QED
  BY <1>3, <1>6

-----------------------------------------------------------------------------
\* A step of the wires changes nothing of the memory's side of a dump.
LEMMA I2cDumpCells ==
  ASSUME LinkInv, SuitableTiming, DumpCells, I2cStep
  PROVE  /\ DumpCells' /\ DumpTime' = DumpTime + 1
         /\ dump_counter' = dump_counter /\ dump_addr' = dump_addr /\ dump_clocks' = dump_clocks
         /\ eeprom_dump_int' = eeprom_dump_int
<1>1. /\ ram_block' = ram_block /\ eeadr_int' = eeadr_int /\ eecon_int' = eecon_int
      /\ reset_eecon' = reset_eecon /\ since' = since /\ dump_clocks' = dump_clocks
      /\ dump_counter' = dump_counter /\ dump_addr' = dump_addr
      /\ eeprom_dump_int' = eeprom_dump_int /\ period' = period
  BY DEF I2cStep, ram_vars
<1>2. DumpCells'
  BY <1>1 DEF DumpCells, DumpSteps
<1>3. DumpTime' = DumpTime + 1
  <2> DEFINE z == (((dump_counter + 4) % 7) + since) * period
  <2>1. SinceEdge' = SinceEdge + 1 /\ SinceEdge \in Nat
    BY TimePasses, ClockFacts
  <2>2. DumpTime = z + SinceEdge /\ DumpTime' = z + SinceEdge'
    BY <1>1 DEF DumpTime
  <2>3. z \in Int
    <3>1. dump_counter \in 0..6 /\ since \in Nat /\ period \in Nat
      BY ClockFacts DEF LinkInv, EepromTypeOK, RamType
    <3> QED
      BY <3>1, SMT
  <2> HIDE DEF z
  <2> QED
    BY <2>1, <2>2, <2>3, SMT
<1> QED
  BY <1>1, <1>2, <1>3

\* Nothing but the acknowledge of a write changes the memory of the EEPROM.
LEMMA I2cStores ==
  ASSUME LinkInv, TimingInv, ProtocolInv, I2cStep, ~StoresNow
  PROVE  chip'.eeprom = chip.eeprom
<1>1. CASE phase # "high_fall"
  BY <1>1, I2cBytes
<1>2. CASE phase = "high_fall" /\ HighFall
  <2> DEFINE f == ChipFall200(chip)
             b == Bit(Stored(chip.eeprom, chip.mem_address), 7 - chip.write_bits_used)
  <2>1. /\ master \in Masters /\ chip \in Chips /\ MasterTypes(master) /\ Placed(master, phase)
    BY ProtocolTypes
  <2>2. /\ HighFallMove(master, chip, f, master', chip', b)
        /\ chip'.eeprom = IF master.scl_enable /\ Stores(f)
                          THEN Store(chip.eeprom, chip.mem_address, chip.received_data) ELSE chip.eeprom
    BY <1>2, <2>1, HighFallMoves
  <2> HIDE DEF f, b
  <2>3. master.scl_enable /\ Stores(f) <=>
           master.outputs = "receive_ack" /\ master.next_state = "create_stop_cond"
    BY <1>2, <2>1, <2>2, HighFallStores DEF ProtocolInv
  <2> QED
    BY <1>2, <2>2, <2>3 DEF StoresNow
<1> QED
  BY <1>1, <1>2, StepPhases

-----------------------------------------------------------------------------
\* The start bits follow the strobe.
LEMMA DumpStarts ==
  ASSUME LinkInv, SuitableTiming, SuitableDumps, TimingInv, ProtocolInv, DumpingInv, I2cStep
  PROVE  /\ ~master'.start_write_procedure
         /\ master'.start_read_procedure <=>
               Age(phase') <= DumpTime' /\ DumpTime' < 2 * period + Age(phase')
<1>1. /\ ~master.start_write_procedure
      /\ master.start_read_procedure <=> Age(phase) <= DumpTime /\ DumpTime < 2 * period + Age(phase)
  BY DEF DumpingInv, DumpCourse
<1>2. /\ phase # "high_fall" => SameStarts(master, master')
      /\ phase = "high_fall" => /\ master'.start_read_procedure = (Bit(eecon_int, 0) = 1)
                                /\ master'.start_write_procedure = (Bit(eecon_int, 1) = 1)
      /\ phase' = [low_rise |-> "high_fall", high_fall |-> "high_rise",
                   high_rise |-> "low_fall", low_fall |-> "low_rise"][phase]
  BY I2cMove DEF TimingInv
<1>3. DumpTime \in Nat /\ DumpTime' = DumpTime + 1 /\ period \in Nat /\ period >= 86
  BY DumpClock, I2cDumpCells, ClockFacts DEF DumpingInv
<1>4. eecon_int \in Byte /\ phase \in Phases
  BY ProtocolTypes
<1>5. CASE phase # "high_fall"
  <2>1. Age(phase') = Age(phase) + 1 /\ Age(phase) \in Nat
    BY <1>2, <1>4, <1>5, SMT DEF Phases, Age
  <2> HIDE DEF DumpTime
  <2>2. Age(phase') <= DumpTime' <=> Age(phase) <= DumpTime
    BY <1>3, <2>1, SMT
  <2>3. DumpTime' < 2 * period + Age(phase') <=> DumpTime < 2 * period + Age(phase)
    BY <1>3, <2>1, SMT
  <2> QED
    BY <1>1, <1>2, <1>5, <2>2, <2>3 DEF SameStarts
<1>6. CASE phase = "high_fall"
  <2>1. Age(phase') = 1
    BY <1>2, <1>6 DEF Age
  <2>2. eecon_int % 4 = IF dump_counter \in {3, 4} THEN 1 ELSE 0
    BY DEF DumpingInv, DumpCells
  <2>3. Bit(eecon_int, 1) # 1 /\ (Bit(eecon_int, 0) = 1 <=> dump_counter \in {3, 4})
    <3>1. Bit(eecon_int, 0) = (eecon_int \div 1) % 2 /\ Bit(eecon_int, 1) = (eecon_int \div 2) % 2
      BY DEF Bit, Weight
    <3>2. eecon_int \in 0..255
      BY <1>4 DEF Byte
    <3> QED
      BY <2>2, <3>1, <3>2, SMT
  <2>4. dump_counter \in {3, 4} <=> DumpTime < 2 * period
    <3>1. SinceEdge < period /\ SinceEdge \in Nat
      BY TimePasses, ClockFacts
    <3>2. /\ dump_counter \in 0..6
          /\ dump_counter = 3 => DumpTime = SinceEdge
          /\ dump_counter = 4 => DumpTime = period + SinceEdge
          /\ dump_counter = 5 => DumpTime = 2 * period + SinceEdge
          /\ dump_counter = 6 => DumpTime = 3 * period + SinceEdge
          /\ dump_counter = 0 => DumpTime = 4 * period + SinceEdge
          /\ dump_counter = 1 => DumpTime >= 5 * period + SinceEdge
          /\ dump_counter = 2 => DumpTime = 6 * period + SinceEdge
      BY DumpClock DEF DumpingInv
    <3> HIDE DEF DumpTime, SinceEdge
    <3> QED
      BY <1>3, <3>1, <3>2, SMT
  <2> HIDE DEF DumpTime
  <2>5. 1 <= DumpTime' /\ (DumpTime' < 2 * period + 1 <=> DumpTime < 2 * period)
    BY <1>3, SMT
  <2> QED
    BY <1>2, <1>6, <2>1, <2>3, <2>4, <2>5
<1> QED
  BY <1>5, <1>6

\* What the master turns to in a dump: a read begins as soon as the start bit
\* is seen, and none when a read is over.
LEMMA DumpTurns ==
  ASSUME LinkInv, SuitableTiming, SuitableDumps, TimingInv, ProtocolInv, DumpingInv, I2cStep,
         Taken(master, phase), master.next_state = "i2c_nop"
  PROVE  /\ phase = "low_fall" /\ phase' = "low_rise" /\ master.outputs \in {"i2c_nop", "write_to_ram"}
         /\ master'.outputs = "i2c_nop"
         /\ master'.next_state = IF master.start_read_procedure THEN "create_start_cond" ELSE "i2c_nop"
         /\ ~master'.eeprom_write_enable_bit
         /\ master.start_read_procedure <=> 2 <= DumpTime /\ DumpTime < 2 * period + 2
<1>1. /\ ~master.start_write_procedure
      /\ master.start_read_procedure <=> Age(phase) <= DumpTime /\ DumpTime < 2 * period + Age(phase)
  BY DEF DumpingInv, DumpCourse
<1>2. phase = "low_fall" /\ phase' = "low_rise" /\ Age(phase) = 2
  BY I2cMove DEF Taken, TimingInv, Age
<1>3. Held(master, phase) /\ Placed(master, phase)
  BY DumpHeld, ProtocolTypes
<1>4. /\ Turn(master.outputs, master.next_state, Successor(master, eecon_int),
              master.eeprom_write_enable_bit)
      /\ master'.eeprom_write_enable_bit <=>
            Successor(master, eecon_int) # "i2c_nop" /\ ~master.start_read_procedure
  BY <1>3, I2cTurns
<1>5. master.state = "i2c_nop"
  BY <1>3 DEF Placed
<1>6. Successor(master, eecon_int) =
        IF master.start_read_procedure THEN "create_start_cond" ELSE "i2c_nop"
  BY <1>1, <1>5 DEF Successor
<1>7. master.outputs \in {"i2c_nop", "write_to_ram"}
  BY <1>4 DEF Turn
<1>8. master'.outputs = "i2c_nop" /\ master'.next_state = Successor(master, eecon_int)
  BY <1>3, I2cMove
<1> QED
  BY <1>1, <1>2, <1>4, <1>6, <1>7, <1>8

\* The place of the master after a step of the wires.
LEMMA I2cDumpCourse ==
  ASSUME LinkInv, SuitableTiming, SuitableDumps, TimingInv, ProtocolInv, DumpingInv, I2cStep
  PROVE  DumpCourse'
<1> DEFINE t == DumpTime
           a == Left(master, phase)
           b == Left(master', phase')
<1>1. /\ master \in Masters /\ master' \in Masters /\ phase \in Phases /\ phase' \in Phases
      /\ Placed(master, phase) /\ Placed(master', phase')
  BY ProtocolTypes, I2cStepType, I2cMove DEF LinkInv, EepromTypeOK
<1>2. /\ a \in Int /\ (a <= 0 <=> Idle(master)) /\ b \in Int /\ (b <= 0 <=> Idle(master'))
  BY <1>1, LeftBound
<1>3. /\ t \in Nat /\ DumpTime' = t + 1 /\ dump_counter' = dump_counter
      /\ period \in Nat /\ period >= 86 /\ RamWait \in Nat /\ 2 * period <= 4 * RamWait + 166
      /\ period' = period
  BY DumpClock, I2cDumpCells, ClockFacts, TimePasses DEF DumpingInv
<1>4. /\ Idle(master) => (dump_counter \in 3..6 =>
            \/ t < Age(phase)
            \/ phase = "high_rise" /\ t <= 4
            \/ phase = "low_fall" /\ t <= 5
            \/ t >= 4 * RamWait + 170)
      /\ ~Idle(master) => /\ ~master.eeprom_write_enable_bit
                           /\ a + t \in 4 * RamWait + 171..4 * RamWait + 174
  BY DEF DumpingInv, DumpCourse
<1>5. /\ phase' = [low_rise |-> "high_fall", high_fall |-> "high_rise",
                   high_rise |-> "low_fall", low_fall |-> "low_rise"][phase]
      /\ ~Taken(master, phase) => SameStage(master, master') /\ b = a - 1
      /\ Taken(master, phase) => /\ master'.outputs = master.next_state
                                 /\ master'.next_state = Successor(master, eecon_int)
                                 /\ master'.cycles_waited = 0
  BY I2cMove DEF TimingInv
<1>6. Held(master, phase)
  BY DumpHeld
<1>7. ~Idle(master') => ~master'.eeprom_write_enable_bit
  <2>1. ~Taken(master, phase) \/ master.next_state # "i2c_nop" =>
          (master'.eeprom_write_enable_bit <=> master.eeprom_write_enable_bit)
    BY <1>6, I2cTurns
  <2>2. ~Taken(master, phase) => (Idle(master) => Idle(master'))
    BY <1>5 DEF SameStage, Idle
  <2> QED
    BY <1>4, <2>1, <2>2, DumpTurns DEF Idle
<1>8. IF Idle(master')
      THEN dump_counter \in 3..6 =>
           \/ t + 1 < Age(phase')
           \/ phase' = "high_rise" /\ t + 1 <= 4
           \/ phase' = "low_fall" /\ t + 1 <= 5
           \/ t + 1 >= 4 * RamWait + 170
      ELSE b + (t + 1) \in 4 * RamWait + 171..4 * RamWait + 174
  <2>1. CASE ~Taken(master, phase)
    <3>1. (Idle(master') <=> Idle(master)) /\ b = a - 1
      BY <1>5, <2>1 DEF SameStage, Idle
    <3>2. CASE ~Idle(master)
      <4> HIDE DEF a, b, t
      <4> QED
        BY <1>2, <1>3, <1>4, <3>1, <3>2, SMT
    <3>3. CASE Idle(master)
      <4>1. phase # "low_fall"
        <5>1. WaitCycles(master) = 0
          BY <3>3 DEF Idle, WaitCycles, ByteStates
        <5>2. master.cycles_waited \in Nat
          BY <1>1, MasterFacts
        <5> QED
          BY <1>1, <2>1, <5>1, <5>2, SMT DEF Placed
      <4>2. /\ phase = "low_rise" => phase' = "high_fall" /\ Age(phase) = 3 /\ Age(phase') = 4
            /\ phase = "high_fall" => phase' = "high_rise" /\ Age(phase) = 4
            /\ phase = "high_rise" => phase' = "low_fall" /\ Age(phase) = 1
        BY <1>5 DEF Age
      <4>3. phase \in {"low_rise", "high_fall", "high_rise"}
        BY <1>1, <4>1 DEF Phases
      <4> HIDE DEF a, b, t
      <4> QED
        BY <1>3, <1>4, <3>1, <3>3, <4>2, <4>3, SMT
    <3> QED
      BY <3>2, <3>3
  <2>2. CASE Taken(master, phase) /\ master.next_state = "i2c_nop"
    <3>1. /\ phase = "low_fall" /\ phase' = "low_rise" /\ master.outputs \in {"i2c_nop", "write_to_ram"}
          /\ master'.outputs = "i2c_nop"
          /\ master'.next_state = IF master.start_read_procedure THEN "create_start_cond" ELSE "i2c_nop"
          /\ master.start_read_procedure <=> 2 <= t /\ t < 2 * period + 2
      BY <2>2, DumpTurns
    <3>2. Age(phase) = 2 /\ Age(phase') = 3
      BY <3>1 DEF Age
    <3>3. master.outputs = "i2c_nop" <=> Idle(master)
      BY <2>2, <3>1 DEF Idle
    <3>4. ~Idle(master) => a = 1
      <4>1. ~Idle(master) => master.outputs = "write_to_ram"
        BY <3>1, <3>3
      <4> QED
        BY <1>1, <2>2, <3>1, <4>1, Milestones
    <3>5. CASE master.start_read_procedure
      <4>1. ~Idle(master') /\ b = 4 * RamWait + 168
        <5>1. Cycles(master', phase') = RamWait + 42 + (0 - 0)
          BY <1>5, <2>2, <3>1, <3>5 DEF Cycles, Rest, Taken, WaitCycles, ByteStates
        <5>2. b = 4 * Cycles(master', phase')
          BY <1>1, <3>1, MasterFacts, PhaseValues
        <5> HIDE DEF b
        <5> QED
          BY <1>3, <3>1, <3>5, <5>1, <5>2, SMT DEF Idle
      <4>2. Idle(master)
        <5> HIDE DEF a, t
        <5> QED
          BY <1>3, <1>4, <3>1, <3>4, <3>5, SMT
      <4>3. dump_counter \in 3..6
        <5>1. /\ dump_counter \in 0..6 /\ SinceEdge \in Nat
              /\ dump_counter = 0 => t = 4 * period + SinceEdge
              /\ dump_counter = 1 => t >= 5 * period + SinceEdge
              /\ dump_counter = 2 => t = 6 * period + SinceEdge
          BY DumpClock, ClockFacts DEF DumpingInv
        <5> HIDE DEF t, SinceEdge
        <5> QED
          BY <1>3, <3>1, <3>5, <5>1, SMT
      <4>4. t >= 2 /\ t <= 5
        <5> HIDE DEF t
        <5> QED
          BY <1>3, <1>4, <3>1, <3>2, <3>5, <4>2, <4>3, SMT
      <4> HIDE DEF b, t
      <4> QED
        BY <1>2, <1>3, <4>1, <4>4, SMT
    <3>6. CASE ~master.start_read_procedure
      <4>1. Idle(master')
        BY <3>1, <3>6 DEF Idle
      <4>2. t < 2 \/ t >= 2 * period + 2
        <5> HIDE DEF t
        <5> QED
          BY <1>3, <3>1, <3>6, SMT
      <4> HIDE DEF a, t
      <4>3. dump_counter \in 3..6 => t + 1 < 3 \/ t + 1 >= 4 * RamWait + 170
        BY <1>3, <1>4, <3>1, <3>2, <3>4, <4>2, SMT
      <4> QED
        BY <3>2, <4>1, <4>3
    <3> QED
      BY <3>5, <3>6
  <2>3. CASE Taken(master, phase) /\ master.next_state # "i2c_nop"
    <3>1. phase = "low_fall" /\ phase' = "low_rise"
      BY <1>5, <2>3 DEF Taken
    <3>2. Turn(master.outputs, master.next_state, Successor(master, eecon_int),
               master.eeprom_write_enable_bit)
      BY <1>6, <2>3, I2cTurns
    <3>3. ~Idle(master) /\ ~Idle(master') /\ master.outputs # "write_to_ram"
      BY <1>5, <2>3, <3>2 DEF Idle, Turn
    <3>4. b = a - 1
      BY <1>1, <1>4, <1>5, <2>3, <3>1, <3>2, <3>3, LateStep
    <3> HIDE DEF a, b, t
    <3> QED
      BY <1>2, <1>3, <1>4, <3>3, <3>4, SMT
  <2> QED
    BY <2>1, <2>2, <2>3
<1>9. /\ ~master'.start_write_procedure
      /\ master'.start_read_procedure <=>
            Age(phase') <= DumpTime' /\ DumpTime' < 2 * period + Age(phase')
  BY DumpStarts
<1> HIDE DEF t, a
<1> QED
  BY <1>3, <1>7, <1>8, <1>9 DEF DumpCourse

\* A dump stores nothing.
LEMMA DumpStores ==
  ASSUME LinkInv, TimingInv, ProtocolInv, DumpingInv, I2cStep
  PROVE  ~StoresNow /\ chip'.eeprom = chip.eeprom
<1>1. StoresNow => ~master.eeprom_write_enable_bit
  BY DEF DumpingInv, DumpCourse, StoresNow, Idle
<1>2. OnCourse(master)
  BY DEF ProtocolInv
<1>3. ~StoresNow
  BY <1>1, <1>2 DEF StoresNow, OnCourse
<1> QED
  BY <1>3, I2cStores

\* The read under way after a step of the wires.
LEMMA I2cDumpCarry ==
  ASSUME LinkInv, SuitableTiming, SuitableDumps, TimingInv, ProtocolInv, DumpingInv, I2cStep
  PROVE  DumpCarry'
<1>1. /\ dump_counter' = dump_counter /\ dump_addr' = dump_addr /\ DumpTime' = DumpTime + 1
      /\ DumpTime \in Nat
  BY I2cDumpCells, DumpClock DEF DumpingInv
<1> SUFFICES ASSUME dump_counter \in {3, 4, 5}
             PROVE  /\ Carried(master', chip', phase', eeadr_int', eedata_int')
                    /\ DoneAt(master', phase') \/ (Idle(master') /\ DumpTime' > 5) =>
                          master'.data_out = Stored(chip'.eeprom, dump_addr)
  BY <1>1 DEF DumpCarry
<1>2. /\ eeadr_int' = eeadr_int /\ eedata_int' = eedata_int
      /\ eeadr_int \in Byte /\ eedata_int \in Byte /\ Placed(master, phase)
  BY StepPhases, ProtocolTypes
<1>3. eeadr_int = dump_addr
  BY DEF DumpingInv, DumpCells
<1>4. /\ Carried(master, chip, phase, eeadr_int, eedata_int)
      /\ DoneAt(master, phase) \/ (Idle(master) /\ DumpTime > 5) =>
            master.data_out = Stored(chip.eeprom, dump_addr)
  BY DEF DumpingInv, DumpCarry
<1>5. Held(master, phase)
  BY DumpHeld
<1>6. /\ Carried(master', chip', phase', eeadr_int, eedata_int)
      /\ ~(master.outputs = "write_to_ram" /\ Taken(master, phase)) =>
            (DoneAt(master', phase') <=> DoneAt(master, phase) \/ StoresNow \/ ReadsNow)
      /\ buffer' = IF ReadsNow THEN Stored(chip.eeprom, eeadr_int) ELSE buffer
  BY <1>2, <1>4, <1>5, I2cCarries
<1>7. ~StoresNow /\ chip'.eeprom = chip.eeprom
  BY DumpStores
<1>8. /\ buffer' = IF ReadsNow THEN master'.data_out ELSE buffer
      /\ master.outputs # "read_data" => master'.data_out = master.data_out
  BY I2cBytes
<1>9. ~Taken(master, phase) => SameStage(master, master')
  BY <1>2, I2cMove
<1>10. DoneAt(master', phase') \/ (Idle(master') /\ DumpTime' > 5) =>
          master'.data_out = Stored(chip.eeprom, dump_addr)
  <2>1. CASE ReadsNow
    BY <1>3, <1>6, <1>8, <2>1
  <2>2. CASE ~ReadsNow /\ master.outputs = "read_data"
    <3>1. master'.outputs = "read_data"
      BY <1>9, <2>2 DEF ReadsNow, SameStage
    <3> QED
      BY <3>1 DEF DoneAt, Idle
  <2>3. CASE master.outputs = "write_to_ram"
    BY <1>4, <1>8, <2>3 DEF DoneAt
  <2>4. CASE master.outputs \notin {"write_to_ram", "read_data"}
    <3>1. ~ReadsNow
      BY <2>4 DEF ReadsNow
    <3>2. master'.data_out = master.data_out
      BY <1>8, <2>4
    <3>3. DoneAt(master', phase') => DoneAt(master, phase)
      BY <1>6, <1>7, <2>4, <3>1
    <3>4. Idle(master') => Idle(master)
      <4>1. CASE ~Taken(master, phase)
        BY <1>9, <4>1 DEF SameStage, Idle
      <4>2. CASE Taken(master, phase)
        <5>1. master'.outputs = master.next_state
          BY <1>2, <4>2, I2cMove
        <5> QED
          BY <2>4, <4>2, <5>1, DumpTurns DEF Idle
      <4> QED
        BY <4>1, <4>2
    <3>5. Idle(master') /\ DumpTime' > 5 => DumpTime > 5
      <4> SUFFICES ASSUME Idle(master'), DumpTime' > 5, ~(DumpTime > 5) PROVE FALSE
        OBVIOUS
      <4>1. DumpTime = 5
        <5> HIDE DEF DumpTime
        <5> QED
          BY <1>1, SMT
      <4>2. phase \in Phases /\ Age(phase) <= 4 /\ RamWait \in Nat /\ period \in Nat /\ period >= 86
        <5>1. phase \in Phases
          BY ProtocolTypes
        <5> QED
          BY <5>1, ClockFacts, SMT DEF Age, Phases
      <4>3. phase = "low_fall"
        <5>1. \/ DumpTime < Age(phase)
              \/ phase = "high_rise" /\ DumpTime <= 4
              \/ phase = "low_fall" /\ DumpTime <= 5
              \/ DumpTime >= 4 * RamWait + 170
          <6>1. dump_counter \in 3..6
            BY SMT
          <6> QED
            BY <3>4, <6>1 DEF DumpingInv, DumpCourse
        <5>2. Age(phase) \in Nat
          BY <4>2, SMT DEF Age, Phases
        <5> HIDE DEF DumpTime
        <5> QED
          BY <4>1, <4>2, <5>1, <5>2, SMT
      <4>4. Taken(master, phase)
        <5>1. WaitCycles(master) = 0
          BY <3>4 DEF Idle, WaitCycles, ByteStates
        <5>2. master.cycles_waited \in Nat
          BY ProtocolTypes, MasterFacts
        <5> QED
          BY <1>2, <4>3, <5>1, <5>2, SMT DEF Placed
      <4>5. master.next_state = "i2c_nop"
        BY <3>4 DEF Idle
      <4>6. /\ master'.next_state = IF master.start_read_procedure THEN "create_start_cond" ELSE "i2c_nop"
            /\ master.start_read_procedure <=> 2 <= DumpTime /\ DumpTime < 2 * period + 2
        BY <4>4, <4>5, DumpTurns
      <4>7. master.start_read_procedure
        <5> HIDE DEF DumpTime
        <5> QED
          BY <4>1, <4>2, <4>6, SMT
      <4> QED
        BY <4>6, <4>7 DEF Idle
    <3> QED
      BY <1>4, <3>2, <3>3, <3>4, <3>5
  <2> QED
    BY <2>1, <2>2, <2>3, <2>4
<1> QED
  BY <1>2, <1>6, <1>7, <1>10

\* The whole of a step of the wires in a dump.
LEMMA I2cKeepsDump ==
  ASSUME LinkInv, SuitableTiming, SuitableDumps, TimingInv, ProtocolInv, DumpingInv, I2cStep
  PROVE  DumpingInv'
<1>1. /\ DumpCells' /\ dump_counter' = dump_counter /\ dump_addr' = dump_addr
      /\ dump_clocks' = dump_clocks /\ eeprom_dump_int' = eeprom_dump_int
  BY I2cDumpCells DEF DumpingInv
<1>2. DumpCourse' /\ DumpCarry'
  BY I2cDumpCourse, I2cDumpCarry
<1>3. DumpedInv'
  <2>1. chip'.eeprom = chip.eeprom
    BY DumpStores
  <2> QED
    BY <1>1, <2>1 DEF DumpingInv, DumpedInv, DumpSteps
<1>4. period' \in DumpPeriods
  BY TimePasses DEF DumpingInv
<1>5. master'.outputs # "read_data" => buffer' = master'.data_out
  <2>1. /\ buffer' = IF ReadsNow THEN master'.data_out ELSE buffer
        /\ master.outputs # "read_data" => master'.data_out = master.data_out
    BY I2cBytes
  <2>2. ~Taken(master, phase) => SameStage(master, master')
    BY I2cMove DEF TimingInv
  <2>3. master.outputs # "read_data" => buffer = master.data_out
    BY DEF DumpingInv
  <2> QED
    BY <2>1, <2>2, <2>3 DEF ReadsNow, SameStage
<1> QED
  BY <1>1, <1>2, <1>3, <1>4, <1>5 DEF DumpingInv

-----------------------------------------------------------------------------
\* What a clock of a dump leaves in the memory.
LEMMA DumpEdgeCells ==
  ASSUME LinkInv, SuitableTiming, HostEdge({"eeprom_dump"}, 0, 0)
  PROVE  /\ ram_block'[EECON_ADDRESS] % 4 = IF dump_counter \in {1, 2} THEN 1 ELSE 0
         /\ ram_block'[EEADR_ADDRESS] = IF dump_counter = 6 THEN 0 ELSE dump_addr
         /\ ~reset_eecon' /\ dump_counter' = (dump_counter + 1) % 7
         /\ dump_addr' = IF dump_counter = 6 THEN (dump_addr + 1) % EepromSize ELSE dump_addr
         /\ eeprom_dump_int' = IF dump_counter = 5
                               THEN [eeprom_dump_int EXCEPT ![dump_addr] = master.data_out]
                               ELSE eeprom_dump_int
         /\ eeadr_int' = ram_block[EEADR_ADDRESS] /\ eecon_int' = ram_block[EECON_ADDRESS]
         /\ master' = master /\ chip' = chip /\ phase' = phase /\ buffer' = buffer
         /\ period' = period /\ SinceEdge = period /\ SinceEdge' = 0
<1> DEFINE en == {"eeprom_dump"}
           read == WritesToRam(master)
           written == CompletesWrite(master)
           external == Bit(ram_block[OPTION_ADDRESS], 5) = 1
           m1 == IF read THEN [ram_block EXCEPT ![EEDATA_ADDRESS] = master.data_out] ELSE ram_block
           m2 == IF reset_eecon THEN [m1 EXCEPT ![EECON_ADDRESS] = PutLow(@, 4, 0)] ELSE m1
           m3 == DumpStep(m2)
           m6 == IF external THEN [m3 EXCEPT ![TMR0_ADDRESS] = (0 + 0) % 256] ELSE m3
           r == NextBlock(en, read, written, 0, 0, master.data_out, 0, 0, 0)
           x == IF dump_counter \in {1, 2} THEN 1 ELSE 0
           a == IF dump_counter = 6 THEN 0 ELSE dump_addr
<1>1. RamType
  BY DEF LinkInv, EepromTypeOK
<1>2. Access(en) = "eeprom_dump"
  BY DEF Access
<1>3. /\ ram_block' = r
      /\ reset_eecon' = (Access(en) = "ram_write" /\ 0 = EECON_ADDRESS)
      /\ dump_counter' = IF Access(en) = "eeprom_dump" THEN (dump_counter + 1) % 7 ELSE dump_counter
      /\ dump_addr' = IF Access(en) = "eeprom_dump" /\ dump_counter = 6
                      THEN (dump_addr + 1) % EepromSize ELSE dump_addr
      /\ eeprom_dump_int' = IF Access(en) = "eeprom_dump" /\ dump_counter = 5
                            THEN [eeprom_dump_int EXCEPT ![dump_addr] = master.data_out]
                            ELSE eeprom_dump_int
      /\ eeadr_int' = ram_block[EEADR_ADDRESS] /\ eecon_int' = ram_block[EECON_ADDRESS]
  BY DEF HostEdge, RamRise
<1>4. r[EECON_ADDRESS] = IF written THEN PutBit(x, 4, 1) ELSE x
  <2>1. "status_write" \notin en /\ "timer_write" \notin en
    OBVIOUS
  <2> QED
    BY <1>1, <1>2, <2>1, EeconCell
<1>5. r[EECON_ADDRESS] % 4 = x
  <2>1. x \in Byte /\ x % 4 = x
    BY SMT DEF Byte
  <2> HIDE DEF r, x
  <2> QED
    BY <1>4, <2>1, StrobeBits
<1>6. r = IF written THEN [m6 EXCEPT ![EECON_ADDRESS] = PutBit(@, 4, 1)] ELSE m6
  <2> DEFINE e == CASE Access(en) = "eeprom_dump" -> DumpStep(m2)
                    [] Access(en) = "ram_write"   -> WriteRam(m2, 0, 0)
                    [] OTHER                      -> m2
             x6 == IF external THEN [e EXCEPT ![TMR0_ADDRESS] = (0 + 0) % 256] ELSE e
  <2>1. r = IF written THEN [x6 EXCEPT ![EECON_ADDRESS] = PutBit(@, 4, 1)] ELSE x6
    BY DEF NextBlock
  <2>2. e = m3
    BY <1>2
  <2> HIDE DEF e, m3, r
  <2> QED
    BY <2>1, <2>2
<1>7. EEADR_ADDRESS \notin {EECON_ADDRESS, TMR0_ADDRESS}
  BY SMT DEF EECON_ADDRESS, EEADR_ADDRESS, TMR0_ADDRESS
<1>8. EEADR_ADDRESS \in RamAddress /\ DOMAIN ram_block = RamAddress
  BY <1>1, RegisterCells DEF RamType, Memory
<1>9. DOMAIN m2 = RamAddress
  BY <1>8
<1> HIDE DEF m2
<1>10. m3[EEADR_ADDRESS] = a
  BY <1>7, <1>8, <1>9 DEF DumpStep
<1> HIDE DEF m3
<1>11. m6[EEADR_ADDRESS] = a
  BY <1>7, <1>10
<1> HIDE DEF m6, r
<1>12. r[EEADR_ADDRESS] = a
  BY <1>6, <1>7, <1>11
<1>13. /\ master' = master /\ chip' = chip /\ phase' = phase /\ buffer' = buffer /\ period' = period
  BY DEF HostEdge, wire_vars
<1>14. SinceEdge = period /\ SinceEdge' = 0
  BY EdgeCounts
<1> HIDE DEF x, a
<1>15. ram_block'[EECON_ADDRESS] % 4 = x /\ ram_block'[EEADR_ADDRESS] = a
  BY <1>3, <1>5, <1>12
<1> QED
  BY <1>2, <1>3, <1>13, <1>14, <1>15 DEF x, a

\* A clock of a dump takes no time, and the third one puts the next strobe out.
LEMMA DumpEdgeTime ==
  ASSUME LinkInv, SuitableTiming, HostEdge({"eeprom_dump"}, 0, 0), since' = 0
  PROVE  /\ dump_counter = 0 => DumpTime' = 5 * period
         /\ since = 0 /\ dump_counter # 2 => DumpTime' = DumpTime
         /\ since = 0 /\ dump_counter = 2 => DumpTime = 7 * period /\ DumpTime' = 0
<1>1. /\ dump_counter' = (dump_counter + 1) % 7 /\ period' = period
      /\ SinceEdge = period /\ SinceEdge' = 0
  BY DumpEdgeCells
<1>2. period \in Nat /\ dump_counter \in 0..6
  BY ClockFacts DEF LinkInv, EepromTypeOK, RamType
<1> DEFINE f(x) == (x + 0) * period
           k == (dump_counter + 4) % 7
           n == (dump_counter' + 4) % 7
<1>3. DumpTime' = f(n) + 0
  BY <1>1 DEF DumpTime
<1>4. since = 0 => DumpTime = f(k) + period
  BY <1>1 DEF DumpTime
<1>5. /\ dump_counter = 0 => k = 4 /\ n = 5
      /\ dump_counter = 1 => k = 5 /\ n = 6
      /\ dump_counter = 2 => k = 6 /\ n = 0
      /\ dump_counter = 3 => k = 0 /\ n = 1
      /\ dump_counter = 4 => k = 1 /\ n = 2
      /\ dump_counter = 5 => k = 2 /\ n = 3
      /\ dump_counter = 6 => k = 3 /\ n = 4
  BY <1>1, <1>2, SMT
<1>6. /\ f(0) = 0 /\ f(1) = period /\ f(2) = 2 * period /\ f(3) = 3 * period
      /\ f(4) = 4 * period /\ f(5) = 5 * period /\ f(6) = 6 * period
  BY <1>2, SMT
<1> HIDE DEF f, k, n
<1> QED
  BY <1>2, <1>3, <1>4, <1>5, <1>6, SMT

\* As long as the master writes no data, the byte in EEDATA is not on its way.
LEMMA CarriedRead ==
  ASSUME NEW m, NEW c, NEW p, NEW a, NEW u, NEW v, Carried(m, c, p, a, u),
         OnCourse(m), ~m.eeprom_write_enable_bit
  PROVE  Carried(m, c, p, a, v)
<1>1. m.outputs # "write_data" /\ ~(m.outputs = "receive_ack" /\ m.next_state = "create_stop_cond")
  BY DEF OnCourse
<1>2. SentByte(m, a, v) = SentByte(m, a, u)
  BY <1>1 DEF SentByte
<1> QED
  BY <1>1, <1>2 DEF Carried

\* An idle master carries nothing.
LEMMA CarriedIdle ==
  ASSUME NEW m, NEW c, NEW p, NEW a, NEW v, Idle(m)
  PROVE  Carried(m, c, p, a, v) /\ ~DoneAt(m, p)
<1>1. m.outputs = "i2c_nop"
  BY DEF Idle
<1> QED
  BY <1>1 DEF Carried, DoneAt, AddressHeard, Sending, ByteStates

\* Before the byte has been read, more is left than the answer will take.
LEMMA NotDoneYet ==
  ASSUME NEW m \in Masters, NEW p \in Phases, Placed(m, p), OnCourse(m),
         ~Idle(m), ~m.eeprom_write_enable_bit, ~DoneAt(m, p)
  PROVE  Left(m, p) >= 4 * RamWait + 6
<1> DEFINE s == m.outputs
           n == m.next_state
           r == Rest(s, n)
           w == WaitCycles(m)
           c == m.cycles_waited
<1>1. RamWait \in Nat \ {0} /\ r \in Nat /\ w \in Nat /\ c \in Nat /\ Cycles(m, p) \in Int
  BY MasterFacts, RamWaitAssumption
<1>2. Cycles(m, p) = r + IF Taken(m, p) THEN -1 ELSE w - c
  BY DEF Cycles
<1>3. ~Taken(m, p) => c <= w
  BY DEF Placed
<1>4. r >= RamWait + 4
  <2>1. n \in Followers[s] /\ s \in MasterStates
    BY MasterFacts DEF Placed
  <2>2. s \notin {"send_ack", "create_stop_cond", "write_to_ram"}
    BY DEF DoneAt
  <2>3. s = "i2c_nop" => n # "i2c_nop"
    BY DEF Idle
  <2>4. s = "receive_ack" => n \in {"write_word_addr", "create_repeated_start_cond", "read_data"}
    BY DEF OnCourse
  <2>5. /\ s \in {"write_word_addr"} => n = "receive_ack"
        /\ s = "create_repeated_start_cond" => n = "write_slave_addr_read_mode"
        /\ s = "read_data" => n = "send_ack"
        /\ s # "write_data"
    BY DEF OnCourse
  <2>6. n \notin {"i2c_nop", "write_to_ram", "create_stop_cond"}
    BY <2>1, <2>2, <2>3, <2>4, <2>5 DEF Followers, MasterStates, ByteStates
  <2>7. n \in MasterStates
    BY MasterFacts
  <2> QED
    BY <1>1, <2>6, <2>7, SMT DEF Rest, MasterStates, ByteStates
<1> HIDE DEF r, w, c, s, n
<1>5. p # "low_fall" => ~Taken(m, p)
  BY DEF Taken
<1>6. Phases = {"low_rise", "high_fall", "high_rise", "low_fall"}
  BY DEF Phases
<1> QED
  BY <1>1, <1>2, <1>3, <1>4, <1>5, <1>6, PhaseValues, SMT

-----------------------------------------------------------------------------
\* The first clock of a dump.
LEMMA DumpBegins ==
  ASSUME LinkInv, SuitableTiming, TimingInv, TransferInv, DumpEdge, period \in DumpPeriods
  PROVE  DumpingInv' /\ request' = "dump" /\ chip' = chip /\ request = "none" /\ dump_clocks = 0
<1>1. HostEdge({"eeprom_dump"}, 0, 0) /\ since' = 0 /\ request' = "dump"
  BY DEF DumpEdge
<1>2. dump_clocks = 0 /\ ~(dump_clocks > 0)
  BY SMT DEF TransferInv, NoDumps
<1>3. since = PauseClocks /\ dumps < MaxDumps /\ dump_clocks' = DumpSteps - 1
  BY <1>2 DEF DumpEdge, Settled
<1>4. /\ Idle(master) /\ Unasked(master) /\ request = "none" /\ ram_block[EECON_ADDRESS] % 4 = 0
  BY <1>2, <1>3, WhenSettled
<1>5. dump_counter = 0 /\ dump_addr = 0
  <2>1. dumps \in Nat /\ MaxDumps \in Nat /\ MaxDumps <= 1
    BY LinkAssumption DEF LinkInv, SuitableTiming
  <2>2. dumps = 0
    BY <1>3, <2>1, SMT
  <2> QED
    BY <2>2 DEF TimingInv, DumpInv
<1>6. /\ ram_block'[EECON_ADDRESS] % 4 = 0 /\ ram_block'[EEADR_ADDRESS] = 0
      /\ ~reset_eecon' /\ dump_counter' = 1 /\ dump_addr' = 0
      /\ eecon_int' % 4 = 0
      /\ master' = master /\ chip' = chip /\ phase' = phase /\ buffer' = buffer /\ period' = period
  <2>1. dump_counter \notin {1, 2} /\ dump_counter # 6 /\ (dump_counter + 1) % 7 = 1
    BY <1>5, SMT
  <2> QED
    BY <1>1, <1>4, <1>5, <2>1, DumpEdgeCells
<1>7. DumpTime' = 5 * period
  BY <1>1, <1>5, DumpEdgeTime
<1>8. EepromSize \in Nat /\ period \in Nat /\ period >= 86
  BY MemoryAssumption, ClockFacts
<1>9. dump_clocks' + dump_counter' + 7 * dump_addr' = DumpSteps'
  BY <1>3, <1>6, <1>8, SMT DEF DumpSteps
<1>10. dump_counter' \notin 2..6 /\ dump_counter' \notin {2, 3} /\ dump_counter' # 0
       /\ dump_counter' \notin {3, 4} /\ dump_counter' \notin 3..6 /\ ~(since' > 0)
       /\ dump_counter' \notin {3, 4, 5} /\ dump_counter' # 6
  BY <1>1, <1>6, SMT
<1>11. DumpCells'
  BY <1>6, <1>9, <1>10 DEF DumpCells
<1>12. DumpCourse'
  <2>1. ~(Age(phase) <= 5 * period /\ 5 * period < 2 * period + Age(phase))
    <3>1. Age(phase) \in Nat /\ Age(phase) <= 4
      BY <1>1, EdgeFacts
    <3> QED
      BY <1>8, <3>1, SMT
  <2> QED
    BY <1>4, <1>6, <1>7, <1>10, <2>1 DEF DumpCourse, Unasked, Idle
<1>13. DumpCarry'
  BY <1>10 DEF DumpCarry
<1>14. DumpedInv'
  <2>1. \A a \in 0..EepromSize - 1 : ~(a < dump_addr')
    BY <1>6, <1>8, SMT
  <2> QED
    BY <1>9, <1>10, <2>1 DEF DumpedInv
<1>15. master'.outputs # "read_data" => buffer' = master'.data_out
  BY <1>6 DEF TransferInv
<1> QED
  BY <1>1, <1>2, <1>4, <1>6, <1>11, <1>12, <1>13, <1>14, <1>15 DEF DumpingInv

\* The counters of the memory after a clock of a dump.
LEMMA DumpCounts ==
  ASSUME LinkInv, SuitableTiming, SuitableDumps, TimingInv, DumpingInv, DumpEdge, dump_clocks > 0
  PROVE  /\ HostEdge({"eeprom_dump"}, 0, 0) /\ since = 0 /\ since' = 0 /\ request' = "dump"
         /\ dump_clocks' = dump_clocks - 1 /\ DumpSteps' = DumpSteps
         /\ dump_counter = 6 => dump_counter' = 0
         /\ dump_counter \in 0..5 => dump_counter' = dump_counter + 1 /\ dump_addr' = dump_addr
         /\ \/ dump_clocks' + dump_counter' + 7 * dump_addr' = DumpSteps
            \/ dump_clocks' + dump_counter' = 1 /\ dump_addr' = 0
         /\ \A a \in 0..EepromSize - 1 :
               (\/ a < dump_addr' \/ (a = dump_addr' /\ dump_counter' = 6)
                \/ dump_clocks' + dump_counter' + 7 * dump_addr' # DumpSteps)
               => \/ a < dump_addr \/ (a = dump_addr /\ dump_counter \in {5, 6})
                  \/ dump_clocks + dump_counter + 7 * dump_addr # DumpSteps
<1>1. HostEdge({"eeprom_dump"}, 0, 0) /\ since' = 0 /\ request' = "dump"
  BY DEF DumpEdge
<1>2. /\ dump_counter' = (dump_counter + 1) % 7
      /\ dump_addr' = IF dump_counter = 6 THEN (dump_addr + 1) % EepromSize ELSE dump_addr
  BY <1>1, DumpEdgeCells
<1>3. /\ dump_counter \in 0..6 /\ dump_addr \in 0..EepromSize - 1 /\ EepromSize \in 1..256
  BY DumpClock DEF DumpingInv
<1>4. dump_clocks \in Nat /\ since \in Nat
  BY ClockFacts DEF LinkInv
<1>5. since = 0
  <2>1. since > 0 => dump_clocks = 0
    BY DEF DumpingInv, DumpCells
  <2> QED
    BY <1>4, <2>1, SMT
<1>6. dump_clocks' = dump_clocks - 1
  <2>1. ~Settled
    <3>1. dump_clocks # 0
      BY <1>4, SMT
    <3> QED
      BY <3>1 DEF Settled
  <2> QED
    BY <2>1 DEF DumpEdge
<1>7. DumpSteps = 7 * EepromSize + 1 /\ DumpSteps' = DumpSteps
  BY DEF DumpSteps
<1>8. \/ dump_clocks + dump_counter + 7 * dump_addr = DumpSteps
      \/ dump_clocks + dump_counter = 1 /\ dump_addr = 0
  BY DEF DumpingInv, DumpCells
<1> HIDE DEF DumpSteps
<1>9. CASE dump_counter \in 0..5
  <2>1. dump_counter' = dump_counter + 1 /\ dump_addr' = dump_addr /\ dump_counter # 6
    BY <1>2, <1>9, SMT
  <2>2. dump_clocks' + dump_counter' = dump_clocks + dump_counter
    BY <1>3, <1>4, <1>6, <2>1, SMT
  <2>3. dump_counter' = 6 => dump_counter = 5
    BY <1>3, <2>1, SMT
  <2> QED
    BY <1>1, <1>5, <1>6, <1>7, <1>8, <2>1, <2>2, <2>3
<1>10. CASE dump_counter = 6 /\ dump_addr + 1 < EepromSize
  <2>1. dump_counter' = 0 /\ dump_addr' = dump_addr + 1 /\ dump_counter \notin 0..5
    BY <1>2, <1>3, <1>10, SMT
  <2>2. dump_clocks + dump_counter # 1
    BY <1>4, <1>10, SMT
  <2>3. dump_clocks' + dump_counter' + 7 * dump_addr' = DumpSteps
    BY <1>3, <1>4, <1>6, <1>7, <1>8, <1>10, <2>1, <2>2, SMT
  <2>4. \A a \in 0..EepromSize - 1 : a < dump_addr' => a < dump_addr \/ a = dump_addr
    BY <1>3, <2>1, SMT
  <2>5. dump_counter' # 6
    BY <2>1, SMT
  <2> QED
    BY <1>1, <1>5, <1>6, <1>7, <1>10, <2>1, <2>3, <2>4, <2>5
<1>11. CASE dump_counter = 6 /\ ~(dump_addr + 1 < EepromSize)
  <2>1. dump_addr = EepromSize - 1 /\ (dump_addr + 1) % EepromSize = 0
    BY <1>3, <1>11, SMT
  <2>2. dump_counter' = 0 /\ dump_addr' = 0 /\ dump_counter \notin 0..5
    BY <1>2, <1>3, <1>11, <2>1, SMT
  <2>3. dump_clocks + dump_counter # 1
    BY <1>4, <1>11, SMT
  <2>4. dump_clocks' + dump_counter' = 1
    BY <1>3, <1>4, <1>6, <1>7, <1>8, <1>11, <2>1, <2>2, <2>3, SMT
  <2>5. \A a \in 0..EepromSize - 1 : a < dump_addr \/ a = dump_addr
    BY <1>3, <2>1, SMT
  <2> QED
    BY <1>1, <1>5, <1>6, <1>7, <1>11, <2>2, <2>4, <2>5
<1> QED
  BY <1>3, <1>9, <1>10, <1>11, SMT

\* The byte that the sixth clock takes into the dump.
LEMMA DumpTakes ==
  ASSUME LinkInv, SuitableTiming, SuitableDumps, TimingInv, ProtocolInv, DumpingInv,
         dump_counter = 5, SinceEdge = period
  PROVE  master.data_out = Stored(chip.eeprom, dump_addr)
<1>1. /\ DumpTime = 2 * period + period /\ period \in Nat /\ period >= 86 /\ RamWait \in Nat
  BY DumpClock, ClockFacts DEF DumpingInv
<1>2. DoneAt(master, phase) \/ (Idle(master) /\ DumpTime > 5) =>
         master.data_out = Stored(chip.eeprom, dump_addr)
  BY DEF DumpingInv, DumpCarry
<1>3. CASE Idle(master)
  <2>1. DumpTime > 5
    <3> HIDE DEF DumpTime
    <3> QED
      BY <1>1, SMT
  <2> QED
    BY <1>2, <1>3, <2>1
<1>4. CASE ~Idle(master)
  <2>1. /\ ~master.eeprom_write_enable_bit
        /\ Left(master, phase) + DumpTime \in 4 * RamWait + 171..4 * RamWait + 174
    BY <1>4 DEF DumpingInv, DumpCourse
  <2>2. master \in Masters /\ phase \in Phases /\ Placed(master, phase) /\ OnCourse(master)
    BY ProtocolTypes DEF ProtocolInv
  <2>3. Left(master, phase) \in Int
    BY <2>2, LeftBound
  <2>4. ~(Left(master, phase) >= 4 * RamWait + 6)
    <3> HIDE DEF DumpTime
    <3> QED
      BY <1>1, <2>1, <2>3, SMT
  <2>5. DoneAt(master, phase)
    BY <1>4, <2>1, <2>2, <2>4, NotDoneYet
  <2> QED
    BY <1>2, <2>5
<1> QED
  BY <1>3, <1>4

\* When the next strobe is put out, the read before it is over.
LEMMA DumpReadOver ==
  ASSUME LinkInv, SuitableTiming, SuitableDumps, TimingInv, ProtocolInv, DumpingInv,
         DumpTime = 7 * period
  PROVE  Idle(master) /\ ~master.start_read_procedure
<1>1. /\ 7 * period >= 4 * RamWait + 174 /\ period \in Nat /\ period >= 86 /\ RamWait \in Nat
  BY DumpClock, ClockFacts DEF DumpingInv
<1>2. master \in Masters /\ phase \in Phases /\ Placed(master, phase)
  BY ProtocolTypes
<1>3. Left(master, phase) \in Int /\ (Left(master, phase) <= 0 <=> Idle(master))
  BY <1>2, LeftBound
<1>4. Age(phase) \in Nat /\ Age(phase) <= 4
  BY <1>2, SMT DEF Age, Phases
<1>5. /\ master.start_read_procedure <=> Age(phase) <= DumpTime /\ DumpTime < 2 * period + Age(phase)
      /\ ~Idle(master) => Left(master, phase) + DumpTime \in 4 * RamWait + 171..4 * RamWait + 174
  BY DEF DumpingInv, DumpCourse
<1> HIDE DEF DumpTime
<1> QED
  BY <1>1, <1>3, <1>4, <1>5, SMT

\* The other clocks of a dump.
LEMMA DumpGoesOn ==
  ASSUME LinkInv, SuitableTiming, SuitableDumps, TimingInv, ProtocolInv, DumpingInv, DumpEdge,
         dump_clocks > 0
  PROVE  DumpingInv' /\ request' = "dump" /\ chip' = chip
<1>1. /\ HostEdge({"eeprom_dump"}, 0, 0) /\ since = 0 /\ since' = 0 /\ request' = "dump"
      /\ dump_clocks' = dump_clocks - 1 /\ DumpSteps' = DumpSteps
      /\ dump_counter = 6 => dump_counter' = 0
      /\ dump_counter \in 0..5 => dump_counter' = dump_counter + 1 /\ dump_addr' = dump_addr
      /\ \/ dump_clocks' + dump_counter' + 7 * dump_addr' = DumpSteps
         \/ dump_clocks' + dump_counter' = 1 /\ dump_addr' = 0
      /\ \A a \in 0..EepromSize - 1 :
            (\/ a < dump_addr' \/ (a = dump_addr' /\ dump_counter' = 6)
             \/ dump_clocks' + dump_counter' + 7 * dump_addr' # DumpSteps)
            => \/ a < dump_addr \/ (a = dump_addr /\ dump_counter \in {5, 6})
               \/ dump_clocks + dump_counter + 7 * dump_addr # DumpSteps
  BY DumpCounts
<1>2. /\ ram_block'[EECON_ADDRESS] % 4 = IF dump_counter \in {1, 2} THEN 1 ELSE 0
      /\ ram_block'[EEADR_ADDRESS] = IF dump_counter = 6 THEN 0 ELSE dump_addr
      /\ ~reset_eecon'
      /\ eeprom_dump_int' = IF dump_counter = 5
                            THEN [eeprom_dump_int EXCEPT ![dump_addr] = master.data_out]
                            ELSE eeprom_dump_int
      /\ eeadr_int' = ram_block[EEADR_ADDRESS] /\ eecon_int' = ram_block[EECON_ADDRESS]
      /\ master' = master /\ chip' = chip /\ phase' = phase /\ buffer' = buffer
      /\ period' = period /\ SinceEdge = period
  BY <1>1, DumpEdgeCells
<1>3. dump_counter \in 0..6 /\ dump_addr \in 0..EepromSize - 1
  BY DumpClock DEF DumpingInv
<1>4. /\ dump_counter # 2 => DumpTime' = DumpTime
      /\ dump_counter = 2 => DumpTime = 7 * period /\ DumpTime' = 0
  BY <1>1, DumpEdgeTime
<1>5. Age(phase) \in Nat /\ Age(phase) >= 1 /\ Age(phase) <= 4
  BY <1>1, EdgeFacts
<1>6. dump_counter = 2 => Idle(master) /\ ~master.start_read_procedure
  BY <1>4, DumpReadOver
<1>7. /\ dump_counter' \in 0..6
      /\ dump_counter' \in {2, 3} <=> dump_counter \in {1, 2}
      /\ dump_counter' \in {3, 4} <=> dump_counter \in {2, 3}
      /\ dump_counter' = 0 <=> dump_counter = 6
      /\ dump_counter' \in 2..6 <=> dump_counter \in 1..5
      /\ dump_counter' \in 3..6 <=> dump_counter \in 2..5
      /\ dump_counter' \in {3, 4, 5} <=> dump_counter \in {2, 3, 4}
      /\ dump_counter' = 6 <=> dump_counter = 5
      /\ dump_counter \in 2..5 => dump_counter \in 3..6 \/ dump_counter = 2
      /\ dump_counter \in 0..5 \/ dump_counter = 6
  BY <1>1, <1>3, SMT
<1>8. DumpCells'
  <2>1. /\ ram_block[EECON_ADDRESS] % 4 = IF dump_counter \in {2, 3} THEN 1 ELSE 0
        /\ ram_block[EEADR_ADDRESS] = IF dump_counter = 0 THEN 0 ELSE dump_addr
    BY DEF DumpingInv, DumpCells
  <2>2. ram_block'[EECON_ADDRESS] % 4 = IF dump_counter' \in {2, 3} THEN 1 ELSE 0
    BY <1>2, <1>7
  <2>3. eecon_int' % 4 = IF dump_counter' \in {3, 4} THEN 1 ELSE 0
    BY <1>2, <1>7, <2>1
  <2>4. ram_block'[EEADR_ADDRESS] = IF dump_counter' = 0 THEN 0 ELSE dump_addr'
    BY <1>1, <1>2, <1>7
  <2>5. dump_counter' \in 2..6 => eeadr_int' = dump_addr'
    <3>1. dump_counter \in 1..5 => dump_counter # 0 /\ dump_counter \in 0..5
      BY SMT
    <3> QED
      BY <1>1, <1>2, <1>7, <2>1, <3>1
  <2>6. ~(since' > 0)
    BY <1>1, SMT
  <2> QED
    BY <1>1, <1>2, <2>2, <2>3, <2>4, <2>5, <2>6 DEF DumpCells
<1>9. DumpCourse'
  <2>1. CASE dump_counter = 2
    <3>1. ~(Age(phase) <= 0) /\ 0 < Age(phase)
      BY <1>5, SMT
    <3>2. ~master.start_write_procedure
      BY DEF DumpingInv, DumpCourse
    <3> QED
      BY <1>2, <1>4, <1>6, <2>1, <3>1, <3>2 DEF DumpCourse
  <2>2. CASE dump_counter # 2
    BY <1>2, <1>4, <1>7, <2>2 DEF DumpingInv, DumpCourse
  <2> QED
    BY <2>1, <2>2
<1>10. DumpCarry'
  <2> SUFFICES ASSUME dump_counter' \in {3, 4, 5}
               PROVE  /\ Carried(master, chip, phase, eeadr_int', eedata_int')
                      /\ DoneAt(master, phase) \/ (Idle(master) /\ DumpTime' > 5) =>
                            master.data_out = Stored(chip.eeprom, dump_addr')
    BY <1>2 DEF DumpCarry
  <2>1. CASE dump_counter = 2
    <3>1. ~(DumpTime' > 5)
      BY <1>4, <2>1, SMT
    <3> QED
      BY <1>6, <2>1, <3>1, CarriedIdle
  <2>2. CASE dump_counter \in {3, 4}
    <3>1. /\ Carried(master, chip, phase, eeadr_int, eedata_int)
          /\ DoneAt(master, phase) \/ (Idle(master) /\ DumpTime > 5) =>
                master.data_out = Stored(chip.eeprom, dump_addr)
      BY <2>2 DEF DumpingInv, DumpCarry
    <3>2. dump_counter # 2 /\ dump_counter # 0 /\ dump_counter \in 0..5 /\ dump_counter \in 2..6
      BY <2>2, SMT
    <3>3. eeadr_int' = eeadr_int /\ dump_addr' = dump_addr
      BY <1>1, <1>2, <3>2 DEF DumpingInv, DumpCells
    <3>4. Carried(master, chip, phase, eeadr_int, eedata_int')
      <4>1. ~Idle(master) => ~master.eeprom_write_enable_bit
        BY DEF DumpingInv, DumpCourse
      <4>2. OnCourse(master)
        BY DEF ProtocolInv
      <4> QED
        BY <3>1, <4>1, <4>2, CarriedIdle, CarriedRead
    <3> QED
      BY <1>4, <3>1, <3>2, <3>3, <3>4
  <2> QED
    BY <1>7, <2>1, <2>2
<1>11. DumpedInv'
  <2> SUFFICES ASSUME NEW a \in 0..EepromSize - 1,
                      \/ a < dump_addr' \/ (a = dump_addr' /\ dump_counter' = 6)
                      \/ dump_clocks' + dump_counter' + 7 * dump_addr' # DumpSteps
               PROVE  eeprom_dump_int'[a] = Stored(chip.eeprom, a)
    BY <1>1, <1>2 DEF DumpedInv
  <2>1. \/ a < dump_addr \/ (a = dump_addr /\ dump_counter \in {5, 6})
        \/ dump_clocks + dump_counter + 7 * dump_addr # DumpSteps
    BY <1>1
  <2>2. DOMAIN eeprom_dump_int = 0..EepromSize - 1
    BY DEF LinkInv, EepromTypeOK, RamType, Eeprom
  <2>3. CASE dump_counter = 5 /\ a = dump_addr
    BY <1>2, <1>3, <2>2, <2>3, DumpTakes
  <2>4. CASE ~(dump_counter = 5 /\ a = dump_addr)
    <3>1. eeprom_dump_int'[a] = eeprom_dump_int[a]
      BY <1>2, <2>2, <2>4
    <3>2. \/ a < dump_addr \/ (a = dump_addr /\ dump_counter = 6)
          \/ dump_clocks + dump_counter + 7 * dump_addr # DumpSteps
      BY <2>1, <2>4
    <3> QED
      BY <3>1, <3>2 DEF DumpingInv, DumpedInv
  <2> QED
    BY <2>3, <2>4
<1>12. period' \in DumpPeriods /\ (master'.outputs # "read_data" => buffer' = master'.data_out)
  BY <1>2 DEF DumpingInv
<1> QED
  BY <1>1, <1>2, <1>8, <1>9, <1>10, <1>11, <1>12 DEF DumpingInv

-----------------------------------------------------------------------------
\* The clocks of the pause after a dump.
LEMMA PauseAfterDump ==
  ASSUME LinkInv, LinkInv', SuitableTiming, SuitableDumps, TimingInv, TimingInv', ProtocolInv,
         DumpingInv, request = "dump", IdleEdge
  PROVE  /\ IF request' = "dump" THEN DumpingInv' ELSE TransferInv'
         /\ chip' = chip
<1>1. HostEdge({}, 0, 0)
  BY DEF IdleEdge
<1>2. /\ dump_clocks = 0 /\ dump_clocks' = 0
      /\ since' = IF since < PauseClocks THEN since + 1 ELSE since
      /\ request' = IF since' = PauseClocks THEN "none" ELSE "dump"
      /\ served' = IF since' = PauseClocks THEN FALSE ELSE served
  BY DEF IdleEdge, Answered
<1>3. /\ PauseClocks' = PauseClocks /\ SinceEdge = period /\ SinceEdge' = 0
      /\ PauseClocks \in Nat /\ PauseClocks >= 3 /\ since \in Nat /\ period \in Nat
  BY <1>1, EdgeCounts, ClockFacts
<1> HIDE DEF PauseClocks
<1>4. since < PauseClocks /\ since' = since + 1
  <2>1. since < PauseClocks
    BY DEF TimingInv, DumpInv
  <2> QED
    BY <1>2, <2>1
<1>5. dump_counter = 1 /\ dump_addr = 0
  BY <1>2, DumpClock DEF DumpingInv
<1>6. /\ dump_counter' = dump_counter /\ dump_addr' = dump_addr /\ ~reset_eecon'
      /\ eecon_int' = ram_block[EECON_ADDRESS]
      /\ ram_block[EECON_ADDRESS] % 4 = 0 /\ ram_block'[EECON_ADDRESS] % 4 = 0
  <2>1. dump_counter \notin {2, 3}
    BY <1>5, SMT
  <2>2. ram_block[EECON_ADDRESS] % 4 = 0
    BY <2>1 DEF DumpingInv, DumpCells
  <2> QED
    BY <1>1, <2>2, EeconKept
<1>7. /\ ram_block'[EEADR_ADDRESS] = ram_block[EEADR_ADDRESS]
      /\ master' = master /\ chip' = chip /\ phase' = phase /\ buffer' = buffer
  <2>1. 0 # EEADR_ADDRESS
    BY SMT DEF EEADR_ADDRESS
  <2> QED
    BY <1>1, <2>1, EdgeCells
<1>8. eeprom_dump_int' = eeprom_dump_int /\ period' = period
  <2>1. Access({}) = "none"
    BY DEF Access
  <2> QED
    BY <1>1, <2>1 DEF HostEdge, RamRise
<1>9. master.outputs # "read_data" => buffer = master.data_out
  BY DEF DumpingInv
<1>10. CASE since' # PauseClocks
  <2>1. request' = "dump"
    BY <1>2, <1>10
  <2>2. DumpTime' = DumpTime
    <3> DEFINE f(x) == (5 + x) * period
    <3>1. (dump_counter + 4) % 7 = 5
      BY <1>5, SMT
    <3>2. DumpTime = f(since) + period /\ DumpTime' = f(since + 1) + 0
      BY <1>3, <1>4, <1>6, <1>8, <3>1 DEF DumpTime
    <3>3. f(since + 1) + 0 = f(since) + period
      BY <1>3, SMT
    <3> HIDE DEF f
    <3> QED
      BY <3>2, <3>3
  <2>3. dump_counter' \notin 2..6 /\ dump_counter' \notin {2, 3} /\ dump_counter' # 0
        /\ dump_counter' \notin {3, 4} /\ dump_counter' \notin 3..6 /\ dump_counter' \notin {3, 4, 5}
    BY <1>5, <1>6, SMT
  <2>4. DumpSteps' = DumpSteps
    BY DEF DumpSteps
  <2>5. DumpCells'
    <3>1. ram_block[EEADR_ADDRESS] = dump_addr
      BY <1>6, <2>3 DEF DumpingInv, DumpCells
    <3>2. \/ dump_clocks + dump_counter + 7 * dump_addr = DumpSteps
          \/ dump_clocks + dump_counter = 1 /\ dump_addr = 0
      BY DEF DumpingInv, DumpCells
    <3> QED
      BY <1>2, <1>6, <1>7, <2>3, <2>4, <3>1, <3>2 DEF DumpCells
  <2>6. DumpCourse'
    BY <1>6, <1>7, <1>8, <2>2, <2>3 DEF DumpingInv, DumpCourse
  <2>7. DumpCarry'
    BY <2>3 DEF DumpCarry
  <2>8. DumpedInv'
    BY <1>2, <1>6, <1>7, <1>8, <2>4 DEF DumpingInv, DumpedInv
  <2> QED
    BY <1>7, <1>8, <1>9, <2>1, <2>5, <2>6, <2>7, <2>8 DEF DumpingInv
<1>11. CASE since' = PauseClocks
  <2>1. request' = "none" /\ ~served'
    BY <1>2, <1>11
  <2>2. Idle(master) /\ Unasked(master)
    <3>1. Idle(master') /\ Unasked(master')
      BY <1>3, <1>11 DEF TimingInv, IdleInv
    <3> QED
      BY <1>7, <3>1
  <2>3. since' # 0 /\ since' # 1
    BY <1>3, <1>11, SMT
  <2>4. NoDumps' /\ CarryInv'
    BY <1>2, <2>1 DEF NoDumps, CarryInv, Pending
  <2>5. RestInv'
    BY <1>7, <2>1, <2>2, <2>3 DEF RestInv, Idle, Unasked, Starts, WritesToRam
  <2> QED
    BY <1>7, <1>9, <2>1, <2>4, <2>5 DEF TransferInv
<1> QED
  BY <1>7, <1>10, <1>11

\* A stopped world, in a dump.
LEMMA DumpStutters ==
  ASSUME DumpingInv, UNCHANGED link_vars
  PROVE  DumpingInv'
<1>1. UNCHANGED <<master, chip, phase, period, tick, since, dump_clocks, buffer, ram_vars>>
  BY DEF link_vars, wire_vars, clock_vars
<1>2. UNCHANGED <<SinceEdge, ram_block, reset_eecon, eecon_int, eeadr_int, eedata_int,
                  dump_counter, dump_addr, eeprom_dump_int, DumpSteps>>
  BY <1>1 DEF ram_vars, SinceEdge, DumpSteps
<1>3. DumpTime' = DumpTime
  BY <1>1, <1>2 DEF DumpTime
<1>4. DumpCells'
  BY <1>1, <1>2 DEF DumpingInv, DumpCells
<1>5. DumpCourse'
  BY <1>1, <1>2, <1>3 DEF DumpingInv, DumpCourse
<1>6. DumpCarry'
  BY <1>1, <1>2, <1>3 DEF DumpingInv, DumpCarry
<1>7. DumpedInv'
  BY <1>1, <1>2 DEF DumpingInv, DumpedInv
<1> QED
  BY <1>1, <1>4, <1>5, <1>6, <1>7 DEF DumpingInv

\* Every step of the system in a dump keeps it, or ends it.
LEMMA DumpEachStep ==
  ASSUME LinkInv, LinkInv', SuitableTiming, SuitableDumps, TimingInv, TimingInv', ProtocolInv,
         DumpingInv, request = "dump", [LinkNext]_link_vars
  PROVE  /\ IF request' = "dump" THEN DumpingInv' ELSE TransferInv'
         /\ chip'.eeprom = chip.eeprom \/ Reset
<1>1. CASE I2cStep
  <2>1. request' = request
    BY <1>1 DEF I2cStep
  <2> QED
    BY <1>1, <2>1, I2cKeepsDump, DumpStores
<1>2. CASE IdleEdge
  BY <1>2, PauseAfterDump
<1>3. CASE WriteOperand \/ WriteRequest
  BY <1>3, WhenSettled DEF WriteOperand, WriteRequest, Settled
<1>4. CASE DumpEdge
  <2>1. dump_clocks > 0
    BY <1>4, WhenSettled DEF DumpEdge, Settled
  <2> QED
    BY <1>4, <2>1, DumpGoesOn
<1>5. CASE Reset
  <2>1. request' = "none"
    BY <1>5 DEF Reset
  <2> QED
    BY <1>5, <2>1, ResetKeepsTransfer
<1>6. CASE UNCHANGED link_vars
  <2>1. request' = request /\ chip' = chip
    BY <1>6 DEF link_vars, wire_vars
  <2> QED
    BY <1>6, <2>1, DumpStutters
<1> QED
  BY <1>1, <1>2, <1>3, <1>4, <1>5, <1>6 DEF LinkNext

\* Every step of the system, a dump at a suitable clock too, keeps the path.
LEMMA PathStep ==
  ASSUME LinkInv, LinkInv', SuitableTiming, SuitableDumps, TimingInv, TimingInv', ProtocolInv, PathInv,
         [LinkNext]_link_vars, period \in DumpPeriods
  PROVE  ProtocolInv' /\ PathInv'
<1>1. Held(master, phase)
  BY StrobeHeld, DumpHeld DEF PathInv
<1>2. ProtocolInv'
  BY <1>1, ProtocolStep
<1>3. CASE request = "dump"
  BY <1>2, <1>3, DumpEachStep DEF PathInv
<1>4. CASE request # "dump" /\ ~DumpEdge
  <2>1. TransferInv'
    BY <1>4, TransferStep DEF PathInv
  <2>2. request' # "dump"
    BY <2>1 DEF TransferInv, NoDumps
  <2> QED
    BY <1>2, <2>1, <2>2 DEF PathInv
<1>5. CASE request # "dump" /\ DumpEdge
  BY <1>2, <1>5, DumpBegins DEF PathInv
<1> QED
  BY <1>2, <1>3, <1>4, <1>5

\* The host's clock does not change.
LEMMA PeriodKept ==
  ASSUME [LinkNext]_link_vars
  PROVE  period' = period
BY DEF LinkNext, I2cStep, IdleEdge, WriteOperand, WriteRequest, DumpEdge, HostEdge, Reset,
       link_vars, clock_vars

\* Without a dump.
LEMMA NoDumpStep ==
  ASSUME LinkInv, SuitableTiming, TimingInv, ProtocolInv, TransferInv, [LinkNext]_link_vars,
         MaxDumps = 0
  PROVE  ~DumpEdge /\ ProtocolInv' /\ TransferInv'
<1>1. ~DumpEdge
  <2>1. dump_clocks = 0 /\ dumps \in Nat
    BY DEF TransferInv, NoDumps, LinkInv
  <2>2. ~(dump_clocks > 0) /\ ~(dumps < MaxDumps)
    BY <2>1, SMT
  <2> QED
    BY <2>2 DEF DumpEdge
<1> QED
  BY <1>1, StrobeHeld, ProtocolStep, TransferStep

\* A dump is a step of EepromPort that leaves the memory alone.
LEMMA PathPort ==
  ASSUME LinkInv, LinkInv', SuitableTiming, SuitableDumps, TimingInv, TimingInv', ProtocolInv, PathInv,
         [LinkNext]_link_vars, period \in DumpPeriods
  PROVE  [Port!PortNext]_Port!port_vars
<1>1. CASE request = "dump"
  <2>1. CASE Reset
    BY <2>1, ResetsPort DEF Port!PortNext
  <2>2. CASE ~Reset
    <3>1. chip'.eeprom = chip.eeprom
      BY <1>1, <2>2, DumpEachStep DEF PathInv
    <3>2. Port!Dump
      BY <1>1, <3>1 DEF Port!Dump
    <3> QED
      BY <3>2 DEF Port!PortNext
  <2> QED
    BY <2>1, <2>2
<1>2. CASE request # "dump" /\ ~DumpEdge
  BY <1>2, PortStep DEF PathInv
<1>3. CASE request # "dump" /\ DumpEdge
  <2>1. request' = "dump" /\ chip' = chip /\ request = "none" /\ dump_clocks = 0
    BY <1>3, DumpBegins DEF PathInv
  <2>2. ~(dump_clocks > 0)
    BY <2>1, SMT
  <2>3. Port!Dump
    BY <2>1, <2>2 DEF Port!Dump, Port!Quiet
  <2> QED
    BY <2>3 DEF Port!PortNext
<1> QED
  BY <1>1, <1>2, <1>3

\* The path at power-up.
LEMMA PathStart == SuitableTiming /\ InitLink => ProtocolInv /\ PathInv
BY TransferStart DEF PathInv, InitLink

\* The dumps that the machine can make are made at suitable clocks.
DumpsSuit == MaxDumps = 0 \/ (SuitableDumps /\ Periods \subseteq DumpPeriods)

\* Bit by bit, the two ends of the wires agree on what is sent, for a program
\* and for a dump.
THEOREM TransferCorrect ==
  ASSUME SuitableTiming, DumpsSuit
  PROVE  LinkSpec => [](ProtocolInv /\ PathInv)
<1>1. CASE MaxDumps = 0
  <2>1. InitLink => LinkInv /\ TimingInv /\ ProtocolInv /\ TransferInv
    BY LinkStart, InitTiming, TransferStart
  <2>2. LinkInv /\ TimingInv /\ ProtocolInv /\ TransferInv /\ [LinkNext]_link_vars =>
          LinkInv' /\ TimingInv' /\ ProtocolInv' /\ TransferInv'
    BY <1>1, LinkStep, TimingStep, NoDumpStep
  <2>3. ProtocolInv /\ TransferInv => ProtocolInv /\ PathInv
    BY DEF PathInv, TransferInv, NoDumps
  <2> QED
    BY <2>1, <2>2, <2>3, PTL DEF LinkSpec
<1>2. CASE SuitableDumps /\ Periods \subseteq DumpPeriods
  <2>1. InitLink => LinkInv /\ TimingInv /\ ProtocolInv /\ PathInv
    BY LinkStart, InitTiming, PathStart
  <2>2. LinkInv /\ TimingInv /\ ProtocolInv /\ PathInv /\ [LinkNext]_link_vars =>
          LinkInv' /\ TimingInv' /\ ProtocolInv' /\ PathInv'
    <3>1. LinkInv => period \in DumpPeriods
      BY <1>2 DEF LinkInv
    <3> QED
      BY <1>2, <3>1, LinkStep, TimingStep, PathStep
  <2> QED
    BY <2>1, <2>2, PTL DEF LinkSpec
<1> QED
  BY <1>1, <1>2 DEF DumpsSuit

\* A program that writes EEADR, EEDATA and EECON finds the port: however the
\* clocks of the host and of the wires are aligned, one byte is read or written
\* for each request, and it is the right one; a dump leaves the memory alone.
THEOREM PortImplemented ==
  ASSUME SuitableTiming, DumpsSuit
  PROVE  LinkSpec => ImplementsPort
<1>1. CASE MaxDumps = 0
  <2>1. InitLink => Port!PortInit /\ LinkInv /\ TimingInv /\ ProtocolInv /\ TransferInv
    BY StartsPort, LinkStart, InitTiming, TransferStart
  <2>2. LinkInv /\ TimingInv /\ ProtocolInv /\ TransferInv /\ [LinkNext]_link_vars =>
          /\ LinkInv' /\ TimingInv' /\ ProtocolInv' /\ TransferInv'
          /\ [Port!PortNext]_Port!port_vars
    BY <1>1, LinkStep, TimingStep, NoDumpStep, PortStep
  <2> QED
    BY <2>1, <2>2, PTL DEF LinkSpec, ImplementsPort, Port!PortSpec
<1>2. CASE SuitableDumps /\ Periods \subseteq DumpPeriods
  <2>1. InitLink => Port!PortInit /\ LinkInv /\ TimingInv /\ ProtocolInv /\ PathInv
    BY StartsPort, LinkStart, InitTiming, PathStart
  <2>2. LinkInv /\ TimingInv /\ ProtocolInv /\ PathInv /\ [LinkNext]_link_vars =>
          /\ LinkInv' /\ TimingInv' /\ ProtocolInv' /\ PathInv'
          /\ [Port!PortNext]_Port!port_vars
    <3>1. LinkInv => period \in DumpPeriods
      BY <1>2 DEF LinkInv
    <3> QED
      BY <1>2, <3>1, LinkStep, TimingStep, PathStep, PathPort
  <2> QED
    BY <2>1, <2>2, PTL DEF LinkSpec, ImplementsPort, Port!PortSpec
<1> QED
  BY <1>1, <1>2 DEF DumpsSuit

\* After a dump at a suitable clock the dump register holds the memory of the
\* EEPROM, byte for byte, in the pause that follows: its reads are over in time,
\* though write_eeprom_dump of ram.vhd only counts clocks.
THEOREM DumpReads ==
  ASSUME SuitableTiming, SuitableDumps
  PROVE  LinkSpec => []DumpReadsMemory
<1> DEFINE I == /\ LinkInv /\ TimingInv
                /\ period \in DumpPeriods => ProtocolInv /\ PathInv
<1>1. InitLink => I
  BY LinkStart, InitTiming, PathStart
<1>2. I /\ [LinkNext]_link_vars => I'
  BY LinkStep, TimingStep, PathStep, PeriodKept
<1>3. I => DumpReadsMemory
  <2> SUFFICES ASSUME I, request = "dump", dump_clocks = 0, period \in DumpPeriods,
                      NEW a \in 0..EepromSize - 1
               PROVE  eeprom_dump_int[a] = Stored(chip.eeprom, a)
    BY DEF DumpReadsMemory
  <2>1. DumpingInv
    BY DEF PathInv
  <2>2. dump_counter = 1 /\ dump_addr = 0 /\ EepromSize \in 1..256
    BY <2>1, DumpClock DEF DumpingInv
  <2>3. dump_clocks + dump_counter + 7 * dump_addr # DumpSteps
    BY <2>2, SMT DEF DumpSteps
  <2> QED
    BY <2>1, <2>3 DEF DumpingInv, DumpedInv
<1> QED
  BY <1>1, <1>2, <1>3, PTL DEF LinkSpec
=============================================================================
