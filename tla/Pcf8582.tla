------------------------------ MODULE Pcf8582 ------------------------------
(***************************************************************************)
(* pcf8582_simulator.vhd: the EEPROM at the other end of the two wires.    *)
(* Its registers are the record c.  Part of it runs on clk_200khz, part on *)
(* the edges of SCL, which follow those of clk_100khz by a delta cycle and *)
(* so see what the state machine did on the same edge.                     *)
(***************************************************************************)
EXTENDS I2cMaster

\* The states that move a byte; "idle" are the outputs of
\* receive_slave_address before a start condition.
ChipByteStates == {"receive_slave_address", "receive_word_address", "receive_data", "send_data"}
ChipStates == ChipByteStates \cup {"send_ack", "receive_ack", "expect_stop_cond"}

\* The memory is a function on the addresses that have been written.
Stored(memory, a) == IF a \in DOMAIN memory THEN memory[a] ELSE 0
Store(memory, a, v) == [x \in DOMAIN memory \cup {a} |-> IF x = a THEN v ELSE memory[x]]

ChipTypeOK(c) ==
    /\ c.state \in ChipStates /\ c.next_state \in ChipStates /\ c.prev_state \in ChipStates
    /\ c.outputs \in ChipStates \cup {"idle"}
    /\ c.cycles_waited \in 0..7 /\ c.count \in 0..12
    /\ {c.is_read, c.trig_state_machine, c.start_cond_found, c.jump_to_slave_address_read}
           \subseteq BOOLEAN
    /\ c.sda_output \in Driven
    /\ c.write_bits_used \in 0..7 /\ c.read_bits_used \in 0..7
    /\ c.received_data \in Byte /\ c.mem_address \in Byte
    /\ DOMAIN c.eeprom \subseteq Byte
    /\ \A a \in DOMAIN c.eeprom : c.eeprom[a] \in Byte

InitChip ==
    [state |-> "receive_slave_address", next_state |-> "receive_slave_address",
     prev_state |-> "receive_slave_address", outputs |-> "idle", cycles_waited |-> 0,
     is_read |-> FALSE, trig_state_machine |-> FALSE, count |-> 0,
     start_cond_found |-> FALSE, sda_output |-> Released, write_bits_used |-> 0,
     read_bits_used |-> 0, jump_to_slave_address_read |-> FALSE, received_data |-> 0,
     mem_address |-> 0, eeprom |-> <<>>]

\* Mutant: nine bits to a byte.
RiseLowNineBits(c) ==
    IF c.outputs \in ChipByteStates /\ c.cycles_waited < 8
    THEN [c EXCEPT !.cycles_waited = @ + 1]
    ELSE [c EXCEPT !.state = c.next_state, !.cycles_waited = 0]

\* state_change, clk_200khz rising with clk_100khz low.
ChipRiseLow(c) ==
    LET idle == c.next_state = "receive_slave_address" /\ c.prev_state = "receive_slave_address"
        keep == [c EXCEPT !.is_read = @ /\ ~idle]
    IN  CASE c.jump_to_slave_address_read ->
                 [keep EXCEPT !.state = "receive_slave_address", !.cycles_waited = 0,
                              !.is_read = TRUE]
          [] ~c.jump_to_slave_address_read /\ c.outputs \in ChipByteStates /\ c.cycles_waited < 7 ->
                 [keep EXCEPT !.cycles_waited = @ + 1]
          [] OTHER -> [keep EXCEPT !.state = c.next_state, !.cycles_waited = 0]

\* What follows an acknowledge; the second falling edge in the state finds
\* prev_state = "send_ack" and leaves it.
AfterAck(c) ==
    CASE c.prev_state = "receive_slave_address" ->
             IF c.is_read THEN "send_data" ELSE "receive_word_address"
      [] c.prev_state = "receive_word_address" -> "receive_data"
      [] c.prev_state = "receive_data"         -> "expect_stop_cond"
      [] OTHER                                 -> c.next_state

ChipSuccessor(c) ==
    CASE c.state = "receive_slave_address" ->
             IF c.trig_state_machine THEN "send_ack" ELSE "receive_slave_address"
      [] c.state \in {"receive_word_address", "receive_data"} -> "send_ack"
      [] c.state = "send_ack"         -> AfterAck(c)
      [] c.state = "send_data"        -> "receive_ack"
      [] c.state = "receive_ack"      -> "expect_stop_cond"
      [] c.state = "expect_stop_cond" -> "receive_slave_address"

\* state_machine, on each falling edge of clk_200khz.
ChipFall200(c) ==
    [c EXCEPT !.next_state = ChipSuccessor(c),
              !.prev_state = IF c.state = "send_ack" /\ @ \notin ChipByteStates \ {"send_data"}
                             THEN @ ELSE c.state,
              !.outputs = IF c.state = "receive_slave_address" /\ ~c.trig_state_machine
                          THEN "idle" ELSE c.state]

\* poll_start_cond: SDA falls, from the value old to the value new.
PollStart(c, old, new, scl) ==
    IF old = 1 /\ new = 0 THEN [c EXCEPT !.start_cond_found = (scl = 1)] ELSE c

\* state_machine_controller, on a rising edge of SCL.
CountBits(c) ==
    LET count == IF c.start_cond_found /\ c.sda_output = Released THEN 12 ELSE c.count
    IN  [c EXCEPT !.count = IF count > 0 THEN count - 1 ELSE 0,
                  !.trig_state_machine = (count > 0)]

\* The chip stores the byte when it acknowledges it.
Stores(c) == c.outputs = "send_ack" /\ c.next_state = "expect_stop_cond"

\* Mutant: the address is taken over with the data.
DriveLateAddress(c) ==
    CASE c.outputs = "send_ack" ->
             [c EXCEPT !.sda_output = 0,
                       !.mem_address = IF Stores(c) THEN c.received_data ELSE @,
                       !.eeprom = IF Stores(c) THEN Store(@, c.mem_address, c.received_data) ELSE @]
      [] c.outputs = "send_data" ->
             [c EXCEPT !.sda_output = Bit(Stored(c.eeprom, c.mem_address), 7 - c.write_bits_used),
                       !.write_bits_used = (@ + 1) % 8]
      [] OTHER -> [c EXCEPT !.sda_output = Released]

\* write_data_proc, on a rising edge of SCL.
ChipDrive(c) ==
    CASE c.outputs = "send_ack" ->
             [c EXCEPT !.sda_output = 0,
                       !.mem_address = IF c.next_state = "receive_data" THEN c.received_data ELSE @,
                       !.eeprom = IF Stores(c) THEN Store(@, c.mem_address, c.received_data) ELSE @]
      [] c.outputs = "send_data" ->
             [c EXCEPT !.sda_output = Bit(Stored(c.eeprom, c.mem_address), 7 - c.write_bits_used),
                       !.write_bits_used = (@ + 1) % 8]
      [] OTHER -> [c EXCEPT !.sda_output = Released]

ChipRiseScl(c) ==
    LET driven == ChipDrive(c)
        counted == CountBits(c)
    IN  [driven EXCEPT !.count = counted.count,
                       !.trig_state_machine = counted.trig_state_machine]

\* read_data_proc, on a falling edge of SCL: one bit of the byte, or of the
\* acknowledge.  A start condition within a data byte starts a read.
ChipFallScl(c, sda) ==
    LET byte  == c.outputs \in ChipByteStates
        last  == ~byte \/ c.read_bits_used = 7
        start == ~last /\ c.outputs = "receive_data" /\ c.start_cond_found
        index == IF byte THEN 7 - c.read_bits_used ELSE 0
    IN  IF c.outputs \in {"receive_slave_address", "receive_word_address", "receive_data",
                          "receive_ack"}
        THEN [c EXCEPT !.received_data = PutBit(@, index, IF sda = 1 THEN 1 ELSE 0),
                       !.read_bits_used = IF last \/ start THEN 0 ELSE @ + 1,
                       !.jump_to_slave_address_read = start]
        ELSE c
=============================================================================
