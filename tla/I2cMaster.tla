----------------------------- MODULE I2cMaster -----------------------------
(***************************************************************************)
(* i2c.vhd: the I2C master that reads or writes one byte of the EEPROM     *)
(* when bit 0, or bits 1 and 2, of EECON are set.  Its registers are the   *)
(* record m.  The processes of the entity run on edges of two clocks; what *)
(* one edge does to the record is one operator, named for the edge:        *)
(* clk_200khz rises with clk_100khz low and again with clk_100khz high,    *)
(* and each edge of clk_100khz coincides with a falling one of clk_200khz. *)
(***************************************************************************)
EXTENDS Bytes

CONSTANT RamWait     \* cycles for which write_to_ram is prolonged, 200 in the code

ASSUME RamWaitAssumption == RamWait \in Nat \ {0}

\* What one end puts on the line, or nothing.
Released == 2
Driven == {0, 1, Released}

SLAVE_ADDRESS_READ  == 161
SLAVE_ADDRESS_WRITE == 160

\* The states that move a byte last eight cycles.
ByteStates == {"write_slave_addr_write_mode", "write_slave_addr_read_mode",
               "write_word_addr", "read_data", "write_data"}
MasterStates == ByteStates \cup
    {"i2c_nop", "create_start_cond", "create_stop_cond", "create_repeated_start_cond",
     "receive_ack", "send_ack", "enable_scl", "write_to_ram"}

\* `outputs` is the state whose enable lines are registered; the bit counts
\* count up from start_idx - 7.
Masters ==
    [state : MasterStates, next_state : MasterStates, prev_state : MasterStates,
     outputs : MasterStates, trig_state_machine : BOOLEAN, cycles_waited : 0..7 \cup 0..RamWait,
     eeprom_write_enable_bit : BOOLEAN, start_read_procedure : BOOLEAN,
     start_write_procedure : BOOLEAN, write_bits_used : 0..7, read_bits_used : 0..7,
     sda_output : Driven, scl_enable : BOOLEAN, is_ack_received : BOOLEAN,
     data_out : Byte]

\* After a reset.
InitMaster ==
    [state |-> "i2c_nop", next_state |-> "i2c_nop", prev_state |-> "i2c_nop",
     outputs |-> "i2c_nop", trig_state_machine |-> FALSE, cycles_waited |-> 0,
     eeprom_write_enable_bit |-> FALSE, start_read_procedure |-> FALSE,
     start_write_procedure |-> FALSE, write_bits_used |-> 0, read_bits_used |-> 0,
     sda_output |-> 1, scl_enable |-> FALSE, is_ack_received |-> FALSE, data_out |-> 0]

\* Mutant: the answer is held for twice as long.
WaitTwice(m) ==
    IF m.outputs \in ByteStates THEN 7 ELSE IF m.outputs = "write_to_ram" THEN 2 * RamWait ELSE 0

\* num_wait_cycles.
WaitCycles(m) ==
    IF m.outputs \in ByteStates THEN 7 ELSE IF m.outputs = "write_to_ram" THEN RamWait ELSE 0

\* enable_write_to_ram and write_completed.
WritesToRam(m)     == m.outputs = "write_to_ram"
CompletesWrite(m)  == WritesToRam(m) /\ m.eeprom_write_enable_bit

\* next_state: a state without an acknowledge where one is due gives up.
Successor(m, control) ==
    CASE m.state = "i2c_nop" ->
             IF m.start_read_procedure \/ (m.start_write_procedure /\ Bit(control, 2) = 1)
             THEN "create_start_cond" ELSE "i2c_nop"
      [] m.state = "create_start_cond" ->
             CASE m.prev_state = "receive_ack" -> "write_slave_addr_read_mode"
               [] m.prev_state = "i2c_nop"     -> "enable_scl"
               [] OTHER                        -> "i2c_nop"
      [] m.state = "enable_scl" -> "write_slave_addr_write_mode"
      [] m.state \in {"write_slave_addr_write_mode", "write_slave_addr_read_mode"} -> "receive_ack"
      [] m.state \in {"write_word_addr", "write_data"} ->
             IF m.is_ack_received THEN "receive_ack" ELSE "create_stop_cond"
      [] m.state = "create_repeated_start_cond" ->
             IF m.is_ack_received THEN "write_slave_addr_read_mode" ELSE "create_stop_cond"
      [] m.state = "read_data" ->
             IF m.is_ack_received THEN "send_ack" ELSE "create_stop_cond"
      [] m.state = "receive_ack" ->
             CASE m.prev_state = "write_slave_addr_write_mode" -> "write_word_addr"
               [] m.prev_state = "write_word_addr" ->
                      IF m.start_read_procedure THEN "create_repeated_start_cond"
                      ELSE IF m.start_write_procedure THEN "write_data" ELSE "i2c_nop"
               [] m.prev_state = "write_slave_addr_read_mode" -> "read_data"
               [] m.prev_state = "write_data" -> "create_stop_cond"
               [] OTHER -> "i2c_nop"
      [] m.state = "send_ack" -> "create_stop_cond"
      [] m.state = "create_stop_cond" -> "write_to_ram"
      [] m.state = "write_to_ram" -> "i2c_nop"

\* The state_machine process; a state that gives up forgets where it came from.
StateMachine(m, control) ==
    LET next == Successor(m, control) IN
    IF ~m.trig_state_machine THEN m
    ELSE [m EXCEPT !.next_state = next,
                   !.prev_state = IF next = "i2c_nop" /\ m.state # "write_to_ram"
                                  THEN "i2c_nop" ELSE m.state,
                   !.outputs = m.state,
                   !.eeprom_write_enable_bit =
                       IF m.state = "i2c_nop" THEN next # "i2c_nop" /\ ~m.start_read_procedure
                       ELSE @]

\* The byte that the state on the outputs sends.
SentByte(m, address_in, data_in) ==
    CASE m.outputs = "write_slave_addr_write_mode" -> SLAVE_ADDRESS_WRITE
      [] m.outputs = "write_slave_addr_read_mode"  -> SLAVE_ADDRESS_READ
      [] m.outputs = "write_word_addr"             -> address_in
      [] m.outputs = "write_data"                  -> data_in

\* write_data_proc with clk_100khz low: bits change, a released line, and
\* the first half of a repeated start or a stop condition.
DriveWhileLow(m, address_in, data_in) ==
    CASE m.outputs \in ByteStates \ {"read_data"} ->
             [m EXCEPT !.sda_output = Bit(SentByte(m, address_in, data_in), 7 - m.write_bits_used),
                       !.write_bits_used = (@ + 1) % 8]
      [] m.outputs \in {"create_start_cond", "create_stop_cond"} -> [m EXCEPT !.sda_output = 0]
      [] m.outputs \in {"create_repeated_start_cond", "send_ack"} -> [m EXCEPT !.sda_output = 1]
      [] m.outputs = "receive_ack" -> [m EXCEPT !.sda_output = Released]
      [] OTHER -> m

\* Mutant: the slave address is sent on both edges of clk_200khz.
DriveAlways(m) ==
    CASE m.outputs \in {"create_start_cond", "create_repeated_start_cond"} ->
             [m EXCEPT !.sda_output = 0]
      [] m.outputs = "create_stop_cond" -> [m EXCEPT !.sda_output = 1]
      [] m.outputs = "write_slave_addr_write_mode" ->
             [m EXCEPT !.sda_output = Bit(SLAVE_ADDRESS_WRITE, 7 - m.write_bits_used),
                       !.write_bits_used = (@ + 1) % 8]
      [] OTHER -> m

\* write_data_proc with clk_100khz high: start and stop conditions.
DriveWhileHigh(m) ==
    CASE m.outputs \in {"create_start_cond", "create_repeated_start_cond"} ->
             [m EXCEPT !.sda_output = 0]
      [] m.outputs = "create_stop_cond" -> [m EXCEPT !.sda_output = 1]
      [] OTHER -> m

\* state_change with clk_100khz high: wait or take the next state.
ChangeState(m) ==
    IF m.cycles_waited < WaitCycles(m)
    THEN [m EXCEPT !.cycles_waited = @ + 1, !.trig_state_machine = FALSE]
    ELSE [m EXCEPT !.cycles_waited = 0, !.trig_state_machine = TRUE, !.state = m.next_state]

MasterRiseLow(m, address_in, data_in) ==
    [DriveWhileLow(m, address_in, data_in) EXCEPT !.trig_state_machine = FALSE]

\* read_write_process, on the rising edge of clk_100khz.
MasterRise100(m, control) ==
    [m EXCEPT !.start_read_procedure = (Bit(control, 0) = 1),
              !.start_write_procedure = (Bit(control, 1) = 1)]

\* With the value on SDA: do_check_ack, do_enable_scl and the processes above.
MasterRiseHigh(m, sda) ==
    [ChangeState(DriveWhileHigh(m)) EXCEPT
        !.scl_enable = (@ \/ m.outputs = "enable_scl") /\ m.outputs # "create_stop_cond",
        !.is_ack_received = (m.outputs = "receive_ack" /\ sda = 0)]

\* read_data_proc, on the falling edge of clk_100khz.
ReadBit(m, sda) ==
    IF m.outputs = "read_data"
    THEN [m EXCEPT !.data_out = PutBit(@, 7 - m.read_bits_used, IF sda = 1 THEN 1 ELSE 0),
                   !.read_bits_used = (@ + 1) % 8]
    ELSE m

\* Both clocks fall: state_machine and read_data_proc see the same values.
MasterFall(m, control, sda) ==
    LET moved == StateMachine(m, control)
        read  == ReadBit(m, sda)
    IN  [moved EXCEPT !.data_out = read.data_out, !.read_bits_used = read.read_bits_used]
=============================================================================
