--------------------------- MODULE EepromInvariant ---------------------------
(***************************************************************************)
(* Why a request is over before the next command: where the I2C master is  *)
(* in its procedure, counted in steps of 2.5 us that are left of it        *)
(* (TimingInv).  And why the wires carry the request out: the two state    *)
(* machines move in step (ProtocolInv), and the bits of address and byte   *)
(* pass one by one, for a request (TransferInv) and for the reads of a     *)
(* dump (DumpingInv).                                                      *)
(***************************************************************************)
EXTENDS EepromProperties

\* What can follow a state.
Followers ==
    [i2c_nop |-> {"i2c_nop", "create_start_cond"},
     create_start_cond |-> {"enable_scl"},
     enable_scl |-> {"write_slave_addr_write_mode"},
     write_slave_addr_write_mode |-> {"receive_ack"},
     write_slave_addr_read_mode |-> {"receive_ack"},
     write_word_addr |-> {"receive_ack", "create_stop_cond"},
     create_repeated_start_cond |-> {"write_slave_addr_read_mode", "create_stop_cond"},
     read_data |-> {"send_ack", "create_stop_cond"},
     write_data |-> {"receive_ack", "create_stop_cond"},
     receive_ack |-> {"write_word_addr", "create_repeated_start_cond", "write_data",
                      "read_data", "create_stop_cond", "i2c_nop"},
     send_ack |-> {"create_stop_cond"},
     create_stop_cond |-> {"write_to_ram"},
     write_to_ram |-> {"i2c_nop"}]

\* The state on the outputs of m is over and the next one not yet on them.
Taken(m, p) == p = "low_fall" /\ m.trig_state_machine

\* Where the registers of the master can be before phase p.
Placed(m, p) ==
    /\ m.next_state \in Followers[m.outputs]
    /\ IF Taken(m, p) THEN m.state = m.next_state /\ m.cycles_waited = 0
       ELSE m.state = m.outputs /\ m.cycles_waited <= WaitCycles(m)
    /\ p \in {"high_fall", "high_rise"} => ~m.trig_state_machine
    /\ p = "low_fall" => Taken(m, p) \/ m.cycles_waited > 0
    /\ m.prev_state = IF m.next_state = "i2c_nop" /\ m.outputs # "write_to_ram"
                      THEN "i2c_nop" ELSE m.outputs

\* Cycles of clk_100khz from the end of state s, with n to follow, until the
\* master is idle, when every acknowledge comes.
Rest(s, n) ==
    CASE n = "i2c_nop"                     -> IF s = "i2c_nop" THEN 0 ELSE 1
      [] n = "write_to_ram"                -> RamWait + 2
      [] n = "create_stop_cond"            -> RamWait + 3
      [] n = "send_ack"                    -> RamWait + 4
      [] n \in {"read_data", "write_data"} -> RamWait + 12
      [] n = "write_slave_addr_read_mode"  -> RamWait + 21
      [] n = "create_repeated_start_cond"  -> RamWait + 22
      [] n = "write_word_addr"             -> RamWait + 31
      [] n = "write_slave_addr_write_mode" -> RamWait + 40
      [] n = "enable_scl"                  -> RamWait + 41
      [] n = "create_start_cond"           -> RamWait + 42
      [] n = "receive_ack" -> CASE s = "write_slave_addr_write_mode" -> RamWait + 32
                                [] s = "write_word_addr"             -> RamWait + 23
                                [] s = "write_slave_addr_read_mode"  -> RamWait + 13
                                [] OTHER                             -> RamWait + 4

Cycles(m, p) ==
    Rest(m.outputs, m.next_state) + IF Taken(m, p) THEN -1 ELSE WaitCycles(m) - m.cycles_waited

\* Steps of the I2C clocks until the master is idle; not positive when it is.
Left(m, p) ==
    4 * Cycles(m, p) + [low_rise |-> 0, high_fall |-> -1, high_rise |-> -2, low_fall |-> 1][p]

\* Steps since clk_100khz rose and the master looked at EECON.
Age(p) == [high_rise |-> 1, low_fall |-> 2, low_rise |-> 3, high_fall |-> 4][p]

Idle(m) == m.outputs = "i2c_nop" /\ m.next_state = "i2c_nop"
Unasked(m) == ~m.start_read_procedure /\ ~m.start_write_procedure
Started(m) == m.next_state = "i2c_nop" => m.outputs = "write_to_ram"

\* Steps since the host's last edge, and since the second one after a request.
SinceEdge == period - tick
Elapsed == (since - 2) * period + SinceEdge

\* With these clocks a strobe is high until the master has asked for the word
\* address, the answer is held for at least an edge of the host's clock, and a
\* pause outlasts a request.  A second dump without a reset would leave EECON
\* at 1: the counters of ram.vhd end one clock further than they began.
SuitableTiming ==
    /\ Periods \subseteq 86..4 * RamWait + 3
    /\ MinPause >= 4 * (RamWait + 44)
    /\ MaxDumps <= 1

\* With these a read of the dump is over before the next one is asked for, and
\* its strobe gone before the master is idle again.
SuitableDumps == \A p \in DumpPeriods : /\ 7 * p >= 4 * RamWait + 174
                                        /\ 2 * p <= 4 * RamWait + 166

DumpInv ==
    /\ dumps = 0 => dump_counter = 0 /\ dump_addr = 0
    /\ dump_clocks > 0 => /\ dumps > 0 /\ (dump_clocks + dump_counter) % 7 = 1
                          /\ since = 0 /\ request = "dump"
    /\ request = "dump" => since < PauseClocks

EeconInv ==
    /\ reset_eecon => since = 0
    /\ dump_clocks = 0 => ram_block[EECON_ADDRESS] % 4 = 0 \/ reset_eecon
    /\ since >= 2 => eecon_int % 4 = 0
    /\ since = PauseClocks => eecon_int % 4 = 0

Pending == request \in {"read", "write"}

\* The master has seen what is asked for.
Latched ==
    IF request = "read" THEN master.start_read_procedure
    ELSE master.start_write_procedure /\ Bit(eecon_int, 2) = 1

IdleInv ==
    /\ since >= 2 /\ since < PauseClocks /\ Elapsed >= Age(phase) =>
          Unasked(master) /\ (Idle(master) \/ Left(master, phase) + Elapsed <= 4 * (RamWait + 43) + 1)
    /\ since = PauseClocks => Idle(master) /\ Unasked(master) /\ request = "none"

PendingInv ==
    Pending =>
        /\ since = 0 => /\ Idle(master) /\ Unasked(master) /\ eecon_int % 4 = 0
                        /\ reset_eecon /\ Port!Asked(ram_block[EECON_ADDRESS]) = request
        /\ since = 1 =>
              /\ Port!Asked(eecon_int) = request
              /\ \/ SinceEdge < Age(phase) /\ Idle(master) /\ Unasked(master)
                 \/ /\ Latched
                    /\ \/ Idle(master) /\ phase = "high_rise" /\ SinceEdge <= 4
                       \/ Idle(master) /\ phase = "low_fall" /\ SinceEdge <= 5
                       \/ Started(master) /\ Left(master, phase) + SinceEdge <= 4 * RamWait + 174
        /\ since >= 2 => Started(master) /\ Left(master, phase) <= 4 * RamWait + 88
        /\ master.outputs = "write_to_ram" => 4 * (RamWait + 1) - Left(master, phase) <= SinceEdge

TimingInv == Placed(master, phase) /\ DumpInv /\ EeconInv /\ IdleInv /\ PendingInv

-----------------------------------------------------------------------------
\* The EEPROM's state for each state on the master's outputs.
Hears ==
    [i2c_nop |-> "receive_slave_address", create_start_cond |-> "receive_slave_address",
     enable_scl |-> "receive_slave_address",
     write_slave_addr_write_mode |-> "receive_slave_address",
     write_slave_addr_read_mode |-> "receive_slave_address",
     write_word_addr |-> "receive_word_address",
     create_repeated_start_cond |-> "receive_data", write_data |-> "receive_data",
     read_data |-> "send_data", receive_ack |-> "send_ack", send_ack |-> "receive_ack",
     create_stop_cond |-> "expect_stop_cond", write_to_ram |-> "receive_slave_address"]

\* What follows a state of the EEPROM other than send_ack.
Follows ==
    [receive_slave_address |-> "send_ack", receive_word_address |-> "send_ack",
     receive_data |-> "send_ack", send_data |-> "receive_ack",
     receive_ack |-> "expect_stop_cond", expect_stop_cond |-> "receive_slave_address"]

Reading == {"create_repeated_start_cond", "write_slave_addr_read_mode", "read_data", "send_ack"}
Sending == ByteStates \ {"read_data"}

\* The master is on its way through a read, or through a write.
OnCourse(m) ==
    LET s == m.outputs  n == m.next_state  w == m.eeprom_write_enable_bit IN
    /\ s \in Reading => ~w
    /\ s = "write_data" => w
    /\ s = "receive_ack" => n \in IF w THEN {"write_word_addr", "write_data", "create_stop_cond"}
                                  ELSE {"write_word_addr", "create_repeated_start_cond", "read_data"}
    /\ s \in {"write_word_addr", "write_data"} => n = "receive_ack"
    /\ s = "create_repeated_start_cond" => n = "write_slave_addr_read_mode"
    /\ s = "read_data" => n = "send_ack"

\* The number of the bit in a byte, and whether SCL has not risen for it yet.
BitNo(m, p) ==
    IF p # "low_fall" THEN m.cycles_waited
    ELSE IF m.trig_state_machine THEN WaitCycles(m) ELSE m.cycles_waited - 1
Early(p) == p \in {"low_rise", "high_fall"}

\* The EEPROM's state before the master came to its state s, with n to follow.
Heard(s, n, w) ==
    CASE s = "receive_ack" -> CASE n \in {"write_word_addr", "read_data"} -> "receive_slave_address"
                                [] n = "create_stop_cond"                 -> "receive_data"
                                [] OTHER                                  -> "receive_word_address"
      [] s \in {"write_word_addr", "write_data", "create_repeated_start_cond", "read_data"} -> "send_ack"
      [] s = "write_slave_addr_read_mode" -> "receive_data"
      [] s = "send_ack"                   -> "send_data"
      [] s = "create_stop_cond"           -> IF w THEN "send_ack" ELSE "receive_ack"
      [] s = "write_to_ram"               -> "expect_stop_cond"
      [] OTHER                            -> "receive_slave_address"

\* The state whose outputs the EEPROM shows before phase p.
Shown(m, p) ==
    IF Early(p) /\ m.cycles_waited = 0
    THEN Heard(m.outputs, m.next_state, m.eeprom_write_enable_bit) ELSE Hears[m.outputs]

\* It has not seen a start condition.
Silent(m, p) ==
    /\ Shown(m, p) = "receive_slave_address" /\ m.outputs # "receive_ack"
    /\ m.outputs \in {"write_slave_addr_write_mode", "write_slave_addr_read_mode"} => BitNo(m, p) = 0

\* Rising edges of SCL for which the EEPROM still takes the slave address.
EdgesLeft(m, p) ==
    LET s == m.outputs  k == BitNo(m, p)  e == IF Early(p) THEN 1 ELSE 0 IN
    CASE s \in {"write_slave_addr_write_mode", "write_slave_addr_read_mode"} ->
             IF k = 0 /\ Early(p) THEN 0 ELSE 11 + e - k
      [] s = "receive_ack" /\ m.next_state \in {"write_word_addr", "read_data"} -> 3 + e
      [] s \in {"write_word_addr", "read_data"} -> IF k < 2 + e THEN 2 + e - k ELSE 0
      [] OTHER -> 0

\* The states and the counters of the EEPROM.
ChipPlaced(m, c, p) ==
    LET s == m.outputs  k == BitNo(m, p)  x == Shown(m, p) IN
    /\ c.state = IF p = "low_rise" THEN x ELSE Hears[s]
    /\ c.prev_state = x
    /\ c.outputs = IF Silent(m, p) THEN "idle" ELSE x
    /\ c.next_state = IF Silent(m, p) THEN x
                      ELSE IF x = "send_ack"
                           THEN Hears[IF s = "receive_ack" THEN m.next_state ELSE s]
                      ELSE Follows[x]
    /\ s \in ByteStates =>
          c.cycles_waited = IF p # "low_rise" THEN k ELSE IF k = 0 THEN c.cycles_waited ELSE k - 1
    /\ s \in {"receive_ack", "send_ack"} /\ p = "low_rise" => c.cycles_waited = 7
    /\ c.read_bits_used = IF s \in Sending THEN k ELSE 0
    /\ c.write_bits_used = IF s = "read_data" THEN IF Early(p) THEN k ELSE (k + 1) % 8 ELSE 0
    /\ c.jump_to_slave_address_read <=> (s = "write_slave_addr_read_mode" /\ k = 0)

\* What the EEPROM makes of start conditions.
ChipStarted(m, c, p) ==
    LET s == m.outputs  k == BitNo(m, p) IN
    /\ c.count = EdgesLeft(m, p)
    /\ s \in {"write_slave_addr_write_mode", "write_slave_addr_read_mode"} =>
          c.trig_state_machine <=> (k # 0 \/ ~Early(p))
    /\ c.trig_state_machine => EdgesLeft(m, p) > 0 \/ s \in {"write_word_addr", "read_data"}
    /\ s \in {"write_word_addr", "read_data"} /\ c.trig_state_machine => k <= IF Early(p) THEN 3 ELSE 2
    /\ CASE \/ s \in {"read_data", "send_ack"}
            \/ s = "create_stop_cond" /\ p = "low_rise" /\ ~m.eeprom_write_enable_bit -> TRUE
         [] OTHER -> c.start_cond_found <=>
             \/ s = "create_start_cond" /\ p # "low_rise"
             \/ s = "enable_scl"
             \/ s = "create_repeated_start_cond" /\ p = "low_fall"
             \/ s \in {"write_slave_addr_write_mode", "write_slave_addr_read_mode"}
                /\ (k = 0 \/ (k = 1 /\ p = "low_rise"))
    /\ s \in {"enable_scl", "write_slave_addr_write_mode", "write_word_addr", "write_data",
              "create_repeated_start_cond"} \/ (s = "create_start_cond" /\ p # "low_rise")
       \/ (s = "receive_ack" /\ m.next_state # "read_data") => ~c.is_read

\* It takes the transfer for a read once it has heard so.
ChipReads(m, c, p) ==
    LET s == m.outputs  k == BitNo(m, p) IN
    s = "read_data" \/ (s = "receive_ack" /\ m.next_state = "read_data")
       \/ (s = "write_slave_addr_read_mode" /\ (k # 0 \/ p # "low_rise")) => c.is_read

\* What the two drive onto the wires.
Wires(m, c, p) ==
    LET s == m.outputs  k == BitNo(m, p) IN
    /\ m.scl_enable <=>
          \/ s \in ByteStates \cup {"receive_ack", "create_repeated_start_cond", "send_ack"}
          \/ s = "enable_scl" /\ p = "low_fall"
          \/ s = "create_stop_cond" /\ p # "low_fall"
    /\ s = "receive_ack" /\ p = "low_fall" => m.is_ack_received
    /\ m.write_bits_used = IF s \in Sending THEN IF p = "low_rise" THEN k ELSE (k + 1) % 8 ELSE 0
    /\ m.read_bits_used = IF s = "read_data" THEN k ELSE 0
    /\ CASE Shown(m, p) = "send_ack"  -> c.sda_output = 0
         [] Shown(m, p) = "send_data" -> c.sda_output \in {0, 1}
         [] OTHER -> c.sda_output = Released
    /\ s \in {"i2c_nop", "write_to_ram"} => m.sda_output = 1
    /\ s = "create_start_cond" => m.sda_output = IF p = "low_rise" THEN 1 ELSE 0
    /\ s = "enable_scl" => m.sda_output = 0
    /\ s \in {"write_slave_addr_write_mode", "write_slave_addr_read_mode"} =>
          /\ k = 0 => m.sda_output = IF p = "low_rise" THEN 0 ELSE 1
          /\ k = 1 => m.sda_output = IF p = "low_rise" THEN 1 ELSE 0
    /\ s \in Sending /\ (k # 0 \/ p # "low_rise") => m.sda_output \in {0, 1}
    /\ s = "receive_ack" /\ p # "low_rise" => m.sda_output = Released
    /\ s = "read_data" => m.sda_output = Released
    /\ s = "create_repeated_start_cond" =>
          m.sda_output = CASE p = "low_rise" -> Released [] p = "low_fall" -> 0 [] OTHER -> 1
    /\ s = "send_ack" => m.sda_output = IF p = "low_rise" THEN Released ELSE 1
    /\ s = "create_stop_cond" =>
          CASE p = "low_rise" -> m.sda_output = IF m.eeprom_write_enable_bit THEN Released ELSE 1
            [] p = "low_fall" -> m.sda_output = 1
            [] OTHER -> m.sda_output = 0

\* The two state machines are in step, with SDA driven by one of them at a time.
ProtocolInv ==
    /\ OnCourse(master)
    /\ ChipPlaced(master, chip, phase)
    /\ ChipStarted(master, chip, phase)
    /\ ChipReads(master, chip, phase)
    /\ Wires(master, chip, phase)

\* The first k bits of two bytes are the same.
Agree(x, y, k) == k = 0 \/ x \div Weight(8 - k) = y \div Weight(8 - k)

\* The byte the request is about has been taken over.
AddressHeard(m, p) ==
    LET s == m.outputs  n == m.next_state IN
    \/ s \in {"create_repeated_start_cond", "write_slave_addr_read_mode", "read_data", "write_data"}
    \/ s = "receive_ack" /\ n \in {"read_data", "create_stop_cond"}
    \/ s = "receive_ack" /\ n \in {"create_repeated_start_cond", "write_data"} /\ ~Early(p)

\* The byte has been stored, or read.
DoneAt(m, p) ==
    LET s == m.outputs  n == m.next_state IN
    \/ s \in {"send_ack", "create_stop_cond", "write_to_ram"}
    \/ s = "receive_ack" /\ n = "create_stop_cond" /\ ~Early(p)

\* How far address a and byte v, or the byte stored at a, have come bit by bit.
Carried(m, c, p, a, v) ==
    LET s == m.outputs  n == m.next_state  k == BitNo(m, p) IN
    /\ s \in Sending /\ p # "low_rise" => m.sda_output = Bit(SentByte(m, a, v), 7 - k)
    /\ s = "write_word_addr" => Agree(c.received_data, a, k)
    /\ s = "receive_ack" /\ n \in {"create_repeated_start_cond", "write_data"} /\ Early(p) =>
          c.received_data = a
    /\ AddressHeard(m, p) => c.mem_address = a
    /\ s = "write_data" => Agree(c.received_data, v, k)
    /\ s = "receive_ack" /\ n = "create_stop_cond" /\ Early(p) => c.received_data = v
    /\ s = "read_data" => /\ Agree(m.data_out, Stored(c.eeprom, a), k)
                          /\ ~Early(p) => c.sda_output = Bit(Stored(c.eeprom, a), 7 - k)

\* What the state machine takes for a request.
Starts(m, control) ==
    m.start_read_procedure \/ (m.start_write_procedure /\ Bit(control, 2) = 1)

NoDumps == dump_clocks = 0 /\ request # "dump"

\* A request, from the strobe to the answer.
CarryInv ==
    Pending =>
        /\ served <=> DoneAt(master, phase)
        /\ ~Idle(master) => (master.eeprom_write_enable_bit <=> request = "write")
        /\ request = "write" => ~master.start_read_procedure
        /\ eeadr_int = ram_block[EEADR_ADDRESS] /\ eedata_int = ram_block[EEDATA_ADDRESS]
        /\ Carried(master, chip, phase, eeadr_int, eedata_int)
        /\ since = 1 /\ ~Idle(master) => Left(master, phase) + SinceEdge >= 4 * RamWait + 12

\* Without one, the master has nothing to do but hold the last answer.
RestInv ==
    request = "none" =>
        /\ ~served
        /\ master.outputs \in {"i2c_nop", "write_to_ram"} /\ master.next_state = "i2c_nop"
        /\ WritesToRam(master) => /\ ram_block[EEDATA_ADDRESS] = master.data_out
                                  /\ CompletesWrite(master) => Bit(ram_block[EECON_ADDRESS], 4) = 1
        /\ since = 0 => /\ eecon_int % 4 = 0 /\ Unasked(master) /\ reset_eecon
                        /\ Port!Asked(ram_block[EECON_ADDRESS]) = "none"
        /\ since = 1 => /\ Port!Asked(eecon_int) = "none"
                        /\ Bit(ram_block[EECON_ADDRESS], 2) = Bit(eecon_int, 2)
        /\ since > 0 =>
              \/ ~Starts(master, eecon_int)
              \/ /\ since = 2 /\ SinceEdge < Age(phase) /\ WritesToRam(master)
                 /\ Left(master, phase) + SinceEdge >= 9

\* What is on its way over the two wires, and what EepromPort says of it, agree.
TransferInv ==
    /\ NoDumps /\ CarryInv /\ RestInv
    /\ master.outputs # "read_data" => buffer = master.data_out

\* Steps since the strobe of the dump was last put on eecon.
DumpTime == (((dump_counter + 4) % 7) + since) * period + SinceEdge

\* The registers of ram.vhd.
DumpCells ==
    /\ \/ dump_clocks + dump_counter + 7 * dump_addr = DumpSteps
       \/ dump_clocks + dump_counter = 1 /\ dump_addr = 0
    /\ ram_block[EECON_ADDRESS] % 4 = IF dump_counter \in {2, 3} THEN 1 ELSE 0
    /\ eecon_int % 4 = IF dump_counter \in {3, 4} THEN 1 ELSE 0
    /\ ram_block[EEADR_ADDRESS] = IF dump_counter = 0 THEN 0 ELSE dump_addr
    /\ dump_counter \in 2..6 => eeadr_int = dump_addr
    /\ ~reset_eecon
    /\ since > 0 => dump_clocks = 0

\* What the master has seen of the strobe, and where it is.
DumpCourse ==
    /\ ~master.start_write_procedure
    /\ master.start_read_procedure <=> Age(phase) <= DumpTime /\ DumpTime < 2 * period + Age(phase)
    /\ IF Idle(master)
       THEN dump_counter \in 3..6 =>
            \/ DumpTime < Age(phase)
            \/ phase = "high_rise" /\ DumpTime <= 4
            \/ phase = "low_fall" /\ DumpTime <= 5
            \/ DumpTime >= 4 * RamWait + 170
       ELSE /\ ~master.eeprom_write_enable_bit
            /\ Left(master, phase) + DumpTime \in 4 * RamWait + 171..4 * RamWait + 174

\* The read under way.
DumpCarry ==
    dump_counter \in {3, 4, 5} =>
        /\ Carried(master, chip, phase, eeadr_int, eedata_int)
        /\ DoneAt(master, phase) \/ (Idle(master) /\ DumpTime > 5) =>
              master.data_out = Stored(chip.eeprom, dump_addr)

DumpedInv ==
    \A a \in 0..EepromSize - 1 :
        \/ a < dump_addr \/ (a = dump_addr /\ dump_counter = 6)
        \/ dump_clocks + dump_counter + 7 * dump_addr # DumpSteps
        => eeprom_dump_int[a] = Stored(chip.eeprom, a)

\* A dump, from its first clock to the end of the pause after it.
DumpingInv ==
    /\ period \in DumpPeriods
    /\ DumpCells /\ DumpCourse /\ DumpCarry /\ DumpedInv
    /\ master.outputs # "read_data" => buffer = master.data_out

PathInv == IF request = "dump" THEN DumpingInv ELSE TransferInv
=============================================================================
