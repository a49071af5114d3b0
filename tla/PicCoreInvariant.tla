------------------------- MODULE PicCoreInvariant -------------------------
(***************************************************************************)
(* The inductive invariants behind ExactlyOnce, AnswerInTime and           *)
(* ImplementsIsa: where the word, the instruction and the answer are at    *)
(* every clock edge, and what the registers between the stages hold.       *)
(***************************************************************************)
EXTENDS PicCoreProperties

\* The half of the clock period, the rising edges since the last word ended,
\* and the bits of the word being sent that have been shifted in.
Tick == IF clk THEN 1 ELSE 0
Lows == idle_edges + Tick
Received == IF mosi THEN sent_bits - 1 + Tick ELSE 0

\* The rising edges until a Busy instruction whose next state is s is over.
Rank(s) ==
    CASE s = "do_nop"                 -> 1
      [] s \in {"do_wreg", "do_ram_write", "do_result"} -> 2
      [] s = "do_wait"                -> 3
      [] s \in {"do_alu", "do_ram_dump"} -> 4
      [] s = "do_alu_input_sel"       -> 5
      [] s = "do_ram_read"            -> 6
      [] s = "do_eeprom_dump"         -> EepromDumpWait + 4

Left == IF state = "do_eeprom_dump" /\ next_state = "do_wait"
        THEN EepromDumpWait - cycles_waited + 4 - Tick
        ELSE Rank(next_state)

\* The states an instruction passes through, and the last of them.
Path(type) ==
    {"do_nop"} \cup
    CASE type = Literal    -> {"do_alu_input_sel", "do_alu", "do_wreg"}
      [] type = ToWreg     -> {"do_ram_read", "do_alu_input_sel", "do_alu", "do_wreg"}
      [] type = ToRam      -> {"do_ram_read", "do_alu_input_sel", "do_alu", "do_ram_write"}
      [] type = ReadReg    -> {"do_alu", "do_wait", "do_result"}
      [] type = ReadMem    -> {"do_ram_read", "do_alu_input_sel", "do_alu", "do_wait",
                               "do_result"}
      [] type = DumpRam    -> {"do_ram_dump", "do_wait", "do_result"}
      [] type = DumpEeprom -> {"do_eeprom_dump", "do_wait", "do_result"}

LastState(type) == CASE type \in {Literal, ToWreg} -> "do_wreg"
                     [] type = ToRam               -> "do_ram_write"
                     [] OTHER                      -> "do_result"

ResultLines == {"result", "result_ram_dump", "result_eeprom_dump"}

\* What a reset leaves behind.
Cleared == /\ counter = 0 /\ ~trig_instruction_process /\ ~trig_state_machine
           /\ ~Busy /\ ~miso /\ idx = 0
           /\ ~wait_for_state_change /\ num_wait_cycles = 0 /\ cycles_waited = 0

LinkInv ==
    /\ mosi <=> sent_bits \in 1..FRAME_BITS
    /\ mosi => serial_in = frame[FRAME_BITS - sent_bits]
    /\ sent_bits = 0 => idle_edges = MinIdle
    /\ reset => Cleared

ReceiveInv ==
    ~reset =>
    /\ mosi => ~trig_instruction_process
    /\ Received > 0 =>
         /\ mosi_detected /\ counter = 5
         /\ \A j \in 0..Received - 1 : binary_string[j] = frame[FRAME_BITS - Received + j]
    /\ Sending /\ Received = 0 => counter = 0
    /\ ~Sending /\ counter > 0 =>
         /\ mosi_detected /\ binary_string = frame
         /\ counter + Lows = 5
         /\ trig_instruction_process <=> counter < 3
    /\ trig_instruction_process /\ counter = 0 => Lows = 5

DecoderInv ==
    /\ ~Sending /\ counter > 0 => ~Busy
    /\ trig_instruction_process /\ counter < 2 =>
         trig_state_machine /\ decoded = Decode(binary_string)
    /\ trig_instruction_process /\ counter = 0 =>
         /\ next_state = Dispatch(decoded.type)
         /\ state = IF clk THEN "do_nop" ELSE next_state
    /\ trig_state_machine =>
         \/ trig_instruction_process /\ counter < 2
         \/ counter = 0 /\ state # "do_nop" /\ next_state # "do_nop"

SequencerInv ==
    /\ state \in Path(decoded.type) /\ next_state \in Path(decoded.type)
    /\ ~clk => \/ state = next_state
               \/ state = "do_eeprom_dump" /\ next_state = "do_wait"
    /\ clk /\ ~reset => (wait_for_state_change <=> state = "do_eeprom_dump")
    /\ clk /\ state = "do_eeprom_dump" => next_state = "do_wait"
    /\ num_wait_cycles = IF wait_for_state_change THEN EepromDumpWait ELSE 0
    /\ cycles_waited > 0 => state = "do_eeprom_dump" /\ next_state = "do_wait"
    /\ clk /\ state = "do_nop" => enables = {}
    /\ enables \cap ResultLines # {} => next_state = "do_nop"
    /\ Busy => next_state # "do_nop" \/ enables # {}
    /\ enables # {} /\ next_state = "do_nop" =>
         enables = Asserted(LastState(decoded.type), decoded.type)

BusyInv ==
    Busy =>
    IF decoded.type \notin Readable THEN Left + Received <= 6
    ELSE /\ ~Sending
         /\ reader = decoded.type
         /\ ~miso /\ ~miso_trigger /\ data = <<>>
         /\ timeout + 2 * Left + Tick <= 40 + 2 * RunClocks(reader)

AnswerInv ==
    /\ idx > 0 => miso
    /\ InTransit =>
         /\ reader = IF Decode(frame).type \in Readable THEN Decode(frame).type
                     ELSE NoReader
         /\ ~miso_trigger /\ data = <<>>
         /\ Reading => timeout <= Tick + IF Sending THEN 2 * sent_bits
                                         ELSE 30 + 2 * idle_edges
    /\ miso =>
         /\ Reading /\ ~InTransit /\ ~Busy
         /\ IF miso_trigger THEN Len(data) + idx + Tick = 8 * AnswerBytes
            ELSE clk /\ idx = 8 * AnswerBytes /\ data = <<>>
         /\ timeout + 2 * idx + Tick <= 40 + 2 * RunClocks(reader) + 16 * AnswerBytes
    /\ Reading /\ ~reset /\ ~InTransit /\ ~miso => Busy /\ decoded.type \in Readable

\* Each word is on the link, in the sequencer or answered, and where it is
\* agrees with every count that the host and the board keep of it.
ControlInv == LinkInv /\ ReceiveInv /\ DecoderInv /\ SequencerInv /\ BusyInv /\ AnswerInv

-----------------------------------------------------------------------------
(***************************************************************************)
(* The data, of programs without DUMP_EEPROM, whose bytes the I2C master   *)
(* fetches.                                                                *)
(***************************************************************************)
NoEepromDump == \A word \in Commands : Decode(word).type # DumpEeprom

\* The fields of an instruction that say where it takes its operand from and
\* where its result goes are one with its type.
Consistent(i) ==
    /\ i.type # DumpEeprom
    /\ i.to_ram <=> i.type = ToRam
    /\ i.to_sw <=> i.type \in {ReadReg, ReadMem}
    /\ i.from_ram <=> i.type \in {ToWreg, ToRam, ReadMem}
    /\ i.type = ReadReg => i.opcode \in {READ_WREG, READ_STATUS}

DecodedInv == Consistent(decoded) /\ Consistent(Decode(frame)) /\ reader # DumpEeprom

\* The lines that are up are those of one state of the instruction, and the
\* sequencer is in that state, or after the falling edge in the one it leads to.
LeadsOn(s, q) == IF s = "do_nop" THEN q \in {"do_nop", Dispatch(decoded.type)}
                 ELSE q = Successor(s, FALSE, decoded.type)

PipelineInv ==
    /\ clk => enables = Asserted(state, decoded.type) /\ LeadsOn(state, next_state)
    /\ ~clk => /\ next_state = state
               /\ \E s \in Path(decoded.type) :
                      enables = Asserted(s, decoded.type) /\ LeadsOn(s, state)

\* What a read of the memory can have returned by now: TMR0, while it follows the
\* external count, moves on after it was read.
Fetched == IF Target(decoded.address) = TMR0_ADDRESS /\ Following THEN Byte
           ELSE ReadRam(decoded.address)

OperandInv ==
    /\ "alu_input_mux" \in enables /\ decoded.from_ram => from_ram_to_alu \in Fetched
    /\ "alu" \in enables =>
         /\ status_in_alu = ram_block[STATUS_ADDRESS]
         /\ decoded.from_ram => output_mux \in Fetched
         /\ decoded.type = Literal => output_mux = decoded.literal

\* The clock that ends a strobe of EECON belongs to no instruction and no answer.
StrobeInv == reset_eecon => ~Busy /\ ~miso

\* The bit of the answer that is sent when j more are to follow.
SentBit(j) == Bit(to_send[j \div 8], j % 8)

ShiftInv ==
    miso => /\ to_send = IF reader = DumpRam THEN ram_dump_int
                         ELSE [i \in {0} |-> alu_output_int]
            /\ \A k \in 1..Len(data) : data[k] = SentBit(8 * AnswerBytes - k)
            /\ clk /\ miso_trigger => alu_output_raspi = SentBit(idx)

\* A board in reset sends nothing to a thread that waits for its answer.
QuietInv == reset /\ Reading => ~miso_trigger /\ data = <<>>

\* Every register between two stages holds what the next stage takes it for.
DataInv == DecodedInv /\ PipelineInv /\ OperandInv /\ StrobeInv /\ ShiftInv /\ QuietInv
=============================================================================
