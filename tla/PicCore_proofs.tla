--------------------------- MODULE PicCore_proofs ---------------------------
(***************************************************************************)
(* TypeOK and ControlInv are invariants, and what follows from them: every *)
(* word is executed exactly once, every answer is read in time, and the    *)
(* two copies of the flags agree.                                          *)
(***************************************************************************)
EXTENDS PicCoreInvariant, RamTheorems

(***************************************************************************)
(* Type correctness, entity by entity: on a rising edge each keeps its     *)
(* signals in range, given that its inputs are.                            *)
(***************************************************************************)
\* Whatever word arrives, the decoder's outputs fit their ports.
LEMMA DecodeType == ASSUME NEW word \in Word PROVE Decode(word) \in Decoded
<1>1. /\ Slice(word, 13, 8) \in 0..63 /\ 4 * Slice(word, 13, 10) \in 0..63
      /\ Slice(word, 9, 7) \in 0..7 /\ Slice(word, 6, 0) \in 0..127
      /\ Slice(word, 7, 0) \in 0..255
  BY SliceType, SMT
<1>2. Decode(word).opcode \in 0..63
  BY <1>1 DEF Decode
<1>3. Decode(word).bit_idx \in 0..7
  BY <1>1 DEF Decode
<1>4. Decode(word).address \in 0..127
  BY <1>1 DEF Decode
<1>5. Decode(word).literal \in 0..255
  BY <1>1 DEF Decode
<1>6. /\ Decode(word).from_ram \in BOOLEAN /\ Decode(word).to_ram \in BOOLEAN
      /\ Decode(word).to_sw \in BOOLEAN
  BY DEF Decode
<1>7. Decode(word).type \in InstructionType
  BY DEF Decode, InstructionType
<1>8. Decode(word) = [opcode |-> Decode(word).opcode, bit_idx |-> Decode(word).bit_idx,
         address |-> Decode(word).address, literal |-> Decode(word).literal,
         from_ram |-> Decode(word).from_ram, to_ram |-> Decode(word).to_ram,
         to_sw |-> Decode(word).to_sw, type |-> Decode(word).type]
  BY DEF Decode
<1> QED
  BY <1>2, <1>3, <1>4, <1>5, <1>6, <1>7, <1>8, SMT DEF Decoded

\* The ALU's result is a byte.
LEMMA ValueType ==
  ASSUME NEW op \in 0..63, NEW w \in Byte, NEW m \in Byte, NEW s \in Byte,
         NEW b \in 0..7
  PROVE  Value(op, w, m, s, b) \in Byte
<1> DEFINE sum == (m + Addend(op, w, 256)) % 256
<1>1. w \in 0..255 /\ m \in 0..255 /\ s \in 0..255
  BY DEF Byte
<1>2. sum \in Byte
  <2>1. Addend(op, w, 256) \in Int
    BY <1>1, SMT DEF Addend, Negated
  <2> QED
    BY <1>1, <2>1, SMT DEF Byte
<1>3. /\ BitAnd(w, m) \in Byte /\ BitOr(w, m) \in Byte
      /\ BitXor(w, m) \in Byte /\ BitNot(m) \in Byte
  BY BitwiseType
<1>4. PutBit(m, b, 0) \in Byte /\ PutBit(m, b, 1) \in Byte
  BY PutBitType
<1>5. (m + 255) % 256 \in Byte /\ (m + 1) % 256 \in Byte /\ 0 \in Byte
  BY <1>1, SMT DEF Byte
<1>6. Swap(m) \in Byte
  BY <1>1, SMT DEF Swap, Byte
<1>7. ((2 * m) % 256) + (s % 2) \in Byte /\ (m \div 2) + 128 * (s % 2) \in Byte
  BY <1>1, SMT DEF Byte
<1> QED
  BY <1>1, <1>2, <1>3, <1>4, <1>5, <1>6, <1>7, SMT DEF Value

\* So are status_out, alu_output and the variable result.
LEMMA AluOutputsType ==
  ASSUME NEW op \in 0..63, NEW w \in Byte, NEW m \in Byte, NEW s \in Byte,
         NEW b \in 0..7, NEW flags \in Byte, NEW last \in Byte, NEW out \in Byte
  PROVE  /\ Flags(op, w, m, s, b, flags, last) \in Byte
         /\ Output(op, w, m, s, b, out) \in Byte
         /\ LastResult(op, w, m, s, b, last) \in Byte
<1> DEFINE v == Value(op, w, m, s, b)
<1>1. w \in 0..255 /\ m \in 0..255
  BY DEF Byte
<1>2. v \in Byte
  BY ValueType
<1>3. Carry(op, w, m) \in Nat /\ DigitCarry(op, w, m) \in Nat
  <2>1. Addend(op, w, 256) \in Nat /\ Addend(op, w, 16) \in Nat
    BY <1>1, SMT DEF Addend, Negated
  <2> QED
    BY <1>1, <2>1, SMT DEF Carry, DigitCarry
<1>4. \A x : Zero(x) \in {0, 1}
  BY DEF Zero
<1>5. 4 * Zero(v) + 2 * DigitCarry(op, w, m) + Carry(op, w, m) \in Nat
  BY <1>3, <1>4, SMT
<1>6. /\ PutLow(flags, 8, 4 * Zero(v) + 2 * DigitCarry(op, w, m) + Carry(op, w, m))
           \in Byte
      /\ PutBit(flags, 2, Zero(v)) \in Byte /\ PutBit(flags, 2, Zero(last)) \in Byte
      /\ PutBit(s, 0, Bit(m, 7)) \in Byte /\ PutBit(s, 0, Bit(m, 0)) \in Byte
  <2>1. Bit(m, 7) \in {0, 1} /\ Bit(m, 0) \in {0, 1}
    BY <1>1, BitType, SMT
  <2>2. PutLow(flags, 8, 4 * Zero(v) + 2 * DigitCarry(op, w, m) + Carry(op, w, m))
          \in Byte
    BY <1>5, PutLowType
  <2>3. Zero(v) \in {0, 1} /\ Zero(last) \in {0, 1} /\ 2 \in 0..7 /\ 0 \in 0..7
    BY <1>4, SMT
  <2> QED
    BY <2>1, <2>2, <2>3, PutBitType
<1>7. Flags(op, w, m, s, b, flags, last) \in Byte
  <2>1. 0 \in Byte
    BY DEF Byte
  <2>2. Flags(op, w, m, s, b, flags, last) \in
          {PutLow(flags, 8, 4 * Zero(v) + 2 * DigitCarry(op, w, m) + Carry(op, w, m)),
           PutBit(flags, 2, Zero(v)), PutBit(flags, 2, Zero(last)),
           PutBit(s, 0, Bit(m, 7)), PutBit(s, 0, Bit(m, 0)), s, flags, 0}
    BY Zenon DEF Flags
  <2> QED
    BY <1>6, <2>1, <2>2
<1> QED
  BY <1>2, <1>7 DEF Output, LastResult

\* The cleared word.
LEMMA ZeroWordType == ZeroWord \in Word
BY SMT DEF ZeroWord, Word

\* input_receive shifts bits into a word and counts within 0..5.
LEMMA ReceiveStep ==
  ASSUME ReceiveType, mosi \in BOOLEAN, serial_in \in {0, 1},
         ReceiveRise(mosi, serial_in)
  PROVE  ReceiveType'
<1> USE DEF ReceiveType
<1>1. CASE ShiftIn(serial_in)
  BY <1>1, SMT DEF ShiftIn, Shift, Word, FRAME_BITS
<1>2. CASE CountDown
  BY <1>2, SMT DEF CountDown
<1>3. CASE ClearInput
  <2>1. binary_string' \in Word
    BY <1>3, ZeroWordType DEF ClearInput
  <2>2. counter' \in 0..5
    BY <1>3, SMT DEF ClearInput
  <2> QED
    BY <1>3, <2>1, <2>2, Zenon DEF ClearInput
<1> QED
  BY <1>1, <1>2, <1>3 DEF ReceiveRise

\* The decoder latches what Decode makes of a word.
LEMMA DecoderStep ==
  ASSUME DecoderType, trig_instruction_process \in BOOLEAN, binary_string \in Word,
         DecoderRise(trig_instruction_process, binary_string)
  PROVE  DecoderType'
BY DecodeType DEF DecoderType, DecoderRise

\* The sequencer moves between its states and drives only its own lines.
LEMMA SuccessorType ==
  ASSUME NEW s, NEW trig, NEW type
  PROVE  Successor(s, trig, type) \in PicState
<1>1. Dispatch(type) \in PicState
  BY Zenon DEF Dispatch, PicState
<1>2. AfterAlu(type) \in PicState
  BY Zenon DEF AfterAlu, PicState
<1> QED
  BY <1>1, <1>2, ZenonT(30) DEF Successor, PicState

\* The lines a state asserts are enable lines.
LEMMA AssertedType ==
  ASSUME NEW s, NEW type
  PROVE  Asserted(s, type) \in SUBSET EnableLine
BY SMT DEF Asserted, ResultLine, EnableLine

\* A rising edge leaves the sequencer within its types.
LEMMA SequencerStep ==
  ASSUME SequencerType, NEW trig, NEW type, SequencerRise(trig, type)
  PROVE  SequencerType'
<1>1. next_state' \in PicState /\ state' \in PicState
  BY SuccessorType DEF SequencerType, SequencerRise
<1>2. enables' \in SUBSET EnableLine
  BY AssertedType DEF SequencerType, SequencerRise
<1>3. wait_for_state_change' \in BOOLEAN
  BY DEF SequencerRise
<1>4. num_wait_cycles' \in 0..EepromDumpWait /\ cycles_waited' \in 0..EepromDumpWait
  BY EepromDumpWaitAssumption, SMT DEF SequencerType, SequencerRise
<1> QED
  BY <1>1, <1>2, <1>3, <1>4 DEF SequencerType

\* cycles_waited stops at num_wait_cycles.
LEMMA SequencerFallStep ==
  ASSUME SequencerType, SequencerFall
  PROVE  SequencerType'
<1>1. cycles_waited' \in 0..EepromDumpWait
  BY EepromDumpWaitAssumption, SMT DEF SequencerType, SequencerFall
<1> QED
  BY <1>1 DEF SequencerType, SequencerFall

\* The ALU's registers hold bytes.
LEMMA AluStep ==
  ASSUME AluType, NEW enable, NEW opcode \in 0..63, NEW w \in Byte, NEW m \in Byte,
         NEW s \in Byte, NEW b \in 0..7, AluRise(enable, opcode, w, m, s, b)
  PROVE  AluType'
<1>1. CASE ~enable
  BY <1>1 DEF AluRise, AluType, alu_vars
<1>2. CASE enable
  <2> DEFINE op == IF skip_next THEN NOP ELSE opcode
  <2>1. op \in 0..63
    BY SMT DEF NOP
  <2>2. /\ alu_output_int' = Output(op, w, m, s, b, alu_output_int)
        /\ status_out_alu' = Flags(op, w, m, s, b, status_out_alu, result)
        /\ result' = LastResult(op, w, m, s, b, result)
        /\ skip_next' = Skips(op, m)
    BY <1>2 DEF AluRise, Compute
  <2>3. skip_next' \in BOOLEAN
    BY <2>2 DEF Skips
  <2> HIDE DEF op
  <2> QED
    BY <2>1, <2>2, <2>3, AluOutputsType DEF AluType
<1> QED
  BY <1>1, <1>2

\* W and the multiplexer's output take over bytes.
LEMMA DatapathStep ==
  ASSUME DatapathType, NEW wreg, NEW mux, NEW sel, NEW d \in Byte, NEW r \in Byte,
         NEW l \in Byte, WRegisterRise(wreg, d), InputMuxRise(mux, sel, r, l)
  PROVE  DatapathType'
<1>1. w_output_int' \in Byte
  BY DEF DatapathType, WRegisterRise
<1>2. output_mux' \in Byte
  BY Zenon DEF DatapathType, InputMuxRise
<1> QED
  BY <1>1, <1>2 DEF DatapathType

\* The shifter never reads beyond what it was loaded with.
LEMMA OutputStep ==
  ASSUME OutputType, RamType, NEW en, NEW d \in Byte,
         OutputRise(en, d, ram_dump_int, RamSize, eeprom_dump_int, EepromSize)
  PROVE  OutputType'
<1>1. ASSUME NEW n \in 0..256, NEW bytes \in [0..n - 1 -> Byte], Load(bytes, n)
      PROVE  OutputType'
  <2>1. 8 * n \in 0..8 * n
    BY SMT
  <2> QED
    BY <1>1, <2>1 DEF Load, OutputType
<1>2. ASSUME idx > 0, ShiftOut PROVE OutputType'
  <2>1. PICK n \in 0..256 : idx \in 0..8 * n /\ to_send \in [0..n - 1 -> Byte]
    BY DEF OutputType
  <2>2. idx' \in 0..8 * n
    BY <1>2, <2>1, SMT DEF ShiftOut
  <2>3. alu_output_raspi' \in {0, 1}
    <3>1. (idx - 1) \div 8 \in 0..n - 1 /\ (idx - 1) % 8 \in 0..7
      BY <1>2, <2>1, SMT
    <3>2. to_send[(idx - 1) \div 8] \in Nat
      <4>1. to_send[(idx - 1) \div 8] \in Byte
        BY <2>1, <3>1
      <4> QED
        BY <4>1, SMT DEF Byte
    <3> QED
      BY <1>2, <3>1, <3>2, BitType DEF ShiftOut
  <2> QED
    BY <1>2, <2>1, <2>2, <2>3 DEF ShiftOut, OutputType
<1>3. ASSUME to_send' = NothingToSend, idx' = 0, miso' = FALSE, alu_output_raspi' = 0
      PROVE  OutputType'
  <2>1. 0 \in 0..256 /\ 0 \in 0..8 * 0 /\ NothingToSend \in [0..0 - 1 -> Byte]
    BY SMT DEF NothingToSend
  <2> QED
    BY <1>3, <2>1 DEF OutputType
<1>4. /\ RamSize \in 0..256 /\ EepromSize \in 0..256 /\ 1 \in 0..256
      /\ ram_dump_int \in [0..RamSize - 1 -> Byte]
      /\ eeprom_dump_int \in [0..EepromSize - 1 -> Byte]
      /\ [i \in {0} |-> d] \in [0..1 - 1 -> Byte]
  BY MemoryAssumption, SMT DEF RamType, Memory, RamAddress, Eeprom
<1>5. \/ idx > 0 /\ ShiftOut
      \/ Load(eeprom_dump_int, EepromSize)
      \/ Load(ram_dump_int, RamSize)
      \/ Load([i \in {0} |-> d], 1)
      \/ to_send' = NothingToSend /\ idx' = 0 /\ miso' = FALSE /\ alu_output_raspi' = 0
  BY Zenon DEF OutputRise
<1> QED
  BY <1>1, <1>2, <1>3, <1>4, <1>5

\* The edge counters of the timer.
LEMMA TimerStep ==
  ASSUME TimerType, NEW edge,
         RisingInput(reset, edge) \/ FallingInput(reset, edge)
  PROVE  TimerType'
<1>1. data_out_rising + 1 \in Nat /\ data_out_falling + 1 \in Nat
  BY SMT DEF TimerType, Byte
<1> QED
  BY <1>1, ModByte DEF TimerType, RisingInput, FallingInput

\* The host's side: the frame's bits, and the answer's, are 0 or 1.
LEMMA HostFallStep ==
  ASSUME HostType, OutputType, HostFall(miso, alu_output_raspi)
  PROVE  HostType'
<1>1. mosi' \in BOOLEAN /\ frame' \in Word
  BY DEF HostFall, SenderFall, HostType
<1>2. serial_in' \in {0, 1}
  <2>1. sent_bits < FRAME_BITS => frame[FRAME_BITS - 1 - sent_bits] \in {0, 1}
    BY SMT DEF HostType, Word, FRAME_BITS
  <2> QED
    BY <2>1 DEF HostFall, SenderFall, HostType
<1>3. sent_bits' \in 0..Done
  BY SMT DEF HostFall, SenderFall, HostType, Sending, Done, FRAME_BITS
<1>4. idle_edges' \in 0..MinIdle
  BY HostAssumption, SMT DEF HostFall, SenderFall, HostType
<1>5. reader' \in Readable \cup {NoReader}
  BY DEF HostFall, ReaderFall, HostType
<1>6. miso_trigger' \in BOOLEAN
  BY DEF HostFall, ReaderFall, HostType, OutputType
<1>7. data' \in Seq({0, 1})
  BY SMT DEF HostFall, ReaderFall, HostType, OutputType
<1>8. timeout' \in Nat
  BY SMT DEF HostFall, ReaderFall, HostType
<1> QED
  BY <1>1, <1>2, <1>3, <1>4, <1>5, <1>6, <1>7, <1>8 DEF HostType

\* A rising edge leaves the registers of the host within their types.
LEMMA HostRiseStep == ASSUME HostType, HostRise PROVE HostType'
<1>1. timeout' \in Nat
  BY SMT DEF HostType, HostRise, ReaderRise
<1>2. reader' \in Readable \cup {NoReader}
  BY DEF HostType, HostRise, ReaderRise
<1> QED
  BY <1>1, <1>2 DEF HostType, HostRise, ReaderRise

\* So does the start of a new word.
LEMMA SendCommandStep ==
  ASSUME HostType, NEW word \in Word, SendCommand(word)
  PROVE  HostType'
<1>1. sent_bits' \in 0..Done /\ timeout' \in Nat
  BY SMT DEF SendCommand, Done, FRAME_BITS
<1>2. data' \in Seq({0, 1})
  BY DEF SendCommand
<1> QED
  BY <1>1, <1>2 DEF HostType, SendCommand

\* A reset leaves every entity in range.
LEMMA ResetTypes ==
  /\ ReceiveReset => ReceiveType'
  /\ DecoderResetStep => DecoderType'
  /\ SequencerReset => SequencerType'
  /\ AluReset => AluType'
  /\ DatapathReset => DatapathType'
  /\ RamType /\ RamReset => RamType'
  /\ OutputReset => OutputType'
  /\ TimerType /\ TimerReset => TimerType'
<1>1. 0 \in Byte
  BY SMT DEF Byte
<1>2. DecoderReset \in Decoded
  BY SMT DEF DecoderReset, Decoded, InstructionType
<1>4. /\ 0 \in 0..5 /\ 0 \in 0..6 /\ 0 \in 0..EepromDumpWait /\ 0 \in 0..256 /\ 0 \in 0..8 * 0
  BY MemoryAssumption, EepromDumpWaitAssumption, SMT
<1>5. NothingToSend \in [0..0 - 1 -> Byte]
  BY SMT DEF NothingToSend
<1>6. ReceiveReset => ReceiveType'
  BY <1>4, ZeroWordType DEF ReceiveReset, ReceiveType
<1>7. DecoderResetStep => DecoderType'
  BY <1>2 DEF DecoderResetStep, DecoderType
<1>8. SequencerReset => SequencerType'
  BY <1>4 DEF SequencerReset, SequencerType, PicState
<1>9. AluReset => AluType'
  BY <1>1 DEF AluReset, AluType
<1>10. DatapathReset => DatapathType'
  BY <1>1 DEF DatapathReset, DatapathType
<1>11. RamType /\ RamReset => RamType'
  BY RamResetType DEF RamType
<1>12. OutputReset => OutputType'
  BY <1>4, <1>5 DEF OutputReset, OutputType
<1>13. TimerType /\ TimerReset => TimerType'
  BY <1>1 DEF TimerReset, TimerType
<1> QED
  BY <1>6, <1>7, <1>8, <1>9, <1>10, <1>11, <1>12, <1>13

\* TypeOK holds of a board just powered up and an idle host.
LEMMA InitTypes == Init => TypeOK
<1> SUFFICES ASSUME Init PROVE TypeOK
  OBVIOUS
<1>1. /\ ReceiveInit /\ DecoderInit /\ SequencerInit /\ AluInit /\ DatapathInit
      /\ RamInit /\ OutputInit /\ TimerInit /\ HostInit
      /\ clk = FALSE /\ reset = FALSE
      /\ commands_sent = 0 /\ resets_done = 0 /\ timer_edges = 0
  BY DEF Init
<1>2. /\ 0 \in Byte /\ 0 \in 0..5 /\ 0 \in 0..6 /\ 0 \in 0..EepromSize - 1
      /\ 0 \in 0..EepromDumpWait /\ 0 \in 0..256 /\ 0 \in 0..8 * 0
      /\ NothingToSend \in [0..0 - 1 -> Byte]
      /\ Done \in 0..Done /\ MinIdle \in 0..MinIdle /\ 0 \in Nat
      /\ 0 \in 0..MaxCommands /\ 0 \in 0..MaxResets /\ 0 \in 0..MaxTimerEdges
  BY MemoryAssumption, EepromDumpWaitAssumption, HostAssumption, CoreAssumption, SMT
     DEF Byte, NothingToSend, Done, FRAME_BITS
<1>3. ReceiveType
  BY <1>1, <1>2, ZeroWordType DEF ReceiveInit, ReceiveType
<1>4. DecoderType
  <2>1. DecoderReset \in Decoded
    BY SMT DEF DecoderReset, Decoded, InstructionType
  <2> QED
    BY <1>1, <2>1 DEF DecoderInit, DecoderType
<1>5. SequencerType
  BY <1>1, <1>2 DEF SequencerInit, SequencerType, PicState
<1>6. AluType /\ DatapathType /\ TimerType
  BY <1>1, <1>2 DEF AluInit, AluType, DatapathInit, DatapathType, TimerInit, TimerType
<1>7. RamType
  BY <1>1, <1>2 DEF RamInit, RamType, ClearedRam, Memory, ClearedEeprom, Eeprom
<1>8. OutputType
  BY <1>1, <1>2 DEF OutputInit, OutputType
<1>9. HostType
  <2>1. data \in Seq({0, 1})
    BY <1>1, SMT DEF HostInit
  <2> QED
    BY <1>1, <1>2, <2>1, ZeroWordType DEF HostInit, HostType
<1> QED
  BY <1>1, <1>2, <1>3, <1>4, <1>5, <1>6, <1>7, <1>8, <1>9 DEF TypeOK

\* An entity whose signals do not change keeps its type.
LEMMA StutterTypes ==
  /\ ReceiveType /\ UNCHANGED receive_vars => ReceiveType'
  /\ DecoderType /\ UNCHANGED decoder_vars => DecoderType'
  /\ SequencerType /\ UNCHANGED sequencer_vars => SequencerType'
  /\ AluType /\ UNCHANGED alu_vars => AluType'
  /\ DatapathType /\ UNCHANGED datapath_vars => DatapathType'
  /\ RamType /\ UNCHANGED ram_vars => RamType'
  /\ OutputType /\ UNCHANGED output_vars => OutputType'
  /\ TimerType /\ UNCHANGED timer_vars => TimerType'
  /\ HostType /\ UNCHANGED host_vars => HostType'
<1>1. ReceiveType /\ UNCHANGED receive_vars => ReceiveType'
  BY DEF ReceiveType, receive_vars
<1>2. DecoderType /\ UNCHANGED decoder_vars => DecoderType'
  BY DEF DecoderType, decoder_vars
<1>3. SequencerType /\ UNCHANGED sequencer_vars => SequencerType'
  BY DEF SequencerType, sequencer_vars
<1>4. AluType /\ UNCHANGED alu_vars => AluType'
  BY DEF AluType, alu_vars
<1>5. DatapathType /\ UNCHANGED datapath_vars => DatapathType'
  BY DEF DatapathType, datapath_vars
<1>6. RamType /\ UNCHANGED ram_vars => RamType'
  BY DEF RamType, ram_vars
<1>7. OutputType /\ UNCHANGED output_vars => OutputType'
  BY DEF OutputType, output_vars
<1>8. TimerType /\ UNCHANGED timer_vars => TimerType'
  BY DEF TimerType, timer_vars
<1>9. HostType /\ UNCHANGED host_vars => HostType'
  BY DEF HostType, host_vars
<1> QED
  BY <1>1, <1>2, <1>3, <1>4, <1>5, <1>6, <1>7, <1>8, <1>9

\* Every rising edge that is not held in reset keeps the board in range.
LEMMA FpgaRiseTypes ==
  ASSUME TypeOK, FpgaRise
  PROVE  /\ ReceiveType' /\ DecoderType' /\ SequencerType' /\ AluType'
         /\ DatapathType' /\ RamType' /\ OutputType'
<1> USE DEF TypeOK
<1>1. /\ decoded.opcode \in 0..63 /\ decoded.bit_idx \in 0..7
      /\ decoded.address \in 0..127 /\ decoded.literal \in Byte
  BY SMT DEF DecoderType, Decoded, Byte
<1>2. /\ DataToSw(decoded, alu_output_int) \in Byte
      /\ DataToWreg(decoded, alu_output_int) \in Byte
      /\ DataToRam(decoded, alu_output_int) \in Byte
  <2>1. 0 \in Byte
    BY SMT DEF Byte
  <2> QED
    BY <2>1 DEF DataToSw, DataToWreg, DataToRam, AluType
<1>3. ReceiveType'
  BY ReceiveStep DEF FpgaRise, HostType
<1>4. DecoderType'
  BY DecoderStep DEF FpgaRise, ReceiveType
<1>5. SequencerType'
  BY SequencerStep DEF FpgaRise
<1>6. AluType'
  BY <1>1, AluStep DEF FpgaRise, DatapathType, RamType
<1>7. DatapathType'
  BY <1>1, <1>2, DatapathStep DEF FpgaRise, RamType
<1>8. RamType'
  <2>1. data_out_falling \in Byte /\ data_out_rising \in Byte /\ 0 \in Byte
    BY SMT DEF TimerType, Byte
  <2> QED
    BY <1>1, <1>2, <2>1, RamStep DEF FpgaRise, AluType
<1>9. OutputType'
  BY <1>2, OutputStep DEF FpgaRise
<1> QED
  BY <1>3, <1>4, <1>5, <1>6, <1>7, <1>8, <1>9

\* TypeOK is inductive.
LEMMA NextTypes == TypeOK /\ [Next]_vars => TypeOK'
<1> SUFFICES ASSUME TypeOK, [Next]_vars PROVE TypeOK'
  OBVIOUS
<1>1. CASE RisingEdge
  <2>1. /\ ReceiveType' /\ DecoderType' /\ SequencerType' /\ AluType'
        /\ DatapathType' /\ RamType' /\ OutputType'
    <3>1. CASE reset
      BY <1>1, <3>1, StutterTypes DEF RisingEdge, TypeOK, fpga_vars
    <3>2. CASE ~reset
      BY <1>1, <3>2, FpgaRiseTypes DEF RisingEdge
    <3> QED
      BY <3>1, <3>2
  <2>2. HostType'
    BY <1>1, HostRiseStep DEF RisingEdge, TypeOK
  <2>3. TimerType'
    BY <1>1, StutterTypes DEF RisingEdge, TypeOK
  <2> QED
    BY <1>1, <2>1, <2>2, <2>3 DEF RisingEdge, TypeOK, bound_vars
<1>2. CASE FallingEdge
  <2>1. SequencerType'
    BY <1>2, SequencerFallStep, StutterTypes DEF FallingEdge, TypeOK
  <2>2. HostType'
    BY <1>2, HostFallStep DEF FallingEdge, TypeOK
  <2>3. /\ ReceiveType' /\ DecoderType' /\ AluType' /\ DatapathType' /\ RamType'
        /\ OutputType' /\ TimerType'
    BY <1>2, StutterTypes DEF FallingEdge, TypeOK
  <2> QED
    BY <1>2, <2>1, <2>2, <2>3 DEF FallingEdge, TypeOK, bound_vars
<1>3. ASSUME UNCHANGED fpga_vars
      PROVE  /\ ReceiveType' /\ DecoderType' /\ SequencerType' /\ AluType'
             /\ DatapathType' /\ RamType' /\ OutputType'
  BY <1>3, StutterTypes DEF TypeOK, fpga_vars
<1>4. /\ UNCHANGED host_vars => HostType'
      /\ UNCHANGED timer_vars => TimerType'
  BY StutterTypes DEF TypeOK
<1>5. CASE Submit
  <2>1. HostType'
    BY <1>5, SendCommandStep, CoreAssumption DEF Submit, TypeOK
  <2>2. commands_sent' \in 0..MaxCommands
    BY <1>5, CoreAssumption, SMT DEF Submit, TypeOK
  <2> QED
    BY <1>3, <1>4, <1>5, <2>1, <2>2 DEF Submit, TypeOK
<1>6. CASE EnableReset
  <2>1. /\ ReceiveType' /\ DecoderType' /\ SequencerType' /\ AluType'
        /\ DatapathType' /\ RamType' /\ OutputType' /\ TimerType'
    BY <1>6, ResetTypes DEF EnableReset, FpgaReset, TypeOK
  <2>2. resets_done' \in 0..MaxResets
    BY <1>6, CoreAssumption, SMT DEF EnableReset, TypeOK
  <2> QED
    BY <1>4, <1>6, <2>1, <2>2 DEF EnableReset, TypeOK
<1>7. CASE DisableReset
  BY <1>3, <1>4, <1>7 DEF DisableReset, TypeOK, bound_vars
<1>8. CASE TimerEdge
  <2>1. TimerType'
    BY <1>8, TimerStep DEF TimerEdge, TypeOK
  <2>2. timer_edges' \in 0..MaxTimerEdges
    BY <1>8, CoreAssumption, SMT DEF TimerEdge, TypeOK
  <2> QED
    BY <1>3, <1>4, <1>8, <2>1, <2>2 DEF TimerEdge, TypeOK
<1>9. CASE UNCHANGED vars
  BY <1>3, <1>4, <1>9 DEF vars, TypeOK, bound_vars
<1> QED
  BY <1>1, <1>2, <1>5, <1>6, <1>7, <1>8, <1>9 DEF Next

\* Every signal of the board and every variable of the host stays in range: in
\* particular the shifter never reads past its bytes, a bit number never leaves
\* its word, and the memory stays a function into bytes for every size.
THEOREM TypeCorrect == Spec => []TypeOK
<1>1. Init => TypeOK
  BY InitTypes
<1>2. TypeOK /\ [Next]_vars => TypeOK'
  BY NextTypes
<1> QED
  BY <1>1, <1>2, PTL DEF Spec

-----------------------------------------------------------------------------
\* For the four sums the ALU's result is the byte of the sum.
LEMMA SumValue ==
  ASSUME NEW op \in Sums, NEW w, NEW m, NEW s, NEW b
  PROVE  Value(op, w, m, s, b) = (m + Addend(op, w, 256)) % 256
BY SMT DEF Value, Sums, ADDWF, ADDLW, SUBWF, SUBLW, ANDWF, ANDLW, IORWF, IORLW, XORWF, XORLW,
           BCF, BSF, COMF, DECF, DECFSZ, INCF, INCFSZ, MOVF, MOVLW, READ_ADDRESS, SWAPF, RLF,
           RRF, READ_WREG, READ_STATUS

\* The three flags, once written, are read back as they were written.
LEMMA FlagBits ==
  ASSUME NEW flags \in Byte, NEW z \in {0, 1}, NEW d \in {0, 1}, NEW c \in {0, 1}
  PROVE  LET f == PutLow(flags, 8, 4 * z + 2 * d + c) IN
         Bit(f, 0) = c /\ Bit(f, 1) = d /\ Bit(f, 2) = z
BY SMTT(30) DEF PutLow, Bit, Weight, Byte

\* W and the operand added.
LEMMA AdditionNumbers ==
  ASSUME NEW op \in {ADDWF, ADDLW}, NEW w \in Byte, NEW m \in Byte
  PROVE  /\ Carry(op, w, m) \in {0, 1} /\ DigitCarry(op, w, m) \in {0, 1}
         /\ ((m + Addend(op, w, 256)) % 256) + 256 * Carry(op, w, m) = m + w
         /\ (DigitCarry(op, w, m) = 1 <=> (m % 16) + (w % 16) > 15)
<1>1. \A n : Addend(op, w, n) = w % n
  BY SMT DEF Addend, ADDWF, ADDLW, SUBWF, SUBLW
<1>2. w \in 0..255 /\ m \in 0..255
  BY DEF Byte
<1> QED
  BY <1>1, <1>2, SMTT(30) DEF Carry, DigitCarry

\* W subtracted from the operand, by way of its complement in n values.
LEMMA SubtractionNumbers ==
  ASSUME NEW op \in {SUBWF, SUBLW}, NEW w \in Byte, NEW m \in Byte
  PROVE  /\ Carry(op, w, m) \in {0, 1} /\ DigitCarry(op, w, m) \in {0, 1}
         /\ (m + Addend(op, w, 256)) % 256 = IF m >= w THEN m - w ELSE 256 + m - w
         /\ (Carry(op, w, m) = 1 <=> (w > 0 /\ m >= w))
         /\ (DigitCarry(op, w, m) = 1 <=> (w % 16 > 0 /\ m % 16 >= w % 16))
<1> DEFINE x == w % 16
           y == m % 16
<1>1. /\ Addend(op, w, 256) = (256 - (w % 256)) % 256
      /\ Addend(op, w, 16) = (16 - x) % 16
  BY Zenon DEF Addend, Negated
<1>2. w \in 0..255 /\ m \in 0..255 /\ w % 256 = w
  BY SMT DEF Byte
<1>3. x \in 0..15 /\ y \in 0..15
  BY <1>2, SMT
<1>4. Addend(op, w, 256) = IF w = 0 THEN 0 ELSE 256 - w
  BY <1>1, <1>2, SMT
<1>5. Addend(op, w, 16) = IF x = 0 THEN 0 ELSE 16 - x
  <2> HIDE DEF x
  <2> QED
    BY <1>1, <1>3, SMT
<1>6. /\ Carry(op, w, m) \in {0, 1}
      /\ (m + Addend(op, w, 256)) % 256 = IF m >= w THEN m - w ELSE 256 + m - w
      /\ (Carry(op, w, m) = 1 <=> (w > 0 /\ m >= w))
  <2>1. CASE w = 0
    BY <1>2, <1>4, <2>1, SMT DEF Carry
  <2>2. CASE w > 0 /\ m >= w
    <3>1. m + Addend(op, w, 256) = 256 + (m - w) /\ m - w \in 0..255
      BY <1>2, <1>4, <2>2, SMT
    <3> QED
      BY <2>2, <3>1, <1>2, SMT DEF Carry
  <2>3. CASE w > 0 /\ m < w
    <3>1. m + Addend(op, w, 256) = 256 + m - w /\ 256 + m - w \in 0..255
      BY <1>2, <1>4, <2>3, SMT
    <3> QED
      BY <2>3, <3>1, <1>2, SMT DEF Carry
  <2> QED
    BY <1>2, <2>1, <2>2, <2>3, SMT
<1>7. DigitCarry(op, w, m) = (y + Addend(op, w, 16)) \div 16
  BY DEF DigitCarry
<1>8. /\ DigitCarry(op, w, m) \in {0, 1}
      /\ (DigitCarry(op, w, m) = 1 <=> (x > 0 /\ y >= x))
  <2> HIDE DEF x, y
  <2> QED
    BY <1>3, <1>5, <1>7, SMT
<1> QED
  BY <1>6, <1>8

\* Each sum of alu.vhd leaves the numbers and flags that ArithmeticFlags states,
\* for every W, operand and earlier flags, at whatever point of a program.
THEOREM SumsCorrect == Spec => ArithmeticFlags
<1> DEFINE A == Summing =>
           LET m == output_mux
               w == w_output_int
               c == Bit(status_out_alu', 0)
               d == Bit(status_out_alu', 1)
           IN  /\ decoded.opcode \in {ADDWF, ADDLW} =>
                      /\ alu_output_int' + 256 * c = m + w
                      /\ (d = 1 <=> (m % 16) + (w % 16) > 15)
               /\ decoded.opcode \in {SUBWF, SUBLW} =>
                      /\ alu_output_int' = IF m >= w THEN m - w ELSE 256 + m - w
                      /\ (c = 1 <=> (w > 0 /\ m >= w))
                      /\ (d = 1 <=> (w % 16 > 0 /\ m % 16 >= w % 16))
               /\ (Bit(status_out_alu', 2) = 1 <=> alu_output_int' = 0)
<1>1. ASSUME TypeOK, [Next]_vars, Summing PROVE A
  <2> DEFINE op == decoded.opcode
             m == output_mux
             w == w_output_int
             v == Value(op, w, m, status_in_alu, decoded.bit_idx)
  <2>1. FpgaRise
    BY <1>1 DEF Summing, Next, vars, RisingEdge, FallingEdge, Submit, EnableReset,
                DisableReset, TimerEdge
  <2>2. AluRise("alu" \in enables, op, w, m, status_in_alu, decoded.bit_idx)
    BY <2>1 DEF FpgaRise
  <2>3. /\ op \in Sums /\ w \in Byte /\ m \in Byte /\ status_out_alu \in Byte
    BY <1>1 DEF Summing, TypeOK, DatapathType, AluType
  <2>4. /\ alu_output_int' = Output(op, w, m, status_in_alu, decoded.bit_idx, alu_output_int)
        /\ status_out_alu' = Flags(op, w, m, status_in_alu, decoded.bit_idx, status_out_alu,
                                   result)
    BY <1>1, <2>2 DEF AluRise, Compute, Summing
  <2>5. /\ alu_output_int' = v
        /\ v = (m + Addend(op, w, 256)) % 256
    <3>1. op # NOP
      BY <2>3, SMT DEF Sums, NOP, ADDWF, ADDLW, SUBWF, SUBLW
    <3> QED
      BY <2>3, <2>4, <3>1, SumValue DEF Output
  <2>6. status_out_alu' = PutLow(status_out_alu, 8, 4 * Zero(v) + 2 * DigitCarry(op, w, m)
                                                     + Carry(op, w, m))
    BY <2>3, <2>4, SMT DEF Flags, Sums, ZeroFlagged, CountAndSkip, Reports, ADDWF, ADDLW,
       SUBWF, SUBLW, ANDWF, ANDLW, BCF, BSF, CLR, COMF, DECF, INCF, IORWF, IORLW, MOVF, XORWF,
       XORLW, DECFSZ, INCFSZ, RLF, RRF, READ_WREG, READ_STATUS, READ_ADDRESS, SWAPF
  <2>7. Carry(op, w, m) \in {0, 1} /\ DigitCarry(op, w, m) \in {0, 1}
    BY <2>3, AdditionNumbers, SubtractionNumbers DEF Sums
  <2>8. Zero(v) \in {0, 1} /\ (Zero(v) = 1 <=> v = 0)
    BY DEF Zero
  <2>9. /\ Bit(status_out_alu', 0) = Carry(op, w, m)
        /\ Bit(status_out_alu', 1) = DigitCarry(op, w, m)
        /\ Bit(status_out_alu', 2) = Zero(v)
    BY <2>3, <2>6, <2>7, <2>8, FlagBits
  <2>10. op \in {ADDWF, ADDLW} =>
            /\ v + 256 * Carry(op, w, m) = m + w
            /\ (DigitCarry(op, w, m) = 1 <=> (m % 16) + (w % 16) > 15)
    BY <2>3, <2>5, AdditionNumbers
  <2>11. op \in {SUBWF, SUBLW} =>
            /\ v = IF m >= w THEN m - w ELSE 256 + m - w
            /\ (Carry(op, w, m) = 1 <=> (w > 0 /\ m >= w))
            /\ (DigitCarry(op, w, m) = 1 <=> (w % 16 > 0 /\ m % 16 >= w % 16))
    BY <2>3, <2>5, SubtractionNumbers
  <2> HIDE DEF v
  <2> QED
    BY <2>5, <2>8, <2>9, <2>10, <2>11
<1>2. TypeOK /\ [Next]_vars => [A]_vars
  BY <1>1
<1>3. ArithmeticFlags <=> [][A]_vars
  BY DEF ArithmeticFlags
<1> HIDE DEF A
<1> QED
  BY <1>2, <1>3, TypeCorrect, PTL DEF Spec

-----------------------------------------------------------------------------

(***************************************************************************)
(* The tables of the state machine, one instruction type at a time.        *)
(***************************************************************************)
\* The ranks that Rank tabulates.
LEMMA RankTable ==
  /\ Rank("do_nop") = 1 /\ Rank("do_wreg") = 2 /\ Rank("do_ram_write") = 2
  /\ Rank("do_result") = 2 /\ Rank("do_wait") = 3 /\ Rank("do_alu") = 4
  /\ Rank("do_ram_dump") = 4 /\ Rank("do_alu_input_sel") = 5
  /\ Rank("do_ram_read") = 6 /\ Rank("do_eeprom_dump") = EepromDumpWait + 4
BY SMT DEF Rank

\* Dispatch enters an instruction's path at a state that takes more than one clock.
LEMMA DispatchTable ==
  ASSUME NEW type \in InstructionType, NEW trig
  PROVE  /\ Dispatch(type) \in Path(type)
         /\ Dispatch(type) # "do_nop"
         /\ Successor(Dispatch(type), trig, type) # "do_nop"
         /\ Rank(Dispatch(type)) \in 1..RunClocks(type)
         /\ Dispatch(type) = "do_eeprom_dump" => type = DumpEeprom
<1> USE RankTable, EepromDumpWaitAssumption
    DEF Literal, ToWreg, ToRam, ReadReg, ReadMem, DumpRam, DumpEeprom
<1>1. CASE type = Literal
  BY <1>1, SMT DEF Dispatch, Path, Successor, RunClocks
<1>2. CASE type = ToWreg
  BY <1>2, SMT DEF Dispatch, Path, Successor, RunClocks
<1>3. CASE type = ToRam
  BY <1>3, SMT DEF Dispatch, Path, Successor, RunClocks
<1>4. CASE type = ReadReg
  BY <1>4, SMT DEF Dispatch, Path, Successor, RunClocks, AfterAlu
<1>5. CASE type = ReadMem
  BY <1>5, SMT DEF Dispatch, Path, Successor, RunClocks
<1>6. CASE type = DumpRam
  BY <1>6, SMT DEF Dispatch, Path, Successor, RunClocks
<1>7. CASE type = DumpEeprom
  BY <1>7, SMT DEF Dispatch, Path, Successor, RunClocks
<1> QED
  BY <1>1, <1>2, <1>3, <1>4, <1>5, <1>6, <1>7, Zenon DEF InstructionType

\* Every later state brings the instruction closer to its end.
LEMMA PathTable ==
  ASSUME NEW type \in InstructionType, NEW s \in Path(type), s # "do_nop", NEW trig
  PROVE  /\ Successor(s, trig, type) \in Path(type)
         /\ Successor(s, trig, type) # "do_eeprom_dump"
         /\ Successor(s, trig, type) = "do_nop" <=> s = LastState(type)
         /\ Rank(Successor(s, trig, type)) \in Nat
         /\ IF s = "do_eeprom_dump" THEN Successor(s, trig, type) = "do_wait"
            ELSE Rank(Successor(s, trig, type)) + 1 <= Rank(s)
         /\ type \notin Readable => s # "do_eeprom_dump"
<1> USE RankTable, EepromDumpWaitAssumption
    DEF Literal, ToWreg, ToRam, ReadReg, ReadMem, DumpRam, DumpEeprom, Readable
<1>1. CASE type = Literal
  BY <1>1, SMT DEF Path, Successor, AfterAlu, LastState, Rank
<1>2. CASE type = ToWreg
  BY <1>2, SMT DEF Path, Successor, AfterAlu, LastState, Rank
<1>3. CASE type = ToRam
  BY <1>3, SMT DEF Path, Successor, AfterAlu, LastState, Rank
<1>4. CASE type = ReadReg
  BY <1>4, SMT DEF Path, Successor, AfterAlu, LastState, Rank
<1>5. CASE type = ReadMem
  BY <1>5, SMT DEF Path, Successor, AfterAlu, LastState, Rank
<1>6. CASE type = DumpRam
  BY <1>6, SMT DEF Path, Successor, AfterAlu, LastState, Rank
<1>7. CASE type = DumpEeprom
  BY <1>7, SMT DEF Path, Successor, AfterAlu, LastState, Rank
<1> QED
  BY <1>1, <1>2, <1>3, <1>4, <1>5, <1>6, <1>7, Zenon DEF InstructionType

\* Only the last state of an instruction that answers drives a result line.
LEMMA ResultTable ==
  ASSUME NEW type \in InstructionType, NEW s \in Path(type), s # "do_nop"
  PROVE  /\ s # LastState(type) => Asserted(s, type) \cap ResultLines = {}
         /\ s = LastState(type) => Held(s) = {} /\ Asserted(s, type) # {}
         /\ Held(s) \cap ResultLines = {}
<1> USE DEF Literal, ToWreg, ToRam, ReadReg, ReadMem, DumpRam, DumpEeprom
<1>1. CASE type = Literal
  BY <1>1, SMT DEF Path, Asserted, ResultLine, LastState, ResultLines, Readable, Held
<1>2. CASE type = ToWreg
  BY <1>2, SMT DEF Path, Asserted, ResultLine, LastState, ResultLines, Readable, Held
<1>3. CASE type = ToRam
  BY <1>3, SMT DEF Path, Asserted, ResultLine, LastState, ResultLines, Readable, Held
<1>4. CASE type = ReadReg
  BY <1>4, SMT DEF Path, Asserted, ResultLine, LastState, ResultLines, Readable, Held
<1>5. CASE type = ReadMem
  BY <1>5, SMT DEF Path, Asserted, ResultLine, LastState, ResultLines, Readable, Held
<1>6. CASE type = DumpRam
  BY <1>6, SMT DEF Path, Asserted, ResultLine, LastState, ResultLines, Readable, Held
<1>7. CASE type = DumpEeprom
  BY <1>7, SMT DEF Path, Asserted, ResultLine, LastState, ResultLines, Readable, Held
<1> QED
  BY <1>1, <1>2, <1>3, <1>4, <1>5, <1>6, <1>7, Zenon DEF InstructionType

\* Which result line that is.
LEMMA LastLines ==
  ASSUME NEW type \in InstructionType
  PROVE  LET lines == Asserted(LastState(type), type) IN
         /\ type \in Readable <=> lines \cap ResultLines # {}
         /\ type = DumpEeprom => "result_eeprom_dump" \in lines
         /\ type = DumpRam => lines \cap {"result_eeprom_dump", "result_ram_dump"}
                               = {"result_ram_dump"}
         /\ type \in {ReadReg, ReadMem} => lines \cap ResultLines = {"result"}
<1> USE DEF Literal, ToWreg, ToRam, ReadReg, ReadMem, DumpRam, DumpEeprom
<1>1. CASE type = Literal
  BY <1>1, SMT DEF Path, Asserted, ResultLine, LastState, ResultLines, Readable, Held
<1>2. CASE type = ToWreg
  BY <1>2, SMT DEF Path, Asserted, ResultLine, LastState, ResultLines, Readable, Held
<1>3. CASE type = ToRam
  BY <1>3, SMT DEF Path, Asserted, ResultLine, LastState, ResultLines, Readable, Held
<1>4. CASE type = ReadReg
  BY <1>4, SMT DEF Path, Asserted, ResultLine, LastState, ResultLines, Readable, Held
<1>5. CASE type = ReadMem
  BY <1>5, SMT DEF Path, Asserted, ResultLine, LastState, ResultLines, Readable, Held
<1>6. CASE type = DumpRam
  BY <1>6, SMT DEF Path, Asserted, ResultLine, LastState, ResultLines, Readable, Held
<1>7. CASE type = DumpEeprom
  BY <1>7, SMT DEF Path, Asserted, ResultLine, LastState, ResultLines, Readable, Held
<1> QED
  BY <1>1, <1>2, <1>3, <1>4, <1>5, <1>6, <1>7, Zenon DEF InstructionType

(***************************************************************************)
(* The board in reset, or just out of it.                                  *)
(***************************************************************************)
LinkPins ==
    /\ mosi <=> sent_bits \in 1..FRAME_BITS
    /\ mosi => serial_in = frame[FRAME_BITS - sent_bits]
    /\ sent_bits = 0 => idle_edges = MinIdle

\* A cleared board with no word or answer under way on the host's side satisfies
\* everything, and in reset the host may even be sending.
LEMMA ClearedInv ==
  ASSUME TypeOK, LinkPins, Cleared, reset \/ HostIdle
  PROVE  ControlInv
<1> USE DEF Cleared
<1>1. state = "do_nop" /\ next_state = "do_nop" /\ enables = {}
  BY DEF Busy
<1>2. LinkInv
  BY DEF LinkInv, LinkPins
<1>3. ReceiveInv
  <2>1. ASSUME ~reset PROVE ~mosi /\ ~Sending
    BY <2>1, SMT DEF HostIdle, Sending, LinkPins, Done, FRAME_BITS
  <2> QED
    BY <2>1, SMT DEF ReceiveInv, Received
<1>4. DecoderInv
  BY SMT DEF DecoderInv
<1>5. SequencerInv
  <2>1. \A type : "do_nop" \in Path(type)
    BY DEF Path
  <2> QED
    BY <1>1, <2>1, SMT DEF SequencerInv
<1>6. BusyInv
  BY DEF BusyInv
<1>7. AnswerInv
  <2>1. ~InTransit
    BY SMT DEF InTransit, HostIdle
  <2> QED
    BY <2>1, SMT DEF AnswerInv, HostIdle
<1> QED
  BY <1>2, <1>3, <1>4, <1>5, <1>6, <1>7 DEF ControlInv

\* ControlInv holds initially.
LEMMA InitControl == Init => ControlInv
<1> SUFFICES ASSUME Init PROVE ControlInv
  OBVIOUS
<1>1. TypeOK
  BY InitTypes
<1>2. Cleared
  BY DEF Init, Cleared, ReceiveInit, DecoderInit, SequencerInit, OutputInit, Busy
<1>3. LinkPins /\ HostIdle
  BY SMT DEF Init, HostInit, LinkPins, HostIdle, Sending, Reading, Done, FRAME_BITS
<1> QED
  BY <1>1, <1>2, <1>3, ClearedInv

(***************************************************************************)
(* A rising edge on a board that is not in reset.                          *)
(***************************************************************************)
\* The trigger is up only when the word is complete and the decoder may latch it.
LEMMA TriggerMeans ==
  ASSUME TypeOK, ControlInv, ~reset, trig_instruction_process
  PROVE  /\ ~mosi
         /\ \/ ~Sending /\ counter \in {1, 2} /\ ~Busy /\ binary_string = frame
            \/ counter = 0
<1>1. ~mosi
  BY DEF ControlInv, ReceiveInv
<1>2. CASE counter = 0
  BY <1>1, <1>2
<1>3. CASE counter # 0
  <2>1. counter \in 1..5
    BY <1>3, SMT DEF TypeOK, ReceiveType
  <2>2. ~Sending
    BY <1>1, <2>1, SMT DEF ControlInv, ReceiveInv, Received
  <2> QED
    BY <1>1, <2>1, <2>2, SMT DEF ControlInv, ReceiveInv, DecoderInv
<1> QED
  BY <1>2, <1>3

\* The sequencer starts exactly when the last count of a word meets an idle board.
LEMMA DispatchMeans ==
  ASSUME TypeOK, ControlInv, ~reset, ~clk, trig_state_machine, state = "do_nop"
  PROVE  /\ counter = 1 /\ ~Sending /\ ~Busy /\ ~mosi
         /\ trig_instruction_process
         /\ decoded = Decode(frame) /\ decoded = Decode(binary_string)
<1>1. trig_instruction_process /\ counter < 2
  BY DEF ControlInv, DecoderInv
<1>2. decoded = Decode(binary_string)
  BY <1>1 DEF ControlInv, DecoderInv
<1>3. counter # 0
  <2>1. decoded.type \in InstructionType
    BY DEF TypeOK, DecoderType, Decoded
  <2> QED
    BY <1>1, <2>1, DispatchTable DEF ControlInv, DecoderInv
<1> QED
  BY <1>1, <1>2, <1>3, TriggerMeans, SMT

\* While an instruction is Busy, or being dispatched, the decoder keeps it.
LEMMA DecodedStable ==
  ASSUME TypeOK, ControlInv, ~reset, ~clk, FpgaRise,
         Busy \/ (trig_state_machine /\ state = "do_nop")
  PROVE  decoded' = decoded
<1>1. CASE ~trig_instruction_process
  BY <1>1 DEF FpgaRise, DecoderRise
<1>2. CASE trig_instruction_process
  <2>1. decoded' = Decode(binary_string)
    BY <1>2 DEF FpgaRise, DecoderRise
  <2>2. CASE Busy
    BY <1>2, <2>1, <2>2, TriggerMeans DEF ControlInv, DecoderInv
  <2>3. CASE trig_state_machine /\ state = "do_nop"
    BY <2>1, <2>3, DispatchMeans
  <2> QED
    BY <2>2, <2>3
<1> QED
  BY <1>1, <1>2

\* What one rising edge does to the sequencer.
LEMMA SequencerStarts ==
  ASSUME TypeOK, ControlInv, ~reset, ~clk, FpgaRise, state = "do_nop"
  PROVE  /\ enables' = {} /\ state' = "do_nop" /\ cycles_waited' = cycles_waited
         /\ ~wait_for_state_change' /\ num_wait_cycles' = 0
         /\ next_state' = IF trig_state_machine THEN Dispatch(decoded.type) ELSE "do_nop"
<1>1. Asserted("do_nop", decoded.type) = {} /\ Held("do_nop") = {}
  BY SMT DEF Asserted, ResultLine, Held
<1>2. Successor("do_nop", trig_state_machine, decoded.type)
        = IF trig_state_machine THEN Dispatch(decoded.type) ELSE "do_nop"
  BY DEF Successor
<1> QED
  BY <1>1, <1>2 DEF FpgaRise, SequencerRise

\* Outside do_nop an edge takes the sequencer one state further on the path of the
\* same instruction, with the lines of that state.
LEMMA SequencerRuns ==
  ASSUME TypeOK, ControlInv, ~reset, ~clk, FpgaRise, state # "do_nop"
  PROVE  /\ decoded' = decoded /\ decoded.type \in InstructionType
         /\ state \in Path(decoded.type) /\ state' = state
         /\ next_state' = Successor(state, trig_state_machine, decoded.type)
         /\ enables' = Asserted(state, decoded.type) \cup (enables \cap Held(state))
         /\ enables \cap ResultLines = {}
         /\ cycles_waited' = cycles_waited
         /\ wait_for_state_change' <=> state = "do_eeprom_dump"
         /\ num_wait_cycles' = IF state = "do_eeprom_dump" THEN EepromDumpWait ELSE 0
<1>1. decoded' = decoded
  BY DecodedStable DEF Busy
<1>2. decoded.type \in InstructionType
  BY DEF TypeOK, DecoderType, Decoded
<1>3. state \in Path(decoded.type) /\ enables \cap ResultLines = {}
  BY DEF ControlInv, SequencerInv
<1> QED
  BY <1>1, <1>2, <1>3 DEF FpgaRise, SequencerRise

\* What the rising edge leaves alone on the link.
LEMMA RisePins ==
  ASSUME RisingEdge, ~reset
  PROVE  /\ FpgaRise /\ ReaderRise /\ ~clk /\ clk' /\ ~reset'
         /\ UNCHANGED <<mosi, serial_in, frame, sent_bits, idle_edges>>
         /\ Sending' = Sending /\ Tick = 0 /\ Tick' = 1
BY DEF RisingEdge, HostRise, Sending, Tick

\* A rising edge keeps what has been received equal to what has been sent.
LEMMA RiseReceive ==
  ASSUME TypeOK, ControlInv, RisingEdge, ~reset
  PROVE  ReceiveInv'
<1> USE RisePins DEF FRAME_BITS
<1>1. /\ sent_bits \in 0..15 /\ counter \in 0..5 /\ idle_edges \in Nat
      /\ binary_string \in [0..13 -> {0, 1}]
      /\ mosi \in BOOLEAN /\ trig_instruction_process \in BOOLEAN
  BY HostAssumption, SMT DEF TypeOK, ReceiveType, HostType, Done, Word
<1>2. ReceiveRise(mosi, serial_in)
  BY DEF FpgaRise
<1>3. CASE mosi
  <2>1. /\ counter' = 5 /\ mosi_detected' /\ ~trig_instruction_process'
        /\ \A j \in 0..13 : binary_string'[j] = IF j = 0 THEN serial_in
                                                ELSE binary_string[j - 1]
    BY <1>2, <1>3, SMT DEF ReceiveRise, ShiftIn, Shift, ControlInv, ReceiveInv
  <2>2. /\ sent_bits \in 1..14 /\ Received = sent_bits - 1 /\ Received' = sent_bits
        /\ Sending
    BY <1>1, <1>3, SMT DEF ControlInv, LinkInv, Received, Sending, Done
  <2>3. ASSUME NEW j \in 0..Received' - 1
        PROVE  binary_string'[j] = frame'[14 - Received' + j]
    <3>1. CASE j = 0
      BY <1>3, <2>1, <2>2, <3>1, SMT DEF ControlInv, LinkInv
    <3>2. CASE j # 0
      <4>1. j - 1 \in 0..Received - 1 /\ j \in 0..13
        BY <2>2, <2>3, <3>2, SMT
      <4>2. binary_string[j - 1] = frame[14 - Received + (j - 1)]
        BY <2>2, <4>1, SMT DEF ControlInv, ReceiveInv
      <4>3. binary_string'[j] = binary_string[j - 1]
        BY <2>1, <3>2, <4>1
      <4>4. 14 - Received + (j - 1) = 14 - Received' + j
        BY <2>2, <4>1, SMT
      <4> QED
        BY <4>2, <4>3, <4>4
    <3> QED
      BY <3>1, <3>2
  <2> QED
    BY <1>3, <2>1, <2>2, <2>3, SMT DEF ReceiveInv
<1>4. CASE ~mosi /\ counter > 0
  <2>1. CountDown /\ ~Sending
    <3>1. ~Sending
      BY <1>4, SMT DEF ControlInv, ReceiveInv, Received
    <3>2. mosi_detected
      BY <1>4, <3>1 DEF ControlInv, ReceiveInv
    <3> QED
      BY <1>2, <1>4, <3>1, <3>2 DEF ReceiveRise, ClearInput
  <2>2. /\ mosi_detected /\ binary_string = frame /\ counter + Lows = 5
        /\ trig_instruction_process <=> counter < 3
    BY <1>4, <2>1 DEF ControlInv, ReceiveInv
  <2>3. /\ mosi_detected' /\ binary_string' = frame' /\ counter' = counter - 1
        /\ trig_instruction_process' <=> (trig_instruction_process \/ counter < 4)
    BY <2>1, <2>2, Zenon DEF CountDown
  <2>4. counter' + Lows' = 5
    BY <1>1, <2>2, <2>3, SMT DEF Lows
  <2>5. trig_instruction_process' <=> counter' < 3
    <3>1. /\ counter < 4 <=> counter' < 3
          /\ counter < 3 => counter < 4
      BY <1>1, <2>3, SMT
    <3> QED
      BY <2>2, <2>3, <3>1
  <2>6. Received' = 0 /\ ~mosi' /\ ~Sending'
    BY <1>4, <2>1 DEF Received
  <2>7. trig_instruction_process' /\ counter' = 0 => Lows' = 5
    BY <1>1, <2>4, SMT DEF Lows
  <2> QED
    <3>1. ~(Received' > 0)
      BY <2>6, SMT
    <3> QED
      BY <2>3, <2>4, <2>5, <2>6, <2>7, <3>1 DEF ReceiveInv
<1>5. CASE ~mosi /\ counter = 0
  <2>1. counter' = 0 /\ ~trig_instruction_process'
    BY <1>2, <1>5, SMT DEF ReceiveRise, CountDown, ClearInput
  <2>2. Received' = 0
    BY <1>5 DEF Received
  <2> QED
    BY <1>5, <2>1, <2>2, SMT DEF ReceiveInv
<1> QED
  BY <1>1, <1>3, <1>4, <1>5, SMT

\* The receiver on a rising edge, case by case.
LEMMA RiseCounter ==
  ASSUME TypeOK, ControlInv, RisingEdge, ~reset
  PROVE  /\ mosi => Sending /\ counter' = 5
         /\ ~mosi /\ counter > 0 =>
              /\ ~Sending /\ counter' = counter - 1 /\ binary_string' = binary_string
              /\ counter < 4 => trig_instruction_process'
         /\ ~mosi /\ counter = 0 => counter' = 0 /\ ~trig_instruction_process'
<1> USE RisePins
<1>1. ReceiveRise(mosi, serial_in) /\ counter \in 0..5
  BY DEF FpgaRise, TypeOK, ReceiveType
<1>2. mosi => Sending /\ counter' = 5
  BY <1>1, SMT DEF ControlInv, LinkInv, Sending, Done, FRAME_BITS, ReceiveRise, ShiftIn
<1>3. ASSUME ~mosi, counter > 0
      PROVE  /\ ~Sending /\ counter' = counter - 1 /\ binary_string' = binary_string
             /\ counter < 4 => trig_instruction_process'
  <2>1. ~Sending
    BY <1>1, <1>3, SMT DEF ControlInv, ReceiveInv, Received
  <2>2. mosi_detected
    BY <1>3, <2>1 DEF ControlInv, ReceiveInv
  <2>3. CountDown
    BY <1>1, <1>3, <2>2 DEF ReceiveRise, ClearInput
  <2> QED
    BY <2>1, <2>3 DEF CountDown
<1>4. ASSUME ~mosi, counter = 0 PROVE counter' = 0 /\ ~trig_instruction_process'
  BY <1>1, <1>4, SMT DEF ReceiveRise, CountDown, ClearInput
<1> QED
  BY <1>2, <1>3, <1>4

\* It keeps the sequencer on the path of the instruction it executes.
LEMMA RiseSequencer ==
  ASSUME TypeOK, ControlInv, RisingEdge, ~reset
  PROVE  SequencerInv'
<1> USE RisePins
<1>1. SequencerInv
  BY DEF ControlInv
<1>2. \A type : "do_nop" \in Path(type)
  BY DEF Path
<1>3. CASE state = "do_nop"
  <2>1. ~(enables' \cap ResultLines # {}) /\ state' = "do_nop"
    BY <1>3, SequencerStarts
  <2>2. next_state' \in Path(decoded'.type)
    <3>1. CASE trig_state_machine
      BY <1>3, <3>1, SequencerStarts, DecodedStable, DispatchTable
         DEF TypeOK, DecoderType, Decoded
    <3>2. CASE ~trig_state_machine
      BY <1>2, <1>3, <3>2, SequencerStarts
    <3> QED
      BY <3>1, <3>2
  <2>3. ~(cycles_waited' > 0)
    <3>1. cycles_waited \in Nat
      BY EepromDumpWaitAssumption, SMT DEF TypeOK, SequencerType
    <3> QED
      BY <1>1, <1>3, <3>1, SequencerStarts DEF SequencerInv
  <2>4. Busy' => next_state' # "do_nop" \/ enables' # {}
    BY <2>1 DEF Busy
  <2> QED
    BY <1>2, <1>3, <2>1, <2>2, <2>3, <2>4, SequencerStarts DEF SequencerInv
<1>4. CASE state # "do_nop"
  <2> DEFINE type == decoded.type
             next == Successor(state, trig_state_machine, type)
  <2>1. /\ decoded' = decoded /\ type \in InstructionType /\ state \in Path(type)
        /\ state' = state /\ next_state' = next
        /\ enables' = Asserted(state, type) \cup (enables \cap Held(state))
        /\ cycles_waited' = cycles_waited
        /\ wait_for_state_change' <=> state = "do_eeprom_dump"
        /\ num_wait_cycles' = IF state = "do_eeprom_dump" THEN EepromDumpWait ELSE 0
    BY <1>4, SequencerRuns
  <2>2. /\ next \in Path(type)
        /\ next = "do_nop" <=> state = LastState(type)
        /\ state = "do_eeprom_dump" => next = "do_wait"
    BY <1>4, <2>1, PathTable
  <2>3. /\ state' \in Path(decoded'.type) /\ next_state' \in Path(decoded'.type)
        /\ decoded'.type = type
    BY <2>1, <2>2
  <2>4. /\ state # LastState(type) => Asserted(state, type) \cap ResultLines = {}
        /\ state = LastState(type) => Held(state) = {} /\ Asserted(state, type) # {}
        /\ Held(state) \cap ResultLines = {}
    BY <1>4, <2>1, ResultTable
  <2> HIDE DEF type, next
  <2>5. enables' \cap ResultLines # {} => next_state' = "do_nop"
    BY <2>1, <2>2, <2>4
  <2>6. next_state' = "do_nop" => enables' # {} /\ enables' = Asserted(LastState(type), type)
    <3> SUFFICES ASSUME next_state' = "do_nop"
                 PROVE  enables' # {} /\ enables' = Asserted(LastState(type), type)
      OBVIOUS
    <3>1. state = LastState(type)
      BY <2>1, <2>2
    <3>2. enables' = Asserted(state, type)
      BY <2>1, <2>4, <3>1
    <3> QED
      BY <2>4, <3>1, <3>2
  <2>7. cycles_waited' > 0 => state' = "do_eeprom_dump" /\ next_state' = "do_wait"
    BY <1>1, <2>1, <2>2 DEF SequencerInv
  <2> QED
    BY <1>4, <2>1, <2>2, <2>3, <2>5, <2>6, <2>7 DEF SequencerInv
<1> QED
  BY <1>3, <1>4

\* It keeps the decoder and the sequencer's trigger in step with the word received.
LEMMA RiseDecoder ==
  ASSUME TypeOK, ControlInv, RisingEdge, ~reset
  PROVE  DecoderInv'
<1> USE RisePins
<1>1. counter \in 0..5 /\ decoded.type \in InstructionType
  BY DEF TypeOK, ReceiveType, DecoderType, Decoded
<1>2. /\ decoded' = IF trig_instruction_process THEN Decode(binary_string) ELSE decoded
      /\ trig_state_machine' = trig_instruction_process
  BY DEF FpgaRise, DecoderRise
<1>3. ~Sending' /\ counter' > 0 => ~Busy'
  <2> SUFFICES ASSUME ~Sending, counter' > 0 PROVE ~Busy'
    BY DEF Sending
  <2>1. counter > 1 /\ counter > 0
    BY <1>1, RiseCounter, SMT
  <2>2. ~Busy
    BY <2>1 DEF ControlInv, DecoderInv
  <2>3. ~trig_state_machine
    <3>1. counter # 1
      BY <2>1, SMT
    <3> QED
      BY <2>2, <3>1, DispatchMeans DEF Busy
  <2> QED
    BY <2>2, <2>3, SequencerStarts DEF Busy
<1>4. ASSUME trig_instruction_process', counter' < 2
      PROVE  /\ ~mosi /\ counter \in {1, 2} /\ ~Busy /\ binary_string' = binary_string
             /\ trig_instruction_process
  <2>1. ~mosi /\ counter \in {1, 2}
    BY <1>1, <1>4, RiseCounter, SMT
  <2>2. ~Sending /\ ~Busy /\ binary_string' = binary_string
    BY <2>1, RiseCounter, SMT DEF ControlInv, DecoderInv
  <2>3. trig_instruction_process
    BY <2>1, <2>2, SMT DEF ControlInv, ReceiveInv
  <2> QED
    BY <2>1, <2>2, <2>3
<1>5. trig_instruction_process' /\ counter' = 0 =>
        /\ next_state' = Dispatch(decoded'.type)
        /\ state' = IF clk' THEN "do_nop" ELSE next_state'
  <2> SUFFICES ASSUME trig_instruction_process', counter' = 0
               PROVE  next_state' = Dispatch(decoded'.type) /\ state' = "do_nop"
    OBVIOUS
  <2>1. counter = 1 /\ ~Busy /\ trig_instruction_process
    BY <1>4, RiseCounter, SMT
  <2>2. trig_state_machine /\ state = "do_nop"
    BY <2>1, SMT DEF ControlInv, DecoderInv, Busy
  <2> QED
    BY <2>2, DecodedStable, SequencerStarts
<1>6. trig_state_machine' =>
        \/ trig_instruction_process' /\ counter' < 2
        \/ counter' = 0 /\ state' # "do_nop" /\ next_state' # "do_nop"
  <2> SUFFICES ASSUME trig_instruction_process
               PROVE  \/ trig_instruction_process' /\ counter' < 2
                      \/ counter' = 0 /\ state' # "do_nop" /\ next_state' # "do_nop"
    BY <1>2
  <2>1. CASE counter = 0
    <3>1. state = Dispatch(decoded.type) /\ state # "do_nop"
      BY <1>1, <2>1, DispatchTable DEF ControlInv, DecoderInv
    <3>2. next_state' # "do_nop" /\ state' # "do_nop"
      BY <1>1, <3>1, SequencerRuns, DispatchTable
    <3> QED
      BY <2>1, <3>2, TriggerMeans, RiseCounter
  <2>2. CASE counter \in {1, 2}
    BY <2>2, TriggerMeans, RiseCounter, SMT
  <2> QED
    BY <2>1, <2>2, TriggerMeans
<1>7. trig_instruction_process' /\ counter' < 2 =>
        trig_state_machine' /\ decoded' = Decode(binary_string')
  BY <1>2, <1>4
<1> QED
  BY <1>3, <1>5, <1>6, <1>7 DEF DecoderInv

(***************************************************************************)
(* The answer's side.                                                      *)
(***************************************************************************)
\* The timeouts leave room for the word, the instruction and every answer bit.
LEMMA Limits ==
  ASSUME TypeOK, Reading
  PROVE  /\ reader \in Readable /\ RunClocks(reader) \in Nat
         /\ AnswerBytes \in Nat \ {0} /\ timeout \in Nat /\ TimeoutLimit \in Nat
         /\ AnswerBytes = CASE reader = DumpRam    -> RamSize
                            [] reader = DumpEeprom -> EepromSize
                            [] OTHER               -> 1
         /\ TimeoutLimit >= 42 + 2 * RunClocks(reader) + 16 * AnswerBytes
<1> USE DEF Literal, ToWreg, ToRam, ReadReg, ReadMem, DumpRam, DumpEeprom
<1>1. reader \in Readable /\ timeout \in Nat
  BY DEF TypeOK, HostType, Reading
<1>2. /\ RamSize \in Nat \ {0} /\ EepromSize \in Nat \ {0} /\ EepromDumpWait \in Nat
      /\ ResultTimeout \in Nat /\ DumpTimeout \in Nat
  BY MemoryAssumption, EepromDumpWaitAssumption, HostAssumption, SMT
<1>3. /\ DumpBytes[DumpRam] = RamSize /\ DumpBytes[DumpEeprom] = EepromSize
      /\ ResultTimeout >= 42 + 2 * 6 + 16
      /\ DumpTimeout >= 42 + 2 * 6 + 16 * RamSize
      /\ DumpTimeout >= 42 + 2 * (EepromDumpWait + 4) + 16 * EepromSize
  BY LinkAssumption, SMT DEF RunClocks
<1>4. CASE reader = DumpRam
  BY <1>1, <1>2, <1>3, <1>4, SMT DEF AnswerBytes, TimeoutLimit, RunClocks
<1>5. CASE reader = DumpEeprom
  BY <1>1, <1>2, <1>3, <1>5, SMT DEF AnswerBytes, TimeoutLimit, RunClocks
<1>6. CASE reader \in {ReadReg, ReadMem}
  BY <1>1, <1>2, <1>3, <1>6, SMT DEF AnswerBytes, TimeoutLimit, RunClocks
<1> QED
  BY <1>1, <1>4, <1>5, <1>6 DEF Readable

\* A reading thread that misses bits and has time left goes on reading.
LEMMA ReaderStays ==
  ASSUME TypeOK, Reading, ReaderRise, Len(data) < 8 * AnswerBytes,
         timeout + 1 < TimeoutLimit
  PROVE  /\ reader' = reader /\ Reading' /\ timeout' = timeout + 1
         /\ data' = data /\ miso_trigger' = miso_trigger
         /\ AnswerBytes' = AnswerBytes
<1>1. Len(data) # 8 * AnswerBytes /\ timeout + 1 # TimeoutLimit
  <2>1. Len(data) \in Nat
    BY DEF TypeOK, HostType
  <2> QED
    BY <2>1, Limits, SMT
<1>2. /\ reader' = reader /\ timeout' = timeout + 1
      /\ data' = data /\ miso_trigger' = miso_trigger
  BY <1>1 DEF ReaderRise
<1> QED
  BY <1>2 DEF Reading, AnswerBytes

\* A reader with time left goes on, and takes one bit at most.
LEMMA ReaderFallStays ==
  ASSUME TypeOK, Reading, ReaderFall(miso, alu_output_raspi), timeout + 1 < TimeoutLimit
  PROVE  /\ reader' = reader /\ Reading' /\ timeout' = timeout + 1
         /\ miso_trigger' = (miso_trigger \/ miso)
         /\ ~miso_trigger => data' = data
         /\ miso_trigger /\ Len(data) < 8 * AnswerBytes => Len(data') = Len(data) + 1
         /\ AnswerBytes' = AnswerBytes
<1>1. timeout + 1 # TimeoutLimit
  BY Limits, SMT
<1>2. /\ reader' = reader /\ timeout' = timeout + 1
      /\ miso_trigger' = (miso_trigger \/ miso)
      /\ ~miso_trigger => data' = data
      /\ miso_trigger /\ Len(data) < 8 * AnswerBytes =>
           data' = Append(data, alu_output_raspi)
  BY <1>1 DEF ReaderFall, TypeOK, HostType, OutputType
<1>3. Len(Append(data, alu_output_raspi)) = Len(data) + 1
  BY SMT DEF TypeOK, HostType, OutputType
<1> QED
  BY <1>2, <1>3 DEF Reading, AnswerBytes

\* The shifter keeps quiet until a result line is driven.
LEMMA OutputQuiet ==
  ASSUME FpgaRise, idx = 0, enables \cap ResultLines = {}
  PROVE  ~miso' /\ idx' = 0
BY SMT DEF FpgaRise, OutputRise, ResultLines

\* The remaining clocks are at least one.
LEMMA LeftType ==
  ASSUME TypeOK
  PROVE  Left \in Nat /\ Left >= 1
<1>1. Rank(next_state) \in Nat /\ Rank(next_state) >= 1
  BY RankTable, EepromDumpWaitAssumption, SMT DEF TypeOK, SequencerType, PicState
<1>2. /\ EepromDumpWait - cycles_waited + 4 - Tick \in Nat
      /\ EepromDumpWait - cycles_waited + 4 - Tick >= 1
  BY EepromDumpWaitAssumption, SMT DEF TypeOK, SequencerType, Tick
<1> QED
  BY <1>1, <1>2 DEF Left

\* In the next state too there is at least one edge left to the end of the path.
LEMMA NextLeftType ==
  ASSUME TypeOK'
  PROVE  Left' \in Nat /\ Left' >= 1
<1>1. Rank(next_state') \in Nat /\ Rank(next_state') >= 1
  BY RankTable, EepromDumpWaitAssumption, SMT DEF TypeOK, SequencerType, PicState
<1>2. /\ EepromDumpWait - cycles_waited' + 4 - Tick' \in Nat
      /\ EepromDumpWait - cycles_waited' + 4 - Tick' >= 1
  <2>1. Tick' \in {0, 1} /\ cycles_waited' \in 0..EepromDumpWait
    BY DEF Tick, TypeOK, SequencerType
  <2>2. \A w \in Nat : \A c \in 0..w : \A t \in {0, 1} :
          w - c + 4 - t \in Nat /\ w - c + 4 - t >= 1
    BY SMT
  <2> QED
    BY <2>1, <2>2, EepromDumpWaitAssumption
<1> QED
  BY <1>1, <1>2 DEF Left

\* Why no reading thread finishes, or gives up, before the answer's first bit.
LEMMA EarlyReader ==
  ASSUME TypeOK, ControlInv, Reading, ~reset,
         InTransit \/ (Busy /\ decoded.type \in Readable)
  PROVE  /\ Len(data) = 0 /\ timeout + 1 < TimeoutLimit /\ Len(data) < 8 * AnswerBytes
         /\ ~miso /\ idx = 0 /\ ~miso_trigger
<1>1. ~miso /\ ~miso_trigger /\ data = <<>>
  BY DEF ControlInv, AnswerInv, BusyInv
<1>2. idx = 0
  <2>1. idx \in Nat
    BY SMT DEF TypeOK, OutputType
  <2> QED
    BY <1>1, <2>1, SMT DEF ControlInv, AnswerInv
<1>3. timeout + 1 < TimeoutLimit
  <2>1. CASE InTransit
    <3>1. timeout <= Tick + IF Sending THEN 2 * sent_bits ELSE 30 + 2 * idle_edges
      BY <2>1 DEF ControlInv, AnswerInv
    <3>2. Sending => sent_bits \in 0..14
      BY SMT DEF Sending, Done, FRAME_BITS, TypeOK, HostType
    <3>3. ~Sending => idle_edges \in 0..4
      <4> SUFFICES ASSUME ~Sending PROVE idle_edges \in 0..4
        OBVIOUS
      <4>1. counter \in 1..5 /\ idle_edges \in Nat
        BY <2>1, HostAssumption, SMT DEF InTransit, TypeOK, ReceiveType, HostType
      <4>2. counter + Lows = 5
        BY <2>1, <4>1, SMT DEF ControlInv, ReceiveInv
      <4> QED
        BY <4>1, <4>2, SMT DEF Lows, Tick
    <3>4. timeout <= 39
      <4>1. Tick \in {0, 1} /\ timeout \in Nat
        BY Limits DEF Tick
      <4> QED
        BY <3>1, <3>2, <3>3, <4>1, SMT
    <3> QED
      BY <3>4, Limits, SMT
  <2>2. CASE Busy /\ decoded.type \in Readable
    <3>1. timeout + 2 * Left + Tick <= 40 + 2 * RunClocks(reader)
      BY <2>2 DEF ControlInv, BusyInv
    <3>2. Left \in Nat
      BY LeftType
    <3>3. Tick \in {0, 1}
      BY DEF Tick
    <3> QED
      BY <3>1, <3>2, <3>3, Limits, SMT
  <2> QED
    BY <2>1, <2>2
<1>4. Len(data) = 0
  BY <1>1, SMT
<1>5. Len(data) < 8 * AnswerBytes
  BY <1>4, Limits, SMT
<1> QED
  BY <1>1, <1>2, <1>3, <1>4, <1>5

\* Every rising edge takes a running instruction one clock further.
LEMMA LeftFalls ==
  ASSUME TypeOK, TypeOK', ControlInv, RisingEdge, ~reset, state # "do_nop"
  PROVE  Left' + 1 <= Left
<1> USE RisePins
<1>1. /\ decoded.type \in InstructionType /\ state \in Path(decoded.type)
      /\ state' = state /\ cycles_waited' = cycles_waited
      /\ next_state' = Successor(state, trig_state_machine, decoded.type)
  BY SequencerRuns
<1>2. cycles_waited \in 0..EepromDumpWait /\ EepromDumpWait \in Nat
  BY EepromDumpWaitAssumption DEF TypeOK, SequencerType
<1>3. CASE state = "do_eeprom_dump"
  <2>1. next_state' = "do_wait"
    BY <1>1, <1>3, PathTable
  <2>2. Left' = EepromDumpWait - cycles_waited + 3
    BY <1>1, <1>2, <1>3, <2>1, SMT DEF Left
  <2>3. CASE next_state = "do_wait"
    BY <1>2, <1>3, <2>2, <2>3, SMT DEF Left
  <2>4. CASE next_state # "do_wait"
    <3>1. next_state = "do_eeprom_dump" /\ cycles_waited = 0
      BY <1>2, <1>3, <2>4, SMT DEF ControlInv, SequencerInv
    <3> QED
      BY <1>2, <2>2, <3>1, RankTable, SMT DEF Left
  <2> QED
    BY <2>3, <2>4
<1>4. CASE state # "do_eeprom_dump"
  <2>1. next_state = state
    BY <1>4 DEF ControlInv, SequencerInv
  <2>2. Left' = Rank(next_state') /\ Left = Rank(next_state)
    BY <1>1, <1>4, <2>1 DEF Left
  <2> QED
    BY <1>1, <1>4, <2>1, <2>2, PathTable
<1> QED
  BY <1>3, <1>4

\* An instruction past its last state spends one more clock driving its lines.
LEMMA LastClock ==
  ASSUME TypeOK, ControlInv, ~reset, ~clk, Busy, state = "do_nop"
  PROVE  /\ next_state = "do_nop" /\ Left = 1
         /\ enables = Asserted(LastState(decoded.type), decoded.type)
         /\ ~trig_state_machine
<1>1. next_state = "do_nop"
  BY DEF ControlInv, SequencerInv
<1>2. enables # {} /\ enables = Asserted(LastState(decoded.type), decoded.type)
  BY <1>1 DEF ControlInv, SequencerInv
<1>3. Left = 1
  BY <1>1, RankTable DEF Left
<1> QED
  BY <1>1, <1>2, <1>3, DispatchMeans

\* A rising edge keeps the bound on how long the board is busy.
LEMMA RiseBusy ==
  ASSUME TypeOK, TypeOK', ControlInv, RisingEdge, ~reset
  PROVE  BusyInv'
<1> USE RisePins
<1>1. decoded.type \in InstructionType
  BY DEF TypeOK, DecoderType, Decoded
<1>2. Left \in Nat /\ Left' \in Nat
  BY LeftType, NextLeftType
<1>3. \A l \in Nat : \A r : l <= 6 /\ r = 0 => l + r <= 6
  BY SMT
<1>4. \A l, m, q, r \in Nat : m + 1 <= l /\ r <= q + 1 /\ l + q <= 6 => m + r <= 6
  BY SMT
<1>5. \A l, m, t, k \in Nat : m + 1 <= l /\ t + 2 * l <= 40 + 2 * k =>
                            t + 1 + 2 * m + 1 <= 40 + 2 * k
  BY SMT
<1>6. CASE state = "do_nop" /\ ~trig_state_machine
  BY <1>6, SequencerStarts DEF Busy, BusyInv
<1>7. CASE state = "do_nop" /\ trig_state_machine
  <2>1. /\ counter = 1 /\ ~Sending /\ ~Busy /\ ~mosi /\ decoded = Decode(frame)
        /\ decoded' = decoded /\ InTransit
    BY <1>7, DispatchMeans, DecodedStable, SMT DEF InTransit
  <2>2. /\ next_state' = Dispatch(decoded.type) /\ state' = "do_nop" /\ enables' = {}
    BY <1>7, SequencerStarts
  <2>3. Left' \in 1..RunClocks(decoded.type)
    BY <1>1, <2>2, DispatchTable DEF Left
  <2>4. CASE decoded.type \notin Readable
    <3>1. Left' <= 6
      <4>1. decoded.type # DumpEeprom
        BY <2>4 DEF Readable
      <4> QED
        BY <2>3, <4>1, SMT DEF RunClocks
    <3>2. Received' = 0
      BY <2>1 DEF Received
    <3>3. Left' + Received' <= 6
      BY <1>2, <1>3, <3>1, <3>2
    <3> QED
      BY <2>1, <2>4, <3>3 DEF BusyInv
  <2>5. CASE decoded.type \in Readable
    <3>1. reader = decoded.type /\ Reading
      BY <2>1, <2>5 DEF ControlInv, AnswerInv, Reading, Readable, NoReader,
         ReadReg, ReadMem, DumpRam, DumpEeprom
    <3>2. data = <<>> /\ timeout <= 38
      <4>1. data = <<>> /\ timeout <= Tick + 30 + 2 * idle_edges
        <5>1. timeout <= Tick + IF Sending THEN 2 * sent_bits ELSE 30 + 2 * idle_edges
          BY <2>1, <3>1 DEF ControlInv, AnswerInv
        <5>2. idle_edges \in Nat
          BY HostAssumption, SMT DEF TypeOK, HostType
        <5> QED
          BY <2>1, <5>1, <5>2, SMT DEF ControlInv, AnswerInv
      <4>2. counter + idle_edges = 5 /\ idle_edges \in Nat
        BY <2>1, HostAssumption, SMT DEF ControlInv, ReceiveInv, Lows, TypeOK, HostType
      <4>3. timeout \in Nat
        BY DEF TypeOK, HostType
      <4> QED
        BY <2>1, <4>1, <4>2, <4>3, SMT
    <3>3. /\ reader' = reader /\ timeout' = timeout + 1
          /\ data' = data /\ miso_trigger' = miso_trigger
      BY <2>1, <3>1, EarlyReader, ReaderStays
    <3>4. ~miso' /\ ~miso_trigger
      BY <2>1, <3>1, EarlyReader, OutputQuiet DEF Busy
    <3>5. timeout' + 2 * Left' + 1 <= 40 + 2 * RunClocks(reader')
      <4>1. RunClocks(reader) \in Nat /\ timeout \in Nat
        BY <3>1, Limits
      <4>2. Left' \in 1..RunClocks(reader)
        BY <2>3, <3>1
      <4> QED
        BY <3>2, <3>3, <4>1, <4>2, SMT
    <3> QED
      BY <2>1, <2>5, <3>1, <3>2, <3>3, <3>4, <3>5 DEF BusyInv
  <2> QED
    BY <2>4, <2>5
<1>8. CASE state # "do_nop"
  <2>1. decoded' = decoded /\ enables \cap ResultLines = {} /\ Busy
    BY <1>8, SequencerRuns DEF Busy
  <2>2. Left' + 1 <= Left
    BY <1>8, LeftFalls
  <2>3. CASE decoded.type \notin Readable
    <3>1. Left + Received <= 6
      BY <2>1, <2>3 DEF ControlInv, BusyInv
    <3>2. Received' \in Nat /\ Received' <= Received + 1 /\ Received \in Nat
      BY SMT DEF Received, TypeOK, HostType, ControlInv, LinkInv, FRAME_BITS
    <3>3. Left' + Received' <= 6
      BY <1>2, <1>4, <2>2, <3>1, <3>2
    <3> QED
      BY <2>1, <2>3, <3>3 DEF BusyInv
  <2>4. CASE decoded.type \in Readable
    <3>1. /\ ~Sending /\ reader = decoded.type /\ data = <<>> /\ ~miso_trigger
          /\ timeout + 2 * Left + Tick <= 40 + 2 * RunClocks(reader)
      BY <2>1, <2>4 DEF ControlInv, BusyInv
    <3>2. Reading
      BY <2>4, <3>1 DEF Reading, Readable, NoReader, ReadReg, ReadMem, DumpRam, DumpEeprom
    <3>3. /\ reader' = reader /\ timeout' = timeout + 1
          /\ data' = data /\ miso_trigger' = miso_trigger
      BY <2>1, <2>4, <3>2, EarlyReader, ReaderStays
    <3>4. ~miso'
      BY <2>1, <2>4, <3>2, EarlyReader, OutputQuiet
    <3>5. timeout' + 2 * Left' + 1 <= 40 + 2 * RunClocks(reader')
      <4>1. RunClocks(reader) \in Nat /\ timeout \in Nat /\ Tick = 0
        BY <3>2, Limits
      <4>2. timeout + 2 * Left <= 40 + 2 * RunClocks(reader)
        BY <1>2, <3>1, <4>1, SMT
      <4> QED
        BY <1>2, <1>5, <2>2, <3>3, <4>1, <4>2
    <3> QED
      BY <2>1, <2>4, <3>1, <3>3, <3>4, <3>5 DEF BusyInv
  <2> QED
    BY <2>3, <2>4
<1> QED
  BY <1>6, <1>7, <1>8

\* The branches of the shifter.
LEMMA OutputBranches ==
  ASSUME idx \in Nat, FpgaRise
  PROVE  /\ idx > 0 => ShiftOut
         /\ idx = 0 /\ "result_eeprom_dump" \in enables =>
              Load(eeprom_dump_int, EepromSize)
         /\ idx = 0 /\ enables \cap {"result_eeprom_dump", "result_ram_dump"}
                        = {"result_ram_dump"} => Load(ram_dump_int, RamSize)
         /\ idx = 0 /\ enables \cap ResultLines = {"result"} =>
              Load([i \in {0} |-> DataToSw(decoded, alu_output_int)], 1)
<1> DEFINE dumps == {"result_eeprom_dump", "result_ram_dump"}
           e == idx = 0 /\ "result_eeprom_dump" \in enables
           r == idx = 0 /\ enables \cap dumps = {"result_ram_dump"}
           b == idx = 0 /\ enables \cap {"result_eeprom_dump", "result_ram_dump", "result"}
                            = {"result"}
<1>1. ~(idx > 0 /\ idx = 0)
  BY SMT
<1>2. ~(e /\ r) /\ ~(e /\ b) /\ ~(r /\ b)
  <2>1. "result_eeprom_dump" # "result" /\ "result_eeprom_dump" # "result_ram_dump"
        /\ "result_ram_dump" # "result"
    BY SMT
  <2> QED
    BY <2>1
<1>3. ResultLines = {"result_eeprom_dump", "result_ram_dump", "result"}
  BY DEF ResultLines
<1>4. OutputRise(enables, DataToSw(decoded, alu_output_int), ram_dump_int, RamSize,
                 eeprom_dump_int, EepromSize)
  BY DEF FpgaRise
<1>5. idx > 0 => ShiftOut
  BY <1>1, <1>4, Zenon DEF OutputRise
<1>6. e => Load(eeprom_dump_int, EepromSize)
  BY <1>1, <1>2, <1>4, Zenon DEF OutputRise
<1>7. r => Load(ram_dump_int, RamSize)
  BY <1>1, <1>2, <1>4, Zenon DEF OutputRise
<1>8. b => Load([i \in {0} |-> DataToSw(decoded, alu_output_int)], 1)
  BY <1>1, <1>2, <1>4, Zenon DEF OutputRise
<1> QED
  BY <1>3, <1>5, <1>6, <1>7, <1>8

\* What the shifter does on a rising edge: it shifts, loads the answer the
\* instruction in its last clock calls for, or keeps quiet.
LEMMA RiseOutput ==
  ASSUME TypeOK, ControlInv, RisingEdge, ~reset
  PROVE  \/ idx > 0 /\ miso /\ miso' /\ idx' = idx - 1
         \/ /\ idx = 0 /\ Busy /\ state = "do_nop" /\ decoded.type \in Readable
            /\ miso' /\ idx' = 8 * AnswerBytes
         \/ /\ idx = 0 /\ ~miso' /\ idx' = 0
            /\ ~(Busy /\ state = "do_nop" /\ decoded.type \in Readable)
<1> USE RisePins
<1>1. idx \in Nat /\ decoded.type \in InstructionType
  BY SMT DEF TypeOK, OutputType, DecoderType, Decoded
<1>2. CASE idx > 0
  <2>1. miso
    BY <1>2 DEF ControlInv, AnswerInv
  <2>2. miso' /\ idx' = idx - 1
    BY <1>1, <1>2, OutputBranches DEF ShiftOut
  <2> QED
    BY <1>2, <2>1, <2>2
<1>3. CASE idx = 0 /\ enables \cap ResultLines = {}
  <2>1. ~(Busy /\ state = "do_nop" /\ decoded.type \in Readable)
    BY <1>1, <1>3, LastClock, LastLines
  <2> QED
    BY <1>3, <2>1, OutputQuiet
<1>4. CASE idx = 0 /\ enables \cap ResultLines # {}
  <2>1. Busy /\ next_state = "do_nop"
    BY <1>4 DEF ControlInv, SequencerInv, Busy
  <2>2. state = "do_nop"
    BY <2>1 DEF ControlInv, SequencerInv
  <2>3. enables = Asserted(LastState(decoded.type), decoded.type)
    BY <2>1, <2>2, LastClock
  <2>4. decoded.type \in Readable
    BY <1>1, <1>4, <2>3, LastLines
  <2>5. reader = decoded.type /\ Reading
    BY <2>1, <2>4 DEF ControlInv, BusyInv, Reading, Readable, NoReader,
       ReadReg, ReadMem, DumpRam, DumpEeprom
  <2>6. miso' /\ idx' = 8 * AnswerBytes
    <3>1. CASE decoded.type = DumpEeprom
      <4>1. AnswerBytes = EepromSize
        BY <2>5, <3>1, LinkAssumption DEF AnswerBytes
      <4> QED
        BY <1>1, <1>4, <2>3, <3>1, <4>1, LastLines, OutputBranches DEF Load
    <3>2. CASE decoded.type = DumpRam
      <4>1. AnswerBytes = RamSize
        BY <2>5, <3>2, LinkAssumption DEF AnswerBytes
      <4> QED
        BY <1>1, <1>4, <2>3, <3>2, <4>1, LastLines, OutputBranches DEF Load
    <3>3. CASE decoded.type \in {ReadReg, ReadMem}
      <4>1. AnswerBytes = 1
        BY <2>5, <3>3 DEF AnswerBytes, ReadReg, ReadMem, DumpRam, DumpEeprom
      <4>2. enables \cap ResultLines = {"result"}
        BY <1>1, <2>3, <3>3, LastLines
      <4> QED
        BY <1>1, <1>4, <4>1, <4>2, OutputBranches DEF Load
    <3> QED
      BY <2>4, <3>1, <3>2, <3>3 DEF Readable
  <2> QED
    BY <1>4, <2>1, <2>2, <2>4, <2>6
<1> QED
  BY <1>1, <1>2, <1>3, <1>4, SMT

\* It keeps the bit on the wire the one the sender has counted to.
LEMMA RiseLink ==
  ASSUME ControlInv, RisingEdge, ~reset
  PROVE  LinkInv'
<1> USE RisePins
<1> QED
  BY DEF ControlInv, LinkInv

\* InTransit ends on a rising edge by dispatching the word, and only so.
LEMMA RiseTransit ==
  ASSUME TypeOK, ControlInv, RisingEdge, ~reset
  PROVE  /\ InTransit' => InTransit
         /\ Busy /\ state = "do_nop" => ~Busy'
         /\ ~Busy => (Busy' <=> trig_state_machine)
         /\ InTransit /\ ~InTransit' <=> trig_state_machine /\ state = "do_nop"
<1> USE RisePins
<1>1. counter \in 0..5 /\ decoded.type \in InstructionType
  BY DEF TypeOK, ReceiveType, DecoderType, Decoded
<1>2. InTransit' => InTransit
  BY <1>1, RiseCounter, SMT DEF InTransit, Sending
<1>3. Busy /\ state = "do_nop" => ~Busy'
  BY LastClock, SequencerStarts DEF Busy
<1>4. ~Busy => (Busy' <=> trig_state_machine)
  BY <1>1, SequencerStarts, DispatchTable DEF Busy
<1>5. ASSUME trig_state_machine, state = "do_nop"
      PROVE  InTransit /\ ~InTransit'
  <2>1. counter = 1 /\ ~Sending /\ ~mosi
    BY <1>5, DispatchMeans
  <2>2. counter' = 0
    BY <2>1, RiseCounter, SMT
  <2> QED
    BY <2>1, <2>2, SMT DEF InTransit, Sending
<1>6. ASSUME InTransit, ~InTransit'
      PROVE  trig_state_machine /\ state = "do_nop"
  <2>1. ~Sending /\ counter > 0 /\ ~(counter' > 0)
    BY <1>6 DEF InTransit, Sending
  <2>2. ~mosi /\ counter = 1
    BY <1>1, <2>1, RiseCounter, SMT
  <2>3. trig_instruction_process /\ ~Busy
    BY <2>1, <2>2, SMT DEF ControlInv, ReceiveInv, DecoderInv
  <2> QED
    BY <2>2, <2>3, SMT DEF ControlInv, DecoderInv, Busy
<1> QED
  BY <1>2, <1>3, <1>4, <1>5, <1>6

\* It keeps the reader and the shift register at the same bit of the answer.
LEMMA RiseAnswer ==
  ASSUME TypeOK, TypeOK', ControlInv, RisingEdge, ~reset
  PROVE  AnswerInv'
<1> USE RisePins
<1>1. /\ idx \in Nat /\ Len(data) \in Nat /\ frame' = frame
      /\ sent_bits \in Nat /\ idle_edges \in Nat
  <2>1. idx \in Nat
    BY SMT DEF TypeOK, OutputType
  <2>2. Len(data) \in Nat
    BY SMT DEF TypeOK, HostType
  <2>3. sent_bits \in Nat /\ idle_edges \in Nat
    BY HostAssumption, SMT DEF TypeOK, HostType, Done, FRAME_BITS
  <2> QED
    BY <2>1, <2>2, <2>3
<1>2. idx' > 0 => miso'
  BY <1>1, RiseOutput, SMT
<1>3. ASSUME InTransit'
      PROVE  /\ reader' = IF Decode(frame').type \in Readable THEN Decode(frame').type
                          ELSE NoReader
             /\ ~miso_trigger' /\ data' = <<>>
             /\ Reading' => timeout' <= Tick' + IF Sending' THEN 2 * sent_bits'
                                                ELSE 30 + 2 * idle_edges'
  <2>1. InTransit
    BY <1>3, RiseTransit
  <2>2. /\ reader = IF Decode(frame).type \in Readable THEN Decode(frame).type
                    ELSE NoReader
        /\ ~miso_trigger /\ data = <<>>
        /\ Reading => timeout <= Tick + IF Sending THEN 2 * sent_bits
                                        ELSE 30 + 2 * idle_edges
    BY <2>1 DEF ControlInv, AnswerInv
  <2>3. CASE Reading
    <3>1. /\ reader' = reader /\ timeout' = timeout + 1
          /\ data' = data /\ miso_trigger' = miso_trigger
      BY <2>1, <2>3, EarlyReader, ReaderStays
    <3>2. timeout' <= 1 + IF Sending THEN 2 * sent_bits ELSE 30 + 2 * idle_edges
      <4>1. timeout \in Nat
        BY <2>3, Limits
      <4> QED
        BY <1>1, <2>2, <2>3, <3>1, <4>1, SMT
    <3>3. Tick' + (IF Sending' THEN 2 * sent_bits' ELSE 30 + 2 * idle_edges')
            = 1 + IF Sending THEN 2 * sent_bits ELSE 30 + 2 * idle_edges
      OBVIOUS
    <3> QED
      BY <1>1, <2>2, <3>1, <3>2, <3>3
  <2>4. CASE ~Reading
    <3>1. reader' = reader /\ data' = data /\ miso_trigger' = miso_trigger
      BY <2>4 DEF ReaderRise
    <3> QED
      BY <1>1, <2>2, <2>4, <3>1 DEF Reading
  <2> QED
    BY <2>3, <2>4
<1>4. ASSUME miso'
      PROVE  /\ Reading' /\ ~InTransit' /\ ~Busy'
             /\ IF miso_trigger' THEN Len(data') + idx' + Tick' = 8 * AnswerBytes'
                ELSE clk' /\ idx' = 8 * AnswerBytes' /\ data' = <<>>
             /\ timeout' + 2 * idx' + Tick'
                  <= 40 + 2 * RunClocks(reader') + 16 * AnswerBytes'
  <2>1. CASE idx > 0 /\ miso /\ idx' = idx - 1
    <3>1. /\ Reading /\ ~InTransit /\ ~Busy /\ miso_trigger
          /\ Len(data) + idx + Tick = 8 * AnswerBytes
          /\ timeout + 2 * idx + Tick <= 40 + 2 * RunClocks(reader) + 16 * AnswerBytes
      BY <2>1 DEF ControlInv, AnswerInv
    <3>2. /\ AnswerBytes \in Nat /\ RunClocks(reader) \in Nat /\ timeout \in Nat
          /\ TimeoutLimit \in Nat
          /\ TimeoutLimit >= 42 + 2 * RunClocks(reader) + 16 * AnswerBytes
          /\ Tick = 0
      BY <3>1, Limits
    <3>3. Len(data) < 8 * AnswerBytes /\ timeout + 1 < TimeoutLimit
      BY <1>1, <2>1, <3>1, <3>2, SMT
    <3>4. /\ reader' = reader /\ Reading' /\ timeout' = timeout + 1
          /\ data' = data /\ miso_trigger' = miso_trigger /\ AnswerBytes' = AnswerBytes
      BY <3>1, <3>3, ReaderStays
    <3>5. ~InTransit' /\ ~Busy'
      BY <3>1, RiseTransit DEF Busy
    <3>6. /\ Len(data) + (idx - 1) + 1 = 8 * AnswerBytes
          /\ timeout + 1 + 2 * (idx - 1) + 1
               <= 40 + 2 * RunClocks(reader) + 16 * AnswerBytes
      BY <1>1, <2>1, <3>1, <3>2, SMT
    <3> QED
      BY <2>1, <3>1, <3>4, <3>5, <3>6
  <2>2. CASE /\ idx = 0 /\ Busy /\ state = "do_nop" /\ decoded.type \in Readable
             /\ idx' = 8 * AnswerBytes
    <3>1. /\ reader = decoded.type /\ ~miso_trigger /\ data = <<>> /\ Left = 1
          /\ timeout + 2 * Left + Tick <= 40 + 2 * RunClocks(reader)
          /\ ~Sending
      BY <2>2, LastClock DEF ControlInv, BusyInv
    <3>2. Reading
      BY <2>2, <3>1 DEF Reading, Readable, NoReader, ReadReg, ReadMem, DumpRam, DumpEeprom
    <3>3. /\ reader' = reader /\ Reading' /\ timeout' = timeout + 1
          /\ data' = data /\ miso_trigger' = miso_trigger /\ AnswerBytes' = AnswerBytes
      BY <2>2, <3>2, EarlyReader, ReaderStays
    <3>4. ~Busy'
      BY <2>2, RiseTransit
    <3>5. ~InTransit'
      <4>1. ~InTransit
        BY <2>2, <3>1 DEF ControlInv, DecoderInv, InTransit
      <4> QED
        BY <4>1, RiseTransit
    <3>6. timeout + 1 + 2 * (8 * AnswerBytes) + 1
            <= 40 + 2 * RunClocks(reader) + 16 * AnswerBytes
      <4>1. AnswerBytes \in Nat /\ RunClocks(reader) \in Nat /\ timeout \in Nat
            /\ Tick = 0
        BY <3>2, Limits
      <4> QED
        BY <3>1, <4>1, SMT
    <3> QED
      BY <2>2, <3>1, <3>3, <3>4, <3>5, <3>6
  <2> QED
    BY <1>4, <2>1, <2>2, RiseOutput
<1>5. ASSUME Reading', ~InTransit', ~miso'
      PROVE  Busy' /\ decoded'.type \in Readable
  <2>1. Reading /\ reader' = reader
    BY <1>5 DEF ReaderRise, Reading
  <2>2. CASE InTransit
    <3>1. trig_state_machine /\ state = "do_nop"
      BY <1>5, <2>2, RiseTransit
    <3>2. decoded' = decoded /\ decoded = Decode(frame) /\ ~Busy
      BY <3>1, DispatchMeans, DecodedStable
    <3>3. decoded.type \in Readable
      BY <2>1, <2>2, <3>2 DEF ControlInv, AnswerInv, Reading
    <3> QED
      BY <3>1, <3>2, <3>3, RiseTransit
  <2>3. CASE ~InTransit /\ miso
    <3>1. idx = 0
      BY <1>5, <2>3, RiseOutput
    <3>2. miso_trigger /\ Len(data) + idx + Tick = 8 * AnswerBytes
      BY <2>3 DEF ControlInv, AnswerInv
    <3>3. Len(data) = 8 * AnswerBytes
      <4>1. AnswerBytes \in Nat /\ Tick = 0
        BY <2>1, Limits
      <4> QED
        BY <1>1, <3>1, <3>2, <4>1, SMT
    <3>4. reader' = NoReader
      BY <2>1, <3>3 DEF ReaderRise
    <3> QED
      BY <1>5, <3>4 DEF Reading
  <2>4. CASE ~InTransit /\ ~miso
    <3>1. Busy /\ decoded.type \in Readable
      BY <2>1, <2>4 DEF ControlInv, AnswerInv
    <3>2. state # "do_nop"
      BY <1>5, <3>1, <2>4, RiseOutput, EarlyReader, <2>1
    <3>3. decoded' = decoded /\ Busy'
      BY <3>2, SequencerRuns DEF Busy
    <3> QED
      BY <3>1, <3>3
  <2> QED
    BY <2>2, <2>3, <2>4
<1> QED
  BY <1>2, <1>3, <1>4, <1>5 DEF AnswerInv

\* So a rising edge out of reset keeps the whole control invariant.
LEMMA RiseControl ==
  ASSUME TypeOK, TypeOK', ControlInv, RisingEdge, ~reset
  PROVE  ControlInv'
BY RiseLink, RiseReceive, RiseDecoder, RiseSequencer, RiseBusy, RiseAnswer DEF ControlInv

(***************************************************************************)
(* A falling edge on a board that is not in reset.                         *)
(***************************************************************************)
LEMMA FallHost ==
  ASSUME FallingEdge
  PROVE  /\ SenderFall /\ ReaderFall(miso, alu_output_raspi) /\ frame' = frame
         /\ clk /\ ~clk' /\ reset' = reset /\ Tick = 1 /\ Tick' = 0
BY DEF FallingEdge, HostFall, SenderFall, Tick

\* What a falling edge out of reset moves, and what it leaves alone.
LEMMA FallPins ==
  ASSUME FallingEdge, ~reset
  PROVE  /\ SequencerFall /\ SenderFall /\ ReaderFall(miso, alu_output_raspi)
         /\ clk /\ ~clk' /\ ~reset'
         /\ UNCHANGED <<binary_string, mosi_detected, counter, trig_instruction_process,
                        decoded, trig_state_machine, miso, idx, frame>>
         /\ Tick = 1 /\ Tick' = 0
BY DEF FallingEdge, HostFall, SenderFall, Tick, receive_vars, decoder_vars, output_vars

\* The sender on a falling edge: a bit, the end of the word, or an idle clock.
LEMMA FallSender ==
  ASSUME TypeOK, ControlInv, FallingEdge
  PROVE  \/ /\ sent_bits \in 0..13 /\ sent_bits' = sent_bits + 1 /\ mosi' /\ Sending
            /\ Sending' /\ serial_in' = frame[14 - sent_bits'] /\ Received' = sent_bits
            /\ sent_bits > 0 => Received = sent_bits /\ mosi
            /\ sent_bits = 0 => idle_edges = MinIdle /\ Received = 0
         \/ /\ sent_bits = 14 /\ sent_bits' = 15 /\ ~mosi' /\ Sending /\ ~Sending'
            /\ mosi /\ Received = 14 /\ Received' = 0 /\ idle_edges' = 0
         \/ /\ sent_bits = 15 /\ sent_bits' = 15 /\ ~mosi /\ ~mosi' /\ ~Sending /\ ~Sending'
            /\ Received' = 0
            /\ idle_edges' = IF idle_edges < MinIdle THEN idle_edges + 1 ELSE MinIdle
<1> USE FallHost DEF FRAME_BITS, Done, Sending
<1>1. /\ sent_bits \in 0..15 /\ idle_edges \in 0..MinIdle /\ MinIdle \in Nat
      /\ mosi <=> sent_bits \in 1..14
      /\ sent_bits = 0 => idle_edges = MinIdle
  BY HostAssumption DEF TypeOK, HostType, ControlInv, LinkInv
<1>2. /\ sent_bits' = IF sent_bits < 15 THEN sent_bits + 1 ELSE sent_bits
      /\ mosi' <=> sent_bits < 14
      /\ serial_in' = IF sent_bits < 14 THEN frame[13 - sent_bits] ELSE serial_in
  <2>1. 14 + 1 = 15 /\ 14 - 1 - sent_bits = 13 - sent_bits
    BY <1>1, SMT
  <2> QED
    BY <2>1, Zenon DEF SenderFall
<1>3. idle_edges' = IF sent_bits < 15 THEN 0
                    ELSE IF idle_edges < MinIdle THEN idle_edges + 1 ELSE MinIdle
  <2>1. sent_bits < 15 => idle_edges' = 0
    BY DEF SenderFall
  <2>2. ~(sent_bits < 15) /\ idle_edges < MinIdle => idle_edges' = idle_edges + 1
    BY <1>1, SMT DEF SenderFall
  <2>3. ~(sent_bits < 15) /\ ~(idle_edges < MinIdle) => idle_edges' = MinIdle
    BY <1>1, SMT DEF SenderFall
  <2> QED
    BY <2>1, <2>2, <2>3
<1>4. CASE sent_bits \in 0..13
  <2>1. sent_bits' = sent_bits + 1 /\ mosi' /\ Sending /\ Sending'
    <3>1. sent_bits < 15 /\ sent_bits < 14 /\ sent_bits + 1 < 14 + 1
      BY <1>4, SMT
    <3> QED
      BY <1>2, <3>1
  <2>2. serial_in' = frame[14 - sent_bits']
    <3>1. 13 - sent_bits = 14 - sent_bits'
      BY <1>4, <2>1, SMT
    <3>2. sent_bits < 14
      BY <1>4, SMT
    <3> QED
      BY <1>2, <3>1, <3>2
  <2>3. Received' = sent_bits
    <3>1. Received' = sent_bits' - 1 + Tick'
      BY <2>1 DEF Received
    <3> QED
      BY <1>4, <2>1, <3>1, SMT
  <2>4. sent_bits > 0 => Received = sent_bits /\ mosi
    BY <1>1, <1>4, SMT DEF Received
  <2>5. sent_bits = 0 => idle_edges = MinIdle /\ Received = 0
    BY <1>1, SMT DEF Received
  <2> QED
    BY <1>4, <2>1, <2>2, <2>3, <2>4, <2>5
<1>5. CASE sent_bits = 14
  <2>1. /\ sent_bits' = 15 /\ ~mosi' /\ Sending /\ ~Sending' /\ mosi /\ idle_edges' = 0
        /\ Received = 14
    <3>1. /\ sent_bits < 14 + 1 /\ sent_bits < 15 /\ ~(sent_bits < 14) /\ sent_bits \in 1..14
          /\ sent_bits + 1 = 15 /\ ~(15 < 14 + 1) /\ sent_bits - 1 + 1 = 14
      BY <1>5, SMT
    <3> QED
      BY <1>1, <1>2, <1>3, <3>1 DEF Received
  <2> QED
    BY <1>5, <2>1 DEF Received
<1>6. CASE sent_bits = 15
  <2>1. /\ sent_bits' = 15 /\ ~mosi /\ ~mosi' /\ ~Sending /\ ~Sending'
        /\ idle_edges' = IF idle_edges < MinIdle THEN idle_edges + 1 ELSE MinIdle
    <3>1. ~(15 < 14 + 1) /\ ~(15 < 15) /\ ~(15 < 14) /\ 15 \notin 1..14
      BY SMT
    <3> QED
      BY <1>1, <1>2, <1>3, <1>6, <3>1
  <2> QED
    BY <1>6, <2>1 DEF Received
<1> QED
  BY <1>1, <1>4, <1>5, <1>6, SMT

\* A falling edge keeps the bit on the wire the one the sender has counted to.
LEMMA FallLink ==
  ASSUME TypeOK, ControlInv, FallingEdge
  PROVE  LinkPins'
<1> USE FallHost DEF FRAME_BITS
<1>1. CASE sent_bits \in 0..13 /\ sent_bits' = sent_bits + 1 /\ mosi'
           /\ serial_in' = frame[14 - sent_bits']
  BY <1>1, SMT DEF LinkPins
<1>2. CASE sent_bits' = 15 /\ ~mosi'
  BY <1>2, SMT DEF LinkPins
<1> QED
  BY <1>1, <1>2, FallSender

\* The last stage of the pipeline is over long before a whole word has arrived.
LEMMA IdleAtWordEnd ==
  ASSUME TypeOK, ControlInv, ~reset, Sending, Received = 14
  PROVE  ~Busy
<1> SUFFICES ASSUME Busy PROVE FALSE
  OBVIOUS
<1>1. decoded.type \notin Readable
  BY DEF ControlInv, BusyInv
<1>2. Left + Received <= 6
  BY <1>1 DEF ControlInv, BusyInv
<1> QED
  BY <1>2, LeftType, SMT

\* It keeps what has been received equal to what has been sent.
LEMMA FallReceive ==
  ASSUME TypeOK, ControlInv, FallingEdge, ~reset
  PROVE  ReceiveInv'
<1> USE FallPins DEF FRAME_BITS
<1>1. /\ counter \in 0..5 /\ idle_edges \in 0..MinIdle /\ MinIdle \in Nat /\ MinIdle >= 5
      /\ binary_string \in [0..13 -> {0, 1}] /\ frame \in [0..13 -> {0, 1}]
  BY HostAssumption, LinkAssumption, SMT DEF TypeOK, ReceiveType, HostType, Word
<1>2. ReceiveInv
  BY DEF ControlInv
<1>3. CASE /\ sent_bits \in 0..13 /\ mosi' /\ Sending /\ Sending' /\ Received' = sent_bits
           /\ sent_bits > 0 => Received = sent_bits /\ mosi
           /\ sent_bits = 0 => idle_edges = MinIdle /\ Received = 0
  <2>1. CASE sent_bits = 0
    <3>1. counter = 0 /\ Lows > 5
      BY <1>1, <1>2, <1>3, <2>1, SMT DEF ReceiveInv, Lows
    <3>2. ~trig_instruction_process
      BY <1>2, <3>1, SMT DEF ReceiveInv
    <3> QED
      BY <1>3, <2>1, <3>1, <3>2, SMT DEF ReceiveInv
  <2>2. CASE sent_bits > 0
    <3>1. /\ ~trig_instruction_process /\ mosi_detected /\ counter = 5
          /\ \A j \in 0..Received - 1 : binary_string[j] = frame[14 - Received + j]
      BY <1>2, <1>3, <2>2 DEF ReceiveInv
    <3>2. Received' = Received /\ Received' # 0
      BY <1>3, <2>2, SMT
    <3> QED
      BY <1>3, <3>1, <3>2 DEF ReceiveInv
  <2> QED
    BY <1>3, <2>1, <2>2, SMT
<1>4. CASE /\ ~mosi' /\ Sending /\ ~Sending' /\ mosi /\ Received = 14 /\ Received' = 0
           /\ idle_edges' = 0
  <2>1. /\ mosi_detected /\ counter = 5 /\ ~trig_instruction_process
        /\ \A j \in 0..13 : binary_string[j] = frame[14 - 14 + j]
    BY <1>2, <1>4, SMT DEF ReceiveInv
  <2>2. binary_string = frame
    <3>1. \A j \in 0..13 : binary_string[j] = frame[j]
      BY <2>1, SMT
    <3> QED
      BY <1>1, <3>1
  <2>3. counter' + Lows' = 5 /\ ~(counter' < 3) /\ ~(Received' > 0)
    <3>1. Lows' = 0
      BY <1>4, SMT DEF Lows
    <3> QED
      BY <1>4, <2>1, <3>1, SMT
  <2> QED
    BY <1>4, <2>1, <2>2, <2>3 DEF ReceiveInv
<1>5. CASE /\ ~mosi /\ ~mosi' /\ ~Sending /\ ~Sending' /\ Received' = 0
           /\ idle_edges' = IF idle_edges < MinIdle THEN idle_edges + 1 ELSE MinIdle
  <2>1. ~(Received' > 0)
    BY <1>5, SMT
  <2>2. Lows <= 5 => Lows' = Lows
    <3>1. Lows = idle_edges + 1 /\ Lows' = idle_edges' + 0
      BY DEF Lows
    <3> QED
      BY <1>1, <1>5, <3>1, SMT
  <2>3. counter > 0 => /\ mosi_detected /\ binary_string = frame
                       /\ counter + Lows = 5
                       /\ trig_instruction_process <=> counter < 3
    BY <1>2, <1>5 DEF ReceiveInv
  <2>4. counter > 0 => Lows' = Lows
    BY <1>1, <2>2, <2>3, SMT DEF Lows
  <2>5. trig_instruction_process /\ counter = 0 => Lows' = 5
    BY <1>1, <1>2, <2>2, SMT DEF ReceiveInv, Lows
  <2> QED
    BY <1>5, <2>1, <2>3, <2>4, <2>5 DEF ReceiveInv
<1> QED
  BY <1>3, <1>4, <1>5, FallSender

\* What one falling edge does to the sequencer: it waits in do_eeprom_dump or
\* takes the next state; neither ends the instruction nor brings its end nearer.
LEMMA FallState ==
  ASSUME TypeOK, ControlInv, FallingEdge, ~reset
  PROVE  /\ \/ /\ state = "do_eeprom_dump" /\ next_state = "do_wait" /\ state' = state
               /\ cycles_waited < EepromDumpWait /\ cycles_waited' = cycles_waited + 1
            \/ /\ state' = next_state /\ cycles_waited' = 0
               /\ state = "do_eeprom_dump" => cycles_waited = EepromDumpWait
         /\ state = "do_eeprom_dump" => next_state = "do_wait"
         /\ UNCHANGED <<next_state, enables, wait_for_state_change, num_wait_cycles>>
         /\ Busy' <=> Busy
<1> USE FallPins
<1>1. /\ wait_for_state_change <=> state = "do_eeprom_dump"
      /\ num_wait_cycles = IF wait_for_state_change THEN EepromDumpWait ELSE 0
      /\ state = "do_eeprom_dump" => next_state = "do_wait"
      /\ Busy => next_state # "do_nop" \/ enables # {}
  BY DEF ControlInv, SequencerInv
<1>2. cycles_waited \in 0..EepromDumpWait /\ EepromDumpWait \in Nat
  BY EepromDumpWaitAssumption DEF TypeOK, SequencerType
<1>3. UNCHANGED <<next_state, enables, wait_for_state_change, num_wait_cycles>>
  BY DEF SequencerFall
<1>4. CASE wait_for_state_change /\ cycles_waited < num_wait_cycles
  <2>1. state' = state /\ cycles_waited' = cycles_waited + 1
    BY <1>4 DEF SequencerFall
  <2> QED
    BY <1>1, <1>3, <1>4, <2>1 DEF Busy
<1>5. CASE ~(wait_for_state_change /\ cycles_waited < num_wait_cycles)
  <2>1. state' = next_state /\ cycles_waited' = 0
    BY <1>5 DEF SequencerFall
  <2>2. state = "do_eeprom_dump" => cycles_waited = EepromDumpWait
    BY <1>1, <1>2, <1>5, SMT
  <2>3. Busy' <=> Busy
    BY <1>1, <1>3, <2>1 DEF Busy
  <2> QED
    BY <1>1, <1>3, <2>1, <2>2, <2>3
<1> QED
  BY <1>4, <1>5

\* It brings no instruction nearer to its end.
LEMMA FallLeft ==
  ASSUME TypeOK, ControlInv, FallingEdge, ~reset
  PROVE  Left' = Left
<1> USE FallPins
<1>1. cycles_waited \in 0..EepromDumpWait /\ EepromDumpWait \in Nat
  BY EepromDumpWaitAssumption DEF TypeOK, SequencerType
<1>2. next_state' = next_state
  BY FallState
<1>3. CASE /\ state = "do_eeprom_dump" /\ next_state = "do_wait" /\ state' = state
           /\ cycles_waited' = cycles_waited + 1
  <2>1. /\ Left = EepromDumpWait - cycles_waited + 4 - 1
        /\ Left' = EepromDumpWait - (cycles_waited + 1) + 4 - 0
    BY <1>2, <1>3 DEF Left
  <2> QED
    BY <1>1, <2>1, SMT
<1>4. CASE /\ state' = next_state
           /\ state = "do_eeprom_dump" => cycles_waited = EepromDumpWait
  <2>1. Left' = Rank(next_state)
    <3>1. ~(state' = "do_eeprom_dump" /\ next_state' = "do_wait")
      BY <1>2, <1>4
    <3> QED
      BY <1>2, <3>1 DEF Left
  <2>2. CASE state = "do_eeprom_dump"
    <3>1. next_state = "do_wait"
      BY <2>2, FallState
    <3>2. Left = EepromDumpWait - EepromDumpWait + 4 - 1
      BY <1>4, <2>2, <3>1 DEF Left
    <3>3. Left = 3
      BY <1>1, <3>2, SMT
    <3> QED
      BY <2>1, <3>1, <3>3, RankTable
  <2>3. CASE state # "do_eeprom_dump"
    BY <2>1, <2>3 DEF Left
  <2> QED
    BY <2>2, <2>3
<1> QED
  BY <1>3, <1>4, FallState

\* It keeps the sequencer on its path.
LEMMA FallSequencer ==
  ASSUME TypeOK, ControlInv, FallingEdge, ~reset
  PROVE  SequencerInv'
<1> USE FallPins
<1>1. SequencerInv
  BY DEF ControlInv
<1>2. state' \in Path(decoded'.type) /\ next_state' \in Path(decoded'.type)
  BY <1>1, FallState DEF SequencerInv
<1>3. state' = next_state' \/ (state' = "do_eeprom_dump" /\ next_state' = "do_wait")
  BY FallState
<1>4. cycles_waited' > 0 => state' = "do_eeprom_dump" /\ next_state' = "do_wait"
  <2>1. ~(0 > 0)
    BY SMT
  <2> QED
    BY <2>1, FallState
<1>5. Busy' => next_state' # "do_nop" \/ enables' # {}
  BY <1>1, FallState DEF SequencerInv
<1> QED
  BY <1>1, <1>2, <1>3, <1>4, <1>5, FallState DEF SequencerInv

\* A word that is under way stays so, and the last of its bits leaves only to an idle board.
LEMMA FallTransit ==
  ASSUME TypeOK, ControlInv, FallingEdge, ~reset
  PROVE  /\ InTransit' <=> InTransit
         /\ Sending' => Sending
         /\ Sending /\ ~Sending' => ~Busy
<1> USE FallPins
<1>1. Sending' => Sending
  BY FallSender
<1>2. ASSUME Sending, ~Sending' PROVE ~Busy /\ counter = 5
  <2>1. Received = 14
    BY <1>2, FallSender
  <2>2. Received > 0
    BY <2>1, SMT
  <2>3. counter = 5
    BY <2>2 DEF ControlInv, ReceiveInv
  <2> QED
    BY <1>2, <2>1, <2>3, IdleAtWordEnd
<1>3. 5 > 0
  BY SMT
<1> QED
  BY <1>1, <1>2, <1>3 DEF InTransit

\* A falling edge keeps them in step too.
LEMMA FallDecoder ==
  ASSUME TypeOK, ControlInv, FallingEdge, ~reset
  PROVE  DecoderInv'
<1> USE FallPins
<1>1. DecoderInv
  BY DEF ControlInv
<1>2. ~Sending' /\ counter' > 0 => ~Busy'
  BY <1>1, FallState, FallTransit DEF DecoderInv
<1>3. trig_instruction_process' /\ counter' = 0 =>
        next_state' = Dispatch(decoded'.type) /\ state' = next_state'
  BY <1>1, FallState DEF DecoderInv
<1>4. trig_state_machine' =>
        \/ trig_instruction_process' /\ counter' < 2
        \/ counter' = 0 /\ state' # "do_nop" /\ next_state' # "do_nop"
  BY <1>1, FallState DEF DecoderInv
<1> QED
  BY <1>1, <1>2, <1>3, <1>4 DEF DecoderInv

\* It keeps the bound on how long the board is busy.
LEMMA FallBusy ==
  ASSUME TypeOK, ControlInv, FallingEdge, ~reset
  PROVE  BusyInv'
<1> USE FallPins
<1> SUFFICES ASSUME Busy PROVE BusyInv'
  BY FallState DEF BusyInv
<1>1. BusyInv
  BY DEF ControlInv
<1>2. Left' = Left /\ Left \in Nat
  BY FallLeft, LeftType
<1>3. CASE decoded.type \notin Readable
  <2>1. Left + Received <= 6
    BY <1>1, <1>3 DEF BusyInv
  <2>2. Received' \in Nat /\ Received \in Nat /\ Received' <= Received
    <3>1. Received \in Nat
      BY SMT DEF Received, TypeOK, HostType, ControlInv, LinkInv, FRAME_BITS
    <3>2. Received' = Received \/ Received' = 0
      <4>1. \A n \in 0..13 : n = 0 \/ n > 0
        BY SMT
      <4> QED
        BY <4>1, FallSender
    <3> QED
      BY <3>1, <3>2, SMT
  <2>3. \A l, q, r \in Nat : l + q <= 6 /\ r <= q => l + r <= 6
    BY SMT
  <2>4. Left' + Received' <= 6
    BY <1>2, <2>1, <2>2, <2>3
  <2> QED
    BY <1>3, <2>4 DEF BusyInv
<1>4. CASE decoded.type \in Readable
  <2>1. /\ ~Sending /\ reader = decoded.type /\ ~miso /\ ~miso_trigger /\ data = <<>>
        /\ timeout + 2 * Left + Tick <= 40 + 2 * RunClocks(reader)
    BY <1>1, <1>4 DEF BusyInv
  <2>2. Reading
    BY <1>4, <2>1 DEF Reading, Readable, NoReader, ReadReg, ReadMem, DumpRam, DumpEeprom
  <2>3. /\ reader' = reader /\ timeout' = timeout + 1 /\ data' = data /\ ~miso_trigger'
    BY <1>4, <2>1, <2>2, EarlyReader, ReaderFallStays
  <2>4. ~Sending'
    BY <2>1, FallTransit
  <2>5. timeout' + 2 * Left' + Tick' <= 40 + 2 * RunClocks(reader')
    <3>1. \A t, l, k \in Nat : t + 2 * l + 1 <= 40 + 2 * k =>
                               t + 1 + 2 * l + 0 <= 40 + 2 * k
      BY SMT
    <3>2. timeout \in Nat /\ RunClocks(reader) \in Nat
      BY <2>2, Limits
    <3> QED
      BY <1>2, <2>1, <2>3, <3>1, <3>2
  <2> QED
    BY <1>4, <2>1, <2>3, <2>4, <2>5 DEF BusyInv
<1> QED
  BY <1>3, <1>4

\* It keeps the reader and the shift register at the same bit of the answer.
LEMMA FallAnswer ==
  ASSUME TypeOK, ControlInv, FallingEdge, ~reset
  PROVE  AnswerInv'
<1> USE FallPins
<1>1. AnswerInv
  BY DEF ControlInv
<1>2. idx \in Nat /\ Len(data) \in Nat /\ sent_bits \in Nat /\ idle_edges \in Nat
      /\ MinIdle \in Nat /\ MinIdle >= 5
  <2>1. idx \in Nat
    BY SMT DEF TypeOK, OutputType
  <2>2. Len(data) \in Nat
    BY SMT DEF TypeOK, HostType
  <2>3. /\ sent_bits \in Nat /\ idle_edges \in Nat /\ MinIdle \in Nat /\ MinIdle >= 5
    BY HostAssumption, LinkAssumption, SMT DEF TypeOK, HostType, Done, FRAME_BITS
  <2> QED
    BY <2>1, <2>2, <2>3
<1>3. ASSUME InTransit
      PROVE  /\ reader' = IF Decode(frame').type \in Readable THEN Decode(frame').type
                          ELSE NoReader
             /\ ~miso_trigger' /\ data' = <<>>
             /\ Reading' => timeout' <= Tick' + IF Sending' THEN 2 * sent_bits'
                                                ELSE 30 + 2 * idle_edges'
  <2>1. /\ reader = IF Decode(frame).type \in Readable THEN Decode(frame).type
                    ELSE NoReader
        /\ ~miso_trigger /\ data = <<>>
        /\ Reading => timeout <= Tick + IF Sending THEN 2 * sent_bits
                                        ELSE 30 + 2 * idle_edges
    BY <1>1, <1>3 DEF AnswerInv
  <2>2. CASE Reading
    <3>1. /\ reader' = reader /\ timeout' = timeout + 1 /\ data' = data /\ ~miso_trigger'
      BY <1>3, <2>2, EarlyReader, ReaderFallStays
    <3>2. timeout \in Nat
      BY <2>2, Limits
    <3>3. CASE Sending /\ Sending' /\ sent_bits' = sent_bits + 1
      <4>1. timeout <= 1 + 2 * sent_bits
        BY <2>1, <2>2, <3>3
      <4>2. timeout + 1 <= 0 + 2 * (sent_bits + 1)
        BY <1>2, <3>2, <4>1, SMT
      <4> QED
        BY <2>1, <3>1, <3>3, <4>2
    <3>4. CASE Sending /\ ~Sending' /\ sent_bits = 14 /\ idle_edges' = 0
      <4>1. timeout <= 1 + 2 * sent_bits
        BY <2>1, <2>2, <3>4
      <4>2. timeout + 1 <= 0 + (30 + 2 * 0)
        BY <3>2, <3>4, <4>1, SMT
      <4> QED
        BY <2>1, <3>1, <3>4, <4>2
    <3>5. CASE /\ ~Sending /\ ~Sending'
               /\ idle_edges' = IF idle_edges < MinIdle THEN idle_edges + 1 ELSE MinIdle
      <4>1. timeout <= 1 + (30 + 2 * idle_edges)
        BY <2>1, <2>2, <3>5
      <4>2. idle_edges < MinIdle
        <5>1. counter > 0 /\ counter \in 0..5
          BY <1>3, <3>5 DEF InTransit, TypeOK, ReceiveType
        <5>2. counter + (idle_edges + 1) = 5
          BY <3>5, <5>1 DEF ControlInv, ReceiveInv, Lows
        <5> QED
          BY <1>2, <5>1, <5>2, SMT
      <4>3. timeout + 1 <= 0 + (30 + 2 * (idle_edges + 1))
        BY <1>2, <3>2, <4>1, SMT
      <4> QED
        BY <2>1, <3>1, <3>5, <4>2, <4>3
    <3> QED
      BY <3>3, <3>4, <3>5, FallSender
  <2>3. CASE ~Reading
    <3>1. reader' = reader /\ data' = data /\ ~miso_trigger'
      BY <2>1, <2>3 DEF ReaderFall
    <3> QED
      BY <2>1, <2>3, <3>1 DEF Reading
  <2> QED
    BY <2>2, <2>3
<1>4. ASSUME miso
      PROVE  /\ Reading' /\ ~InTransit' /\ ~Busy'
             /\ miso_trigger' /\ Len(data') + idx' + Tick' = 8 * AnswerBytes'
             /\ timeout' + 2 * idx' + Tick'
                  <= 40 + 2 * RunClocks(reader') + 16 * AnswerBytes'
  <2>1. /\ Reading /\ ~InTransit /\ ~Busy
        /\ timeout + 2 * idx + 1 <= 40 + 2 * RunClocks(reader) + 16 * AnswerBytes
        /\ IF miso_trigger THEN Len(data) + idx + 1 = 8 * AnswerBytes
           ELSE idx = 8 * AnswerBytes /\ data = <<>>
    BY <1>1, <1>4 DEF AnswerInv
  <2>2. /\ AnswerBytes \in Nat /\ RunClocks(reader) \in Nat /\ timeout \in Nat
        /\ TimeoutLimit \in Nat
        /\ TimeoutLimit >= 42 + 2 * RunClocks(reader) + 16 * AnswerBytes
    BY <2>1, Limits
  <2>3. /\ timeout + 1 < TimeoutLimit
        /\ timeout + 1 + 2 * idx + 0 <= 40 + 2 * RunClocks(reader) + 16 * AnswerBytes
    BY <1>2, <2>1, <2>2, SMT
  <2>4. /\ reader' = reader /\ Reading' /\ timeout' = timeout + 1 /\ miso_trigger'
        /\ ~miso_trigger => data' = data
        /\ miso_trigger /\ Len(data) < 8 * AnswerBytes => Len(data') = Len(data) + 1
        /\ AnswerBytes' = AnswerBytes
    BY <1>4, <2>1, <2>3, ReaderFallStays
  <2>5. Len(data') + idx + 0 = 8 * AnswerBytes
    <3>1. CASE miso_trigger
      <4>1. Len(data) + idx + 1 = 8 * AnswerBytes /\ Len(data) < 8 * AnswerBytes
        BY <1>2, <2>1, <2>2, <3>1, SMT
      <4>2. Len(data') = Len(data) + 1
        BY <2>4, <3>1, <4>1
      <4> QED
        BY <1>2, <2>2, <4>1, <4>2, SMT
    <3>2. CASE ~miso_trigger
      <4>1. idx = 8 * AnswerBytes /\ data' = <<>>
        BY <2>1, <2>4, <3>2
      <4>2. Len(data') = 0
        BY <4>1, SMT
      <4> QED
        BY <1>2, <4>1, <4>2, SMT
    <3> QED
      BY <3>1, <3>2
  <2> QED
    BY <2>1, <2>3, <2>4, <2>5, FallState, FallTransit
<1>5. ASSUME Reading', ~InTransit, ~miso
      PROVE  Busy' /\ decoded'.type \in Readable
  <2>1. Reading
    BY <1>5 DEF ReaderFall, Reading
  <2>2. Busy /\ decoded.type \in Readable
    BY <1>1, <1>5, <2>1 DEF AnswerInv
  <2> QED
    BY <2>2, FallState
<1>6. idx' > 0 => miso'
  BY <1>1 DEF AnswerInv
<1> QED
  BY <1>3, <1>4, <1>5, <1>6, FallTransit DEF AnswerInv

\* So a falling edge out of reset keeps the whole control invariant.
LEMMA FallControl ==
  ASSUME TypeOK, ControlInv, FallingEdge, ~reset
  PROVE  ControlInv'
<1>1. LinkInv'
  BY FallLink, FallPins DEF LinkInv, LinkPins
<1> QED
  BY <1>1, FallReceive, FallDecoder, FallSequencer, FallBusy, FallAnswer DEF ControlInv

(***************************************************************************)
(* The steps of a board in reset, and the steps into and out of reset.     *)
(***************************************************************************)
\* ClearedInv for the state after a step.
LEMMA ClearedInvNext ==
  (TypeOK /\ LinkPins /\ Cleared /\ (reset \/ HostIdle))' => ControlInv'
<1>1. TypeOK /\ LinkPins /\ Cleared /\ (reset \/ HostIdle) => ControlInv
  BY ClearedInv
<1> QED
  BY <1>1, PTL

\* A board whose signals do not change stays cleared.
LEMMA StaysCleared == Cleared /\ UNCHANGED fpga_vars => Cleared'
BY DEF Cleared, Busy, fpga_vars, receive_vars, decoder_vars, sequencer_vars, output_vars

\* Under reset everything is cleared.
LEMMA InReset ==
  ASSUME ControlInv, reset
  PROVE  Cleared
BY DEF ControlInv, LinkInv

\* The control invariant contains the one of the pins.
LEMMA PinsOf ==
  ASSUME ControlInv
  PROVE  LinkPins
BY DEF ControlInv, LinkInv, LinkPins

\* Under reset the edges change nothing that matters.
LEMMA ResetEdges ==
  ASSUME TypeOK', TypeOK, ControlInv, reset, RisingEdge \/ FallingEdge
  PROVE  ControlInv'
<1>1. Cleared'
  <2>1. UNCHANGED fpga_vars
    BY DEF RisingEdge, FallingEdge, fpga_vars
  <2> QED
    BY <2>1, InReset, StaysCleared
<1>2. reset'
  BY DEF RisingEdge, FallingEdge
<1>3. CASE RisingEdge
  <2>1. LinkPins'
    BY <1>3, PinsOf DEF RisingEdge, HostRise, LinkPins
  <2> QED
    BY <1>1, <1>2, <2>1, ClearedInvNext
<1>4. CASE FallingEdge
  <2>1. LinkPins'
    BY <1>4, FallLink
  <2> QED
    BY <1>1, <1>2, <2>1, ClearedInvNext
<1> QED
  BY <1>3, <1>4

\* Asserting the reset clears everything.
LEMMA EnableResetControl ==
  ASSUME TypeOK', ControlInv, EnableReset
  PROVE  ControlInv'
<1>1. Cleared'
  BY DEF EnableReset, FpgaReset, ReceiveReset, DecoderResetStep, SequencerReset,
         OutputReset, Cleared, Busy
<1>2. LinkPins' /\ reset'
  BY PinsOf DEF EnableReset, host_vars, LinkPins
<1> QED
  BY <1>1, <1>2, ClearedInvNext

\* Its end leaves the board and the host ready for the first word.
LEMMA DisableResetControl ==
  ASSUME TypeOK', ControlInv, DisableReset
  PROVE  ControlInv'
<1>1. Cleared'
  BY InReset, StaysCleared DEF DisableReset
<1>2. LinkPins' /\ HostIdle'
  BY PinsOf DEF DisableReset, host_vars, LinkPins, HostIdle, Sending, Reading
<1> QED
  BY <1>1, <1>2, ClearedInvNext

(***************************************************************************)
(* Sending a word, and steps that change nothing ControlInv speaks of.     *)
(***************************************************************************)
\* By the time the host is idle and has waited, the last word has left the receiver.
LEMMA QuietLink ==
  ASSUME TypeOK, ControlInv, ~reset, HostIdle, idle_edges = MinIdle
  PROVE  /\ counter = 0 /\ ~InTransit /\ ~mosi /\ Received = 0 /\ ~miso /\ idx = 0
         /\ Busy => decoded.type \notin Readable
<1> USE DEF HostIdle
<1>1. /\ counter \in 0..5 /\ idle_edges \in Nat /\ MinIdle >= 5 /\ idx \in Nat
      /\ Tick \in {0, 1}
  <2>1. idx \in Nat
    BY SMT DEF TypeOK, OutputType
  <2> QED
    BY <2>1, HostAssumption, LinkAssumption, SMT DEF TypeOK, ReceiveType, HostType, Tick
<1>2. counter = 0
  <2>1. counter > 0 => counter + (idle_edges + Tick) = 5
    BY DEF ControlInv, ReceiveInv, Lows
  <2> QED
    BY <1>1, <2>1, SMT
<1>3. ~mosi
  <2>1. sent_bits \notin 1..14
    BY SMT DEF Sending, Done, FRAME_BITS, TypeOK, HostType
  <2> QED
    BY <2>1 DEF ControlInv, LinkInv, FRAME_BITS
<1>4. ~miso
  BY DEF ControlInv, AnswerInv
<1>5. idx = 0
  BY <1>1, <1>4, SMT DEF ControlInv, AnswerInv
<1>6. Busy => decoded.type \notin Readable
  BY DEF ControlInv, BusyInv, Reading, Readable, NoReader, ReadReg, ReadMem,
         DumpRam, DumpEeprom
<1>7. ~InTransit
  BY <1>2, SMT DEF InTransit
<1> QED
  BY <1>2, <1>3, <1>4, <1>5, <1>6, <1>7 DEF Received

\* A new word is sent only when the board has come to rest.
LEMMA SubmitControl ==
  ASSUME TypeOK, TypeOK', ControlInv, Submit
  PROVE  ControlInv'
<1>1. /\ HostIdle /\ idle_edges = MinIdle /\ sent_bits' = 0 /\ data' = <<>>
      /\ reader' = IF Decode(frame').type \in Readable THEN Decode(frame').type
                   ELSE NoReader
      /\ ~miso_trigger' /\ timeout' = 0
      /\ UNCHANGED <<fpga_vars, clk, reset, mosi, serial_in, idle_edges>>
  BY DEF Submit, SendCommand
<1>2. LinkPins'
  <2>1. ~mosi /\ 0 \notin 1..FRAME_BITS
    <3>1. sent_bits \notin 1..14 /\ 0 \notin 1..14
      BY <1>1, SMT DEF HostIdle, Sending, Done, FRAME_BITS, TypeOK, HostType
    <3> QED
      BY <3>1, PinsOf DEF LinkPins, FRAME_BITS
  <2> QED
    BY <1>1, <2>1 DEF LinkPins
<1>3. CASE reset
  BY <1>1, <1>2, <1>3, InReset, StaysCleared, ClearedInvNext
<1>4. CASE ~reset
  <2> USE <1>1, <1>4
      DEF fpga_vars, receive_vars, decoder_vars, sequencer_vars, output_vars
  <2>1. /\ counter = 0 /\ ~mosi /\ Received = 0 /\ ~miso /\ idx = 0
        /\ Busy => decoded.type \notin Readable
    BY QuietLink
  <2>2. Received' = 0 /\ Tick' = Tick /\ Lows' = Lows
    BY <2>1 DEF Received, Tick, Lows
  <2>3. Sending' /\ ~(counter' > 0) /\ ~(Received' > 0) /\ ~(idx' > 0)
    BY <2>1, <2>2, SMT DEF Sending, Done, FRAME_BITS
  <2>4. LinkInv'
    BY <1>2 DEF LinkInv, LinkPins
  <2>5. ReceiveInv'
    BY <2>1, <2>2, <2>3 DEF ControlInv, ReceiveInv
  <2>6. DecoderInv'
    BY <2>1, <2>3 DEF ControlInv, DecoderInv
  <2>7. SequencerInv'
    BY DEF ControlInv, SequencerInv, Busy
  <2>8. BusyInv'
    <3>1. Left' = Left
      BY <2>2 DEF Left
    <3>2. Busy => Left + Received <= 6
      BY <2>1 DEF ControlInv, BusyInv
    <3>3. Left' + Received' = Left + Received
      BY <2>1, <2>2, <3>1
    <3> QED
      BY <2>1, <3>2, <3>3 DEF BusyInv, Busy
  <2>9. AnswerInv'
    <3>1. InTransit'
      BY <2>3 DEF InTransit
    <3>2. timeout' <= Tick' + 2 * sent_bits'
      <4>1. \A t \in {0, 1} : 0 <= t + 2 * 0
        BY SMT
      <4> QED
        BY <2>2, <4>1 DEF Tick
    <3> QED
      BY <2>1, <2>3, <3>1, <3>2 DEF AnswerInv
  <2> QED
    BY <2>4, <2>5, <2>6, <2>7, <2>8, <2>9 DEF ControlInv
<1> QED
  BY <1>3, <1>4

\* The control invariant reads nothing but these registers.
LEMMA SameControl ==
  ASSUME ControlInv, UNCHANGED <<fpga_vars, host_vars, clk, reset>>
  PROVE  ControlInv'
<1> USE DEF fpga_vars, receive_vars, decoder_vars, sequencer_vars, output_vars, host_vars
<1>1. /\ Tick' = Tick /\ Lows' = Lows /\ Received' = Received /\ Left' = Left
      /\ Busy' = Busy /\ InTransit' = InTransit /\ Sending' = Sending
      /\ Reading' = Reading /\ AnswerBytes' = AnswerBytes
  BY DEF Tick, Lows, Received, Left, Busy, InTransit, Sending, Reading, AnswerBytes
<1>2. LinkInv'
  BY <1>1 DEF ControlInv, LinkInv, Cleared
<1>3. ReceiveInv'
  BY <1>1 DEF ControlInv, ReceiveInv
<1>4. DecoderInv'
  BY <1>1 DEF ControlInv, DecoderInv
<1>5. SequencerInv'
  BY <1>1 DEF ControlInv, SequencerInv
<1>6. BusyInv'
  BY <1>1 DEF ControlInv, BusyInv
<1>7. AnswerInv'
  BY <1>1 DEF ControlInv, AnswerInv
<1> QED
  BY <1>2, <1>3, <1>4, <1>5, <1>6, <1>7 DEF ControlInv

(***************************************************************************)
(* The invariant, and the two properties that follow from it at once.      *)
(***************************************************************************)
LEMMA NextControl == TypeOK /\ ControlInv /\ [Next]_vars => ControlInv'
<1> SUFFICES ASSUME TypeOK, ControlInv, [Next]_vars PROVE ControlInv'
  OBVIOUS
<1>1. TypeOK'
  BY NextTypes
<1>2. CASE RisingEdge
  BY <1>1, <1>2, RiseControl, ResetEdges
<1>3. CASE FallingEdge
  BY <1>1, <1>3, FallControl, ResetEdges
<1>4. CASE Submit
  BY <1>1, <1>4, SubmitControl
<1>5. CASE EnableReset
  BY <1>1, <1>5, EnableResetControl
<1>6. CASE DisableReset
  BY <1>1, <1>6, DisableResetControl
<1>7. CASE TimerEdge
  BY <1>7, SameControl DEF TimerEdge
<1>8. CASE UNCHANGED vars
  BY <1>8, SameControl DEF vars
<1> QED
  BY <1>2, <1>3, <1>4, <1>5, <1>6, <1>7, <1>8 DEF Next

\* Every word, instruction and answer is where every count says it is, whatever
\* the sizes of the memories and the timeouts, as long as the host keeps to
\* LinkAssumption.
THEOREM ControlCorrect == Spec => []ControlInv
<1>1. Init => TypeOK /\ ControlInv
  BY InitTypes, InitControl
<1>2. TypeOK /\ ControlInv /\ [Next]_vars => (TypeOK /\ ControlInv)'
  BY NextTypes, NextControl
<1> QED
  BY <1>1, <1>2, PTL DEF Spec

\* The decoder never latches half a word: input_receive has lowered its trigger
\* before the next word's first bit is shifted in, for every pause of MinIdle >= 5.
THEOREM TriggerSafe == Spec => []NoTriggerWhileShifting
<1>1. TypeOK /\ ControlInv => NoTriggerWhileShifting
  <2> SUFFICES ASSUME TypeOK, ControlInv, trig_instruction_process
               PROVE  counter < 4
    BY DEF NoTriggerWhileShifting
  <2>1. ~reset
    BY InReset DEF Cleared
  <2>2. counter = 0 \/ counter \in {1, 2}
    BY <2>1, TriggerMeans
  <2> QED
    BY <2>2, SMT
<1> QED
  BY <1>1, TypeCorrect, ControlCorrect, PTL

\* The invariant keeps every answer within the reader's timeout.
LEMMA InTime ==
  ASSUME TypeOK, ControlInv
  PROVE  AnswerInTime
<1> SUFFICES ASSUME Reading, ~reset
             PROVE  timeout < TimeoutLimit - 1
  BY DEF AnswerInTime
<1>1. timeout + 1 < TimeoutLimit
  <2>1. CASE InTransit \/ ~miso
    <3>1. InTransit \/ (Busy /\ decoded.type \in Readable)
      BY <2>1 DEF ControlInv, AnswerInv
    <3> QED
      BY <3>1, EarlyReader
  <2>2. CASE ~InTransit /\ miso
    <3>1. timeout + 2 * idx + Tick <= 40 + 2 * RunClocks(reader) + 16 * AnswerBytes
      BY <2>2 DEF ControlInv, AnswerInv
    <3>2. idx \in Nat /\ Tick \in {0, 1}
      BY SMT DEF TypeOK, OutputType, Tick
    <3> QED
      BY <3>1, <3>2, Limits, SMT
  <2> QED
    BY <2>1, <2>2
<1> QED
  BY <1>1, Limits, SMT

\* RESULT_TIMEOUT and MEM_DUMP_TIMEOUT never expire on a running board, for every
\* memory size, dump wait and timeout that LinkAssumption allows.
THEOREM AnswerArrives == Spec => []AnswerInTime
<1>1. TypeOK /\ ControlInv => AnswerInTime
  BY InTime
<1> QED
  BY <1>1, TypeCorrect, ControlCorrect, PTL

(***************************************************************************)
(* PicCore implements InstructionFlow: whatever the words, the sizes and   *)
(* the timeouts, each word is executed exactly once.                       *)
(***************************************************************************)
\* What the refinement mapping calls an instruction is never None.
LEMMA FrameIsInstruction ==
  ASSUME TypeOK
  PROVE  Decode(frame) # None /\ decoded # None
<1>1. frame \in Word /\ decoded \in Decoded
  BY DEF TypeOK, HostType, DecoderType
<1> QED
  BY <1>1, DecodeType, NoneAssumption

\* The abstract state, case by case.
LEMMA InstructionTaken ==
  ASSUME TypeOK, ControlInv, RisingEdge, ~reset, trig_state_machine, state = "do_nop"
  PROVE  Flow!Begin
<1>1. /\ InTransit /\ ~InTransit' /\ ~Busy /\ Busy'
      /\ decoded = Decode(frame) /\ decoded' = decoded
  BY RisePins, DispatchMeans, DecodedStable, RiseTransit
<1> QED
  BY <1>1, FrameIsInstruction, RisePins DEF Flow!Begin

\* The edge at which a busy sequencer is back in do_nop completes the instruction.
LEMMA InstructionEnds ==
  ASSUME TypeOK, ControlInv, RisingEdge, ~reset, Busy, state = "do_nop"
  PROVE  Flow!Complete
<1>1. ~trig_state_machine
  BY LastClock, RisePins
<1>2. Busy /\ ~Busy' /\ (InTransit' <=> InTransit)
  BY <1>1, RiseTransit
<1> QED
  BY <1>2, FrameIsInstruction, RisePins DEF Flow!Complete

\* Every other rising edge leaves the abstract flow as it is.
LEMMA InstructionContinues ==
  ASSUME TypeOK, ControlInv, RisingEdge, ~reset,
         state = "do_nop" => ~trig_state_machine /\ ~Busy
  PROVE  UNCHANGED Flow!flow_vars
<1>1. InTransit' <=> InTransit
  BY RiseTransit
<1>2. CASE state # "do_nop"
  <2>1. Busy /\ Busy' /\ decoded' = decoded
    BY <1>2, SequencerRuns, RisePins DEF Busy
  <2> QED
    BY <1>1, <2>1, RisePins DEF Flow!flow_vars
<1>3. CASE state = "do_nop"
  <2>1. ~Busy /\ ~Busy'
    BY <1>3, RiseTransit
  <2> QED
    BY <1>1, <2>1, RisePins DEF Flow!flow_vars
<1> QED
  BY <1>2, <1>3

\* So does every falling edge.
LEMMA FallStutters ==
  ASSUME TypeOK, ControlInv, FallingEdge, ~reset
  PROVE  UNCHANGED Flow!flow_vars
<1>1. (InTransit' <=> InTransit) /\ (Busy' <=> Busy)
  BY FallTransit, FallState
<1> QED
  BY <1>1, FallPins DEF Flow!flow_vars

\* A board in reset neither receives nor executes.
LEMMA ResetStutters ==
  ASSUME ControlInv, reset, RisingEdge \/ FallingEdge \/ Submit
  PROVE  UNCHANGED Flow!flow_vars
<1>1. Cleared /\ Cleared' /\ reset'
  <2>1. UNCHANGED fpga_vars /\ reset'
    BY DEF RisingEdge, FallingEdge, Submit, fpga_vars
  <2> QED
    BY <2>1, InReset, StaysCleared
<1>2. ~InTransit /\ ~InTransit' /\ ~Busy /\ ~Busy'
  <2>1. ~(0 > 0)
    BY SMT
  <2> QED
    BY <1>1, <2>1 DEF Cleared, InTransit
<1> QED
  BY <1>1, <1>2 DEF Flow!flow_vars

\* The host's new word is a Send of the abstract flow.
LEMMA SubmitSends ==
  ASSUME TypeOK, ControlInv, Submit, ~reset
  PROVE  \E i \in {Decode(word) : word \in Commands} : Flow!Send(i)
<1>1. PICK word \in Commands : SendCommand(word)
  BY DEF Submit
<1>2. /\ HostIdle /\ idle_edges = MinIdle /\ frame' = word /\ sent_bits' = 0
      /\ UNCHANGED <<fpga_vars, reset>>
  BY <1>1 DEF Submit, SendCommand
<1>3. ~InTransit
  BY <1>2, QuietLink
<1>4. InTransit'
  <2>1. Sending'
    BY <1>2, SMT DEF Sending, Done, FRAME_BITS
  <2> QED
    BY <1>2, <2>1 DEF InTransit
<1>5. Busy' = Busy /\ decoded' = decoded
  BY <1>2 DEF Busy, fpga_vars, decoder_vars, sequencer_vars
<1>6. Flow!Send(Decode(word))
  BY <1>2, <1>3, <1>4, <1>5 DEF Flow!Send
<1> QED
  BY <1>6

\* Asserting the reset stops it.
LEMMA ResetStops ==
  ASSUME EnableReset
  PROVE  Flow!Stop
<1>1. counter' = 0 /\ ~Busy' /\ reset' /\ ~reset
  BY DEF EnableReset, FpgaReset, ReceiveReset, SequencerReset, Busy
<1>2. ~InTransit'
  <2>1. ~(0 > 0)
    BY SMT
  <2> QED
    BY <1>1, <2>1 DEF InTransit
<1> QED
  BY <1>1, <1>2 DEF Flow!Stop

\* The end of the reset restarts it.
LEMMA ResetRestarts ==
  ASSUME ControlInv, DisableReset
  PROVE  Flow!Restart
<1>1. /\ HostIdle /\ HostIdle' /\ reset /\ ~reset' /\ Cleared /\ Cleared'
  BY InReset, StaysCleared DEF DisableReset, host_vars, HostIdle, Sending, Reading
<1>2. ~InTransit /\ ~InTransit'
  <2>1. ~(0 > 0)
    BY SMT
  <2> QED
    BY <1>1, <2>1 DEF InTransit, HostIdle, Cleared
<1> QED
  BY <1>1, <1>2 DEF Flow!Restart, Cleared

\* The flow sees nothing but these registers.
LEMMA FlowStutters ==
  ASSUME UNCHANGED <<fpga_vars, host_vars, clk, reset>>
  PROVE  UNCHANGED Flow!flow_vars
<1>1. Busy' = Busy /\ InTransit' = InTransit /\ decoded' = decoded /\ frame' = frame
  BY DEF fpga_vars, receive_vars, decoder_vars, sequencer_vars, host_vars, Busy,
         InTransit, Sending
<1> QED
  BY <1>1 DEF Flow!flow_vars

\* Every step of the board and the host is one of the flow or leaves it as it is.
LEMMA FlowStep ==
  TypeOK /\ ControlInv /\ [Next]_vars => [Flow!FlowNext]_(Flow!flow_vars)
<1> SUFFICES ASSUME TypeOK, ControlInv, [Next]_vars
             PROVE  Flow!FlowNext \/ UNCHANGED Flow!flow_vars
  OBVIOUS
<1>1. CASE RisingEdge /\ ~reset
  BY <1>1, InstructionTaken, InstructionEnds, InstructionContinues DEF Flow!FlowNext
<1>2. CASE FallingEdge /\ ~reset
  BY <1>2, FallStutters
<1>3. CASE Submit /\ ~reset
  BY <1>3, SubmitSends DEF Flow!FlowNext
<1>4. CASE (RisingEdge \/ FallingEdge \/ Submit) /\ reset
  BY <1>4, ResetStutters
<1>5. CASE EnableReset
  BY <1>5, ResetStops DEF Flow!FlowNext
<1>6. CASE DisableReset
  BY <1>6, ResetRestarts DEF Flow!FlowNext
<1>7. CASE TimerEdge
  BY <1>7, FlowStutters DEF TimerEdge
<1>8. CASE UNCHANGED vars
  BY <1>8, FlowStutters DEF vars
<1> QED
  BY <1>1, <1>2, <1>3, <1>4, <1>5, <1>6, <1>7, <1>8 DEF Next

\* The initial states of both correspond.
LEMMA FlowStart == Init => Flow!FlowInit
<1> SUFFICES ASSUME Init PROVE Flow!FlowInit
  OBVIOUS
<1>1. HostIdle /\ counter = 0 /\ ~Busy /\ ~reset
  BY SMT DEF Init, HostInit, ReceiveInit, SequencerInit, HostIdle, Sending, Reading,
             Done, FRAME_BITS, Busy
<1>2. ~InTransit
  BY <1>1, SMT DEF InTransit, HostIdle
<1> QED
  BY <1>1, <1>2 DEF Flow!FlowInit

\* The link and the sequencer implement InstructionFlow: every word sent to a
\* running board is executed exactly once, as itself and in order, and a reset
\* alone can drop one.
THEOREM FlowRefined == Spec => ExactlyOnce
<1>1. Init => Flow!FlowInit
  BY FlowStart
<1>2. TypeOK /\ ControlInv /\ [Next]_vars => [Flow!FlowNext]_(Flow!flow_vars)
  BY FlowStep
<1> QED
  BY <1>1, <1>2, TypeCorrect, ControlCorrect, PTL DEF Spec, ExactlyOnce, Flow!FlowSpec

-----------------------------------------------------------------------------
(***************************************************************************)
(* The two copies of the flags, in alu.vhd and in STATUS, agree between    *)
(* instructions: FlagsAgree, for all programs, operands and sizes.         *)
(***************************************************************************)
Stores  == {Literal, ToWreg, ToRam}
Answers == {ReadReg, ReadMem}

Status == ram_block[STATUS_ADDRESS] % 8
Agree  == Status = status_out_alu % 8
Idle   == ~Busy /\ ~InTransit

\* Only a write of STATUS that is under way lets the copies differ in more than
\* that the ALU's is cleared; the clock of status_write ends it.
CopyInv == "status_write" \notin enables => Agree \/ status_out_alu = 0

\* The lines that change STATUS come together, and are down before the ALU
\* computes, so that the STATUS which the ALU reads is one clock old and valid.
LinesInv ==
    /\ "ram_write" \in enables => "status_write" \in enables
    /\ "do_alu" \in {state, next_state} => "status_write" \notin enables
    /\ "alu" \in enables => "status_write" \notin enables /\ status_in_alu % 8 = Status

\* When the ALU computes, the sequencer is past do_alu.
StageInv ==
    "alu" \in enables =>
        /\ decoded.type \in Stores \cup Answers
        /\ IF clk THEN state = "do_alu" /\ next_state = AfterAlu(decoded.type)
                  ELSE state = AfterAlu(decoded.type)

AnswerOpcodes == decoded.type \in Answers => decoded.opcode \in Reports

FlagsInv ==
    /\ CopyInv /\ LinesInv /\ StageInv /\ AnswerOpcodes
    /\ FlagsAgree

-----------------------------------------------------------------------------
\* One clock of the memory: with status_write up STATUS ends with the flags it is
\* given, whatever else is written, and without it and ram_write it stays.
LEMMA StatusWritten ==
  ASSUME RamType, TimerType, NEW en, NEW d \in Byte, NEW status \in Byte,
         NEW address \in 0..127
  PROVE  LET after == NextBlock(en, FALSE, FALSE, data_out_falling, data_out_rising, 0, d,
                                status, address)
         IN  /\ "status_write" \in en => after[STATUS_ADDRESS] % 8 = status % 8
             /\ "status_write" \notin en /\ "ram_write" \notin en =>
                    after[STATUS_ADDRESS] = ram_block[STATUS_ADDRESS]
<1> DEFINE external == Bit(ram_block[OPTION_ADDRESS], 5) = 1
           m2 == IF reset_eecon
                 THEN [ram_block EXCEPT ![EECON_ADDRESS] = PutLow(@, 4, 0)] ELSE ram_block
           m3 == CASE Access(en) = "eeprom_dump" -> DumpStep(m2)
                   [] Access(en) = "ram_write"   -> WriteRam(m2, address, d)
                   [] OTHER                      -> m2
           m4 == IF "status_write" \in en
                 THEN [m3 EXCEPT ![STATUS_ADDRESS] = PutLow(@, 8, status)] ELSE m3
           m5 == IF "timer_write" \in en /\ ~external
                 THEN [m4 EXCEPT ![TMR0_ADDRESS] = (ram_block[TMR0_ADDRESS] + 1) % 256]
                 ELSE m4
           m6 == IF external
                 THEN [m5 EXCEPT ![TMR0_ADDRESS] =
                         (data_out_falling + data_out_rising) % 256]
                 ELSE m5
<1>1. /\ STATUS_ADDRESS # EECON_ADDRESS /\ STATUS_ADDRESS # EEADR_ADDRESS
      /\ STATUS_ADDRESS # TMR0_ADDRESS
      /\ STATUS_ADDRESS \in RamAddress
  BY RegisterCells, SMT DEF STATUS_ADDRESS, EECON_ADDRESS, EEADR_ADDRESS, TMR0_ADDRESS
<1>2. NextBlock(en, FALSE, FALSE, data_out_falling, data_out_rising, 0, d, status,
                address) = m6
  BY DEF NextBlock
<1>3. m2 \in Memory /\ m2[STATUS_ADDRESS] = ram_block[STATUS_ADDRESS]
  <2>1. ram_block \in Memory /\ PutLow(ram_block[EECON_ADDRESS], 4, 0) \in Byte
    BY RegisterCells, PutLowType DEF RamType
  <2> QED
    BY <1>1, <2>1 DEF Memory
<1>4. /\ DumpStep(m2)[STATUS_ADDRESS] = m2[STATUS_ADDRESS]
      /\ DumpStep(m2) \in [RamAddress -> Byte \cup {0, 1} \cup {dump_addr}]
  <2> HIDE DEF m2
  <2> QED
    BY <1>1, <1>3 DEF DumpStep, Memory
<1>5. WriteRam(m2, address, d) \in Memory
  BY <1>3, WriteRamType
<1>6. m6[STATUS_ADDRESS] = m4[STATUS_ADDRESS]
  <2> HIDE DEF m4
  <2> QED
    BY <1>1
<1>7. ASSUME "status_write" \in en
      PROVE  m4[STATUS_ADDRESS] % 8 = status % 8
  <2>1. m3 \in Memory
    <3>1. DumpStep(m2) \in Memory
      <4>1. dump_addr \in Byte /\ {0, 1} \subseteq Byte
        BY MemoryAssumption, SMT DEF RamType, Byte
      <4>2. Byte \cup {0, 1} \cup {dump_addr} = Byte
        BY <4>1
      <4> QED
        BY <1>4, <4>2 DEF Memory
    <3> HIDE DEF m2
    <3> QED
      BY <1>3, <1>5, <3>1, Zenon
  <2> HIDE DEF m3
  <2>2. m3[STATUS_ADDRESS] \in Nat /\ status \in Nat
    BY <2>1, RegisterCells, SMT DEF Byte
  <2>3. m4[STATUS_ADDRESS] = PutLow(m3[STATUS_ADDRESS], 8, status)
    BY <1>7, <2>1, RegisterCells DEF Memory
  <2>4. \A v, s \in Nat : PutLow(v, 8, s) % 8 = s % 8
    BY SMT DEF PutLow
  <2> QED
    BY <2>2, <2>3, <2>4
<1>8. ASSUME "status_write" \notin en, "ram_write" \notin en
      PROVE  m4[STATUS_ADDRESS] = ram_block[STATUS_ADDRESS]
  <2>1. Access(en) # "ram_write"
    BY <1>8 DEF Access
  <2> HIDE DEF m2
  <2> QED
    BY <1>3, <1>4, <1>8, <2>1
<1> HIDE DEF m6, m4
<1> QED
  BY <1>2, <1>6, <1>7, <1>8

\* A word of a reading type has a reading opcode.
LEMMA AnswersDecoded ==
  ASSUME NEW word \in Word, Decode(word).type \in Answers
  PROVE  Decode(word).opcode \in Reports
<1> DEFINE opcode == Slice(word, 13, 8)
           isBit  == word[13] = 0 /\ word[12] = 1
           isByte == opcode \in ByteOriented
           toRam  == isBit \/ (isByte /\ word[7] = 1)
<1>1. Decode(word).type = CASE toRam                -> ToRam
                            [] isByte /\ ~toRam     -> ToWreg
                            [] opcode = DUMP_EEPROM -> DumpEeprom
                            [] opcode = DUMP_RAM    -> DumpRam
                            [] opcode = READ_ADDRESS -> ReadMem
                            [] opcode \in {READ_WREG, READ_STATUS} -> ReadReg
                            [] OTHER                -> Literal
  BY DEF Decode
<1>2. Decode(word).opcode = IF isBit THEN 4 * Slice(word, 13, 10) ELSE opcode
  BY DEF Decode
<1>3. isBit => opcode \in 16..31
  <2>1. \A i \in 0..13 : word[i] \in {0, 1}
    BY SMT DEF Word, FRAME_BITS
  <2> QED
    BY <2>1, SMT DEF Slice, FromBits
<1>4. isByte => opcode \in 1..15
  BY SMT DEF ByteOriented, ADDWF, ANDWF, CLR, COMF, DECF, DECFSZ, INCF, INCFSZ, IORWF,
             MOVF, RLF, RRF, SUBWF, SWAPF, XORWF
<1> HIDE DEF opcode, isBit, isByte
<1>5. \/ opcode \in 1..31 /\ Decode(word).type \in {ToRam, ToWreg, Literal}
      \/ opcode \notin 1..31 /\ ~isBit /\ ~isByte
  <2>1. CASE opcode \in 1..31
    <3>1. opcode \notin {DUMP_EEPROM, DUMP_RAM, READ_ADDRESS, READ_WREG, READ_STATUS}
      BY <2>1, SMT DEF DUMP_EEPROM, DUMP_RAM, READ_ADDRESS, READ_WREG, READ_STATUS
    <3> QED
      BY <1>1, <2>1, <3>1, Zenon
  <2>2. CASE opcode \notin 1..31
    BY <1>3, <1>4, <2>2, SMT
  <2> QED
    BY <2>1, <2>2
<1>6. Decode(word).type \notin {ToRam, ToWreg, DumpEeprom, DumpRam, Literal}
  BY SMT DEF Answers, ToRam, ToWreg, DumpEeprom, DumpRam, ReadMem, ReadReg, Literal
<1>7. ~isBit /\ ~isByte
  BY <1>5, <1>6
<1>8. opcode \in {READ_ADDRESS, READ_WREG, READ_STATUS}
  <2>1. opcode # DUMP_EEPROM /\ opcode # DUMP_RAM
    <3>1. DUMP_EEPROM # DUMP_RAM /\ READ_ADDRESS \notin {DUMP_RAM, DUMP_EEPROM}
          /\ {READ_WREG, READ_STATUS} \cap {DUMP_RAM, DUMP_EEPROM} = {}
      BY SMT DEF DUMP_EEPROM, DUMP_RAM, READ_ADDRESS, READ_WREG, READ_STATUS
    <3> QED
      BY <1>1, <1>6, <1>7, <3>1, Zenon
  <2> QED
    BY <1>1, <1>6, <1>7, <2>1, Zenon
<1> QED
  BY <1>2, <1>7, <1>8 DEF Reports

\* The flags agree before the first word.
LEMMA InitFlags == Init => FlagsInv
<1> SUFFICES ASSUME Init PROVE FlagsInv
  OBVIOUS
<1>1. enables = {} /\ state = "do_nop" /\ next_state = "do_nop"
  BY DEF Init, SequencerInit
<1>2. Agree
  <2>1. ram_block[STATUS_ADDRESS] = 0 /\ status_out_alu = 0
    BY RegisterCells DEF Init, RamInit, AluInit, ClearedRam
  <2> QED
    BY <2>1 DEF Agree, Status
<1>3. AnswerOpcodes
  BY SMT DEF Init, DecoderInit, DecoderReset, AnswerOpcodes, Answers, Literal, ReadReg, ReadMem
<1> QED
  BY <1>1, <1>2, <1>3, SMT DEF FlagsInv, CopyInv, LinesInv, StageInv, FlagsAgree, Agree, Status

-----------------------------------------------------------------------------
\* The lines of each state that the flags depend on.
LEMMA FlagLines ==
  ASSUME NEW s, NEW type
  PROVE  /\ "status_write" \in Asserted(s, type) <=> s \in {"do_wreg", "do_ram_write"}
         /\ "ram_write" \in Asserted(s, type) <=> s = "do_ram_write"
         /\ "alu" \in Asserted(s, type) <=> s = "do_alu"
         /\ "ram_write" \notin Held(s) /\ "alu" \notin Held(s)
         /\ "status_write" \in Held(s) <=> s = "do_alu"
<1>1. ResultLine(type) \notin {"status_write", "ram_write", "alu"}
  BY SMT DEF ResultLine
<1>2. /\ "status_write" \in Asserted(s, type) <=> s \in {"do_wreg", "do_ram_write"}
      /\ "ram_write" \in Asserted(s, type) <=> s = "do_ram_write"
      /\ "alu" \in Asserted(s, type) <=> s = "do_alu"
  BY <1>1, SMT DEF Asserted
<1> QED
  BY <1>2 DEF Held

\* What a rising edge does to the lines and to the two copies.
LEMMA RiseLines ==
  ASSUME TypeOK, ControlInv, FlagsInv, RisingEdge, ~reset
  PROVE  /\ "status_write" \in enables' <=>
               state \in {"do_wreg", "do_ram_write"}
         /\ "ram_write" \in enables' <=> state = "do_ram_write"
         /\ "alu" \in enables' <=> state = "do_alu"
         /\ state' = state
         /\ next_state' = Successor(state, trig_state_machine, decoded.type)
<1>1. /\ enables' = Asserted(state, decoded.type) \cup (enables \cap Held(state))
      /\ state' = state
      /\ next_state' = Successor(state, trig_state_machine, decoded.type)
  BY RisePins DEF FpgaRise, SequencerRise
<1>2. state = "do_alu" => "status_write" \notin enables
  BY DEF FlagsInv, LinesInv
<1> QED
  BY <1>1, <1>2, FlagLines

\* Which copies of the status bits a rising edge renews.
LEMMA RiseCopies ==
  ASSUME TypeOK, ControlInv, FlagsInv, RisingEdge, ~reset
  PROVE  /\ Status' = IF "status_write" \in enables THEN status_out_alu % 8 ELSE Status
         /\ status_in_alu' % 8 = Status
         /\ "alu" \notin enables => status_out_alu' = status_out_alu
         /\ "alu" \in enables /\ decoded.type \in Answers =>
                status_out_alu' \in {status_in_alu, 0}
<1>1. FpgaRise
  BY RisePins
<1> DEFINE d == DataToRam(decoded, alu_output_int)
<1>2. ram_block' = NextBlock(enables, FALSE, FALSE, data_out_falling, data_out_rising, 0, d,
                             status_out_alu, decoded.address)
  BY <1>1 DEF FpgaRise, RamRise
<1>3. d \in Byte /\ decoded.address \in 0..127 /\ status_out_alu \in Byte
  BY SMT DEF TypeOK, AluType, DecoderType, Decoded, DataToRam, Byte
<1>4. Status' = IF "status_write" \in enables THEN status_out_alu % 8 ELSE Status
  <2>1. RamType /\ TimerType
    BY DEF TypeOK
  <2>2. "ram_write" \in enables => "status_write" \in enables
    BY DEF FlagsInv, LinesInv
  <2> HIDE DEF d
  <2> QED
    BY <1>2, <1>3, <2>1, <2>2, StatusWritten DEF Status
<1>5. status_in_alu' % 8 = Status
  BY <1>1 DEF FpgaRise, RamRise, Status
<1>6. AluRise("alu" \in enables, decoded.opcode, w_output_int, output_mux, status_in_alu,
              decoded.bit_idx)
  BY <1>1 DEF FpgaRise
<1>7. "alu" \notin enables => status_out_alu' = status_out_alu
  BY <1>6 DEF AluRise, alu_vars
<1>8. ASSUME "alu" \in enables, decoded.type \in Answers
      PROVE  status_out_alu' \in {status_in_alu, 0}
  <2> DEFINE op == IF skip_next THEN NOP ELSE decoded.opcode
  <2>1. status_out_alu' = Flags(op, w_output_int, output_mux, status_in_alu,
                                decoded.bit_idx, status_out_alu, result)
    BY <1>6, <1>8 DEF AluRise, Compute
  <2>2. op = NOP \/ op \in Reports
    BY <1>8 DEF FlagsInv, AnswerOpcodes
  <2>3. op \notin Sums \cup ZeroFlagged \cup CountAndSkip \cup {RLF, RRF, SWAPF}
    BY <2>2, SMT DEF Sums, ZeroFlagged, CountAndSkip, Reports, NOP, ADDWF, ADDLW, SUBWF,
       SUBLW, ANDWF, ANDLW, BCF, BSF, CLR, COMF, DECF, INCF, IORWF, IORLW, MOVF, XORWF,
       XORLW, DECFSZ, INCFSZ, RLF, RRF, SWAPF, READ_WREG, READ_STATUS, READ_ADDRESS
  <2> HIDE DEF op
  <2>4. Flags(op, w_output_int, output_mux, status_in_alu, decoded.bit_idx, status_out_alu,
              result) = IF op \in Reports THEN status_in_alu ELSE 0
    BY <2>3, Zenon DEF Flags
  <2> QED
    BY <2>1, <2>4
<1> QED
  BY <1>4, <1>5, <1>7, <1>8

-----------------------------------------------------------------------------
\* A rising edge keeps the lines that change STATUS together and down at the ALU's turn.
LEMMA RiseLinesInv ==
  ASSUME TypeOK, ControlInv, FlagsInv, RisingEdge, ~reset
  PROVE  LinesInv'
<1>1. "ram_write" \in enables' => "status_write" \in enables'
  BY RiseLines
<1>2. ASSUME "do_alu" \in {state', next_state'}
      PROVE  "status_write" \notin enables'
  <2>1. state \in {"do_wreg", "do_ram_write"} => next_state' = "do_nop"
    BY RiseLines, SMT DEF Successor
  <2> QED
    BY <1>2, <2>1, RiseLines
<1>3. ASSUME "alu" \in enables'
      PROVE  "status_write" \notin enables' /\ status_in_alu' % 8 = Status'
  <2>1. state = "do_alu"
    BY <1>3, RiseLines
  <2>2. "status_write" \notin enables
    BY <2>1 DEF FlagsInv, LinesInv
  <2> QED
    BY <2>1, <2>2, RiseLines, RiseCopies
<1> QED
  BY <1>1, <1>2, <1>3 DEF LinesInv

\* At the ALU's turn the sequencer is past do_alu.
LEMMA RiseStage ==
  ASSUME TypeOK, ControlInv, FlagsInv, RisingEdge, ~reset
  PROVE  StageInv'
<1> SUFFICES ASSUME "alu" \in enables'
             PROVE  /\ decoded'.type \in Stores \cup Answers
                    /\ state' = "do_alu" /\ next_state' = AfterAlu(decoded'.type)
  BY RisePins DEF StageInv
<1>1. state = "do_alu" /\ state' = state
  BY RiseLines
<1>2. decoded' = decoded /\ decoded.type \in InstructionType /\ state \in Path(decoded.type)
  BY <1>1, RisePins, SequencerRuns
<1>3. next_state' = AfterAlu(decoded.type)
  BY <1>1, RiseLines, SMT DEF Successor
<1>4. decoded.type \notin {DumpRam, DumpEeprom}
  BY <1>1, <1>2, SMT DEF Path, Literal, ToWreg, ToRam, ReadReg, ReadMem, DumpRam, DumpEeprom
<1> QED
  BY <1>1, <1>2, <1>3, <1>4 DEF InstructionType, Stores, Answers

\* The instructions that answer the host keep their opcodes.
LEMMA RiseOpcodes ==
  ASSUME TypeOK, ControlInv, FlagsInv, RisingEdge, ~reset
  PROVE  AnswerOpcodes'
<1>1. decoded' = decoded \/ decoded' = Decode(binary_string)
  BY RisePins DEF FpgaRise, DecoderRise
<1>2. binary_string \in Word
  BY DEF TypeOK, ReceiveType
<1> QED
  BY <1>1, <1>2, AnswersDecoded DEF FlagsInv, AnswerOpcodes

\* The ALU's clock: either the write of STATUS is next, or it was a reading
\* instruction, or one that was skipped.
LEMMA RiseCopyInv ==
  ASSUME TypeOK, ControlInv, FlagsInv, RisingEdge, ~reset
  PROVE  CopyInv'
<1> SUFFICES ASSUME "status_write" \notin enables'
             PROVE  Agree' \/ status_out_alu' = 0
  BY DEF CopyInv
<1>1. CASE "alu" \in enables
  <2>1. "status_write" \notin enables /\ status_in_alu % 8 = Status
    BY <1>1 DEF FlagsInv, LinesInv
  <2>2. state = AfterAlu(decoded.type) /\ decoded.type \in Stores \cup Answers
    BY <1>1, RisePins DEF FlagsInv, StageInv
  <2>3. decoded.type \in Answers
    BY <2>2, RiseLines, SMT DEF AfterAlu, Stores, Answers, Literal, ToWreg, ToRam, ReadReg,
       ReadMem
  <2>4. Status' = Status /\ status_out_alu' \in {status_in_alu, 0}
    BY <1>1, <2>1, <2>3, RiseCopies
  <2> QED
    BY <2>1, <2>4 DEF Agree
<1>2. CASE "alu" \notin enables
  BY <1>2, RiseCopies DEF FlagsInv, CopyInv, Agree
<1> QED
  BY <1>1, <1>2

\* The end of an instruction, and a clock without one.
LEMMA RiseAgree ==
  ASSUME TypeOK, ControlInv, FlagsInv, RisingEdge, ~reset
  PROVE  FlagsAgree'
<1> SUFFICES ASSUME Idle'
             PROVE  Agree' \/ (status_out_alu' = 0 /\ decoded'.type \notin Stores)
  BY DEF FlagsAgree, Idle, Agree, Status, Stores
<1>1. FpgaRise /\ ~clk
  BY RisePins
<1>2. state = "do_nop"
  BY RiseLines DEF Idle, Busy
<1>3. CASE Busy
  <2>1. enables = Asserted(LastState(decoded.type), decoded.type)
    BY <1>1, <1>2, <1>3, LastClock
  <2>2. decoded' = decoded
    BY <1>1, <1>3, DecodedStable
  <2>3. LastState(decoded.type) # "do_alu"
    BY SMT DEF LastState
  <2>4. "alu" \notin enables
    BY <2>1, <2>3, FlagLines
  <2>5. CASE "status_write" \in enables
    BY <2>4, <2>5, RiseCopies DEF Agree
  <2>6. CASE "status_write" \notin enables
    <3>1. LastState(decoded.type) \notin {"do_wreg", "do_ram_write"}
      BY <2>1, <2>6, FlagLines
    <3>2. decoded.type \notin Stores
      BY <3>1, SMT DEF LastState, Stores, Literal, ToWreg, ToRam
    <3> QED
      BY <2>2, <2>4, <2>6, <3>2, RiseCopies DEF FlagsInv, CopyInv, Agree
  <2> QED
    BY <2>5, <2>6
<1>4. CASE ~Busy
  <2>1. ~InTransit
    BY <1>2, <1>4, RiseTransit DEF Idle
  <2>2. ~trig_instruction_process
    <3> SUFFICES ASSUME trig_instruction_process PROVE FALSE
      OBVIOUS
    <3>1. counter = 0
      BY <2>1, TriggerMeans, SMT DEF InTransit
    <3>2. next_state = Dispatch(decoded.type)
      BY <3>1 DEF ControlInv, DecoderInv
    <3>3. decoded.type \in InstructionType
      BY DEF TypeOK, DecoderType, Decoded
    <3> QED
      BY <1>4, <3>2, <3>3, DispatchTable DEF Busy
  <2>3. decoded' = decoded
    BY <1>1, <2>2 DEF FpgaRise, DecoderRise
  <2>4. enables = {}
    BY <1>4 DEF Busy
  <2>5. Agree \/ (status_out_alu = 0 /\ decoded.type \notin Stores)
    BY <1>4, <2>1 DEF FlagsInv, FlagsAgree, Agree, Status, Stores
  <2> QED
    BY <2>3, <2>4, <2>5, RiseCopies DEF Agree
<1> QED
  BY <1>3, <1>4

\* So a rising edge keeps the copies of the flags in agreement.
LEMMA RiseFlags ==
  ASSUME TypeOK, ControlInv, FlagsInv, RisingEdge, ~reset
  PROVE  FlagsInv'
BY RiseLinesInv, RiseStage, RiseOpcodes, RiseCopyInv, RiseAgree DEF FlagsInv

-----------------------------------------------------------------------------
\* A falling edge touches none of them.
LEMMA FallFlags ==
  ASSUME TypeOK, ControlInv, FlagsInv, FallingEdge, ~reset
  PROVE  FlagsInv'
<1>1. /\ clk /\ ~clk'
      /\ UNCHANGED <<enables, next_state, decoded, status_out_alu, status_in_alu, ram_block>>
  BY FallPins, FallState DEF FallingEdge, alu_vars, ram_vars
<1>2. (Busy' <=> Busy) /\ (InTransit' <=> InTransit)
  BY FallState, FallTransit
<1>3. state' \in {state, next_state} /\ (state = "do_alu" => state' = next_state)
  BY FallState
<1>4. StageInv'
  BY <1>1, <1>3 DEF FlagsInv, StageInv
<1>5. LinesInv'
  BY <1>1, <1>3 DEF FlagsInv, LinesInv, Status
<1>6. FlagsAgree'
  BY <1>1, <1>2 DEF FlagsInv, FlagsAgree
<1> QED
  BY <1>1, <1>4, <1>5, <1>6 DEF FlagsInv, CopyInv, AnswerOpcodes, Agree, Status

\* Steps that change no signal of the board but the clock of one in reset.
LEMMA SameFlags ==
  ASSUME FlagsInv, UNCHANGED <<ram_vars, alu_vars, decoder_vars, sequencer_vars>>,
         clk' = clk \/ enables = {}, ~Busy /\ ~InTransit' => ~InTransit
  PROVE  FlagsInv'
<1>1. UNCHANGED <<enables, state, next_state, decoded, status_out_alu, status_in_alu, ram_block>>
  BY DEF ram_vars, alu_vars, decoder_vars, sequencer_vars
<1>2. Busy' <=> Busy
  BY <1>1 DEF Busy
<1>3. StageInv'
  BY <1>1 DEF FlagsInv, StageInv
<1>4. FlagsAgree'
  BY <1>1, <1>2 DEF FlagsInv, FlagsAgree
<1> QED
  BY <1>1, <1>3, <1>4 DEF FlagsInv, CopyInv, LinesInv, AnswerOpcodes, Agree, Status

\* The reset clears them together.
LEMMA EnableResetFlags ==
  ASSUME EnableReset
  PROVE  FlagsInv'
<1>1. enables' = {} /\ state' = "do_nop" /\ next_state' = "do_nop"
  BY DEF EnableReset, FpgaReset, SequencerReset
<1>2. Agree'
  <2>1. ram_block'[STATUS_ADDRESS] = 0 /\ status_out_alu' = 0
    BY RegisterCells DEF EnableReset, FpgaReset, RamReset, AluReset, ClearedRam
  <2> QED
    BY <2>1 DEF Agree, Status
<1>3. AnswerOpcodes'
  <2>1. decoded' = DecoderReset
    BY DEF EnableReset, FpgaReset, DecoderResetStep
  <2> QED
    BY <2>1, SMT DEF DecoderReset, AnswerOpcodes, Answers, Literal, ReadReg, ReadMem
<1> QED
  BY <1>1, <1>2, <1>3, SMT DEF FlagsInv, CopyInv, LinesInv, StageInv, FlagsAgree, Agree, Status

\* Every step keeps them in agreement.
LEMMA NextFlags == TypeOK /\ ControlInv /\ FlagsInv /\ [Next]_vars => FlagsInv'
<1> SUFFICES ASSUME TypeOK, ControlInv, FlagsInv, [Next]_vars PROVE FlagsInv'
  OBVIOUS
<1>1. CASE RisingEdge /\ ~reset
  BY <1>1, RiseFlags
<1>2. CASE FallingEdge /\ ~reset
  BY <1>2, FallFlags
<1>3. CASE (RisingEdge \/ FallingEdge) /\ reset
  <2>1. UNCHANGED fpga_vars
    <3>1. CASE RisingEdge
      BY <1>3, <3>1 DEF RisingEdge
    <3>2. CASE FallingEdge
      BY <1>3, <3>2 DEF FallingEdge, fpga_vars
    <3> QED
      BY <1>3, <3>1, <3>2
  <2>2. Cleared
    BY <1>3, InReset
  <2>3. enables = {} /\ ~InTransit
    BY <1>3, <2>2, SMT DEF Cleared, Busy, InTransit
  <2> QED
    BY <2>1, <2>3, SameFlags DEF fpga_vars
<1>4. CASE Submit
  <2>1. HostIdle /\ UNCHANGED <<fpga_vars, clk, reset>>
    BY <1>4 DEF Submit, SendCommand
  <2>2. ~InTransit' => ~InTransit
    BY <2>1 DEF InTransit, HostIdle, fpga_vars, receive_vars
  <2> QED
    BY <2>1, <2>2, SameFlags DEF fpga_vars
<1>5. CASE EnableReset
  BY <1>5, EnableResetFlags
<1>6. CASE DisableReset
  <2>1. HostIdle /\ UNCHANGED <<fpga_vars, clk, host_vars>>
    BY <1>6 DEF DisableReset
  <2>2. ~InTransit' => ~InTransit
    BY <2>1 DEF InTransit, HostIdle, fpga_vars, receive_vars
  <2> QED
    BY <2>1, <2>2, SameFlags DEF fpga_vars
<1>7. CASE TimerEdge \/ UNCHANGED vars
  <2>1. UNCHANGED <<fpga_vars, host_vars, clk, reset>>
    BY <1>7 DEF TimerEdge, vars
  <2>2. InTransit' = InTransit
    BY <2>1 DEF InTransit, Sending, host_vars, fpga_vars, receive_vars
  <2> QED
    BY <2>1, <2>2, SameFlags DEF fpga_vars
<1> QED
  BY <1>1, <1>2, <1>3, <1>4, <1>5, <1>6, <1>7 DEF Next

\* Between instructions the ALU and STATUS have the same flags, for all programs
\* and operands, unless the ALU's copy was cleared by a read that was skipped.
THEOREM FlagsCorrect == Spec => []FlagsAgree
<1>1. Init => FlagsInv
  BY InitFlags
<1>2. TypeOK /\ ControlInv /\ FlagsInv /\ [Next]_vars => FlagsInv'
  BY NextFlags
<1>3. FlagsInv => FlagsAgree
  BY DEF FlagsInv
<1> QED
  BY <1>1, <1>2, <1>3, TypeCorrect, ControlCorrect, PTL DEF Spec
=============================================================================
