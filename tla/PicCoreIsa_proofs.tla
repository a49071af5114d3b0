------------------------- MODULE PicCoreIsa_proofs -------------------------
(***************************************************************************)
(* The pipeline implements PicIsa, where each instruction is one step: the *)
(* inductive invariant of the registers between the stages, and the        *)
(* refinement, for all programs without DUMP_EEPROM and all sizes.         *)
(***************************************************************************)
EXTENDS PicCore_proofs

\* The fields that a word is decoded to fit its type.
LEMMA DecodeConsistent ==
  ASSUME NEW word \in Word, Decode(word).type # DumpEeprom
  PROVE  Consistent(Decode(word))
<1> DEFINE opcode == Slice(word, 13, 8)
           isBit  == word[13] = 0 /\ word[12] = 1
           isByte == opcode \in ByteOriented
           toRam  == isBit \/ (isByte /\ word[7] = 1)
           isReadReg == opcode \in {READ_WREG, READ_STATUS}
           isReadMem == opcode = READ_ADDRESS
<1>1. Decode(word).type = CASE toRam                -> ToRam
                            [] isByte /\ ~toRam     -> ToWreg
                            [] opcode = DUMP_EEPROM -> DumpEeprom
                            [] opcode = DUMP_RAM    -> DumpRam
                            [] isReadMem            -> ReadMem
                            [] isReadReg            -> ReadReg
                            [] OTHER                -> Literal
  BY DEF Decode
<1>2. /\ Decode(word).opcode = IF isBit THEN 4 * Slice(word, 13, 10) ELSE opcode
      /\ Decode(word).to_ram = toRam
      /\ Decode(word).to_sw = (isReadReg \/ isReadMem)
      /\ Decode(word).from_ram = (isBit \/ isByte \/ isReadMem)
  BY DEF Decode
<1>3. isBit => opcode \in 16..31
  <2>1. \A i \in 0..13 : word[i] \in {0, 1}
    BY SMT DEF Word, FRAME_BITS
  <2> QED
    BY <2>1, SMT DEF Slice, FromBits
<1>4. isByte => opcode \in 1..15
  BY SMT DEF ByteOriented, ADDWF, ANDWF, CLR, COMF, DECF, DECFSZ, INCF, INCFSZ, IORWF,
             MOVF, RLF, RRF, SUBWF, SWAPF, XORWF
<1> HIDE DEF opcode, isBit, isByte, toRam, isReadReg, isReadMem
<1>5. /\ isReadReg <=> opcode \in {49, 50}
      /\ isReadMem <=> opcode = 51
      /\ DUMP_EEPROM = 44 /\ DUMP_RAM = 40
      /\ toRam => isBit \/ isByte
      /\ isBit => toRam
  BY SMT DEF isReadReg, isReadMem, toRam, DUMP_EEPROM, DUMP_RAM, READ_ADDRESS, READ_WREG,
             READ_STATUS
<1>6. isBit \/ isByte => ~isReadReg /\ ~isReadMem /\ opcode # DUMP_EEPROM /\ opcode # DUMP_RAM
  BY <1>3, <1>4, <1>5, SMT
<1>7. isReadReg \/ isReadMem => opcode # DUMP_EEPROM /\ opcode # DUMP_RAM
  BY <1>5, SMT
<1>8. ~(isReadReg /\ isReadMem)
  BY <1>5, SMT
<1> DEFINE t == Decode(word).type
           Fits == /\ toRam <=> t = ToRam
                   /\ isReadReg \/ isReadMem <=> t \in {ReadReg, ReadMem}
                   /\ isBit \/ isByte \/ isReadMem <=> t \in {ToWreg, ToRam, ReadMem}
                   /\ t = ReadReg => opcode \in {READ_WREG, READ_STATUS}
<1>9. SUFFICES Fits
  <2>1. t # DumpEeprom
    OBVIOUS
  <2>2. Decode(word).to_ram <=> t = ToRam
    BY <1>2, <1>9, Zenon
  <2>3. Decode(word).to_sw <=> t \in {ReadReg, ReadMem}
    BY <1>2, <1>9, Zenon
  <2>4. Decode(word).from_ram <=> t \in {ToWreg, ToRam, ReadMem}
    BY <1>2, <1>9, Zenon
  <2>5. t = ReadReg => Decode(word).opcode \in {READ_WREG, READ_STATUS}
    <3>1. ASSUME t = ReadReg PROVE Decode(word).opcode = opcode
      <4>1. ~isBit
        BY <1>5, <1>9, <3>1, SMT DEF ToRam, ReadReg
      <4> QED
        BY <1>2, <4>1, Zenon
    <3> QED
      BY <1>9, <3>1, Zenon
  <2> QED
    BY <2>1, <2>2, <2>3, <2>4, <2>5, Zenon DEF Consistent
<1>10. CASE toRam
  <2>1. t = ToRam
    BY <1>1, <1>5, <1>6, <1>10, Zenon
  <2> QED
    BY <1>5, <1>6, <1>10, <2>1, SMT DEF ToRam, ToWreg, ReadMem, ReadReg
<1>11. CASE isByte /\ ~toRam
  <2>1. t = ToWreg
    BY <1>1, <1>5, <1>6, <1>11, Zenon
  <2> QED
    BY <1>5, <1>6, <1>11, <2>1, SMT DEF ToRam, ToWreg, ReadMem, ReadReg
<1>12. CASE isReadMem
  <2>1. t = ReadMem
    BY <1>1, <1>5, <1>6, <1>7, <1>8, <1>12, Zenon
  <2> QED
    BY <1>5, <1>6, <1>8, <1>12, <2>1, SMT DEF ToRam, ToWreg, ReadMem, ReadReg
<1>13. CASE isReadReg
  <2>1. t = ReadReg
    BY <1>1, <1>5, <1>6, <1>7, <1>8, <1>13, Zenon
  <2>2. opcode \in {READ_WREG, READ_STATUS}
    BY <1>13 DEF isReadReg
  <2> QED
    BY <1>5, <1>6, <1>8, <1>13, <2>1, <2>2, SMT DEF ToRam, ToWreg, ReadMem, ReadReg
<1>14. CASE ~isBit /\ ~isByte /\ ~isReadMem /\ ~isReadReg
  <2>1. t \in {DumpRam, Literal}
    <3>1. DUMP_EEPROM # DUMP_RAM
      BY <1>5, SMT
    <3>2. ~toRam /\ ~(isByte /\ ~toRam)
      BY <1>5, <1>14
    <3> QED
      BY <1>1, <1>14, <3>1, <3>2, Zenon
  <2> QED
    BY <1>5, <1>14, <2>1, SMT DEF ToRam, ToWreg, ReadMem, ReadReg, DumpRam, Literal
<1> QED
  BY <1>5, <1>10, <1>11, <1>12, <1>13, <1>14, Zenon

\* The reset values and the zero word that a reset leaves in the receiver fit too.
LEMMA ResetConsistent == Consistent(DecoderReset) /\ Consistent(Decode(ZeroWord))
<1>1. Consistent(DecoderReset)
  BY SMT DEF Consistent, DecoderReset, ToRam, ToWreg, ReadMem, ReadReg, DumpEeprom, Literal
<1>2. Decode(ZeroWord).type # DumpEeprom
  <2>1. Slice(ZeroWord, 13, 8) = 0 /\ ZeroWord[12] = 0
    BY SMT DEF Slice, FromBits, ZeroWord, FRAME_BITS
  <2>2. Slice(ZeroWord, 13, 8) # DUMP_EEPROM
    BY <2>1, SMT DEF DUMP_EEPROM
  <2> QED
    BY <2>1, <2>2, SMT DEF Decode, ToRam, ToWreg, ReadMem, ReadReg, DumpEeprom, DumpRam, Literal
<1> QED
  BY <1>1, <1>2, ZeroWordType, DecodeConsistent

-----------------------------------------------------------------------------
(***************************************************************************)
(* Where the sequencer is when it has the lines en up, which it set in     *)
(* state s, and goes or has gone on to state q.                            *)
(***************************************************************************)
FromMemory == {ToWreg, ToRam, ReadMem}

Stage(type, s, en, q) ==
  \/ s = "do_nop" /\ en = {} /\ q = "do_nop"
  \/ s = "do_nop" /\ en = {} /\ q = "do_alu_input_sel" /\ type = Literal
  \/ s = "do_nop" /\ en = {} /\ q = "do_ram_read" /\ type \in FromMemory
  \/ s = "do_nop" /\ en = {} /\ q = "do_alu" /\ type = ReadReg
  \/ s = "do_nop" /\ en = {} /\ q = "do_ram_dump" /\ type = DumpRam
  \/ s = "do_ram_read" /\ en = {"ram_read"} /\ q = "do_alu_input_sel" /\ type \in FromMemory
  \/ /\ s = "do_alu_input_sel" /\ en = {"alu_input_mux"} /\ q = "do_alu"
     /\ type \in FromMemory \cup {Literal}
  \/ s = "do_alu" /\ en = {"alu"} /\ q = "do_wreg" /\ type \in {Literal, ToWreg}
  \/ s = "do_alu" /\ en = {"alu"} /\ q = "do_ram_write" /\ type = ToRam
  \/ s = "do_alu" /\ en = {"alu"} /\ q = "do_wait" /\ type \in {ReadReg, ReadMem}
  \/ s = "do_ram_dump" /\ en = {"ram_dump"} /\ q = "do_wait" /\ type = DumpRam
  \/ s = "do_wait" /\ en = {} /\ q = "do_result" /\ type \in {ReadReg, ReadMem, DumpRam}
  \/ /\ s = "do_wreg" /\ en = {"wreg", "status_write", "timer_write"} /\ q = "do_nop"
     /\ type \in {Literal, ToWreg}
  \/ /\ s = "do_ram_write" /\ en = {"ram_write", "status_write", "timer_write"}
     /\ q = "do_nop" /\ type = ToRam
  \/ /\ s = "do_result" /\ en = {"timer_write", "result"} /\ q = "do_nop"
     /\ type \in {ReadReg, ReadMem}
  \/ /\ s = "do_result" /\ en = {"timer_write", "result_ram_dump"} /\ q = "do_nop"
     /\ type = DumpRam

\* The lines of each stage of an instruction, type by type.
LEMMA StageTable ==
  ASSUME decoded.type \in InstructionType, decoded.type # DumpEeprom,
         NEW s \in Path(decoded.type), NEW q, LeadsOn(s, q)
  PROVE  Stage(decoded.type, s, Asserted(s, decoded.type), q)
<1> DEFINE type == decoded.type
<1> USE DEF Literal, ToWreg, ToRam, ReadReg, ReadMem, DumpRam, DumpEeprom, FromMemory
<1>1. CASE type = Literal
  BY <1>1, SMT DEF Path, Asserted, LeadsOn, Dispatch, Successor, AfterAlu, ResultLine, Stage
<1>2. CASE type = ToWreg
  BY <1>2, SMT DEF Path, Asserted, LeadsOn, Dispatch, Successor, AfterAlu, ResultLine, Stage
<1>3. CASE type = ToRam
  BY <1>3, SMT DEF Path, Asserted, LeadsOn, Dispatch, Successor, AfterAlu, ResultLine, Stage
<1>4. CASE type = ReadReg
  BY <1>4, SMT DEF Path, Asserted, LeadsOn, Dispatch, Successor, AfterAlu, ResultLine, Stage
<1>5. CASE type = ReadMem
  BY <1>5, SMT DEF Path, Asserted, LeadsOn, Dispatch, Successor, AfterAlu, ResultLine, Stage
<1>6. CASE type = DumpRam
  BY <1>6, SMT DEF Path, Asserted, LeadsOn, Dispatch, Successor, AfterAlu, ResultLine, Stage
<1> QED
  BY <1>1, <1>2, <1>3, <1>4, <1>5, <1>6, SMT DEF InstructionType

\* The type of the latched instruction is one of the seven.
LEMMA Types == TypeOK => decoded.type \in InstructionType
BY DEF TypeOK, DecoderType, Decoded

\* Before a rising edge, and before a falling one.
LEMMA StageLow ==
  ASSUME TypeOK, DataInv, ~clk
  PROVE  /\ next_state = state
         /\ \E s \in Path(decoded.type) : Stage(decoded.type, s, enables, state)
BY Types, StageTable DEF DataInv, DecodedInv, Consistent, PipelineInv

\* While the clock is high the lines and states are those of a stage of the path.
LEMMA StageHigh ==
  ASSUME TypeOK, ControlInv, DataInv, clk
  PROVE  Stage(decoded.type, state, enables, next_state)
BY Types, StageTable DEF DataInv, DecodedInv, Consistent, PipelineInv, ControlInv, SequencerInv

-----------------------------------------------------------------------------
(***************************************************************************)
(* One clock of the memory.                                                *)
(***************************************************************************)
MemoryLines == {"ram_write", "status_write", "timer_write", "eeprom_dump"}

\* m with TMR0 following the external count, and one tick later.
Follow(m) == IF Following THEN [m EXCEPT ![TMR0_ADDRESS] = ExternalCount] ELSE m

Tock(m) == [m EXCEPT ![TMR0_ADDRESS] = IF Following THEN ExternalCount
                                       ELSE (ram_block[TMR0_ADDRESS] + 1) % 256]

Strobed == [ram_block EXCEPT ![EECON_ADDRESS] = PutLow(@, 4, 0)]

Written(en, address, value) ==
    IF "ram_write" \in en THEN WriteRam(ram_block, address, value) ELSE ram_block

Flagged(en, m, status) ==
    IF "status_write" \in en THEN [m EXCEPT ![STATUS_ADDRESS] = PutLow(@, 8, status)] ELSE m

\* The memory's clock between the writes of two instructions, and that of a write.
LEMMA MemoryIdles ==
  ASSUME NEW en, en \cap MemoryLines = {}, NEW d, NEW status, NEW address
  PROVE  NextBlock(en, FALSE, FALSE, data_out_falling, data_out_rising, 0, d, status, address)
         = Follow(IF reset_eecon THEN Strobed ELSE ram_block)
<1>1. /\ "ram_write" \notin en /\ "status_write" \notin en /\ "timer_write" \notin en
      /\ "eeprom_dump" \notin en
  BY DEF MemoryLines
<1>2. Access(en) # "eeprom_dump" /\ Access(en) # "ram_write"
  BY <1>1, SMT DEF Access
<1> QED
  BY <1>1, <1>2, Zenon DEF NextBlock, Follow, Following, Strobed, ExternalCount

\* What the memory takes over at the end of an instruction.
LEMMA MemoryWritten ==
  ASSUME NEW en, en \cap {"ram_dump", "eeprom_dump", "ram_read"} = {}, "timer_write" \in en,
         ~reset_eecon, NEW d, NEW status, NEW address
  PROVE  NextBlock(en, FALSE, FALSE, data_out_falling, data_out_rising, 0, d, status, address)
         = Tock(Flagged(en, Written(en, address, d), status))
<1> DEFINE m3 == Written(en, address, d)
           m4 == Flagged(en, m3, status)
<1>1. "ram_dump" \notin en /\ "eeprom_dump" \notin en /\ "ram_read" \notin en
  OBVIOUS
<1>2. Access(en) # "eeprom_dump" /\ (Access(en) = "ram_write" <=> "ram_write" \in en)
  BY <1>1, SMT DEF Access
<1>3. (CASE Access(en) = "eeprom_dump" -> DumpStep(ram_block)
         [] Access(en) = "ram_write" -> WriteRam(ram_block, address, d)
         [] OTHER -> ram_block) = m3
  BY <1>2, Zenon DEF Written
<1> DEFINE next == NextBlock(en, FALSE, FALSE, data_out_falling, data_out_rising, 0, d, status,
                             address)
<1>4. Following => next = [m4 EXCEPT ![TMR0_ADDRESS] = ExternalCount]
  <2> HIDE DEF m3
  <2> QED
    BY <1>3, Zenon DEF NextBlock, Following, ExternalCount, Flagged
<1>5. ~Following => next = [m4 EXCEPT ![TMR0_ADDRESS] = (ram_block[TMR0_ADDRESS] + 1) % 256]
  <2> HIDE DEF m3
  <2> QED
    BY <1>3, Zenon DEF NextBlock, Following, ExternalCount, Flagged
<1> HIDE DEF m4, next
<1>6. next = Tock(m4)
  <2>1. CASE Following
    BY <1>4, <2>1 DEF Tock
  <2>2. CASE ~Following
    BY <1>5, <2>2 DEF Tock
  <2> QED
    BY <2>1, <2>2
<1> QED
  BY <1>6 DEF next, m4

\* A clock that moves no more than TMR0 leaves alone where an access goes to and
\* what it reads.
LEMMA OnlyTimerMoves ==
  ASSUME ram_block \in Memory, ram_block' = Follow(ram_block)
  PROVE  /\ Following' = Following
         /\ ram_block'[FSR_ADDRESS] = ram_block[FSR_ADDRESS]
         /\ \A a \in RamAddress \ {TMR0_ADDRESS} : ram_block'[a] = ram_block[a]
         /\ Following => ram_block'[TMR0_ADDRESS] = ExternalCount
         /\ ~Following => ram_block' = ram_block
<1>1. TMR0_ADDRESS \in RamAddress /\ OPTION_ADDRESS \in RamAddress /\ FSR_ADDRESS \in RamAddress
  BY RegisterCells
<1>2. TMR0_ADDRESS # OPTION_ADDRESS /\ TMR0_ADDRESS # FSR_ADDRESS
  BY SMT DEF TMR0_ADDRESS, OPTION_ADDRESS, FSR_ADDRESS
<1>3. \A a \in RamAddress \ {TMR0_ADDRESS} : ram_block'[a] = ram_block[a]
  BY DEF Follow, Memory
<1>4. Following' = Following
  BY <1>1, <1>2, <1>3 DEF Following
<1>5. ram_block'[FSR_ADDRESS] = ram_block[FSR_ADDRESS]
  BY <1>1, <1>2, <1>3
<1>6. Following => ram_block'[TMR0_ADDRESS] = ExternalCount
  BY <1>1 DEF Follow, Memory
<1>7. ~Following => ram_block' = ram_block
  BY DEF Follow
<1> QED
  BY <1>3, <1>4, <1>5, <1>6, <1>7

\* The board's memory on a rising edge.
LEMMA RiseMemory ==
  ASSUME RisingEdge, ~reset
  PROVE  /\ ram_block' = MemoryAfterClock
         /\ reset_eecon' <=> Access(enables) = "ram_write" /\ decoded.address = EECON_ADDRESS
         /\ IF Access(enables) = "ram_read" THEN from_ram_to_alu' \in ReadRam(decoded.address)
            ELSE from_ram_to_alu' = from_ram_to_alu
         /\ ram_dump_int' = IF Access(enables) = "ram_dump" THEN ram_block ELSE ram_dump_int
         /\ status_in_alu' = ram_block[STATUS_ADDRESS]
BY RisePins DEF FpgaRise, RamRise, MemoryAfterClock

\* On a clock without a line of an instruction only TMR0 and EECON may move.
LEMMA RiseIdleMemory ==
  ASSUME TypeOK, RisingEdge, ~reset, enables \cap MemoryLines = {}
  PROVE  /\ ram_block' = Follow(IF reset_eecon THEN Strobed ELSE ram_block)
         /\ ~reset_eecon'
<1>1. Access(enables) # "ram_write"
  BY SMT DEF Access, MemoryLines
<1> QED
  BY <1>1, RiseMemory, MemoryIdles DEF MemoryAfterClock

-----------------------------------------------------------------------------
(***************************************************************************)
(* The rising edge preserves DataInv.                                      *)
(***************************************************************************)
\* What is true of every command is true of the word the host sends.
LEMMA CommandConsistent ==
  ASSUME NoEepromDump, NEW word \in Commands
  PROVE  Consistent(Decode(word))
BY CoreAssumption, DecodeConsistent DEF NoEepromDump

\* A word that the decoder latches is a command, so it fits its type.
LEMMA RiseDecoded ==
  ASSUME TypeOK, ControlInv, DataInv, RisingEdge, ~reset
  PROVE  DecodedInv'
<1>1. Consistent(decoded')
  <2>1. CASE ~trig_instruction_process
    BY <2>1, RisePins DEF FpgaRise, DecoderRise, DataInv, DecodedInv
  <2>2. CASE trig_instruction_process
    <3>1. decoded' = Decode(binary_string)
      BY <2>2, RisePins DEF FpgaRise, DecoderRise
    <3>2. binary_string = frame \/ decoded = Decode(binary_string)
      BY <2>2, TriggerMeans, SMT DEF ControlInv, DecoderInv
    <3> QED
      BY <3>1, <3>2 DEF DataInv, DecodedInv
  <2> QED
    BY <2>1, <2>2
<1>2. reader' \in {reader, NoReader}
  BY RisePins DEF ReaderRise
<1>3. NoReader # DumpEeprom
  BY SMT DEF NoReader, DumpEeprom
<1> QED
  BY <1>1, <1>2, <1>3, RisePins DEF DataInv, DecodedInv, Consistent

\* The lines and the sequencer go through the stages together.
LEMMA RisePipeline ==
  ASSUME TypeOK, ControlInv, DataInv, RisingEdge, ~reset
  PROVE  PipelineInv'
<1>1. CASE state = "do_nop"
  <2>1. enables' = {} /\ state' = "do_nop"
        /\ next_state' = IF trig_state_machine THEN Dispatch(decoded.type) ELSE "do_nop"
    BY <1>1, RisePins, SequencerStarts
  <2>2. trig_state_machine => decoded' = decoded
    BY <1>1, RisePins, DecodedStable
  <2>3. Asserted("do_nop", decoded'.type) = {}
    BY SMT DEF Asserted
  <2> QED
    BY <2>1, <2>2, <2>3, RisePins DEF PipelineInv, LeadsOn
<1>2. CASE state # "do_nop"
  <2>1. /\ decoded' = decoded /\ state' = state
        /\ next_state' = Successor(state, trig_state_machine, decoded.type)
        /\ enables' = Asserted(state, decoded.type) \cup (enables \cap Held(state))
    BY <1>2, RisePins, SequencerRuns
  <2>2. enables \cap Held(state) = {}
    <3>1. state = "do_alu" => "status_write" \notin enables
      BY RisePins, StageLow, SMT DEF Stage
    <3> QED
      BY <3>1 DEF Held
  <2>3. Successor(state, trig_state_machine, decoded.type)
        = Successor(state, FALSE, decoded.type)
    BY <1>2, Zenon DEF Successor
  <2> QED
    BY <1>2, <2>1, <2>2, <2>3, RisePins DEF PipelineInv, LeadsOn
<1> QED
  BY <1>1, <1>2

\* The lines that a rising edge puts up, and the instruction that they belong to.
LEMMA RiseStages ==
  ASSUME TypeOK, ControlInv, DataInv, RisingEdge, ~reset
  PROVE  /\ state' = state
         /\ state # "do_nop" => /\ decoded' = decoded
                               /\ Stage(decoded.type, state, enables', next_state')
         /\ state = "do_nop" => enables' = {}
<1>1. CASE state = "do_nop"
  BY <1>1, RisePins, SequencerStarts
<1>2. CASE state # "do_nop"
  <2>1. decoded' = decoded /\ state' = state /\ state \in Path(decoded.type)
    BY <1>2, RisePins, SequencerRuns
  <2>2. enables' = Asserted(state, decoded.type)
    BY <2>1, RisePins, RisePipeline DEF PipelineInv
  <2>3. LeadsOn(state, next_state')
    BY <1>2, <2>1, RisePins, RisePipeline DEF PipelineInv, LeadsOn
  <2> QED
    BY <1>2, <2>1, <2>2, <2>3, Types, StageTable DEF DataInv, DecodedInv, Consistent
<1> QED
  BY <1>1, <1>2

\* The strobe of EECON is over before a next instruction begins.
LEMMA BusyNoStrobe ==
  ASSUME DataInv, state # "do_nop" \/ enables # {}
  PROVE  ~reset_eecon
BY DEF DataInv, StrobeInv, Busy

\* What a stage reads was committed by the stage before.
LEMMA RiseOperands ==
  ASSUME TypeOK, ControlInv, DataInv, RisingEdge, ~reset
  PROVE  OperandInv'
<1>1. ASSUME enables \cap MemoryLines = {}, ~reset_eecon, decoded' = decoded
      PROVE  /\ Fetched' = Fetched
             /\ ReadRam(decoded.address) \subseteq Fetched
             /\ ram_block'[STATUS_ADDRESS] = ram_block[STATUS_ADDRESS]
  <2>1. ram_block \in Memory
    BY DEF TypeOK, RamType
  <2>2. ram_block' = Follow(ram_block)
    BY <1>1, RiseIdleMemory
  <2>3. /\ Following' = Following /\ ram_block'[FSR_ADDRESS] = ram_block[FSR_ADDRESS]
        /\ \A a \in RamAddress \ {TMR0_ADDRESS} : ram_block'[a] = ram_block[a]
        /\ ~Following => ram_block' = ram_block
    BY <2>1, <2>2, OnlyTimerMoves
  <2> DEFINE a == Target(decoded.address)
  <2>4. ~(a = TMR0_ADDRESS /\ Following) =>
            ReadRam(decoded.address)' = ReadRam(decoded.address)
    BY <1>1, <2>3 DEF ReadRam, Target
  <2>5. Fetched' = Fetched
    <3>1. Target(decoded.address)' = Target(decoded.address)
      BY <1>1, <2>3 DEF Target
    <3> QED
      BY <2>3, <2>4, <3>1 DEF Fetched
  <2>6. ReadRam(decoded.address) \subseteq Fetched
    <3>1. ReadRam(decoded.address) \subseteq Byte
      BY <2>1, RegisterCells DEF ReadRam
    <3> QED
      BY <3>1 DEF Fetched
  <2>7. ram_block'[STATUS_ADDRESS] = ram_block[STATUS_ADDRESS]
    <3>1. STATUS_ADDRESS \in RamAddress \ {TMR0_ADDRESS}
      BY RegisterCells, SMT DEF STATUS_ADDRESS, TMR0_ADDRESS
    <3> QED
      BY <2>3, <3>1
  <2> QED
    BY <2>5, <2>6, <2>7
<1>2. ASSUME "alu_input_mux" \in enables', decoded'.from_ram
      PROVE  from_ram_to_alu' \in Fetched'
  <2>1. state = "do_alu_input_sel" /\ decoded' = decoded
    BY <1>2, RiseStages, SMT DEF Stage
  <2>2. decoded.type # Literal
    BY <1>2, <2>1, SMT DEF DataInv, DecodedInv, Consistent, Literal, ToWreg, ToRam, ReadMem
  <2>3. enables = {"ram_read"}
    BY <2>1, <2>2, RisePins, StageLow, SMT DEF Stage
  <2>4. enables \cap MemoryLines = {} /\ ~reset_eecon /\ Access(enables) = "ram_read"
    BY <2>1, <2>3, BusyNoStrobe, SMT DEF MemoryLines, Access
  <2>5. from_ram_to_alu' \in ReadRam(decoded.address)
    BY <2>4, RiseMemory
  <2> QED
    BY <1>1, <2>1, <2>4, <2>5
<1>3. ASSUME "alu" \in enables'
      PROVE  /\ status_in_alu' = ram_block'[STATUS_ADDRESS]
             /\ decoded'.from_ram => output_mux' \in Fetched'
             /\ decoded'.type = Literal => output_mux' = decoded'.literal
  <2>1. state = "do_alu" /\ decoded' = decoded
    BY <1>3, RiseStages, SMT DEF Stage
  <2>2. \/ enables = {"alu_input_mux"}
        \/ enables = {} /\ decoded.type = ReadReg
    BY <2>1, RisePins, StageLow, SMT DEF Stage
  <2>3. enables \cap MemoryLines = {} /\ ~reset_eecon
    BY <2>1, <2>2, BusyNoStrobe, SMT DEF MemoryLines
  <2>4. decoded.from_ram \/ decoded.type = Literal => enables = {"alu_input_mux"}
    BY <2>2, SMT DEF DataInv, DecodedInv, Consistent, Literal, ToWreg, ToRam, ReadMem, ReadReg
  <2>5. InputMuxRise("alu_input_mux" \in enables, decoded.from_ram, from_ram_to_alu,
                     decoded.literal)
    BY RisePins DEF FpgaRise
  <2>6. ASSUME decoded.from_ram
        PROVE  output_mux' \in Fetched'
    <3>1. output_mux' = from_ram_to_alu
      BY <2>4, <2>5, <2>6, Zenon DEF InputMuxRise
    <3>2. from_ram_to_alu \in Fetched
      BY <2>4, <2>6 DEF DataInv, OperandInv
    <3> QED
      BY <1>1, <2>1, <2>3, <3>1, <3>2
  <2>7. ASSUME decoded.type = Literal
        PROVE  output_mux' = decoded.literal
    <3>1. ~decoded.from_ram
      BY <2>7, SMT DEF DataInv, DecodedInv, Consistent, Literal, ToWreg, ToRam, ReadMem
    <3> QED
      BY <2>4, <2>5, <2>7, <3>1, Zenon DEF InputMuxRise
  <2>8. status_in_alu' = ram_block'[STATUS_ADDRESS]
    BY <1>1, <2>1, <2>3, RiseMemory
  <2> QED
    BY <2>1, <2>6, <2>7, <2>8
<1> QED
  BY <1>2, <1>3 DEF OperandInv

\* A strobe is raised on the last clock of an instruction without an answer.
LEMMA RiseStrobe ==
  ASSUME TypeOK, ControlInv, DataInv, RisingEdge, ~reset
  PROVE  StrobeInv'
<1> SUFFICES ASSUME reset_eecon' PROVE ~Busy' /\ ~miso'
  BY DEF StrobeInv
<1>1. "ram_write" \in enables
  BY RiseMemory, SMT DEF Access
<1>2. state = "do_nop" /\ decoded.type = ToRam
  BY <1>1, RisePins, StageLow, SMT DEF Stage
<1>3. Busy
  BY <1>1 DEF Busy
<1>4. ~miso /\ decoded.type \notin Readable
  BY <1>2, <1>3, SMT DEF ControlInv, AnswerInv, Readable, ToRam, ReadReg, ReadMem, DumpRam,
     DumpEeprom
<1> QED
  BY <1>2, <1>3, <1>4, RiseTransit, RiseOutput

\* The bits that are out, and those still in the shifter, are those of the answer.
LEMMA RiseShift ==
  ASSUME TypeOK, TypeOK', ControlInv, DataInv, RisingEdge, ~reset
  PROVE  ShiftInv'
<1> SUFFICES ASSUME miso'
             PROVE  /\ to_send' = IF reader' = DumpRam THEN ram_dump_int'
                                  ELSE [i \in {0} |-> alu_output_int']
                    /\ \A k \in 1..Len(data') : data'[k] = SentBit(8 * AnswerBytes - k)'
                    /\ miso_trigger' => alu_output_raspi' = SentBit(idx)'
  BY DEF ShiftInv
<1>1. Reading'
  BY RiseControl DEF ControlInv, AnswerInv
<1>2. reader' = reader /\ data' = data /\ miso_trigger' = miso_trigger
      /\ AnswerBytes' = AnswerBytes
  BY <1>1, RisePins DEF ReaderRise, Reading, AnswerBytes
<1>3. idx \in Nat
  BY SMT DEF TypeOK, OutputType
<1>4. AluRise("alu" \in enables, decoded.opcode, w_output_int, output_mux, status_in_alu,
              decoded.bit_idx)
  BY RisePins DEF FpgaRise
<1>5. CASE idx > 0
  <2>1. miso /\ ~Busy
    BY <1>5 DEF ControlInv, AnswerInv
  <2>2. enables = {}
    BY <2>1 DEF Busy
  <2>3. ShiftOut
    BY <1>3, <1>5, RisePins, OutputBranches
  <2>4. ram_dump_int' = ram_dump_int /\ alu_output_int' = alu_output_int
    <3>1. Access(enables) # "ram_dump"
      BY <2>2, SMT DEF Access
    <3> QED
      BY <1>4, <2>2, <3>1, RiseMemory DEF AluRise, alu_vars
  <2>5. to_send' = to_send /\ alu_output_raspi' = SentBit(idx)'
    BY <2>3 DEF ShiftOut, SentBit
  <2> QED
    BY <1>2, <2>1, <2>4, <2>5 DEF DataInv, ShiftInv, SentBit
<1>6. CASE idx = 0
  <2>1. Busy /\ state = "do_nop" /\ decoded.type \in Readable
    BY <1>3, <1>6, RiseOutput, SMT
  <2>2. reader = decoded.type /\ ~miso_trigger /\ data = <<>>
    BY <2>1 DEF ControlInv, BusyInv
  <2>3. \/ decoded.type = DumpRam /\ enables = {"timer_write", "result_ram_dump"}
        \/ decoded.type \in {ReadReg, ReadMem} /\ enables = {"timer_write", "result"}
    <3>1. next_state = "do_nop" /\ enables # {}
      BY <2>1, RisePins, LastClock DEF Busy
    <3> QED
      BY <2>1, <3>1, RisePins, StageLow, SMT DEF Stage, Readable, ToRam, ToWreg, ReadReg,
         ReadMem, DumpRam, DumpEeprom, Literal
  <2>4. ram_dump_int' = ram_dump_int /\ alu_output_int' = alu_output_int
    <3>1. Access(enables) # "ram_dump" /\ "alu" \notin enables
      BY <2>3, SMT DEF Access
    <3> QED
      BY <1>4, <3>1, RiseMemory DEF AluRise, alu_vars
  <2>5. to_send' = IF decoded.type = DumpRam THEN ram_dump_int
                   ELSE [i \in {0} |-> alu_output_int]
    <3>1. CASE decoded.type = DumpRam
      <4>1. enables \cap {"result_eeprom_dump", "result_ram_dump"} = {"result_ram_dump"}
        BY <2>3, <3>1, SMT DEF DumpRam, ReadReg, ReadMem
      <4> QED
        BY <1>3, <1>6, <3>1, <4>1, RisePins, OutputBranches DEF Load
    <3>2. CASE decoded.type \in {ReadReg, ReadMem}
      <4>1. enables \cap ResultLines = {"result"} /\ decoded.type # DumpRam
        BY <2>3, <3>2, SMT DEF DumpRam, ReadReg, ReadMem, ResultLines
      <4>2. DataToSw(decoded, alu_output_int) = alu_output_int
        BY <3>2 DEF DataToSw, DataInv, DecodedInv, Consistent
      <4> QED
        BY <1>3, <1>6, <4>1, <4>2, RisePins, OutputBranches DEF Load
    <3> QED
      BY <2>3, <3>1, <3>2
  <2>6. Len(data) = 0
    BY <2>2
  <2>7. \A k \in 1..Len(data') : data'[k] = SentBit(8 * AnswerBytes - k)'
    BY <1>2, <2>6, SMT
  <2> QED
    BY <1>2, <2>2, <2>4, <2>5, <2>7
<1> QED
  BY <1>3, <1>5, <1>6, SMT

\* A rising edge keeps the data path consistent with the instruction executed.
LEMMA RiseData ==
  ASSUME TypeOK, TypeOK', ControlInv, DataInv, RisingEdge, ~reset
  PROVE  DataInv'
<1>1. QuietInv'
  BY RisePins DEF QuietInv
<1> QED
  BY <1>1, RiseDecoded, RisePipeline, RiseOperands, RiseStrobe, RiseShift DEF DataInv
-----------------------------------------------------------------------------
(***************************************************************************)
(* So do the other steps.                                                  *)
(***************************************************************************)
LEMMA FallShift ==
  ASSUME TypeOK, ControlInv, DataInv, FallingEdge, ~reset
  PROVE  ShiftInv'
<1> SUFFICES ASSUME miso'
             PROVE  /\ to_send' = IF reader' = DumpRam THEN ram_dump_int'
                                  ELSE [i \in {0} |-> alu_output_int']
                    /\ \A k \in 1..Len(data') : data'[k] = SentBit(8 * AnswerBytes - k)'
  BY FallPins DEF ShiftInv
<1>1. /\ UNCHANGED <<miso, idx, to_send, alu_output_raspi, ram_dump_int, alu_output_int>>
      /\ clk /\ Tick = 1
  BY FallPins DEF FallingEdge, output_vars, ram_vars, alu_vars
<1>2. Reading' /\ reader' \in {reader, NoReader}
  BY FallControl, FallPins DEF ControlInv, AnswerInv, ReaderFall
<1>3. reader' = reader /\ AnswerBytes' = AnswerBytes /\ Reading
  BY <1>2 DEF Reading, AnswerBytes
<1>4. AnswerBytes \in Nat \ {0}
  BY <1>3, Limits
<1>5. data \in Seq({0, 1}) /\ idx \in Nat
  BY SMT DEF TypeOK, HostType, OutputType
<1>6. \A j : SentBit(j)' = SentBit(j)
  BY <1>1 DEF SentBit
<1>7. \A k \in 1..Len(data) : data[k] = SentBit(8 * AnswerBytes - k)
  BY <1>1 DEF DataInv, ShiftInv
<1>8. CASE data' = data
  BY <1>1, <1>3, <1>7, <1>8 DEF DataInv, ShiftInv, SentBit
<1>9. CASE data' # data
  <2>1. miso_trigger /\ data' = Append(data, alu_output_raspi)
    BY <1>9, FallPins DEF ReaderFall
  <2>2. Len(data) + idx + 1 = 8 * AnswerBytes /\ alu_output_raspi = SentBit(idx)
    BY <1>1, <2>1 DEF ControlInv, AnswerInv, DataInv, ShiftInv
  <2>3. idx = 8 * AnswerBytes - (Len(data) + 1)
    BY <1>4, <1>5, <2>2, SMT
  <2> DEFINE n == Len(data) + 1
  <2>4. /\ Len(data') = n /\ data'[n] = alu_output_raspi
        /\ \A k \in 1..Len(data) : data'[k] = data[k]
    BY <1>5, <2>1, SMT
  <2>5. \A k \in 1..n : data'[k] = SentBit(8 * AnswerBytes - k)
    <3> TAKE k \in 1..n
    <3>1. k = n \/ k \in 1..Len(data)
      BY <1>5, SMT
    <3> HIDE DEF n
    <3> QED
      BY <1>7, <2>2, <2>3, <2>4, <3>1 DEF n
  <2>6. \A k \in 1..Len(data') : data'[k] = SentBit(8 * AnswerBytes - k)'
    BY <1>1, <1>3, <2>4, <2>5 DEF SentBit
  <2> QED
    BY <1>1, <1>3, <2>6 DEF DataInv, ShiftInv
<1> QED
  BY <1>8, <1>9

\* So does a falling edge.
LEMMA FallData ==
  ASSUME TypeOK, ControlInv, DataInv, FallingEdge, ~reset
  PROVE  DataInv'
<1>1. /\ UNCHANGED <<decoded, frame, ram_vars, alu_vars, datapath_vars, miso, next_state,
                     enables>>
      /\ clk /\ ~clk' /\ ~reset'
  BY FallPins, FallState DEF FallingEdge
<1>2. UNCHANGED <<ram_block, reset_eecon, from_ram_to_alu, status_in_alu, output_mux>>
  BY <1>1 DEF ram_vars, datapath_vars
<1>3. state # "do_eeprom_dump"
  BY <1>1, StageHigh, SMT DEF Stage
<1>4. state' = next_state
  BY <1>3, FallState
<1>5. DecodedInv'
  <2>1. reader' \in {reader, NoReader} /\ NoReader # DumpEeprom
    BY FallPins, SMT DEF ReaderFall, NoReader, DumpEeprom
  <2> QED
    BY <1>1, <2>1 DEF DataInv, DecodedInv, Consistent
<1>6. PipelineInv'
  <2>1. state \in Path(decoded.type)
    BY DEF ControlInv, SequencerInv
  <2>2. enables = Asserted(state, decoded.type) /\ LeadsOn(state, next_state)
    BY <1>1 DEF DataInv, PipelineInv
  <2>3. enables' = Asserted(state, decoded'.type) /\ state \in Path(decoded'.type)
    BY <1>1, <2>1, <2>2
  <2>4. IF state = "do_nop" THEN state' \in {"do_nop", Dispatch(decoded'.type)}
        ELSE state' = Successor(state, FALSE, decoded'.type)
    BY <1>1, <1>4, <2>2 DEF LeadsOn
  <2> QED
    BY <1>1, <1>4, <2>3, <2>4 DEF PipelineInv, LeadsOn
<1>7. OperandInv'
  BY <1>1, <1>2 DEF DataInv, OperandInv, Fetched, Target, ReadRam, Following
<1>8. StrobeInv'
  BY <1>1, <1>2, FallState DEF DataInv, StrobeInv
<1>9. QuietInv'
  BY <1>1 DEF QuietInv
<1> QED
  BY <1>5, <1>6, <1>7, <1>8, <1>9, FallShift DEF DataInv

\* A board at rest meets the parts of DataInv that are about its registers.
LEMMA RestingData ==
  ASSUME state = "do_nop", next_state = "do_nop", enables = {}, ~miso
  PROVE  PipelineInv /\ OperandInv /\ StrobeInv /\ ShiftInv
<1>1. Asserted("do_nop", decoded.type) = {} /\ "do_nop" \in Path(decoded.type)
  BY SMT DEF Asserted, Path
<1>2. PipelineInv
  BY <1>1 DEF PipelineInv, LeadsOn
<1>3. OperandInv /\ StrobeInv /\ ShiftInv
  BY DEF OperandInv, StrobeInv, ShiftInv, Busy
<1> QED
  BY <1>2, <1>3

\* At rest there is nothing in the pipeline (for the state after a step).
LEMMA RestingDataNext ==
  (state = "do_nop" /\ next_state = "do_nop" /\ enables = {} /\ ~miso)'
      => (PipelineInv /\ OperandInv /\ StrobeInv /\ ShiftInv)'
<1>1. state = "do_nop" /\ next_state = "do_nop" /\ enables = {} /\ ~miso
          => PipelineInv /\ OperandInv /\ StrobeInv /\ ShiftInv
  BY RestingData
<1> QED
  BY <1>1, PTL

\* DataInv at the start.
LEMMA InitData ==
  ASSUME Init
  PROVE  DataInv
<1>1. state = "do_nop" /\ next_state = "do_nop" /\ enables = {} /\ ~miso /\ ~reset
  BY DEF Init, SequencerInit, OutputInit
<1>2. DecodedInv
  <2>1. decoded = DecoderReset /\ frame = ZeroWord /\ reader = NoReader
    BY DEF Init, DecoderInit, HostInit
  <2> QED
    BY <2>1, ResetConsistent, SMT DEF DecodedInv, NoReader, DumpEeprom
<1> QED
  BY <1>1, <1>2, RestingData DEF DataInv, QuietInv

\* DataInv on a clock in reset.
LEMMA ResetEdgeData ==
  ASSUME ControlInv, DataInv, reset, RisingEdge \/ FallingEdge
  PROVE  DataInv'
<1>1. UNCHANGED fpga_vars /\ reset' /\ frame' = frame
  <2>1. CASE RisingEdge
    BY <2>1 DEF RisingEdge, HostRise
  <2>2. CASE FallingEdge
    BY <2>2 DEF FallingEdge, fpga_vars, HostFall, SenderFall
  <2> QED
    BY <2>1, <2>2
<1>2. Cleared'
  BY <1>1, InReset, StaysCleared
<1>3. (PipelineInv /\ OperandInv /\ StrobeInv /\ ShiftInv)'
  BY <1>2, RestingDataNext DEF Cleared, Busy
<1>4. ReaderRise \/ ReaderFall(miso, alu_output_raspi)
  BY DEF RisingEdge, FallingEdge, HostRise, HostFall
<1>5. DecodedInv'
  <2>1. reader' \in {reader, NoReader} /\ NoReader # DumpEeprom
    BY <1>4, SMT DEF ReaderRise, ReaderFall, NoReader, DumpEeprom
  <2> QED
    BY <1>1, <2>1 DEF DataInv, DecodedInv, Consistent, fpga_vars, decoder_vars
<1>6. QuietInv'
  <2> SUFFICES ASSUME Reading' PROVE ~miso_trigger' /\ data' = <<>>
    BY DEF QuietInv
  <2>1. Reading
    BY <1>4 DEF ReaderRise, ReaderFall, Reading
  <2>2. ~miso /\ ~miso_trigger /\ data = <<>>
    BY <2>1, InReset DEF Cleared, DataInv, QuietInv
  <2>3. CASE ReaderRise
    BY <2>2, <2>3 DEF ReaderRise
  <2>4. CASE ReaderFall(miso, alu_output_raspi)
    BY <2>2, <2>4 DEF ReaderFall
  <2> QED
    BY <1>4, <2>3, <2>4
<1> QED
  BY <1>3, <1>5, <1>6 DEF DataInv

\* DataInv when the host begins a transfer.
LEMMA SubmitData ==
  ASSUME ControlInv, DataInv, NoEepromDump, Submit
  PROVE  DataInv'
<1>1. PICK word \in Commands : SendCommand(word)
  BY DEF Submit
<1>2. HostIdle /\ UNCHANGED <<fpga_vars, clk, reset>>
  BY <1>1 DEF Submit, SendCommand
<1>3. UNCHANGED <<ram_vars, alu_vars, datapath_vars, decoder_vars, sequencer_vars, output_vars>>
  BY <1>2 DEF fpga_vars
<1>4. DecodedInv'
  <2>1. Consistent(Decode(word))
    BY CommandConsistent
  <2>2. frame' = word /\ reader' \in {Decode(word).type, NoReader} /\ NoReader # DumpEeprom
    BY <1>1, SMT DEF SendCommand, NoReader, DumpEeprom
  <2> QED
    BY <1>3, <2>1, <2>2 DEF DataInv, DecodedInv, Consistent, decoder_vars
<1>5. ~miso'
  <2>1. ~Reading /\ miso' = miso
    BY <1>2, <1>3 DEF HostIdle, output_vars
  <2> QED
    BY <2>1 DEF ControlInv, AnswerInv
<1>6. QuietInv'
  BY <1>1 DEF SendCommand, QuietInv
<1>7. PipelineInv' /\ OperandInv' /\ StrobeInv' /\ ShiftInv'
  <2>1. UNCHANGED <<state, next_state, enables, decoded, clk, ram_block, from_ram_to_alu,
                    status_in_alu, output_mux, reset_eecon>>
    BY <1>2, <1>3 DEF ram_vars, datapath_vars, decoder_vars, sequencer_vars
  <2>2. PipelineInv'
    BY <2>1 DEF DataInv, PipelineInv, LeadsOn
  <2>3. OperandInv'
    BY <2>1 DEF DataInv, OperandInv, Fetched, Target, ReadRam, Following
  <2>4. StrobeInv' /\ ShiftInv'
    BY <1>5, <2>1 DEF DataInv, StrobeInv, ShiftInv, Busy
  <2> QED
    BY <2>2, <2>3, <2>4
<1> QED
  BY <1>4, <1>6, <1>7 DEF DataInv

\* The reset empties the pipeline.
LEMMA EnableResetData ==
  ASSUME ControlInv, DataInv, EnableReset
  PROVE  DataInv'
<1>1. (state = "do_nop" /\ next_state = "do_nop" /\ enables = {} /\ ~miso)'
  BY DEF EnableReset, FpgaReset, SequencerReset, OutputReset
<1>2. decoded' = DecoderReset /\ UNCHANGED host_vars /\ HostIdle
  BY DEF EnableReset, FpgaReset, DecoderResetStep
<1>3. UNCHANGED <<frame, reader>> /\ ~Reading
  BY <1>2 DEF host_vars, HostIdle
<1>4. DecodedInv' /\ QuietInv'
  BY <1>2, <1>3, ResetConsistent DEF DataInv, DecodedInv, QuietInv, Consistent, Reading
<1> QED
  BY <1>1, <1>4, RestingDataNext DEF DataInv

\* DataInv is about the registers that the external timer does not clock.
LEMMA SameData ==
  ASSUME DataInv, UNCHANGED <<fpga_vars, host_vars, clk>>, reset' => reset
  PROVE  DataInv'
<1>1. UNCHANGED <<ram_vars, alu_vars, datapath_vars, decoder_vars, sequencer_vars, output_vars>>
  BY DEF fpga_vars
<1>2. UNCHANGED <<state, next_state, enables, decoded, ram_block, from_ram_to_alu,
                  status_in_alu, output_mux, reset_eecon, ram_dump_int, alu_output_int, miso,
                  to_send, idx, alu_output_raspi>>
  BY <1>1 DEF ram_vars, alu_vars, datapath_vars, decoder_vars, sequencer_vars, output_vars
<1>3. UNCHANGED <<frame, reader, data, miso_trigger>>
  BY DEF host_vars
<1>4. PipelineInv' /\ DecodedInv'
  BY <1>2, <1>3 DEF DataInv, PipelineInv, LeadsOn, DecodedInv, Consistent
<1>5. OperandInv' /\ StrobeInv'
  BY <1>2 DEF DataInv, OperandInv, Fetched, Target, ReadRam, Following, StrobeInv, Busy
<1>6. ShiftInv' /\ QuietInv'
  BY <1>2, <1>3 DEF DataInv, ShiftInv, SentBit, AnswerBytes, QuietInv, Reading
<1> QED
  BY <1>4, <1>5, <1>6 DEF DataInv

\* Every step keeps the data path consistent, when no EEPROM dump is sent.
LEMMA NextData ==
  ASSUME NoEepromDump
  PROVE  TypeOK /\ TypeOK' /\ ControlInv /\ DataInv /\ [Next]_vars => DataInv'
<1> SUFFICES ASSUME TypeOK, TypeOK', ControlInv, DataInv, [Next]_vars PROVE DataInv'
  OBVIOUS
<1>1. CASE RisingEdge /\ ~reset
  BY <1>1, RiseData
<1>2. CASE FallingEdge /\ ~reset
  BY <1>2, FallData
<1>3. CASE (RisingEdge \/ FallingEdge) /\ reset
  BY <1>3, ResetEdgeData
<1>4. CASE Submit
  BY <1>4, SubmitData
<1>5. CASE EnableReset
  BY <1>5, EnableResetData
<1>6. CASE DisableReset \/ TimerEdge \/ UNCHANGED vars
  <2>1. UNCHANGED <<fpga_vars, host_vars, clk>> /\ (reset' => reset)
    BY <1>6 DEF DisableReset, TimerEdge, vars
  <2> QED
    BY <2>1, SameData
<1> QED
  BY <1>1, <1>2, <1>3, <1>4, <1>5, <1>6 DEF Next

\* Every register between two stages holds what the next stage takes it for, and
\* the answer's bits arrive in the order they were sent, whatever the program.
THEOREM DataCorrect == NoEepromDump => (Spec => []DataInv)
<1> SUFFICES ASSUME NoEepromDump PROVE Spec => []DataInv
  OBVIOUS
<1>1. Init => DataInv
  BY InitData
<1>2. TypeOK /\ TypeOK' /\ ControlInv /\ DataInv /\ [Next]_vars => DataInv'
  BY NextData
<1> QED
  BY <1>1, <1>2, TypeCorrect, ControlCorrect, PTL DEF Spec
-----------------------------------------------------------------------------
(***************************************************************************)
(* PicIsa computes with the operators of the ALU and names the registers   *)
(* and the types of instructions as the board does.                        *)
(***************************************************************************)
LEMMA SameNames ==
  /\ IdealPic!TMR0_ADDRESS = TMR0_ADDRESS /\ IdealPic!STATUS_ADDRESS = STATUS_ADDRESS
  /\ IdealPic!INDF_ADDRESS = INDF_ADDRESS /\ IdealPic!FSR_ADDRESS = FSR_ADDRESS
  /\ IdealPic!EECON_ADDRESS = EECON_ADDRESS /\ IdealPic!OPTION_ADDRESS = OPTION_ADDRESS
  /\ IdealPic!Literal = Literal /\ IdealPic!ToWreg = ToWreg /\ IdealPic!ToRam = ToRam
  /\ IdealPic!ReadReg = ReadReg /\ IdealPic!ReadMem = ReadMem
  /\ IdealPic!DumpRam = DumpRam /\ IdealPic!DumpEeprom = DumpEeprom
  /\ IdealPic!Byte = Byte /\ IdealPic!NOP = NOP
BY DEF IdealPic!TMR0_ADDRESS, TMR0_ADDRESS, IdealPic!STATUS_ADDRESS, STATUS_ADDRESS,
   IdealPic!INDF_ADDRESS, INDF_ADDRESS, IdealPic!FSR_ADDRESS, FSR_ADDRESS,
   IdealPic!EECON_ADDRESS, EECON_ADDRESS, IdealPic!OPTION_ADDRESS, OPTION_ADDRESS,
   IdealPic!Literal, Literal, IdealPic!ToWreg, ToWreg, IdealPic!ToRam, ToRam,
   IdealPic!ReadReg, ReadReg, IdealPic!ReadMem, ReadMem, IdealPic!DumpRam, DumpRam,
   IdealPic!DumpEeprom, DumpEeprom, IdealPic!Byte, Byte, IdealPic!NOP, NOP

\* The operators on vectors are the same in both specifications.
LEMMA SameVectors ==
  ASSUME NEW v, NEW x
  PROVE  /\ IdealPic!BitAnd(v, x) = BitAnd(v, x) /\ IdealPic!BitOr(v, x) = BitOr(v, x)
         /\ IdealPic!BitXor(v, x) = BitXor(v, x) /\ IdealPic!BitNot(v) = BitNot(v)
         /\ IdealPic!Swap(v) = Swap(v)
         /\ \A b : IdealPic!PutBit(v, x, b) = PutBit(v, x, b)
         /\ \A n : IdealPic!PutLow(v, n, x) = PutLow(v, n, x)
         /\ IdealPic!Bit(v, x) = Bit(v, x)
BY DEF IdealPic!BitAnd, BitAnd, IdealPic!BitOr, BitOr, IdealPic!BitXor, BitXor,
   IdealPic!BitNot, BitNot, IdealPic!Swap, Swap, IdealPic!PutBit, PutBit,
   IdealPic!PutLow, PutLow, IdealPic!Bit, Bit, IdealPic!Weight, Weight,
   IdealPic!FromBits, FromBits

\* So are those of the ALU.
LEMMA SameValue ==
  ASSUME NEW op, NEW w, NEW m, NEW s, NEW b
  PROVE  /\ IdealPic!Value(op, w, m, s, b) = Value(op, w, m, s, b)
         /\ IdealPic!Carry(op, w, m) = Carry(op, w, m)
         /\ IdealPic!DigitCarry(op, w, m) = DigitCarry(op, w, m)
<1>1. \A n : IdealPic!Addend(op, w, n) = Addend(op, w, n)
  BY DEF IdealPic!Addend, Addend, IdealPic!Negated, Negated, IdealPic!SUBWF, SUBWF,
     IdealPic!SUBLW, SUBLW
<1>2. IdealPic!Value(op, w, m, s, b) = Value(op, w, m, s, b)
  BY <1>1, SameVectors DEF IdealPic!Value, Value, Sums, IdealPic!Sums, IdealPic!ADDWF, ADDWF,
     IdealPic!ADDLW, ADDLW, IdealPic!SUBWF, SUBWF, IdealPic!SUBLW, SUBLW, IdealPic!ANDWF, ANDWF,
     IdealPic!ANDLW, ANDLW, IdealPic!IORWF, IORWF, IdealPic!IORLW, IORLW, IdealPic!XORWF, XORWF,
     IdealPic!XORLW, XORLW, IdealPic!BCF, BCF, IdealPic!BSF, BSF, IdealPic!COMF, COMF,
     IdealPic!DECF, DECF, IdealPic!DECFSZ, DECFSZ, IdealPic!INCF, INCF, IdealPic!INCFSZ, INCFSZ,
     IdealPic!MOVF, MOVF, IdealPic!MOVLW, MOVLW, IdealPic!READ_ADDRESS, READ_ADDRESS,
     IdealPic!SWAPF, SWAPF, IdealPic!RLF, RLF, IdealPic!RRF, RRF, IdealPic!READ_WREG, READ_WREG,
     IdealPic!READ_STATUS, READ_STATUS
<1> QED
  BY <1>1, <1>2 DEF IdealPic!Carry, Carry, IdealPic!DigitCarry, DigitCarry

\* PicIsa's ALU is that of the board.
LEMMA SameAlu ==
  ASSUME NEW op, NEW w, NEW m, NEW s, NEW b, NEW x, NEW last
  PROVE  /\ IdealPic!Output(op, w, m, s, b, x) = Output(op, w, m, s, b, x)
         /\ IdealPic!Flags(op, w, m, s, b, x, last) = Flags(op, w, m, s, b, x, last)
         /\ IdealPic!LastResult(op, w, m, s, b, last) = LastResult(op, w, m, s, b, last)
         /\ IdealPic!Skips(op, m) = Skips(op, m)
<1>1. /\ IdealPic!Sums = Sums /\ IdealPic!ZeroFlagged = ZeroFlagged
      /\ IdealPic!CountAndSkip = CountAndSkip /\ IdealPic!Reports = Reports
      /\ IdealPic!RLF = RLF /\ IdealPic!RRF = RRF /\ IdealPic!SWAPF = SWAPF
      /\ IdealPic!MOVLW = MOVLW
  BY DEF Sums, IdealPic!Sums, ZeroFlagged, IdealPic!ZeroFlagged, CountAndSkip,
     IdealPic!CountAndSkip, Reports, IdealPic!Reports, IdealPic!ADDWF, ADDWF,
     IdealPic!ADDLW, ADDLW, IdealPic!SUBWF, SUBWF, IdealPic!SUBLW, SUBLW, IdealPic!ANDWF, ANDWF,
     IdealPic!ANDLW, ANDLW, IdealPic!IORWF, IORWF, IdealPic!IORLW, IORLW, IdealPic!XORWF, XORWF,
     IdealPic!XORLW, XORLW, IdealPic!BCF, BCF, IdealPic!BSF, BSF, IdealPic!COMF, COMF,
     IdealPic!DECF, DECF, IdealPic!DECFSZ, DECFSZ, IdealPic!INCF, INCF, IdealPic!INCFSZ, INCFSZ,
     IdealPic!MOVF, MOVF, IdealPic!MOVLW, MOVLW, IdealPic!READ_ADDRESS, READ_ADDRESS,
     IdealPic!SWAPF, SWAPF, IdealPic!RLF, RLF, IdealPic!RRF, RRF, IdealPic!READ_WREG, READ_WREG,
     IdealPic!READ_STATUS, READ_STATUS, IdealPic!CLR, CLR
<1>2. IdealPic!Output(op, w, m, s, b, x) = Output(op, w, m, s, b, x)
  BY SameNames, SameValue DEF IdealPic!Output, Output
<1>3. IdealPic!Flags(op, w, m, s, b, x, last) = Flags(op, w, m, s, b, x, last)
  <2>1. \A v : IdealPic!Zero(v) = Zero(v)
    BY DEF IdealPic!Zero, Zero
  <2>2. /\ \A v, n, y : IdealPic!PutLow(v, n, y) = PutLow(v, n, y)
        /\ \A v, i, y : IdealPic!PutBit(v, i, y) = PutBit(v, i, y)
        /\ \A v, i : IdealPic!Bit(v, i) = Bit(v, i)
    BY SameVectors
  <2> QED
    BY <1>1, <2>1, <2>2, SameValue, SMT DEF IdealPic!Flags, Flags
<1>4. IdealPic!LastResult(op, w, m, s, b, last) = LastResult(op, w, m, s, b, last)
  BY <1>1, SameValue DEF IdealPic!LastResult, LastResult, IdealPic!AssignsResult, AssignsResult
<1>5. IdealPic!Skips(op, m) = Skips(op, m)
  BY <1>1, SameValue DEF IdealPic!Skips, Skips
<1> QED
  BY <1>2, <1>3, <1>4, <1>5

\* READ_WREG and READ_STATUS, and an instruction that is skipped, ignore the operand.
LEMMA OperandIgnored ==
  ASSUME NEW op \in {NOP, READ_WREG, READ_STATUS}, NEW w, NEW m, NEW n, NEW s, NEW b, NEW x,
         NEW last
  PROVE  /\ Output(op, w, m, s, b, x) = Output(op, w, n, s, b, x)
         /\ Flags(op, w, m, s, b, x, last) = Flags(op, w, n, s, b, x, last)
         /\ LastResult(op, w, m, s, b, last) = LastResult(op, w, n, s, b, last)
         /\ Skips(op, m) = Skips(op, n)
<1>1. op \notin Sums \cup ZeroFlagged \cup CountAndSkip \cup {RLF, RRF, SWAPF, MOVLW, READ_ADDRESS}
  BY SMT DEF Sums, ZeroFlagged, CountAndSkip, NOP, ADDWF, ADDLW, SUBWF, SUBLW, ANDWF, ANDLW,
     BCF, BSF, CLR, COMF, DECF, INCF, IORWF, IORLW, MOVF, XORWF, XORLW, DECFSZ, INCFSZ, RLF,
     RRF, SWAPF, READ_WREG, READ_STATUS, MOVLW, READ_ADDRESS
<1>2. /\ op \notin Sums /\ op \notin {ANDWF, ANDLW} /\ op \notin {IORWF, IORLW}
      /\ op \notin {XORWF, XORLW} /\ op # BCF /\ op # BSF /\ op # COMF
      /\ op \notin {DECF, DECFSZ} /\ op \notin {INCF, INCFSZ}
      /\ op \notin {MOVF, MOVLW, READ_ADDRESS} /\ op # SWAPF /\ op # RLF /\ op # RRF
  BY <1>1 DEF ZeroFlagged, CountAndSkip
<1>3. \A o : Value(op, w, o, s, b) = IF op = READ_WREG THEN w
                                     ELSE IF op = READ_STATUS THEN s ELSE 0
  <2>1. READ_WREG # READ_STATUS
    BY SMT DEF READ_WREG, READ_STATUS
  <2> QED
    BY <1>2, <2>1, Zenon DEF Value
<1>4. Output(op, w, m, s, b, x) = Output(op, w, n, s, b, x)
  BY <1>3 DEF Output
<1>5. Flags(op, w, m, s, b, x, last) = Flags(op, w, n, s, b, x, last)
  BY <1>1, <1>3, Zenon DEF Flags
<1>6. LastResult(op, w, m, s, b, last) = LastResult(op, w, n, s, b, last)
  BY <1>3 DEF LastResult
<1>7. Skips(op, m) = Skips(op, n)
  BY <1>1 DEF Skips
<1> QED
  BY <1>4, <1>5, <1>6, <1>7
-----------------------------------------------------------------------------
(***************************************************************************)
(* What the program has still to execute, and what it answered, across a   *)
(* rising edge.                                                            *)
(***************************************************************************)
Executing == enables \cap {"alu", "ram_dump"} # {}
Complete == Reading /\ Len(data) = 8 * AnswerBytes
Taken == trig_state_machine /\ state = "do_nop"

\* When a rising edge executes an instruction, and when it takes the next.
LEMMA RiseBefore ==
  ASSUME TypeOK, ControlInv, DataInv, RisingEdge, ~reset
  PROVE  /\ Executing => BeforeExecution /\ ~BeforeExecution' /\ state # "do_nop"
         /\ ~Executing => (BeforeExecution' <=> BeforeExecution \/ Taken)
         /\ BeforeExecution => Busy /\ ~Taken
         /\ BeforeExecution' => decoded' = decoded
<1>1. CASE state = "do_nop"
  <2>1. enables' = {} /\ state' = "do_nop"
        /\ next_state' = IF trig_state_machine THEN Dispatch(decoded.type) ELSE "do_nop"
    BY <1>1, RisePins, SequencerStarts
  <2>2. next_state = "do_nop" /\ ~Executing
    BY <1>1, RisePins, StageLow, SMT DEF Stage, Executing
  <2>3. ~BeforeExecution
    BY <1>1, <2>2, SMT DEF BeforeExecution, Executing
  <2>4. BeforeExecution' <=> Taken
    <3>1. Dispatch(decoded.type) # "do_nop"
      BY Types, DispatchTable
    <3> QED
      BY <1>1, <2>1, <3>1, SMT DEF BeforeExecution, Taken
  <2>5. Taken => decoded' = decoded
    BY RisePins, DecodedStable DEF Taken
  <2> QED
    BY <2>2, <2>3, <2>4, <2>5
<1>2. CASE state # "do_nop"
  <2> DEFINE early == {"do_ram_read", "do_alu_input_sel", "do_alu", "do_ram_dump"}
  <2>1. state' = state /\ decoded' = decoded /\ Stage(decoded.type, state, enables', next_state')
    BY <1>2, RiseStages
  <2>2. BeforeExecution' <=> state \in early
    BY <1>2, <2>1, SMT DEF BeforeExecution, Stage
  <2>3. Executing => state \notin early
    BY RisePins, StageLow, SMT DEF Executing, Stage
  <2>4. BeforeExecution <=> state \in early \/ Executing
    BY <1>2 DEF BeforeExecution, Executing
  <2>5. Busy /\ ~Taken
    BY <1>2 DEF Busy, Taken
  <2> QED
    BY <1>2, <2>1, <2>2, <2>3, <2>4, <2>5
<1> QED
  BY <1>1, <1>2

\* The word in transit becomes the decoded instruction when it is taken.
LEMMA RiseTaken ==
  ASSUME TypeOK, ControlInv, DataInv, RisingEdge, ~reset
  PROVE  /\ Taken => InTransit /\ ~InTransit' /\ decoded = Decode(frame) /\ decoded' = decoded
         /\ ~Taken => (InTransit' <=> InTransit)
         /\ frame' = frame
<1>1. Taken => decoded = Decode(frame) /\ decoded' = decoded
  BY RisePins, DispatchMeans, DecodedStable DEF Taken
<1> QED
  BY <1>1, RisePins, RiseTransit DEF Taken

\* One sequence after another, of one element each.
LEMMA OneAfterOther ==
  ASSUME NEW i, NEW j
  PROVE  <<i>> \o <<j>> = <<i, j>> /\ Append(<<i>>, j) = <<i, j>>
         /\ <<i>> \o <<>> = <<i>> /\ <<>> \o <<j>> = <<j>>
         /\ Append(<<>>, j) = <<j>>
<1> DEFINE s == <<i>> \o <<j>>
           t == Append(<<>>, j)
<1>1. <<i>> \in Seq({i, j}) /\ <<j>> \in Seq({i, j}) /\ <<>> \in Seq({i, j}) /\ j \in {i, j}
  OBVIOUS
<1>2. s \in Seq({i, j}) /\ Len(s) = 2 /\ s[1] = i /\ s[2] = j
  BY <1>1
<1>3. t \in Seq({i, j}) /\ Len(t) = 1 /\ t[1] = j
  BY <1>1
<1>4. s = Append(<<i>>, j) /\ <<i>> \o <<>> = <<i>> /\ <<>> \o <<j>> = <<j>>
  BY <1>1
<1> HIDE DEF s, t
<1>5. s = <<i, j>>
  BY <1>2
<1>6. t = <<j>>
  <2>1. Len(<<j>>) = 1 /\ <<j>>[1] = j
    OBVIOUS
  <2>2. \A k \in 1..1 : t[k] = <<j>>[k]
    BY <1>3, <2>1
  <2> QED
    BY <1>1, <1>3, <2>1, <2>2
<1> QED
  BY <1>4, <1>5, <1>6 DEF s, t

\* The instructions that the program has still to execute, one by one.
LEMMA TodoCases ==
  ProgramTodo = IF BeforeExecution THEN IF InTransit THEN <<decoded, Decode(frame)>>
                                        ELSE <<decoded>>
                ELSE IF InTransit THEN <<Decode(frame)>> ELSE <<>>
<1>1. \A i, j : /\ <<i>> \o <<j>> = <<i, j>> /\ <<i>> \o <<>> = <<i>>
                /\ <<>> \o <<j>> = <<j>>
  BY OneAfterOther
<1>2. <<>> \o <<>> = <<>>
  OBVIOUS
<1> QED
  BY <1>1, <1>2 DEF ProgramTodo

\* What the program has still to do, case by case (for the state after a step).
LEMMA TodoCasesNext ==
  ProgramTodo' = IF BeforeExecution' THEN IF InTransit' THEN <<decoded', Decode(frame)'>>
                                          ELSE <<decoded'>>
                 ELSE IF InTransit' THEN <<Decode(frame)'>> ELSE <<>>
<1> DEFINE Cases ==
      ProgramTodo = IF BeforeExecution THEN IF InTransit THEN <<decoded, Decode(frame)>>
                                            ELSE <<decoded>>
                    ELSE IF InTransit THEN <<Decode(frame)>> ELSE <<>>
<1>1. Cases
  BY TodoCases
<1>2. Cases'
  <2> HIDE DEF Cases
  <2> QED
    BY <1>1, PTL
<1> QED
  BY <1>2

\* The instruction that executes is the first of those that are left.
LEMMA RiseTodo ==
  ASSUME TypeOK, ControlInv, DataInv, RisingEdge, ~reset
  PROVE  /\ ~Executing => ProgramTodo' = ProgramTodo
         /\ Executing => /\ ProgramTodo # <<>> /\ Head(ProgramTodo) = decoded
                         /\ Tail(ProgramTodo) = ProgramTodo'
<1>1. Decode(frame)' = Decode(frame)
  BY RiseTaken
<1>2. CASE ~Executing
  BY <1>1, <1>2, RiseBefore, RiseTaken, TodoCases, TodoCasesNext
<1>3. CASE Executing
  <2>1. BeforeExecution /\ ~BeforeExecution' /\ (InTransit' <=> InTransit)
    BY <1>3, RiseBefore, RiseTaken
  <2>2. CASE InTransit
    <3>1. ProgramTodo = <<decoded, Decode(frame)>> /\ ProgramTodo' = <<Decode(frame)>>
      BY <1>1, <2>1, <2>2, TodoCases, TodoCasesNext
    <3> QED
      BY <1>3, <3>1
  <2>3. CASE ~InTransit
    <3>1. ProgramTodo = <<decoded>> /\ ProgramTodo' = <<>>
      BY <1>1, <2>1, <2>3, TodoCases, TodoCasesNext
    <3> QED
      BY <1>3, <3>1
  <2> QED
    BY <2>2, <2>3
<1> QED
  BY <1>2, <1>3

\* Where the thread is that reads an answer, while an instruction runs and when it
\* has all the bits of the answer.
LEMMA RunningReader ==
  ASSUME TypeOK, ControlInv, ~reset, Busy
  PROVE  /\ decoded.type \in Readable => reader = decoded.type /\ Reading /\ ~InTransit
         /\ decoded.type \notin Readable => (Reading => InTransit)
<1>1. ASSUME decoded.type \in Readable
      PROVE  reader = decoded.type /\ Reading /\ ~InTransit
  <2>1. reader = decoded.type /\ ~Sending
    BY <1>1 DEF ControlInv, BusyInv
  <2>2. Reading
    BY <1>1, <2>1, SMT DEF Reading, Readable, NoReader, ReadReg, ReadMem, DumpRam, DumpEeprom
  <2>3. ~(counter > 0)
    BY <2>1 DEF ControlInv, DecoderInv
  <2> QED
    BY <2>1, <2>2, <2>3 DEF InTransit
<1>2. decoded.type \notin Readable => (Reading => InTransit)
  BY DEF ControlInv, AnswerInv
<1> QED
  BY <1>1, <1>2

\* A reader that has all its bits is alone: nothing is sent, nothing runs.
LEMMA CompleteMeans ==
  ASSUME TypeOK, ControlInv, ~reset, ~clk, Complete
  PROVE  miso /\ idx = 0 /\ ~InTransit /\ ~Busy
<1>1. AnswerBytes \in Nat \ {0} /\ idx \in Nat /\ Len(data) \in Nat /\ Tick = 0
  <2>1. AnswerBytes \in Nat \ {0} /\ Tick = 0
    BY Limits DEF Complete, Tick
  <2>2. idx \in Nat /\ data \in Seq({0, 1})
    BY SMT DEF TypeOK, OutputType, HostType
  <2> QED
    BY <2>1, <2>2
<1>2. ~(InTransit \/ (Busy /\ decoded.type \in Readable))
  <2>1. Len(data) # 0
    BY <1>1, SMT DEF Complete
  <2> QED
    BY <2>1, EarlyReader DEF Complete
<1>3. miso
  BY <1>2 DEF Complete, ControlInv, AnswerInv
<1>4. ~Busy
  BY <1>3 DEF ControlInv, AnswerInv
<1>5. Len(data) + idx + Tick = 8 * AnswerBytes
  BY <1>3 DEF ControlInv, AnswerInv
<1>6. idx = 0
  BY <1>1, <1>5, SMT DEF Complete
<1> QED
  BY <1>2, <1>3, <1>4, <1>6

\* The reader stops when it has all its bits, and never because of its timeout.
LEMMA RiseReader ==
  ASSUME TypeOK, ControlInv, RisingEdge, ~reset
  PROVE  IF Complete THEN ~Reading' /\ printed' = Printout
         ELSE reader' = reader /\ printed' = printed
<1>1. ReaderRise
  BY RisePins
<1>2. CASE Complete
  BY <1>1, <1>2 DEF ReaderRise, Complete, Reading
<1>3. CASE ~Complete
  <2>1. ~(Reading /\ timeout + 1 = TimeoutLimit)
    <3> SUFFICES ASSUME Reading PROVE timeout + 1 # TimeoutLimit
      OBVIOUS
    <3>1. timeout < TimeoutLimit - 1
      BY InTime DEF AnswerInTime
    <3> QED
      BY <3>1, Limits, SMT
  <2> QED
    BY <1>1, <1>3, <2>1 DEF ReaderRise, Complete
<1> QED
  BY <1>2, <1>3

\* The answer is there from the clock that computes it until it is printed.
LEMMA RiseAnswerKept ==
  ASSUME TypeOK, ControlInv, DataInv, RisingEdge, ~reset, ~Executing, ~Complete
  PROVE  ProgramAnswer' = ProgramAnswer
<1>1. reader' = reader /\ Reading' = Reading
  BY RiseReader DEF Reading
<1>2. InTransit' \/ BeforeExecution' <=> InTransit \/ BeforeExecution
  BY RiseBefore, RiseTaken
<1>3. ram_dump_int' = ram_dump_int /\ alu_output_int' = alu_output_int
  <2>1. Access(enables) # "ram_dump" /\ "alu" \notin enables
    BY SMT DEF Executing, Access
  <2>2. AluRise("alu" \in enables, decoded.opcode, w_output_int, output_mux, status_in_alu,
                decoded.bit_idx)
    BY RisePins DEF FpgaRise
  <2> QED
    BY <2>1, <2>2, RiseMemory DEF AluRise, alu_vars
<1> QED
  BY <1>1, <1>2, <1>3, RisePins DEF ProgramAnswer

\* An instruction finds no answer pending and leaves the one it gives, if any.
LEMMA RiseAnswerGiven ==
  ASSUME TypeOK, ControlInv, DataInv, RisingEdge, ~reset, Executing
  PROVE  /\ ProgramAnswer = None /\ ~Complete
         /\ decoded.type \in {ReadReg, ReadMem} => ProgramAnswer' = <<alu_output_int'>>
         /\ decoded.type = DumpRam =>
              ProgramAnswer' = [n \in 1..RamSize |-> ram_dump_int'[n - 1]]
         /\ decoded.type \notin {ReadReg, ReadMem, DumpRam} => ProgramAnswer' = None
<1>1. BeforeExecution /\ ~BeforeExecution' /\ Busy /\ (InTransit' <=> InTransit)
  BY RiseBefore, RiseTaken
<1>2. ~Complete
  BY <1>1, RisePins, CompleteMeans
<1>3. reader' = reader /\ Reading' = Reading
  BY <1>2, RiseReader DEF Reading
<1>4. decoded.type # DumpEeprom /\ DumpRam \notin {ReadReg, ReadMem}
  BY SMT DEF DataInv, DecodedInv, Consistent, DumpRam, ReadReg, ReadMem
<1>5. CASE decoded.type \in Readable
  <2>1. ~(~Reading' \/ reset' \/ InTransit' \/ BeforeExecution') /\ reader' = decoded.type
    BY <1>1, <1>3, <1>5, RisePins, RunningReader
  <2>2. ProgramAnswer' = IF decoded.type = DumpRam
                         THEN [n \in 1..RamSize |-> ram_dump_int'[n - 1]]
                         ELSE <<alu_output_int'>>
    BY <2>1 DEF ProgramAnswer
  <2> QED
    BY <1>1, <1>2, <1>4, <1>5, <2>2 DEF ProgramAnswer, Readable
<1>6. CASE decoded.type \notin Readable
  <2>1. ~Reading' \/ InTransit'
    BY <1>1, <1>3, <1>6, RunningReader
  <2> QED
    BY <1>1, <1>2, <1>6, <2>1 DEF ProgramAnswer, Readable
<1> QED
  BY <1>5, <1>6

\* What the host prints is what the shifter was loaded with.
LEMMA RiseShown ==
  ASSUME TypeOK, ControlInv, DataInv, RisingEdge, ~reset, Complete
  PROVE  /\ ProgramAnswer # None /\ ProgramAnswer' = None
         /\ printed' = ProgramAnswer
<1>1. ~clk /\ ~reset'
  BY RisePins
<1>2. miso /\ ~InTransit /\ ~Busy
  BY <1>1, CompleteMeans
<1>3. ~Reading' /\ printed' = Printout /\ Reading
  BY RiseReader DEF Complete
<1>4. ~BeforeExecution
  BY <1>2, RiseBefore
<1>5. ProgramAnswer' = None
  BY <1>3 DEF ProgramAnswer
<1>6. ProgramAnswer = IF reader = DumpRam THEN [n \in 1..RamSize |-> ram_dump_int[n - 1]]
                      ELSE <<alu_output_int>>
  BY <1>2, <1>3, <1>4 DEF ProgramAnswer
<1>7. AnswerBytes = IF reader = DumpRam THEN RamSize ELSE 1
  BY <1>3, Limits, SMT DEF DataInv, DecodedInv, DumpRam, DumpEeprom
<1>8. AnswerBytes \in Nat \ {0}
  BY <1>3, Limits
<1>9. \A n \in 1..AnswerBytes : to_send[n - 1] \in Byte
  <2>1. to_send = IF reader = DumpRam THEN ram_dump_int ELSE [i \in {0} |-> alu_output_int]
    BY <1>2 DEF DataInv, ShiftInv
  <2>2. ram_dump_int \in [0..RamSize - 1 -> Byte] /\ alu_output_int \in Byte /\ RamSize \in Nat
    BY MemoryAssumption, SMT DEF TypeOK, RamType, AluType, Memory, RamAddress
  <2> QED
    BY <1>7, <2>1, <2>2, SMT
<1>10. \A n \in 1..AnswerBytes : DataByte(AnswerBytes + 1 - n) = to_send[n - 1]
  <2> TAKE n \in 1..AnswerBytes
  <2> DEFINE k(b) == 8 * (AnswerBytes + 1 - n) - b
  <2>1. ASSUME NEW b \in 0..7
        PROVE  data[k(b)] = Bit(to_send[n - 1], b)
    <3>1. k(b) \in 1..Len(data) /\ 8 * AnswerBytes - k(b) = 8 * (n - 1) + b
      BY <1>8, SMT DEF Complete
    <3>2. data[k(b)] = SentBit(8 * AnswerBytes - k(b))
      BY <1>2, <3>1 DEF DataInv, ShiftInv
    <3>3. (8 * (n - 1) + b) \div 8 = n - 1 /\ (8 * (n - 1) + b) % 8 = b
      BY <1>8, SMT
    <3> HIDE DEF k
    <3> QED
      BY <3>1, <3>2, <3>3 DEF SentBit
  <2>2. [b \in 0..7 |-> data[k(b)]] = [b \in 0..7 |-> Bit(to_send[n - 1], b)]
    BY <2>1
  <2> QED
    BY <1>9, <2>2, BitsOfByte DEF DataByte
<1>11. Printout = ProgramAnswer
  <2>1. CASE reader = DumpRam
    <3>1. to_send = ram_dump_int
      BY <1>2, <2>1 DEF DataInv, ShiftInv
    <3>2. \A n \in 1..RamSize : DataByte(AnswerBytes + 1 - n) = ram_dump_int[n - 1]
      BY <1>7, <1>10, <2>1, <3>1
    <3> QED
      BY <1>6, <1>7, <2>1, <3>2 DEF Printout
  <2>2. CASE reader # DumpRam
    <3>1. to_send = [i \in {0} |-> alu_output_int] /\ AnswerBytes = 1
      BY <1>2, <1>7, <2>2 DEF DataInv, ShiftInv
    <3>2. DataByte(AnswerBytes + 1 - 1) = alu_output_int
      BY <1>10, <3>1, SMT
    <3>3. Printout = [n \in 1..1 |-> alu_output_int]
      <4>1. \A n \in 1..1 : n = 1
        BY SMT
      <4> QED
        BY <3>1, <3>2, <4>1 DEF Printout
    <3>4. [n \in 1..1 |-> alu_output_int] = <<alu_output_int>>
      OBVIOUS
    <3> QED
      BY <1>6, <2>2, <3>3, <3>4
  <2> QED
    BY <2>1, <2>2
<1>12. ProgramAnswer \in Seq(Byte)
  <2>1. Printout = [n \in 1..AnswerBytes |-> DataByte(AnswerBytes + 1 - n)]
    BY DEF Printout
  <2>2. \A n \in 1..AnswerBytes : DataByte(AnswerBytes + 1 - n) \in Byte
    BY <1>9, <1>10
  <2> QED
    BY <1>8, <1>11, <2>1, <2>2
<1> QED
  BY <1>3, <1>5, <1>11, <1>12, NoneAssumption
-----------------------------------------------------------------------------
(***************************************************************************)
(* The memory that the program sees, across a rising edge.                 *)
(***************************************************************************)
LEMMA ProgramMemoryCases ==
  ProgramMemory =
      IF "timer_write" \in enables THEN MemoryAfterClock
      ELSE IF Uncommitted /\ ~Following THEN
               [ram_block EXCEPT ![TMR0_ADDRESS] = (@ + 1) % 256]
      ELSE IF Sampled THEN [ram_block EXCEPT ![TMR0_ADDRESS] =
                                IF "alu" \in enables THEN output_mux ELSE from_ram_to_alu]
      ELSE ram_block
<1>1. Sampled => Following
  BY DEF Sampled
<1>2. CASE Uncommitted /\ ~Following
  BY <1>1, <1>2 DEF ProgramMemory
<1>3. CASE Sampled
  BY <1>1, <1>3 DEF ProgramMemory
<1>4. CASE ~(Uncommitted /\ ~Following) /\ ~Sampled
  BY <1>4 DEF ProgramMemory
<1> QED
  BY <1>2, <1>3, <1>4

\* The program's memory, case by case (for the state after a step).
LEMMA ProgramMemoryCasesNext ==
  ProgramMemory' =
      IF "timer_write" \in enables' THEN MemoryAfterClock'
      ELSE IF Uncommitted' /\ ~Following' THEN
               [ram_block' EXCEPT ![TMR0_ADDRESS] = (@ + 1) % 256]
      ELSE IF Sampled' THEN [ram_block' EXCEPT ![TMR0_ADDRESS] =
                                IF "alu" \in enables' THEN output_mux' ELSE from_ram_to_alu']
      ELSE ram_block'
<1> DEFINE Cases ==
      ProgramMemory =
          IF "timer_write" \in enables THEN MemoryAfterClock
          ELSE IF Uncommitted /\ ~Following THEN
                   [ram_block EXCEPT ![TMR0_ADDRESS] = (@ + 1) % 256]
          ELSE IF Sampled THEN [ram_block EXCEPT ![TMR0_ADDRESS] =
                                    IF "alu" \in enables THEN output_mux ELSE from_ram_to_alu]
          ELSE ram_block
<1>1. Cases
  BY ProgramMemoryCases
<1>2. Cases'
  <2> HIDE DEF Cases
  <2> QED
    BY <1>1, PTL
<1> QED
  BY <1>2

\* The memory behind the lines of the last stage.
LEMMA AfterWrite ==
  enables \cap {"ram_dump", "eeprom_dump", "ram_read"} = {} /\ "timer_write" \in enables
  /\ ~reset_eecon
      => MemoryAfterClock = Tock(Flagged(enables, Written(enables, decoded.address,
                                             DataToRam(decoded, alu_output_int)), status_out_alu))
BY MemoryWritten DEF MemoryAfterClock

\* The memory after the clock of a write (for the state after a step).
LEMMA AfterWriteNext ==
  (enables \cap {"ram_dump", "eeprom_dump", "ram_read"} = {} /\ "timer_write" \in enables
   /\ ~reset_eecon)'
      => MemoryAfterClock' = Tock(Flagged(enables, Written(enables, decoded.address,
                                             DataToRam(decoded, alu_output_int)), status_out_alu))'
<1> DEFINE Premise == /\ enables \cap {"ram_dump", "eeprom_dump", "ram_read"} = {}
                      /\ "timer_write" \in enables
                      /\ ~reset_eecon
           Result == MemoryAfterClock =
                       Tock(Flagged(enables, Written(enables, decoded.address,
                                        DataToRam(decoded, alu_output_int)), status_out_alu))
<1>1. Premise => Result
  BY AfterWrite
<1>2. Premise' => Result'
  <2> HIDE DEF Premise, Result
  <2> QED
    BY <1>1, PTL
<1> QED
  BY <1>2

\* No instruction executes or commits: the memory stays, but for TMR0 when it
\* follows the external count and for the strobe that ends.
LEMMA RiseMemoryKept ==
  ASSUME TypeOK, TypeOK', ControlInv, DataInv, RisingEdge, ~reset, ~Executing,
         "timer_write" \notin enables
  PROVE  IF reset_eecon THEN ProgramMemory = ram_block /\ ProgramMemory' = Follow(Strobed)
         ELSE \/ ProgramMemory' = ProgramMemory
              \/ ProgramMemory' = Follow(ProgramMemory)
<1>1. \/ enables = {} /\ state \in {"do_nop", "do_ram_read", "do_ram_dump", "do_result"}
      \/ enables = {} /\ state = "do_alu_input_sel" /\ decoded.type = Literal
      \/ enables = {} /\ state = "do_alu" /\ decoded.type = ReadReg
      \/ enables = {"ram_read"} /\ state = "do_alu_input_sel"
      \/ enables = {"alu_input_mux"} /\ state = "do_alu"
  BY RisePins, StageLow, SMT DEF Stage, Executing
<1>2. enables \cap MemoryLines = {}
  BY <1>1, SMT DEF MemoryLines
<1>3. ram_block' = Follow(IF reset_eecon THEN Strobed ELSE ram_block) /\ ~reset_eecon'
  BY <1>2, RiseIdleMemory
<1>4. next_state = state /\ state' = state
      /\ (state # "do_nop" => decoded' = decoded
                              /\ Stage(decoded.type, state, enables', next_state'))
      /\ (state = "do_nop" => enables' = {})
  BY RisePins, StageLow, RiseStages
<1>5. ram_block \in Memory /\ TMR0_ADDRESS \in RamAddress
  BY RegisterCells DEF TypeOK, RamType
<1>6. CASE state \in {"do_nop", "do_ram_read", "do_ram_dump"}
  <2>1. enables = {} /\ enables' \in {{}, {"ram_read"}, {"ram_dump"}}
    BY <1>1, <1>4, <1>6, SMT DEF Stage
  <2>2. ~Uncommitted /\ ~Uncommitted'
    BY <1>4, <1>6 DEF Uncommitted
  <2>3. ~Sampled /\ ~Sampled'
    BY <2>1, SMT DEF Sampled
  <2>4. "timer_write" \notin enables'
    BY <2>1, SMT
  <2>5. ProgramMemory = ram_block /\ ProgramMemory' = ram_block'
    BY <2>2, <2>3, <2>4, ProgramMemoryCases, ProgramMemoryCasesNext
  <2> QED
    BY <1>3, <2>5
<1>7. ASSUME state \notin {"do_nop", "do_ram_read", "do_ram_dump"}
      PROVE  /\ ~reset_eecon /\ decoded' = decoded
             /\ ram_block' = Follow(ram_block)
             /\ Following' = Following /\ Target(decoded.address)' = Target(decoded.address)
             /\ Following => ram_block' = [ram_block EXCEPT ![TMR0_ADDRESS] = ExternalCount]
             /\ ~Following => ram_block' = ram_block
  <2>1. ~reset_eecon /\ decoded' = decoded
    BY <1>4, <1>7, BusyNoStrobe
  <2>2. ram_block' = Follow(ram_block)
    BY <1>3, <2>1
  <2>3. Target(decoded.address)' = Target(decoded.address)
    BY <1>5, <2>1, <2>2, OnlyTimerMoves DEF Target
  <2> QED
    BY <1>5, <2>1, <2>2, <2>3, OnlyTimerMoves DEF Follow
<1>8. CASE state = "do_alu_input_sel"
  <2>1. enables' = {"alu_input_mux"} /\ enables \in {{}, {"ram_read"}}
    BY <1>1, <1>4, <1>8, SMT DEF Stage
  <2>2. ~Uncommitted /\ ~Uncommitted' /\ "timer_write" \notin enables' /\ "alu" \notin enables'
    BY <1>4, <1>8, <2>1, SMT DEF Uncommitted
  <2>3. ~Sampled
    BY <2>1, SMT DEF Sampled
  <2>4. ProgramMemory = ram_block
    BY <2>2, <2>3, ProgramMemoryCases
  <2>5. CASE ~Sampled'
    BY <1>7, <1>8, <2>2, <2>4, <2>5, ProgramMemoryCasesNext
  <2>6. CASE Sampled'
    <3>1. decoded.from_ram /\ Target(decoded.address) = TMR0_ADDRESS /\ Following
      BY <1>7, <1>8, <2>6 DEF Sampled
    <3>2. enables = {"ram_read"}
      BY <1>1, <1>8, <3>1, SMT DEF DataInv, DecodedInv, Consistent, Literal, ToWreg, ToRam,
         ReadMem
    <3>3. Access(enables) = "ram_read"
      BY <3>2, SMT DEF Access
    <3>4. from_ram_to_alu' = ram_block[TMR0_ADDRESS]
      BY <1>5, <3>1, <3>3, RiseMemory DEF ReadRam
    <3>5. ProgramMemory' = [ram_block' EXCEPT ![TMR0_ADDRESS] = from_ram_to_alu']
      BY <2>2, <2>6, ProgramMemoryCasesNext
    <3>6. ProgramMemory' = ram_block
      BY <1>5, <1>7, <1>8, <3>1, <3>4, <3>5 DEF Memory
    <3> QED
      BY <1>7, <1>8, <2>4, <3>6
  <2> QED
    BY <2>5, <2>6
<1>9. CASE state = "do_alu"
  <2>1. enables' = {"alu"} /\ enables \in {{}, {"alu_input_mux"}}
        /\ (decoded.from_ram => enables = {"alu_input_mux"})
    <3>1. decoded.from_ram => decoded.type # ReadReg
      BY SMT DEF DataInv, DecodedInv, Consistent, ReadReg, ToWreg, ToRam, ReadMem
    <3> QED
      BY <1>1, <1>4, <1>9, <3>1, SMT DEF Stage
  <2>2. ~Uncommitted /\ ~Uncommitted' /\ "timer_write" \notin enables' /\ "alu" \in enables'
        /\ "alu" \notin enables
    BY <1>4, <1>9, <2>1, SMT DEF Uncommitted
  <2>3. Sampled' <=> Sampled
    BY <1>7, <1>9, <2>1, SMT DEF Sampled
  <2>4. CASE ~Sampled
    BY <1>7, <1>9, <2>2, <2>3, <2>4, ProgramMemoryCases, ProgramMemoryCasesNext
  <2>5. CASE Sampled
    <3>1. ProgramMemory = [ram_block EXCEPT ![TMR0_ADDRESS] = from_ram_to_alu]
      BY <2>2, <2>5, ProgramMemoryCases
    <3>2. ProgramMemory' = [ram_block' EXCEPT ![TMR0_ADDRESS] = output_mux']
      BY <2>2, <2>3, <2>5, ProgramMemoryCasesNext
    <3>3. output_mux' = from_ram_to_alu
      <4>1. InputMuxRise("alu_input_mux" \in enables, decoded.from_ram, from_ram_to_alu,
                         decoded.literal)
        BY RisePins DEF FpgaRise
      <4>2. decoded.from_ram /\ "alu_input_mux" \in enables
        BY <2>1, <2>5 DEF Sampled
      <4> QED
        BY <4>1, <4>2, Zenon DEF InputMuxRise
    <3>4. Following /\ ram_block' = [ram_block EXCEPT ![TMR0_ADDRESS] = ExternalCount]
      BY <1>7, <1>9, <2>5 DEF Sampled
    <3>5. ProgramMemory' = ProgramMemory
      BY <1>5, <3>1, <3>2, <3>3, <3>4 DEF Memory
    <3> QED
      BY <1>7, <1>9, <3>5
  <2> QED
    BY <2>4, <2>5
<1>10. CASE state = "do_result"
  <2>1. enables = {} /\ enables' \in {{"timer_write", "result"}, {"timer_write", "result_ram_dump"}}
    BY <1>1, <1>4, <1>10, SMT DEF Stage
  <2>2. Uncommitted
    BY <1>10, <2>1, SMT DEF Uncommitted, BeforeExecution
  <2>3. ~Sampled
    BY <2>1, SMT DEF Sampled
  <2>4. ProgramMemory = IF Following THEN ram_block
                        ELSE [ram_block EXCEPT ![TMR0_ADDRESS] = (@ + 1) % 256]
    BY <2>1, <2>2, <2>3, ProgramMemoryCases
  <2>5. /\ enables' \cap {"ram_dump", "eeprom_dump", "ram_read"} = {} /\ "timer_write" \in enables'
        /\ "ram_write" \notin enables' /\ "status_write" \notin enables'
    BY <2>1, SMT
  <2>6. ProgramMemory' = Tock(Flagged(enables, Written(enables, decoded.address,
                                   DataToRam(decoded, alu_output_int)), status_out_alu))'
    BY <1>3, <2>5, AfterWriteNext, ProgramMemoryCasesNext
  <2>7. ProgramMemory' = [ram_block' EXCEPT ![TMR0_ADDRESS] =
                              IF Following' THEN ExternalCount'
                              ELSE (ram_block'[TMR0_ADDRESS] + 1) % 256]
    BY <2>5, <2>6 DEF Tock, Flagged, Written
  <2>8. ExternalCount' = ExternalCount
    BY DEF RisingEdge, timer_vars, ExternalCount
  <2>9. CASE Following
    <3>1. ProgramMemory' = [ram_block EXCEPT ![TMR0_ADDRESS] = ExternalCount]
      BY <1>5, <1>7, <1>10, <2>7, <2>8, <2>9 DEF Memory
    <3> QED
      BY <1>7, <1>10, <2>4, <2>9, <3>1 DEF Follow
  <2>10. CASE ~Following
    BY <1>7, <1>10, <2>4, <2>7, <2>10
  <2> QED
    BY <2>9, <2>10
<1> QED
  BY <1>1, <1>6, <1>8, <1>9, <1>10
-----------------------------------------------------------------------------
(***************************************************************************)
(* The rising edges on which no instruction executes.                      *)
(***************************************************************************)
LEMMA RiseKept ==
  ASSUME TypeOK, ControlInv, DataInv, RisingEdge, ~reset, ~Executing
  PROVE  /\ ProgramW' = ProgramW
         /\ UNCHANGED <<alu_output_int, result, status_out_alu, skip_next>>
         /\ ExternalCount' = ExternalCount
         /\ ProgramTodo' = ProgramTodo
         /\ reset' = reset
         /\ ProgramStrobe' <=> reset_eecon'
<1>1. "alu" \notin enables
  BY SMT DEF Executing
<1>2. UNCHANGED <<alu_output_int, result, status_out_alu, skip_next>>
  <2>1. AluRise("alu" \in enables, decoded.opcode, w_output_int, output_mux, status_in_alu,
                decoded.bit_idx)
    BY RisePins DEF FpgaRise
  <2> QED
    BY <1>1, <2>1 DEF AluRise, alu_vars
<1>3. "wreg" \notin enables' /\ "ram_write" \notin enables'
  <2>1. state \notin {"do_wreg", "do_ram_write"}
    BY <1>1, RisePins, StageLow, SMT DEF Stage
  <2> QED
    BY <2>1, RiseStages, SMT DEF Stage
<1>4. ProgramW' = ProgramW
  <2>1. WRegisterRise("wreg" \in enables, DataToWreg(decoded, alu_output_int))
    BY RisePins DEF FpgaRise
  <2> QED
    BY <1>3, <2>1 DEF ProgramW, WRegisterRise
<1>5. ExternalCount' = ExternalCount /\ reset' = reset
  BY DEF RisingEdge, timer_vars, ExternalCount
<1>6. ProgramStrobe' <=> reset_eecon'
  BY <1>3 DEF ProgramStrobe
<1> QED
  BY <1>2, <1>4, <1>5, <1>6, RiseTodo

\* The clock that commits an instruction changes nothing a program sees but what
\* it makes TMR0 follow.
LEMMA RiseCommits ==
  ASSUME TypeOK, ControlInv, DataInv, RisingEdge, ~reset, "timer_write" \in enables
  PROVE  IdealPic!SetMode
<1>1. state = "do_nop" /\ enables \cap {"alu", "ram_dump", "eeprom_dump", "ram_read"} = {}
  BY RisePins, StageLow, SMT DEF Stage
<1>2. ~Executing /\ Busy
  BY <1>1, SMT DEF Executing, Busy
<1>3. ~Complete
  BY <1>2, RisePins, CompleteMeans
<1>4. enables' = {} /\ state' = "do_nop"
  BY <1>1, RiseStages
<1>5. ~Uncommitted' /\ ~Sampled' /\ "timer_write" \notin enables'
  BY <1>4, SMT DEF Uncommitted, Sampled
<1>6. ProgramMemory = ram_block' /\ ProgramMemory' = ram_block'
  BY <1>5, RiseMemory, ProgramMemoryCases, ProgramMemoryCasesNext
<1>7. ProgramStrobe' = ProgramStrobe
  <2>1. Access(enables) = "ram_write" <=> "ram_write" \in enables
    BY <1>1, SMT DEF Access
  <2>2. ~reset_eecon
    BY <1>2, BusyNoStrobe DEF Busy
  <2>3. ProgramStrobe' \in BOOLEAN /\ ProgramStrobe \in BOOLEAN
    BY DEF ProgramStrobe
  <2> QED
    BY <1>2, <2>1, <2>2, <2>3, RiseKept, RiseMemory DEF ProgramStrobe
<1>8. ProgramAnswer' = ProgramAnswer /\ printed' = printed
  BY <1>2, <1>3, RiseAnswerKept, RiseReader
<1>9. Following' = (IdealPic!Bit(ProgramMemory[IdealPic!OPTION_ADDRESS], 5) = 1)
  BY <1>6, SameNames, SameVectors DEF Following
<1>10. (~reset)' = ~reset
  BY RisePins
<1> QED
  BY <1>2, <1>6, <1>7, <1>8, <1>9, <1>10, RiseKept DEF IdealPic!SetMode

\* TMR0 may be taken to the external count while it follows it.
LEMMA MaySettle ==
  ASSUME NEW r
  PROVE  r \in IdealPic!Settled(r, ExternalCount)
         /\ Follow(r) \in IdealPic!Settled(r, ExternalCount)
BY SameNames DEF IdealPic!Settled, Follow

\* Only an instruction that stores into OPTION changes what TMR0 counts.
LEMMA RiseFollowing ==
  ASSUME TypeOK, RisingEdge, ~reset, enables \cap MemoryLines = {}
  PROVE  Following' = Following
<1>1. /\ OPTION_ADDRESS \in RamAddress
      /\ OPTION_ADDRESS # TMR0_ADDRESS /\ OPTION_ADDRESS # EECON_ADDRESS
  BY RegisterCells, SMT DEF OPTION_ADDRESS, TMR0_ADDRESS, EECON_ADDRESS
<1>2. ram_block \in Memory
  BY DEF TypeOK, RamType
<1>3. ram_block' = Follow(IF reset_eecon THEN Strobed ELSE ram_block)
  BY RiseIdleMemory
<1>4. ram_block'[OPTION_ADDRESS] = ram_block[OPTION_ADDRESS]
  BY <1>1, <1>2, <1>3 DEF Follow, Strobed, Memory
<1> QED
  BY <1>4 DEF Following

\* The clock that ends a strobe, the one on which the host has the whole answer, and
\* any other.
LEMMA RiseRests ==
  ASSUME TypeOK, TypeOK', ControlInv, DataInv, RisingEdge, ~reset, ~Executing,
         "timer_write" \notin enables
  PROVE  IdealPic!EndStrobe \/ IdealPic!Show \/ IdealPic!Mirror
<1>1. enables \cap MemoryLines = {}
  BY RisePins, StageLow, SMT DEF Stage, MemoryLines
<1>2. Following' = Following /\ ~reset_eecon'
  BY <1>1, RiseFollowing, RiseIdleMemory
<1>3. (~reset)' = ~reset
  BY RisePins
<1>4. "ram_write" \notin enables
  BY <1>1 DEF MemoryLines
<1>5. ~ProgramStrobe' /\ (ProgramStrobe <=> reset_eecon)
  BY <1>2, <1>4, RiseKept DEF ProgramStrobe
<1>6. CASE reset_eecon
  <2>1. ~Busy /\ ~miso
    BY <1>6 DEF DataInv, StrobeInv
  <2>2. ~Complete
    BY <2>1, RisePins, CompleteMeans
  <2>3. ProgramMemory = ram_block /\ ProgramMemory' = Follow(Strobed)
    BY <1>6, RiseMemoryKept
  <2>4. Strobed = [ProgramMemory EXCEPT ![IdealPic!EECON_ADDRESS] = 4 * (@ \div 4)]
    <3>1. ram_block[EECON_ADDRESS] \in Nat
      BY RegisterCells DEF TypeOK, RamType
    <3>2. PutLow(ram_block[EECON_ADDRESS], 4, 0) = 4 * (ram_block[EECON_ADDRESS] \div 4)
      BY <3>1, SMT DEF PutLow
    <3> QED
      BY <2>3, <3>2, SameNames DEF Strobed
  <2>5. ProgramAnswer' = ProgramAnswer /\ printed' = printed
    BY <2>2, RiseAnswerKept, RiseReader
  <2>6. IdealPic!EndStrobe
    BY <1>2, <1>3, <1>5, <1>6, <2>3, <2>4, <2>5, RiseKept, MaySettle DEF IdealPic!EndStrobe
  <2> QED
    BY <2>6
<1>7. CASE ~reset_eecon
  <2>1. ProgramMemory' \in IdealPic!Settled(ProgramMemory, ExternalCount)
    BY <1>7, RiseMemoryKept, MaySettle
  <2>2. ProgramStrobe' = ProgramStrobe
    <3>1. ProgramStrobe \in BOOLEAN /\ ProgramStrobe' \in BOOLEAN
      BY DEF ProgramStrobe
    <3> QED
      BY <1>5, <1>7, <3>1
  <2>3. CASE Complete
    BY <1>2, <1>3, <2>1, <2>2, <2>3, RiseKept, RiseShown DEF IdealPic!Show
  <2>4. CASE ~Complete
    <3>1. ProgramAnswer' = ProgramAnswer /\ printed' = printed
      BY <2>4, RiseAnswerKept, RiseReader
    <3> QED
      BY <1>2, <1>3, <2>1, <2>2, <3>1, RiseKept DEF IdealPic!Mirror
  <2> QED
    BY <2>3, <2>4
<1> QED
  BY <1>6, <1>7
-----------------------------------------------------------------------------
(***************************************************************************)
(* The rising edge on which an instruction executes.                       *)
(***************************************************************************)
\* Memories that differ in TMR0 alone, which the program's and the board's do while
\* a value of TMR0 that follows the external count is being worked on.
Alike(p, r) == /\ p \in Memory /\ r \in Memory
               /\ \A a \in RamAddress \ {TMR0_ADDRESS} : p[a] = r[a]

\* A store keeps the agreement; a store into TMR0 ends the only difference.
LEMMA AlikeUpdate ==
  ASSUME NEW p, NEW r, Alike(p, r), NEW t, NEW c \in Byte
  PROVE  Alike([p EXCEPT ![t] = c], [r EXCEPT ![t] = c])
BY DEF Alike, Memory

\* A new value of TMR0 makes memories equal that differ in it alone.
LEMMA AlikeTimer ==
  ASSUME NEW p, NEW r, Alike(p, r), NEW v
  PROVE  [p EXCEPT ![TMR0_ADDRESS] = v] = [r EXCEPT ![TMR0_ADDRESS] = v]
BY DEF Alike, Memory

\* The cells that are never TMR0.
LEMMA AlikeCells ==
  ASSUME NEW p, NEW r, Alike(p, r)
  PROVE  /\ p[STATUS_ADDRESS] = r[STATUS_ADDRESS] /\ p[FSR_ADDRESS] = r[FSR_ADDRESS]
         /\ STATUS_ADDRESS # INDF_ADDRESS /\ p[STATUS_ADDRESS] \in Nat
<1>1. {STATUS_ADDRESS, FSR_ADDRESS} \subseteq RamAddress \ {TMR0_ADDRESS}
  BY RegisterCells, SMT DEF STATUS_ADDRESS, FSR_ADDRESS, TMR0_ADDRESS
<1>2. STATUS_ADDRESS # INDF_ADDRESS
  BY SMT DEF STATUS_ADDRESS, INDF_ADDRESS
<1>3. p[STATUS_ADDRESS] \in Nat
  BY RegisterCells DEF Alike
<1> QED
  BY <1>1, <1>2, <1>3 DEF Alike

\* What the program's memory is when an instruction executes.
LEMMA ExecuteMemory ==
  ASSUME TypeOK, TypeOK', ControlInv, DataInv, RisingEdge, ~reset, Executing
  PROVE  /\ Alike(ProgramMemory, ram_block) /\ Alike(ProgramMemory, ram_block')
         /\ ~Following => ProgramMemory = ram_block /\ ram_block' = ram_block
         /\ Sampled => ProgramMemory[TMR0_ADDRESS] = output_mux
         /\ Following' = Following /\ ~reset_eecon' /\ ProgramW = w_output_int
<1>1. enables \in {{"alu"}, {"ram_dump"}} /\ state # "do_nop"
  BY RisePins, StageLow, SMT DEF Stage, Executing
<1>2. /\ enables \cap MemoryLines = {} /\ "timer_write" \notin enables
      /\ "wreg" \notin enables /\ ("alu" \in enables \/ ~Sampled)
  BY <1>1, SMT DEF MemoryLines, Sampled
<1>3. ram_block' = Follow(ram_block) /\ ~reset_eecon'
  BY <1>1, <1>2, BusyNoStrobe, RiseIdleMemory
<1>4. ram_block \in Memory /\ ram_block' \in Memory /\ output_mux \in Byte
      /\ TMR0_ADDRESS \in RamAddress
  BY RegisterCells DEF TypeOK, RamType, DatapathType
<1>5. ~Uncommitted
  BY DEF Uncommitted, BeforeExecution, Executing
<1>6. ProgramMemory = IF Sampled THEN [ram_block EXCEPT ![TMR0_ADDRESS] = output_mux]
                      ELSE ram_block
  BY <1>2, <1>5, ProgramMemoryCases
<1>7. Alike(ProgramMemory, ram_block)
  BY <1>4, <1>6 DEF Alike, Memory
<1>8. Following' = Following /\ (\A a \in RamAddress \ {TMR0_ADDRESS} : ram_block'[a] = ram_block[a])
      /\ (~Following => ram_block' = ram_block)
  BY <1>3, <1>4, OnlyTimerMoves
<1>9. Alike(ProgramMemory, ram_block')
  BY <1>4, <1>7, <1>8 DEF Alike
<1>10. Sampled => ProgramMemory[TMR0_ADDRESS] = output_mux
  BY <1>4, <1>6 DEF Memory
<1>11. ~Following => ProgramMemory = ram_block
  BY <1>6 DEF Sampled
<1> QED
  BY <1>2, <1>3, <1>7, <1>8, <1>9, <1>10, <1>11 DEF ProgramW

\* A tick of the program's TMR0 is one of the board's.
LEMMA ExecuteTick ==
  ASSUME TypeOK, TypeOK', ControlInv, DataInv, RisingEdge, ~reset, Executing,
         NEW p, NEW r, Alike(p, r)
  PROVE  IdealPic!Ticked(p) = [r EXCEPT ![TMR0_ADDRESS] =
                                   IF Following' THEN ExternalCount'
                                   ELSE (ram_block'[TMR0_ADDRESS] + 1) % 256]
<1>1. ExternalCount' = ExternalCount
  BY DEF RisingEdge, timer_vars, ExternalCount
<1>2. Following' = Following /\ (~Following => ProgramMemory = ram_block')
  BY ExecuteMemory
<1>3. IdealPic!Ticked(p) = [p EXCEPT ![TMR0_ADDRESS] =
                                IF Following THEN ExternalCount
                                ELSE (ProgramMemory[TMR0_ADDRESS] + 1) % 256]
  BY SameNames DEF IdealPic!Ticked
<1> DEFINE v == IF Following THEN ExternalCount ELSE (ProgramMemory[TMR0_ADDRESS] + 1) % 256
<1>4. IdealPic!Ticked(p) = [r EXCEPT ![TMR0_ADDRESS] = v]
  <2>1. IdealPic!Ticked(p) = [p EXCEPT ![TMR0_ADDRESS] = v]
    BY <1>3
  <2> HIDE DEF v
  <2>2. [p EXCEPT ![TMR0_ADDRESS] = v] = [r EXCEPT ![TMR0_ADDRESS] = v]
    BY AlikeTimer
  <2> QED
    BY <2>1, <2>2
<1>5. v = IF Following' THEN ExternalCount' ELSE (ram_block'[TMR0_ADDRESS] + 1) % 256
  BY <1>1, <1>2
<1> QED
  BY <1>4, <1>5

\* The operand that the multiplexer holds is one that the instruction has.
LEMMA ExecuteOperand ==
  ASSUME TypeOK, TypeOK', ControlInv, DataInv, RisingEdge, ~reset, "alu" \in enables
  PROVE  /\ decoded.type # ReadReg => output_mux \in IdealPic!Operands(decoded)
         /\ decoded.type = ReadReg => decoded.literal \in IdealPic!Operands(decoded)
<1>1. Executing /\ decoded.type \in {Literal, ToWreg, ToRam, ReadReg, ReadMem}
  BY RisePins, StageLow, SMT DEF Stage, Executing, FromMemory
<1>2. Consistent(decoded) /\ decoded.from_ram \in BOOLEAN
  BY DEF DataInv, DecodedInv, TypeOK, DecoderType, Decoded
<1>3. CASE ~decoded.from_ram
  <2>1. IdealPic!Operands(decoded) = {decoded.literal}
    BY <1>3 DEF IdealPic!Operands
  <2>2. decoded.type \in {Literal, ReadReg}
    BY <1>1, <1>2, <1>3 DEF Consistent
  <2>3. decoded.type = Literal => output_mux = decoded.literal
    BY DEF DataInv, OperandInv
  <2> QED
    BY <2>1, <2>2, <2>3
<1>4. CASE decoded.from_ram
  <2> DEFINE t == Target(decoded.address)
             p == ProgramMemory
  <2>1. decoded.type # ReadReg
    BY <1>1, <1>2, <1>4, SMT DEF Consistent, ReadReg, ToWreg, ToRam, ReadMem
  <2>2. Alike(p, ram_block) /\ (Sampled => p[TMR0_ADDRESS] = output_mux)
        /\ (~Following => p = ram_block)
    BY <1>1, ExecuteMemory
  <2>3. DOMAIN p = RamAddress /\ p[FSR_ADDRESS] = ram_block[FSR_ADDRESS]
    BY <2>2, AlikeCells DEF Alike, Memory
  <2>4. IdealPic!Cell(decoded.address) = t
    BY <2>3, SameNames DEF IdealPic!Cell, Target
  <2>5. output_mux \in Byte
    BY DEF TypeOK, DatapathType
  <2>6. IdealPic!Operands(decoded) = IF t \in RamAddress THEN {p[t]} ELSE Byte
    <3>1. CASE t \in RamAddress
      BY <1>4, <2>3, <2>4, <3>1 DEF IdealPic!Operands
    <3>2. CASE t \notin RamAddress
      BY <1>4, <2>3, <2>4, <3>2, SameNames DEF IdealPic!Operands
    <3> QED
      BY <3>1, <3>2
  <2>7. output_mux \in Fetched
    BY <1>4 DEF DataInv, OperandInv
  <2>8. ASSUME t \in RamAddress
        PROVE  output_mux = p[t]
    <3>1. CASE t = TMR0_ADDRESS /\ Following
      <4>1. Sampled
        BY <1>4, <3>1 DEF Sampled
      <4> QED
        BY <2>2, <3>1, <4>1
    <3>2. CASE ~(t = TMR0_ADDRESS /\ Following)
      <4>1. output_mux = ram_block[t]
        BY <2>7, <2>8, <3>2 DEF Fetched, ReadRam
      <4> QED
        BY <2>2, <2>8, <3>2, <4>1 DEF Alike
    <3> QED
      BY <3>1, <3>2
  <2> HIDE DEF t, p
  <2> QED
    BY <2>1, <2>5, <2>6, <2>8
<1> QED
  BY <1>3, <1>4

\* The ALU computes what the instruction computes on one of its operands.
LEMMA ExecuteAlu ==
  ASSUME TypeOK, TypeOK', ControlInv, DataInv, RisingEdge, ~reset, "alu" \in enables
  PROVE  \E m \in IdealPic!Operands(decoded) :
         LET op == IF skip_next THEN NOP ELSE decoded.opcode
             s  == ProgramMemory[STATUS_ADDRESS]
         IN  /\ alu_output_int' = Output(op, ProgramW, m, s, decoded.bit_idx, alu_output_int)
             /\ status_out_alu' = Flags(op, ProgramW, m, s, decoded.bit_idx, status_out_alu,
                                        result)
             /\ result' = LastResult(op, ProgramW, m, s, decoded.bit_idx, result)
             /\ skip_next' = Skips(op, m)
<1> DEFINE op == IF skip_next THEN NOP ELSE decoded.opcode
           s == ProgramMemory[STATUS_ADDRESS]
           n == IF decoded.type = ReadReg THEN decoded.literal ELSE output_mux
<1>1. ProgramW = w_output_int /\ s = status_in_alu
  <2>1. Executing
    BY DEF Executing
  <2>2. status_in_alu = ram_block[STATUS_ADDRESS]
    BY DEF DataInv, OperandInv
  <2> QED
    BY <2>1, <2>2, ExecuteMemory, AlikeCells
<1>2. AluRise("alu" \in enables, decoded.opcode, w_output_int, output_mux, status_in_alu,
              decoded.bit_idx)
  BY RisePins DEF FpgaRise
<1>3. /\ alu_output_int' = Output(op, ProgramW, output_mux, s, decoded.bit_idx, alu_output_int)
      /\ status_out_alu' = Flags(op, ProgramW, output_mux, s, decoded.bit_idx, status_out_alu,
                                 result)
      /\ result' = LastResult(op, ProgramW, output_mux, s, decoded.bit_idx, result)
      /\ skip_next' = Skips(op, output_mux)
  BY <1>1, <1>2 DEF AluRise, Compute
<1>4. n \in IdealPic!Operands(decoded)
  BY ExecuteOperand
<1>5. decoded.type = ReadReg => op \in {NOP, READ_WREG, READ_STATUS}
  BY DEF DataInv, DecodedInv, Consistent
<1> HIDE DEF op, s
<1>6. /\ alu_output_int' = Output(op, ProgramW, n, s, decoded.bit_idx, alu_output_int)
      /\ status_out_alu' = Flags(op, ProgramW, n, s, decoded.bit_idx, status_out_alu, result)
      /\ result' = LastResult(op, ProgramW, n, s, decoded.bit_idx, result)
      /\ skip_next' = Skips(op, n)
  <2>1. CASE decoded.type = ReadReg
    BY <1>3, <1>5, <2>1, OperandIgnored
  <2>2. CASE decoded.type # ReadReg
    BY <1>3, <2>2
  <2> QED
    BY <2>1, <2>2
<1> HIDE DEF n
<1> QED
  BY <1>4, <1>6 DEF op, s

\* The lines that go up when an instruction has executed.
LEMMA ExecuteLines ==
  ASSUME TypeOK, ControlInv, DataInv, RisingEdge, ~reset, Executing
  PROVE  /\ decoded' = decoded /\ ~BeforeExecution'
         /\ \/ /\ decoded.type \in {Literal, ToWreg}
               /\ enables' = {"wreg", "status_write", "timer_write"}
            \/ /\ decoded.type = ToRam
               /\ enables' = {"ram_write", "status_write", "timer_write"}
            \/ /\ decoded.type \in {ReadReg, ReadMem, DumpRam}
               /\ enables' = {} /\ state' = "do_wait"
<1>1. /\ enables \in {{"alu"}, {"ram_dump"}} /\ state \in {"do_wreg", "do_ram_write", "do_wait"}
  BY RisePins, StageLow, SMT DEF Stage, Executing
<1>2. decoded' = decoded /\ Stage(decoded.type, state, enables', next_state') /\ state' = state
  BY <1>1, RiseStages, SMT
<1> QED
  BY <1>1, <1>2, RiseBefore, SMT DEF Stage

\* An answering instruction leaves the memory as it was, but for the tick of TMR0.
LEMMA ExecuteAnswers ==
  ASSUME TypeOK, TypeOK', ControlInv, DataInv, RisingEdge, ~reset, Executing,
         decoded.type \in {ReadReg, ReadMem, DumpRam}
  PROVE  /\ ProgramMemory' = IdealPic!Ticked(ProgramMemory)
         /\ ProgramW' = ProgramW /\ ~ProgramStrobe'
<1>1. enables' = {} /\ state' = "do_wait" /\ ~BeforeExecution'
  BY ExecuteLines, SMT DEF Literal, ToWreg, ToRam, ReadReg, ReadMem, DumpRam
<1>2. Uncommitted' /\ ~Sampled'
  BY <1>1, SMT DEF Uncommitted, Sampled
<1>3. ProgramMemory' = IF Following' THEN ram_block'
                       ELSE [ram_block' EXCEPT ![TMR0_ADDRESS] =
                                 (ram_block'[TMR0_ADDRESS] + 1) % 256]
  BY <1>1, <1>2, ProgramMemoryCasesNext, SMT
<1>4. IdealPic!Ticked(ProgramMemory) =
         [ram_block' EXCEPT ![TMR0_ADDRESS] = IF Following' THEN ExternalCount'
                                              ELSE (ram_block'[TMR0_ADDRESS] + 1) % 256]
  BY ExecuteMemory, ExecuteTick
<1>5. Following' => ram_block' = [ram_block' EXCEPT ![TMR0_ADDRESS] = ExternalCount']
  <2>1. enables \cap MemoryLines = {} /\ state # "do_nop"
    BY RisePins, StageLow, SMT DEF Stage, Executing, MemoryLines
  <2>2. ram_block' = Follow(ram_block) /\ ram_block \in Memory
    BY <2>1, BusyNoStrobe, RiseIdleMemory DEF TypeOK, RamType
  <2>3. ExternalCount' = ExternalCount
    BY DEF RisingEdge, timer_vars, ExternalCount
  <2>4. Following' => ram_block'[TMR0_ADDRESS] = ExternalCount'
    BY <2>2, <2>3, OnlyTimerMoves
  <2>5. ram_block' \in Memory
    BY DEF TypeOK, RamType
  <2> QED
    BY <2>4, <2>5 DEF Memory
<1>6. ProgramMemory' = IdealPic!Ticked(ProgramMemory)
  BY <1>3, <1>4, <1>5
<1>7. WRegisterRise("wreg" \in enables, DataToWreg(decoded, alu_output_int))
  BY RisePins DEF FpgaRise
<1>8. "wreg" \notin enables
  BY RisePins, StageLow, SMT DEF Stage, Executing
<1> QED
  BY <1>1, <1>6, <1>7, <1>8, ExecuteMemory DEF ProgramW, ProgramStrobe, WRegisterRise

\* What an instruction that stores is going to commit.
LEMMA ExecutePending ==
  ASSUME TypeOK, TypeOK', ControlInv, DataInv, RisingEdge, ~reset, Executing,
         decoded.type \in {Literal, ToWreg, ToRam}
  PROVE  ProgramMemory' =
           LET m == IF decoded.type = ToRam
                    THEN WriteRam(ram_block, decoded.address, alu_output_int)' ELSE ram_block'
           IN  [[m EXCEPT ![STATUS_ADDRESS] = PutLow(@, 8, status_out_alu')]
                    EXCEPT ![TMR0_ADDRESS] = IF Following' THEN ExternalCount'
                                             ELSE (ram_block'[TMR0_ADDRESS] + 1) % 256]
<1>1. /\ decoded' = decoded
      /\ IF decoded.type = ToRam THEN enables' = {"ram_write", "status_write", "timer_write"}
         ELSE enables' = {"wreg", "status_write", "timer_write"}
  BY ExecuteLines, SMT DEF Literal, ToWreg, ToRam, ReadReg, ReadMem, DumpRam
<1>2. /\ "timer_write" \in enables' /\ "status_write" \in enables'
      /\ enables' \cap {"ram_dump", "eeprom_dump", "ram_read"} = {}
      /\ "ram_write" \in enables' <=> decoded.type = ToRam
  BY <1>1, SMT
<1>3. ~reset_eecon'
  BY ExecuteMemory
<1>4. ProgramMemory' = Tock(Flagged(enables, Written(enables, decoded.address,
                                 DataToRam(decoded, alu_output_int)), status_out_alu))'
  BY <1>2, <1>3, AfterWriteNext, ProgramMemoryCasesNext
<1>5. DataToRam(decoded, alu_output_int)' = alu_output_int' \/ decoded.type # ToRam
  <2>1. decoded.type = ToRam => decoded.to_ram /\ ~decoded.to_sw
    BY SMT DEF DataInv, DecodedInv, Consistent, ToRam, ReadReg, ReadMem
  <2> QED
    BY <1>1, <2>1 DEF DataToRam
<1>6. Written(enables, decoded.address, DataToRam(decoded, alu_output_int))'
         = IF decoded.type = ToRam
           THEN WriteRam(ram_block, decoded.address, alu_output_int)' ELSE ram_block'
  BY <1>1, <1>2, <1>5 DEF Written
<1> QED
  BY <1>2, <1>4, <1>6 DEF Tock, Flagged

\* A store reaches the same cell of both memories with the same value.
LEMMA StoreAgrees ==
  ASSUME Alike(ProgramMemory, ram_block), NEW r, Alike(ProgramMemory, r), NEW a, NEW v \in Byte
  PROVE  Alike(IdealPic!Store(a, v), WriteRam(r, a, v))
<1> DEFINE p == ProgramMemory
           t == Target(a)
           x == CASE a = STATUS_ADDRESS -> PutLow(v, 32, r[t])
                  [] a # STATUS_ADDRESS /\ t = INDF_ADDRESS -> 0
                  [] OTHER -> v
           y == CASE t = INDF_ADDRESS -> 0
                  [] a = STATUS_ADDRESS -> 32 * (v \div 32) + (p[t] % 32)
                  [] OTHER -> v
<1>1. p[FSR_ADDRESS] = ram_block[FSR_ADDRESS] /\ p[STATUS_ADDRESS] = r[STATUS_ADDRESS]
      /\ STATUS_ADDRESS # INDF_ADDRESS /\ p[STATUS_ADDRESS] \in Nat
  BY AlikeCells
<1>2. IdealPic!Cell(a) = t
  BY <1>1, SameNames DEF IdealPic!Cell, Target
<1>3. WriteRam(r, a, v) = [r EXCEPT ![t] = x]
  BY DEF WriteRam
<1>4. IdealPic!Store(a, v) = [p EXCEPT ![t] = y]
  BY <1>2, SameNames DEF IdealPic!Store
<1>5. a = STATUS_ADDRESS => t = STATUS_ADDRESS
  BY <1>1 DEF Target
<1>6. v \in Nat
  BY SMT DEF Byte
<1>7. x = y /\ x \in Byte
  <2>1. CASE a = STATUS_ADDRESS
    <3>1. x = PutLow(v, 32, p[STATUS_ADDRESS]) /\ y = 32 * (v \div 32) + (p[STATUS_ADDRESS] % 32)
      BY <1>1, <1>5, <2>1
    <3>2. PutLow(v, 32, p[STATUS_ADDRESS]) \in Byte
      BY <1>1, PutLowType
    <3>3. PutLow(v, 32, p[STATUS_ADDRESS]) = 32 * (v \div 32) + (p[STATUS_ADDRESS] % 32)
      <4> DEFINE z == p[STATUS_ADDRESS]
      <4>1. z \in Nat
        BY <1>1
      <4> HIDE DEF z
      <4>2. PutLow(v, 32, z) = 32 * (v \div 32) + (z % 32)
        BY <1>6, <4>1, SMT DEF PutLow
      <4> QED
        BY <4>2 DEF z
    <3> QED
      BY <3>1, <3>2, <3>3
  <2>2. CASE a # STATUS_ADDRESS
    <3>1. 0 \in Byte
      BY SMT DEF Byte
    <3>2. CASE t = INDF_ADDRESS
      BY <2>2, <3>1, <3>2
    <3>3. CASE t # INDF_ADDRESS
      BY <2>2, <3>3
    <3> QED
      BY <3>2, <3>3
  <2> QED
    BY <2>1, <2>2
<1> HIDE DEF x, y, t, p
<1>8. Alike([p EXCEPT ![t] = x], [r EXCEPT ![t] = x])
  BY <1>7, AlikeUpdate DEF p
<1> QED
  BY <1>3, <1>4, <1>7, <1>8

\* The flags go into STATUS of both memories alike.
LEMMA StatusAgrees ==
  ASSUME NEW p, NEW r, Alike(p, r), NEW flags \in Byte
  PROVE  Alike(IdealPic!WithStatus(p, flags), [r EXCEPT ![STATUS_ADDRESS] = PutLow(@, 8, flags)])
<1> DEFINE z == r[STATUS_ADDRESS]
<1>1. p[STATUS_ADDRESS] = z /\ z \in Nat /\ flags \in Nat
  <2>1. flags \in Nat
    BY SMT DEF Byte
  <2> QED
    BY <2>1, AlikeCells
<1>2. PutLow(z, 8, flags) \in Byte
  BY <1>1, AlikeCells, RegisterCells, PutLowType DEF Alike
<1>3. PutLow(z, 8, flags) = 8 * (z \div 8) + (flags % 8)
  <2> HIDE DEF z
  <2> QED
    BY <1>1, SMT DEF PutLow
<1>4. IdealPic!WithStatus(p, flags) = [p EXCEPT ![STATUS_ADDRESS] = 8 * (z \div 8) + (flags % 8)]
  BY <1>1, SameNames DEF IdealPic!WithStatus
<1> DEFINE c == PutLow(z, 8, flags)
<1>5. IdealPic!WithStatus(p, flags) = [p EXCEPT ![STATUS_ADDRESS] = c]
  BY <1>3, <1>4
<1>6. [r EXCEPT ![STATUS_ADDRESS] = PutLow(@, 8, flags)] = [r EXCEPT ![STATUS_ADDRESS] = c]
  OBVIOUS
<1>7. c \in Byte
  BY <1>2
<1> HIDE DEF c
<1>8. Alike([p EXCEPT ![STATUS_ADDRESS] = c], [r EXCEPT ![STATUS_ADDRESS] = c])
  BY <1>7, AlikeUpdate
<1> QED
  BY <1>5, <1>6, <1>8

\* What an instruction that stores commits is what the program stores.
LEMMA ExecuteStores ==
  ASSUME TypeOK, TypeOK', ControlInv, DataInv, RisingEdge, ~reset, Executing,
         decoded.type \in {Literal, ToWreg, ToRam}
  PROVE  ProgramMemory' =
           IdealPic!Ticked(IF decoded.type = ToRam
                           THEN IdealPic!WithStatus(IdealPic!Store(decoded.address,
                                                                   alu_output_int'),
                                                    status_out_alu')
                           ELSE IdealPic!WithStatus(ProgramMemory, status_out_alu'))
<1> DEFINE p == IF decoded.type = ToRam THEN IdealPic!Store(decoded.address, alu_output_int')
                ELSE ProgramMemory
           m == IF decoded.type = ToRam
                THEN WriteRam(ram_block, decoded.address, alu_output_int)' ELSE ram_block'
           flags == status_out_alu'
           r == [m EXCEPT ![STATUS_ADDRESS] = PutLow(@, 8, flags)]
<1>1. Alike(ProgramMemory, ram_block) /\ Alike(ProgramMemory, ram_block') /\ decoded' = decoded
  BY ExecuteMemory, ExecuteLines
<1>2. alu_output_int' \in Byte /\ flags \in Byte
  BY DEF TypeOK, AluType
<1>3. WriteRam(ram_block, decoded.address, alu_output_int)'
        = WriteRam(ram_block', decoded.address, alu_output_int')
  <2>1. ram_block'[FSR_ADDRESS] = ram_block[FSR_ADDRESS]
    BY <1>1, AlikeCells
  <2> QED
    BY <1>1, <2>1 DEF WriteRam, Target
<1>4. Alike(p, m)
  <2>1. Alike(IdealPic!Store(decoded.address, alu_output_int'),
              WriteRam(ram_block', decoded.address, alu_output_int'))
    BY <1>1, <1>2, StoreAgrees
  <2> QED
    BY <1>1, <1>3, <2>1
<1> HIDE DEF p, m
<1>5. Alike(IdealPic!WithStatus(p, flags), r)
  BY <1>2, <1>4, StatusAgrees
<1>6. IdealPic!Ticked(IdealPic!WithStatus(p, flags)) =
         [r EXCEPT ![TMR0_ADDRESS] = IF Following' THEN ExternalCount'
                                     ELSE (ram_block'[TMR0_ADDRESS] + 1) % 256]
  BY <1>5, ExecuteTick
<1>7. ProgramMemory' = IdealPic!Ticked(IdealPic!WithStatus(p, flags))
  BY <1>6, ExecutePending DEF m
<1> QED
  BY <1>7 DEF p

\* Where the result of an instruction that stores goes besides the memory.
LEMMA ExecuteResult ==
  ASSUME TypeOK, TypeOK', ControlInv, DataInv, RisingEdge, ~reset, Executing,
         decoded.type \in {Literal, ToWreg, ToRam}
  PROVE  /\ ProgramW' = IF decoded.type = ToRam THEN ProgramW ELSE alu_output_int'
         /\ ProgramStrobe' <=> decoded.type = ToRam /\ decoded.address = EECON_ADDRESS
<1>1. /\ decoded' = decoded
      /\ IF decoded.type = ToRam THEN enables' = {"ram_write", "status_write", "timer_write"}
         ELSE enables' = {"wreg", "status_write", "timer_write"}
  BY ExecuteLines, SMT DEF Literal, ToWreg, ToRam, ReadReg, ReadMem, DumpRam
<1>2. /\ "ram_write" \in enables' <=> decoded.type = ToRam
      /\ "wreg" \in enables' <=> decoded.type # ToRam
  BY <1>1, SMT
<1>3. w_output_int' = w_output_int
  <2>1. WRegisterRise("wreg" \in enables, DataToWreg(decoded, alu_output_int))
    BY RisePins DEF FpgaRise
  <2>2. "wreg" \notin enables
    BY RisePins, StageLow, SMT DEF Stage, Executing
  <2> QED
    BY <2>1, <2>2 DEF WRegisterRise
<1>4. decoded.type # ToRam => DataToWreg(decoded, alu_output_int)' = alu_output_int'
  <2>1. decoded.type # ToRam => ~decoded.to_ram /\ ~decoded.to_sw
    BY SMT DEF DataInv, DecodedInv, Consistent, Literal, ToWreg, ToRam, ReadReg, ReadMem
  <2> QED
    BY <1>1, <2>1 DEF DataToWreg
<1> QED
  BY <1>1, <1>2, <1>3, <1>4, ExecuteMemory DEF ProgramW, ProgramStrobe

\* The edge at which the ALU works is the Execute of the abstract machine.
LEMMA RiseExecutesAlu ==
  ASSUME TypeOK, TypeOK', ControlInv, DataInv, RisingEdge, ~reset, "alu" \in enables
  PROVE  IdealPic!Execute
<1> DEFINE op == IF skip_next THEN NOP ELSE decoded.opcode
           s == ProgramMemory[STATUS_ADDRESS]
<1>1. Executing
  BY DEF Executing
<1>2. decoded.type \in {Literal, ToWreg, ToRam, ReadReg, ReadMem}
  BY RisePins, StageLow, SMT DEF Stage, FromMemory
<1>3. PICK m \in IdealPic!Operands(decoded) :
         /\ alu_output_int' = Output(op, ProgramW, m, s, decoded.bit_idx, alu_output_int)
         /\ status_out_alu' = Flags(op, ProgramW, m, s, decoded.bit_idx, status_out_alu, result)
         /\ result' = LastResult(op, ProgramW, m, s, decoded.bit_idx, result)
         /\ skip_next' = Skips(op, m)
  BY ExecuteAlu
<1>4. /\ ProgramTodo # <<>> /\ Head(ProgramTodo) = decoded /\ ProgramTodo' = Tail(ProgramTodo)
  BY <1>1, RiseTodo
<1>5. /\ ~reset /\ (~reset)' = ~reset /\ ExternalCount' = ExternalCount
      /\ Following' = Following /\ printed' = printed
  BY <1>1, RisePins, RiseReader, RiseAnswerGiven, ExecuteMemory
     DEF RisingEdge, timer_vars, ExternalCount
<1>6. /\ alu_output_int' = IdealPic!Output(op, ProgramW, m, s, decoded.bit_idx, alu_output_int)
      /\ status_out_alu' = IdealPic!Flags(op, ProgramW, m, s, decoded.bit_idx, status_out_alu,
                                          result)
      /\ result' = IdealPic!LastResult(op, ProgramW, m, s, decoded.bit_idx, result)
      /\ skip_next' = IdealPic!Skips(op, m)
  <2> HIDE DEF op, s
  <2> QED
    BY <1>3, SameAlu
<1>7. /\ decoded.type \in {Literal, ToWreg} => decoded.type \notin {ToRam, ReadReg, ReadMem}
      /\ decoded.type = ToRam => decoded.type \notin {Literal, ToWreg, ReadReg, ReadMem}
      /\ decoded.type \in {ReadReg, ReadMem} => decoded.type \notin {Literal, ToWreg, ToRam}
      /\ decoded.type \notin {DumpRam, DumpEeprom}
  BY <1>2, SMT DEF Literal, ToWreg, ToRam, ReadReg, ReadMem, DumpRam, DumpEeprom
<1> DEFINE out == alu_output_int'
           flags == status_out_alu'
<1>8. ProgramMemory' = IdealPic!Ticked(
          CASE decoded.type \in {Literal, ToWreg} -> IdealPic!WithStatus(ProgramMemory, flags)
            [] decoded.type = ToRam ->
                   IdealPic!WithStatus(IdealPic!Store(decoded.address, out), flags)
            [] OTHER -> ProgramMemory)
  <2>1. CASE decoded.type \in {Literal, ToWreg}
    BY <1>1, <1>7, <2>1, ExecuteStores
  <2>2. CASE decoded.type = ToRam
    BY <1>1, <1>7, <2>2, ExecuteStores
  <2>3. CASE decoded.type \in {ReadReg, ReadMem}
    BY <1>1, <1>7, <2>3, ExecuteAnswers
  <2> QED
    BY <1>2, <2>1, <2>2, <2>3
<1>9. /\ ProgramW' = IF decoded.type \in {Literal, ToWreg} THEN out ELSE ProgramW
      /\ ProgramStrobe' <=> decoded.type = ToRam /\ decoded.address = EECON_ADDRESS
  BY <1>1, <1>2, <1>7, ExecuteResult, ExecuteAnswers
<1>10. ProgramAnswer' = CASE decoded.type \in {ReadReg, ReadMem} -> <<out>>
                          [] decoded.type = DumpRam ->
                                 [n \in 1..RamSize |-> ProgramMemory[n - 1]]
                          [] OTHER -> None
  BY <1>1, <1>2, <1>7, RiseAnswerGiven
<1>11. ProgramStrobe' = (decoded.type = ToRam /\ decoded.address = EECON_ADDRESS)
  <2>1. ProgramStrobe' \in BOOLEAN
    BY DEF ProgramStrobe
  <2> QED
    BY <1>9, <2>1
<1>12. /\ op = IF skip_next THEN IdealPic!NOP ELSE decoded.opcode
       /\ s = ProgramMemory[IdealPic!STATUS_ADDRESS]
  BY SameNames
<1> HIDE DEF op, s
<1> QED
  BY <1>3, <1>4, <1>5, <1>6, <1>7, <1>8, <1>9, <1>10, <1>11, <1>12, SameNames
     DEF IdealPic!Execute

\* So is the edge that copies the memory for a dump.
LEMMA RiseExecutesDump ==
  ASSUME TypeOK, TypeOK', ControlInv, DataInv, RisingEdge, ~reset, "ram_dump" \in enables
  PROVE  IdealPic!Execute
<1>1. Executing /\ decoded.type = DumpRam /\ "alu" \notin enables /\ enables = {"ram_dump"}
  BY RisePins, StageLow, SMT DEF Stage, Executing
<1>2. /\ DumpRam \notin {Literal, ToWreg, ToRam, ReadReg, ReadMem}
      /\ DumpRam \in {DumpRam, DumpEeprom}
  BY SMT DEF Literal, ToWreg, ToRam, ReadReg, ReadMem, DumpRam
<1>3. decoded.literal \in IdealPic!Operands(decoded)
  <2>1. ~decoded.from_ram
    BY <1>1, <1>2 DEF DataInv, DecodedInv, Consistent
  <2> QED
    BY <2>1 DEF IdealPic!Operands
<1>4. /\ ProgramTodo # <<>> /\ Head(ProgramTodo) = decoded /\ ProgramTodo' = Tail(ProgramTodo)
  BY <1>1, RiseTodo
<1>5. /\ ~reset /\ (~reset)' = ~reset /\ ExternalCount' = ExternalCount
      /\ Following' = Following /\ printed' = printed
  BY <1>1, RisePins, RiseReader, RiseAnswerGiven, ExecuteMemory
     DEF RisingEdge, timer_vars, ExternalCount
<1>6. UNCHANGED <<alu_output_int, status_out_alu, result, skip_next>>
  <2>1. AluRise("alu" \in enables, decoded.opcode, w_output_int, output_mux, status_in_alu,
                decoded.bit_idx)
    BY RisePins DEF FpgaRise
  <2> QED
    BY <1>1, <2>1 DEF AluRise, alu_vars
<1>7. ProgramMemory' = IdealPic!Ticked(ProgramMemory) /\ ProgramW' = ProgramW
  BY <1>1, ExecuteAnswers
<1>8. ProgramStrobe' = FALSE
  <2>1. ProgramStrobe' \in BOOLEAN
    BY DEF ProgramStrobe
  <2> QED
    BY <1>1, <2>1, ExecuteAnswers
<1>9. ProgramAnswer' = [n \in 1..RamSize |-> ProgramMemory[n - 1]]
  <2>1. ram_dump_int' = ram_block
    <3>1. Access(enables) = "ram_dump"
      BY <1>1, SMT DEF Access
    <3> QED
      BY <3>1, RiseMemory
  <2>2. ProgramMemory = ram_block
    <3>1. ~Sampled /\ ~Uncommitted /\ "timer_write" \notin enables
      BY <1>1, SMT DEF Sampled, Uncommitted, BeforeExecution
    <3> QED
      BY <3>1, ProgramMemoryCases
  <2>3. ProgramAnswer' = [n \in 1..RamSize |-> ram_dump_int'[n - 1]]
    BY <1>1, RiseAnswerGiven
  <2> QED
    BY <2>1, <2>2, <2>3
<1> QED
  BY <1>1, <1>2, <1>3, <1>4, <1>5, <1>6, <1>7, <1>8, <1>9, SameNames DEF IdealPic!Execute

\* Every rising edge is a step of the abstract machine or leaves it as it is.
LEMMA RiseRefines ==
  ASSUME TypeOK, TypeOK', ControlInv, DataInv, RisingEdge, ~reset
  PROVE  IdealPic!IsaNext
<1>1. CASE Executing
  BY <1>1, RiseExecutesAlu, RiseExecutesDump DEF Executing, IdealPic!IsaNext
<1>2. CASE ~Executing /\ "timer_write" \in enables
  BY <1>2, RiseCommits DEF IdealPic!IsaNext
<1>3. CASE ~Executing /\ "timer_write" \notin enables
  BY <1>3, RiseRests DEF IdealPic!IsaNext
<1> QED
  BY <1>1, <1>2, <1>3
-----------------------------------------------------------------------------
(***************************************************************************)
(* The other steps of the board and the host.                              *)
(***************************************************************************)
\* All that the program's view is made of, but for where the sequencer, the reading
\* thread and the timer are.
SeenRegisters == <<enables, decoded, alu_output_int, result, status_out_alu, skip_next,
                   w_output_int, output_mux, from_ram_to_alu, ram_block, reset_eecon,
                   dump_counter, dump_addr, ram_dump_int, printed>>

\* W, strobe and memory of the program read nothing but SeenRegisters, until a timer
\* write commits.
LEMMA SameRegisters ==
  ASSUME UNCHANGED SeenRegisters
  PROVE  /\ UNCHANGED <<Following, Sampled, ProgramW, ProgramStrobe>>
         /\ "timer_write" \notin enables /\ (Uncommitted' <=> Uncommitted) =>
                ProgramMemory' = ProgramMemory
<1> USE DEF SeenRegisters
<1>1. Following' = Following /\ ProgramW' = ProgramW /\ ProgramStrobe' = ProgramStrobe
  BY DEF Following, ProgramW, ProgramStrobe, DataToWreg
<1>2. Sampled' = Sampled
  BY DEF Sampled, Following, Target
<1>3. ASSUME "timer_write" \notin enables, Uncommitted' <=> Uncommitted
      PROVE  ProgramMemory' = ProgramMemory
  BY <1>1, <1>2, <1>3, ProgramMemoryCases, ProgramMemoryCasesNext
<1> QED
  BY <1>1, <1>2, <1>3

\* The memory of the program stays while these registers do.
LEMMA SameMemory ==
  ASSUME UNCHANGED SeenRegisters, UNCHANGED <<data_out_falling, data_out_rising>>,
         "timer_write" \in enables \/ (Uncommitted' <=> Uncommitted)
  PROVE  ProgramMemory' = ProgramMemory /\ ExternalCount' = ExternalCount
<1> USE DEF SeenRegisters
<1>1. CASE "timer_write" \in enables
  <2>1. MemoryAfterClock' = MemoryAfterClock
    BY DEF MemoryAfterClock, NextBlock, DumpStep, WriteRam, Target, Access, DataToRam
  <2> QED
    BY <1>1, <2>1, ProgramMemoryCases, ProgramMemoryCasesNext DEF ExternalCount
<1>2. CASE "timer_write" \notin enables
  BY <1>2, SameRegisters DEF ExternalCount
<1> QED
  BY <1>1, <1>2

\* What is left to do stays while the word in transit does.
LEMMA SameTodo ==
  ASSUME UNCHANGED SeenRegisters, BeforeExecution' <=> BeforeExecution,
         InTransit' <=> InTransit, InTransit => frame' = frame
  PROVE  ProgramTodo' = ProgramTodo
<1>1. InTransit => Decode(frame)' = Decode(frame)
  OBVIOUS
<1> QED
  BY <1>1, TodoCases, TodoCasesNext DEF SeenRegisters

\* So the whole abstract state stays.
LEMMA SameProgram ==
  ASSUME UNCHANGED SeenRegisters, UNCHANGED timer_vars, reset' = reset,
         BeforeExecution' <=> BeforeExecution,
         "timer_write" \in enables \/ (Uncommitted' <=> Uncommitted),
         InTransit' <=> InTransit,
         InTransit => frame' = frame,
         reset \/ reader' = reader
  PROVE  UNCHANGED IdealPic!isa_vars
<1>1. ProgramMemory' = ProgramMemory /\ ExternalCount' = ExternalCount
  BY SameMemory DEF timer_vars
<1>2. ProgramTodo' = ProgramTodo
  BY SameTodo
<1>3. ProgramAnswer' = ProgramAnswer
  BY DEF ProgramAnswer, Reading, SeenRegisters
<1> QED
  BY <1>1, <1>2, <1>3, SameRegisters DEF IdealPic!isa_vars, SeenRegisters

\* The falling edge moves the sequencer on: nothing that a program sees.
LEMMA FallIsaStutters ==
  ASSUME TypeOK, ControlInv, DataInv, FallingEdge, ~reset
  PROVE  UNCHANGED IdealPic!isa_vars
<1>1. UNCHANGED SeenRegisters /\ UNCHANGED timer_vars /\ frame' = frame /\ reset' = reset
  BY FallPins DEF FallingEdge, SequencerFall, decoder_vars, alu_vars, datapath_vars, ram_vars,
     output_vars, timer_vars, HostFall, ReaderFall, SeenRegisters
<1>2. Stage(decoded.type, state, enables, next_state)
  BY FallPins, StageHigh
<1>3. state' = next_state /\ next_state' = next_state
  <2>1. ~wait_for_state_change
    <3>1. state # "do_eeprom_dump"
      BY <1>2, SMT DEF Stage
    <3> QED
      BY <3>1, FallPins DEF ControlInv, SequencerInv
  <2> QED
    BY <2>1, FallPins DEF SequencerFall
<1>4. BeforeExecution' <=> BeforeExecution
  BY <1>1, <1>2, <1>3, SMT DEF BeforeExecution, Stage, SeenRegisters
<1>5. "timer_write" \in enables \/ (Uncommitted' <=> Uncommitted)
  BY <1>2, <1>3, <1>4, SMT DEF Uncommitted, BeforeExecution, Stage
<1>6. InTransit' <=> InTransit
  BY FallTransit
<1>7. reader' = reader
  <2>1. Reading => timeout + 1 # TimeoutLimit
    <3> SUFFICES ASSUME Reading PROVE timeout + 1 # TimeoutLimit
      OBVIOUS
    <3>1. timeout < TimeoutLimit - 1
      BY InTime DEF AnswerInTime
    <3> QED
      BY <3>1, Limits, SMT
  <2> QED
    BY <2>1, FallPins DEF ReaderFall
<1> QED
  BY <1>1, <1>4, <1>5, <1>6, <1>7, SameProgram

\* A board in reset executes nothing and has nothing that the host could print.
LEMMA ResetIsaStutters ==
  ASSUME TypeOK, ControlInv, DataInv, reset, RisingEdge \/ FallingEdge \/ Submit
  PROVE  UNCHANGED IdealPic!isa_vars
<1>1. UNCHANGED fpga_vars /\ reset' = reset /\ UNCHANGED timer_vars
  BY DEF RisingEdge, FallingEdge, Submit, fpga_vars
<1>2. Cleared /\ Cleared'
  BY <1>1, InReset, StaysCleared
<1>3. ~InTransit /\ ~InTransit'
  <2>1. ~(0 > 0)
    BY SMT
  <2> QED
    BY <1>1, <1>2, <2>1 DEF Cleared, InTransit
<1>4. printed' = printed
  <2>1. CASE RisingEdge
    <3>1. ReaderRise
      BY <2>1 DEF RisingEdge, HostRise
    <3>2. ~Complete
      <4>1. Complete => Len(data) = 0
        BY DEF Complete, DataInv, QuietInv, ControlInv, AnswerInv
      <4>2. Complete => AnswerBytes \in Nat \ {0}
        BY Limits DEF Complete
      <4> QED
        BY <4>1, <4>2, SMT DEF Complete
    <3> QED
      BY <3>1, <3>2 DEF ReaderRise, Complete
  <2>2. CASE FallingEdge
    BY <2>2 DEF FallingEdge, HostFall, ReaderFall
  <2>3. CASE Submit
    BY <2>3 DEF Submit, SendCommand
  <2> QED
    BY <2>1, <2>2, <2>3
<1>5. UNCHANGED SeenRegisters /\ UNCHANGED <<state, next_state>>
  BY <1>1, <1>4 DEF fpga_vars, decoder_vars, sequencer_vars, alu_vars, datapath_vars, ram_vars,
     output_vars, timer_vars, SeenRegisters
<1>6. (BeforeExecution' <=> BeforeExecution) /\ (Uncommitted' <=> Uncommitted)
  BY <1>5 DEF BeforeExecution, Uncommitted, SeenRegisters
<1> QED
  BY <1>1, <1>3, <1>5, <1>6, SameProgram

\* The fpga's registers are as they were.
LEMMA SameBoard ==
  ASSUME UNCHANGED fpga_vars, printed' = printed
  PROVE  /\ UNCHANGED SeenRegisters
         /\ BeforeExecution' <=> BeforeExecution
         /\ Uncommitted' <=> Uncommitted
<1>1. UNCHANGED SeenRegisters /\ UNCHANGED <<state, next_state>>
  BY DEF fpga_vars, decoder_vars, sequencer_vars, alu_vars, datapath_vars, ram_vars,
     SeenRegisters
<1> QED
  BY <1>1 DEF BeforeExecution, Uncommitted, SeenRegisters

\* A word that the host sends to a running board is an instruction to execute.
LEMMA SubmitIsaSends ==
  ASSUME TypeOK, ControlInv, DataInv, Submit, ~reset
  PROVE  \E i \in {Decode(word) : word \in Commands} : IdealPic!Send(i)
<1>1. PICK word \in Commands : SendCommand(word)
  BY DEF Submit
<1>2. /\ HostIdle /\ idle_edges = MinIdle /\ frame' = word /\ sent_bits' = 0
      /\ UNCHANGED fpga_vars /\ UNCHANGED timer_vars /\ reset' = reset /\ printed' = printed
  BY <1>1 DEF Submit, SendCommand
<1>3. ~InTransit /\ ~Reading
  BY <1>2, QuietLink DEF HostIdle
<1>4. InTransit'
  <2>1. Sending'
    BY <1>2, SMT DEF Sending, Done, FRAME_BITS
  <2> QED
    BY <1>2, <2>1 DEF InTransit
<1>5. ProgramMemory' = ProgramMemory /\ ExternalCount' = ExternalCount
  BY <1>2, SameBoard, SameMemory DEF timer_vars
<1>6. /\ Len(ProgramTodo) < 2 /\ ProgramTodo' = Append(ProgramTodo, Decode(word))
  <2>1. Decode(frame)' = Decode(word)
    BY <1>2
  <2>2. CASE BeforeExecution
    <3>1. ProgramTodo = <<decoded>> /\ ProgramTodo' = <<decoded, Decode(word)>>
      BY <1>2, <1>3, <1>4, <2>1, <2>2, SameBoard, TodoCases, TodoCasesNext DEF SeenRegisters
    <3> QED
      BY <3>1, OneAfterOther
  <2>3. CASE ~BeforeExecution
    <3>1. ProgramTodo = <<>> /\ ProgramTodo' = <<Decode(word)>>
      BY <1>2, <1>3, <1>4, <2>1, <2>3, SameBoard, TodoCases, TodoCasesNext DEF SeenRegisters
    <3> QED
      BY <3>1, OneAfterOther
  <2> QED
    BY <2>2, <2>3
<1>7. ProgramAnswer = None /\ ProgramAnswer' = None
  BY <1>3, <1>4 DEF ProgramAnswer
<1>8. UNCHANGED SeenRegisters
  BY <1>2, SameBoard
<1>9. IdealPic!Send(Decode(word))
  BY <1>2, <1>5, <1>6, <1>7, <1>8, SameRegisters DEF IdealPic!Send, SeenRegisters
<1> QED
  BY <1>9

\* ENABLE_RESET: what was to be executed or answered is gone, and the memory is cleared.
LEMMA ResetIsaStops ==
  ASSUME EnableReset
  PROVE  IdealPic!IsaReset
<1>1. /\ enables' = {} /\ state' = "do_nop" /\ next_state' = "do_nop" /\ counter' = 0
      /\ w_output_int' = 0 /\ alu_output_int' = 0 /\ result' = 0 /\ status_out_alu' = 0
      /\ skip_next' = FALSE /\ reset_eecon' = FALSE /\ ram_block' = ClearedRam
      /\ data_out_falling' = 0 /\ data_out_rising' = 0
  BY DEF EnableReset, FpgaReset, ReceiveReset, SequencerReset, DatapathReset, AluReset,
     RamReset, TimerReset
<1>2. ~reset /\ reset' /\ ~Reading /\ ~Reading' /\ printed' = printed
  BY DEF EnableReset, HostIdle, Reading, host_vars
<1>3. ~BeforeExecution' /\ ~Uncommitted' /\ ~Sampled' /\ ~InTransit' /\ "timer_write" \notin enables'
  <2>1. ~(0 > 0)
    BY SMT
  <2> QED
    BY <1>1, <1>2, <2>1, SMT DEF BeforeExecution, Uncommitted, Sampled, InTransit
<1>4. ProgramMemory' = ClearedRam
  BY <1>1, <1>3, ProgramMemoryCasesNext
<1>5. ProgramW' = 0 /\ ProgramStrobe' = FALSE
  BY <1>1 DEF ProgramW, ProgramStrobe
<1>6. ProgramTodo' = <<>>
  BY <1>3, TodoCasesNext
<1>7. ProgramAnswer = None /\ ProgramAnswer' = None
  BY <1>2 DEF ProgramAnswer
<1>8. ExternalCount' = 0
  <2>1. (0 + 0) % 256 = 0
    BY SMT
  <2> QED
    BY <1>1, <2>1 DEF ExternalCount
<1>9. Following' = FALSE
  <2>1. Bit(0, 5) = 0
    BY SMT DEF Bit, Weight
  <2>2. ram_block'[OPTION_ADDRESS] = 0
    BY <1>1, RegisterCells DEF ClearedRam
  <2> QED
    BY <2>1, <2>2 DEF Following
<1>10. ClearedRam = [a \in 0..RamSize - 1 |-> 0]
  BY DEF ClearedRam, RamAddress
<1> QED
  BY <1>1, <1>2, <1>4, <1>5, <1>6, <1>7, <1>8, <1>9, <1>10 DEF IdealPic!IsaReset

\* DISABLE_RESET: the board runs on from cleared registers.
LEMMA ResetIsaRestarts ==
  ASSUME ControlInv, DisableReset
  PROVE  IdealPic!IsaRestart
<1>1. /\ UNCHANGED fpga_vars /\ UNCHANGED timer_vars /\ printed' = printed
      /\ reset /\ ~reset' /\ ~Sending /\ ~Sending' /\ ~Reading' /\ frame' = frame
  BY DEF DisableReset, HostIdle, host_vars, Sending, Reading
<1>2. counter = 0 /\ counter' = 0
  BY <1>1, InReset, StaysCleared DEF Cleared
<1>3. ~InTransit /\ ~InTransit'
  <2>1. ~(0 > 0)
    BY SMT
  <2> QED
    BY <1>1, <1>2, <2>1 DEF InTransit
<1>4. /\ UNCHANGED SeenRegisters
      /\ ProgramMemory' = ProgramMemory /\ ExternalCount' = ExternalCount
  BY <1>1, SameBoard, SameMemory DEF timer_vars
<1>5. ProgramTodo' = ProgramTodo
  BY <1>1, <1>3, SameBoard, SameTodo
<1>6. ProgramAnswer' = ProgramAnswer
  BY <1>1 DEF ProgramAnswer
<1> QED
  BY <1>1, <1>4, <1>5, <1>6, SameRegisters DEF IdealPic!IsaRestart, SeenRegisters

\* The clock that commits a result reads no memory and ends no strobe.
LEMMA WriteLines ==
  ASSUME TypeOK, ControlInv, DataInv, "timer_write" \in enables
  PROVE  enables \cap {"ram_dump", "eeprom_dump", "ram_read"} = {} /\ ~reset_eecon
<1>1. \E s, q : Stage(decoded.type, s, enables, q)
  BY StageLow, StageHigh
<1>2. enables \cap {"ram_dump", "eeprom_dump", "ram_read"} = {}
  BY <1>1, SMT DEF Stage
<1> QED
  BY <1>2, BusyNoStrobe

\* What the program's memory becomes when an edge of the timer's input is counted.
LEMMA TimerMemory ==
  ASSUME TypeOK, ControlInv, DataInv, TimerEdge
  PROVE  ProgramMemory' \in IdealPic!Settled(ProgramMemory, ExternalCount')
<1>1. UNCHANGED fpga_vars /\ printed' = printed
  BY DEF TimerEdge, host_vars
<1>2. UNCHANGED SeenRegisters /\ Following' = Following /\ (Uncommitted' <=> Uncommitted)
  BY <1>1, SameBoard, SameRegisters
<1>3. IdealPic!Settled(ProgramMemory, ExternalCount') =
         {ProgramMemory} \cup
         (IF Following THEN {[ProgramMemory EXCEPT ![TMR0_ADDRESS] = ExternalCount']} ELSE {})
  BY SameNames DEF IdealPic!Settled
<1>4. CASE "timer_write" \notin enables
  BY <1>2, <1>3, <1>4, SameRegisters
<1>5. CASE "timer_write" \in enables
  <2> DEFINE m == Flagged(enables, Written(enables, decoded.address,
                                           DataToRam(decoded, alu_output_int)), status_out_alu)
  <2>1. MemoryAfterClock = Tock(m)
    BY <1>5, WriteLines, AfterWrite
  <2>2. MemoryAfterClock' = Tock(Flagged(enables, Written(enables, decoded.address,
                                           DataToRam(decoded, alu_output_int)), status_out_alu))'
    <3>1. (enables \cap {"ram_dump", "eeprom_dump", "ram_read"} = {} /\ "timer_write" \in enables
           /\ ~reset_eecon)'
      BY <1>2, <1>5, WriteLines DEF SeenRegisters
    <3> QED
      BY <3>1, AfterWriteNext
  <2>3. m' = m
    BY <1>2 DEF Flagged, Written, WriteRam, Target, DataToRam, SeenRegisters
  <2>4. ProgramMemory = MemoryAfterClock /\ ProgramMemory' = MemoryAfterClock'
    BY <1>2, <1>5, ProgramMemoryCases, ProgramMemoryCasesNext DEF SeenRegisters
  <2> HIDE DEF m
  <2>5. MemoryAfterClock' = [m EXCEPT ![TMR0_ADDRESS] =
                                 IF Following THEN ExternalCount'
                                 ELSE (ram_block[TMR0_ADDRESS] + 1) % 256]
    BY <1>2, <2>2, <2>3 DEF m, Tock, SeenRegisters
  <2>6. CASE Following
    BY <1>3, <2>1, <2>4, <2>5, <2>6 DEF Tock
  <2>7. CASE ~Following
    BY <1>3, <2>1, <2>4, <2>5, <2>7 DEF Tock
  <2> QED
    BY <2>6, <2>7
<1> QED
  BY <1>4, <1>5

\* An edge of the timer's input is counted, and TMR0 may show it at once.
LEMMA TimerCounts ==
  ASSUME TypeOK, ControlInv, DataInv, TimerEdge
  PROVE  IdealPic!ExternalEdge \/ UNCHANGED IdealPic!isa_vars
<1>1. /\ UNCHANGED fpga_vars /\ reset' = reset /\ printed' = printed /\ UNCHANGED frame
      /\ reader' = reader /\ UNCHANGED <<sent_bits, counter>>
  BY DEF TimerEdge, host_vars, fpga_vars, receive_vars
<1>2. (InTransit' <=> InTransit) /\ (BeforeExecution' <=> BeforeExecution)
  BY <1>1, SameBoard DEF InTransit, Sending
<1>3. UNCHANGED SeenRegisters /\ (Uncommitted' <=> Uncommitted)
  BY <1>1, SameBoard
<1>4. ProgramTodo' = ProgramTodo /\ ProgramAnswer' = ProgramAnswer
  BY <1>1, <1>2, <1>3, SameTodo DEF ProgramAnswer, Reading, SeenRegisters
<1> DEFINE f == data_out_falling
           r == data_out_rising
<1>5. f \in 0..255 /\ r \in 0..255
  BY DEF TypeOK, TimerType, Byte
<1>6. \/ f' = f /\ r' = r
      \/ f' = (f + 1) % 256 /\ r' = r
      \/ f' = f /\ r' = (r + 1) % 256
  BY DEF TimerEdge, RisingInput, FallingInput
<1>7. (f' = f /\ r' = r) \/ ExternalCount' = (ExternalCount + 1) % 256
  <2> HIDE DEF f, r
  <2>1. ExternalCount = (f + r) % 256 /\ ExternalCount' = (f' + r') % 256
    BY DEF ExternalCount, f, r
  <2>2. /\ (((f + 1) % 256) + r) % 256 = (((f + r) % 256) + 1) % 256
        /\ (f + ((r + 1) % 256)) % 256 = (((f + r) % 256) + 1) % 256
    BY <1>5, SMTT(30)
  <2> QED
    BY <1>6, <2>1, <2>2
<1>8. CASE ExternalCount' = (ExternalCount + 1) % 256
  <2>1. IdealPic!ExternalEdge
    BY <1>1, <1>3, <1>4, <1>8, TimerMemory, SameRegisters DEF IdealPic!ExternalEdge, SeenRegisters
  <2> QED
    BY <2>1
<1>9. CASE f' = f /\ r' = r
  <2>1. ProgramMemory' = ProgramMemory /\ ExternalCount' = ExternalCount
    BY <1>3, <1>9, SameMemory
  <2> QED
    BY <1>1, <1>3, <1>4, <2>1, SameRegisters DEF IdealPic!isa_vars, SeenRegisters
<1> QED
  BY <1>7, <1>8, <1>9

\* A step that leaves the mapped variables alone is a stutter of PicIsa.
LEMMA IsaStutters ==
  ASSUME UNCHANGED vars
  PROVE  UNCHANGED IdealPic!isa_vars
<1>1. /\ UNCHANGED fpga_vars /\ UNCHANGED timer_vars /\ reset' = reset /\ printed' = printed
      /\ frame' = frame /\ reader' = reader /\ UNCHANGED <<sent_bits, counter>>
  BY DEF vars, host_vars, fpga_vars, receive_vars
<1>2. InTransit' <=> InTransit
  BY <1>1 DEF InTransit, Sending
<1> QED
  BY <1>1, <1>2, SameBoard, SameProgram

\* Every step of PicCore is a step of PicIsa or a stutter.
LEMMA IsaStep ==
  TypeOK /\ TypeOK' /\ ControlInv /\ DataInv /\ [Next]_vars
      => [IdealPic!IsaNext]_(IdealPic!isa_vars)
<1> SUFFICES ASSUME TypeOK, TypeOK', ControlInv, DataInv, [Next]_vars
             PROVE  IdealPic!IsaNext \/ UNCHANGED IdealPic!isa_vars
  OBVIOUS
<1>1. CASE RisingEdge /\ ~reset
  BY <1>1, RiseRefines
<1>2. CASE FallingEdge /\ ~reset
  BY <1>2, FallIsaStutters
<1>3. CASE Submit /\ ~reset
  BY <1>3, SubmitIsaSends DEF IdealPic!IsaNext
<1>4. CASE (RisingEdge \/ FallingEdge \/ Submit) /\ reset
  BY <1>4, ResetIsaStutters
<1>5. CASE EnableReset
  BY <1>5, ResetIsaStops DEF IdealPic!IsaNext
<1>6. CASE DisableReset
  BY <1>6, ResetIsaRestarts DEF IdealPic!IsaNext
<1>7. CASE TimerEdge
  BY <1>7, TimerCounts DEF IdealPic!IsaNext
<1>8. CASE UNCHANGED vars
  BY <1>8, IsaStutters
<1> QED
  BY <1>1, <1>2, <1>3, <1>4, <1>5, <1>6, <1>7, <1>8 DEF Next

\* The initial states are initial states of PicIsa.
LEMMA IsaStart == Init => IdealPic!IsaInit
<1> SUFFICES ASSUME Init PROVE IdealPic!IsaInit
  OBVIOUS
<1>1. /\ enables = {} /\ state = "do_nop" /\ next_state = "do_nop" /\ counter = 0
      /\ w_output_int = 0 /\ alu_output_int = 0 /\ result = 0 /\ status_out_alu = 0
      /\ skip_next = FALSE /\ reset_eecon = FALSE /\ ram_block = ClearedRam
      /\ data_out_falling = 0 /\ data_out_rising = 0 /\ printed = <<>> /\ reset = FALSE
  BY DEF Init, ReceiveInit, SequencerInit, DatapathInit, AluInit, RamInit, TimerInit, HostInit
<1>2. ~Sending /\ ~Reading
  BY SMT DEF Init, HostInit, Sending, Reading, Done, FRAME_BITS
<1>3. ~BeforeExecution /\ ~Uncommitted /\ ~Sampled /\ ~InTransit /\ "timer_write" \notin enables
  <2>1. ~(0 > 0)
    BY SMT
  <2> QED
    BY <1>1, <1>2, <2>1, SMT DEF BeforeExecution, Uncommitted, Sampled, InTransit
<1>4. ProgramMemory = [a \in 0..RamSize - 1 |-> 0]
  BY <1>1, <1>3, ProgramMemoryCases DEF ClearedRam, RamAddress
<1>5. ProgramW = 0 /\ ProgramStrobe = FALSE /\ ProgramTodo = <<>> /\ ProgramAnswer = None
  BY <1>1, <1>2, <1>3, TodoCases DEF ProgramW, ProgramStrobe, ProgramAnswer
<1>6. ExternalCount = 0 /\ Following = FALSE
  <2>1. (0 + 0) % 256 = 0 /\ Bit(0, 5) = 0
    BY SMT DEF Bit, Weight
  <2>2. ram_block[OPTION_ADDRESS] = 0
    BY <1>1, RegisterCells DEF ClearedRam
  <2> QED
    BY <1>1, <2>1, <2>2 DEF ExternalCount, Following
<1> QED
  BY <1>1, <1>4, <1>5, <1>6 DEF IdealPic!IsaInit

\* The pipeline implements the instruction set: for every program without DUMP_EEPROM,
\* all sizes, timeouts and interleavings of timer edges and resets, each instruction
\* acts as one step on W, the memory and the flags, and the host prints its answer.
THEOREM IsaRefined == NoEepromDump => (Spec => ImplementsIsa)
<1> SUFFICES ASSUME NoEepromDump PROVE Spec => ImplementsIsa
  OBVIOUS
<1>1. Init => IdealPic!IsaInit
  BY IsaStart
<1>2. TypeOK /\ TypeOK' /\ ControlInv /\ DataInv /\ [Next]_vars
          => [IdealPic!IsaNext]_(IdealPic!isa_vars)
  BY IsaStep
<1>3. Spec => []DataInv
  BY DataCorrect
<1> QED
  BY <1>1, <1>2, <1>3, TypeCorrect, ControlCorrect, PTL DEF Spec, ImplementsIsa, IdealPic!IsaSpec
=============================================================================
