------------------------- MODULE InstructionDecoder -------------------------
(***************************************************************************)
(* serial_to_parallel_instruction.vhd: while enabled it latches the fields *)
(* of the received word and triggers the state machine; the fields then    *)
(* keep their value until the next word.                                   *)
(***************************************************************************)
EXTENDS PicInstructions

VARIABLES decoded, trig_state_machine

decoder_vars == <<decoded, trig_state_machine>>

Decoded == [opcode : 0..63, bit_idx : 0..7, address : 0..127, literal : 0..255,
            from_ram : BOOLEAN, to_ram : BOOLEAN, to_sw : BOOLEAN,
            type : InstructionType]

DecoderType == decoded \in Decoded /\ trig_state_machine \in BOOLEAN

\* The outputs for a word: from_ram is sel_alu_input_mux, to_ram sel_alu_demux
\* and to_sw transfer_to_sw.
Decode(word) ==
    LET opcode    == Slice(word, 13, 8)
        isBit     == word[13] = 0 /\ word[12] = 1
        isByte    == opcode \in ByteOriented
        isDump    == opcode \in {DUMP_RAM, DUMP_EEPROM}
        isReadReg == opcode \in {READ_WREG, READ_STATUS}
        isReadMem == opcode = READ_ADDRESS
        toRam     == isBit \/ (isByte /\ word[7] = 1)
    IN  [opcode   |-> IF isBit THEN 4 * Slice(word, 13, 10) ELSE opcode,
         bit_idx  |-> IF isBit THEN Slice(word, 9, 7) ELSE 0,
         address  |-> IF isBit \/ isByte \/ isReadMem THEN Slice(word, 6, 0) ELSE 0,
         literal  |-> IF isBit \/ isByte \/ isDump \/ isReadReg \/ isReadMem
                      THEN 0 ELSE Slice(word, 7, 0),
         from_ram |-> isBit \/ isByte \/ isReadMem,
         to_ram   |-> toRam,
         to_sw    |-> isReadReg \/ isReadMem,
         type     |-> CASE toRam                -> ToRam
                        [] isByte /\ ~toRam     -> ToWreg
                        [] opcode = DUMP_EEPROM -> DumpEeprom
                        [] opcode = DUMP_RAM    -> DumpRam
                        [] isReadMem            -> ReadMem
                        [] isReadReg            -> ReadReg
                        [] OTHER                -> Literal]

DecoderReset ==
    [opcode |-> 0, bit_idx |-> 0, address |-> 0, literal |-> 0, from_ram |-> FALSE,
     to_ram |-> FALSE, to_sw |-> FALSE, type |-> Literal]

DecoderInit == decoded = DecoderReset /\ trig_state_machine = FALSE

\* Mutant: trig_state_machine is never lowered again.
TriggerKept(enable, word) ==
    /\ decoded' = IF enable THEN Decode(word) ELSE decoded
    /\ trig_state_machine' = (enable \/ trig_state_machine)

DecoderRise(enable, word) ==
    /\ decoded' = IF enable THEN Decode(word) ELSE decoded
    /\ trig_state_machine' = enable

DecoderResetStep == decoded' = DecoderReset /\ trig_state_machine' = FALSE
=============================================================================
