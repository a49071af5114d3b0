----------------------------- MODULE MCPicCore -----------------------------
(***************************************************************************)
(* Instances of PicCore for TLC: programs as small sets of words.          *)
(***************************************************************************)
EXTENDS PicCoreInvariant, TLC

\* The word whose bits 13..0 are the number n.
ToWord(n) == [i \in 0..FRAME_BITS - 1 |-> (n \div 2^i) % 2]

LiteralOp(op, k)    == ToWord(256 * op + k)
FileOp(op, d, addr) == ToWord(256 * op + 128 * d + addr)
BitOp(op, bit, addr) == ToWord(256 * op + 128 * bit + addr)

Cell10 == 10

\* Skips, of reads too, flags, memory writes and reads.
SkipProgram ==
    {LiteralOp(MOVLW, 255), LiteralOp(SUBLW, 16), FileOp(DECFSZ, 0, TMR0_ADDRESS),
     FileOp(INCFSZ, 1, Cell10), FileOp(ADDWF, 1, Cell10), FileOp(SWAPF, 0, Cell10),
     FileOp(RLF, 1, Cell10), LiteralOp(READ_STATUS, 0),
     LiteralOp(READ_ADDRESS, Cell10), LiteralOp(DUMP_RAM, 0)}

\* Indirect addressing and the registers with side effects.
RegisterProgram ==
    {LiteralOp(MOVLW, 3), FileOp(IORWF, 1, FSR_ADDRESS), FileOp(COMF, 1, INDF_ADDRESS),
     FileOp(INCF, 0, INDF_ADDRESS), FileOp(COMF, 1, TMR0_ADDRESS),
     BitOp(BSF, 5, OPTION_ADDRESS), BitOp(BCF, 5, OPTION_ADDRESS),
     BitOp(BSF, 0, EECON_ADDRESS), BitOp(BSF, 3, FSR_ADDRESS),
     FileOp(SUBWF, 1, STATUS_ADDRESS), FileOp(XORWF, 1, STATUS_ADDRESS),
     LiteralOp(ADDLW, 1), LiteralOp(READ_ADDRESS, TMR0_ADDRESS), LiteralOp(NOP, 0)}

\* The control paths, DUMP_EEPROM and an unassigned opcode among them.
ControlProgram ==
    {LiteralOp(MOVLW, 255), FileOp(MOVF, 0, STATUS_ADDRESS), FileOp(INCF, 1, STATUS_ADDRESS),
     LiteralOp(READ_WREG, 0), LiteralOp(READ_ADDRESS, 3), LiteralOp(DUMP_EEPROM, 0),
     ToWord(16383)}

\* TMR0 switched to the external input, its edge selected, and its count read.
TimerProgram == {BitOp(BSF, 5, OPTION_ADDRESS), BitOp(BSF, 4, OPTION_ADDRESS),
                 BitOp(BCF, 5, OPTION_ADDRESS), FileOp(INCF, 1, TMR0_ADDRESS)}

DumpProgram == {LiteralOp(DUMP_EEPROM, 0), LiteralOp(DUMP_RAM, 0)}

Dumps == (DumpRam :> RamSize) @@ (DumpEeprom :> EepromSize)
=============================================================================
