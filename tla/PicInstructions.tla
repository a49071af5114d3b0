-------------------------- MODULE PicInstructions --------------------------
(***************************************************************************)
(* constants_package.vhd: opcodes, register addresses, and the 14-bit      *)
(* instruction word that serial_to_parallel_instruction.vhd takes apart.   *)
(* A word is the function from bit number (13 downto 0) to 0 or 1.         *)
(***************************************************************************)
EXTENDS Bytes

FRAME_BITS == 14
Word == [0..FRAME_BITS - 1 -> {0, 1}]
ZeroWord == [i \in 0..FRAME_BITS - 1 |-> 0]

\* The number in bits hi downto lo of a word, of which there are at most eight.
Slice(s, hi, lo) == FromBits([i \in 0..7 |-> IF lo + i <= hi THEN s[lo + i] ELSE 0])

\* The 6-bit opcodes.
NOP          == 0
CLR          == 1
SUBWF        == 2
DECF         == 3
IORWF        == 4
ANDWF        == 5
XORWF        == 6
ADDWF        == 7
MOVF         == 8
COMF         == 9
INCF         == 10
DECFSZ       == 11
RRF          == 12
RLF          == 13
SWAPF        == 14
INCFSZ       == 15
BCF          == 16
BSF          == 20
DUMP_RAM     == 40
DUMP_EEPROM  == 44
MOVLW        == 48
READ_WREG    == 49
READ_STATUS  == 50
READ_ADDRESS == 51
IORLW        == 56
ANDLW        == 57
XORLW        == 58
SUBLW        == 61
ADDLW        == 62

ByteOriented == {ADDWF, ANDWF, CLR, COMF, DECF, DECFSZ, INCF, INCFSZ, IORWF,
                 MOVF, RLF, RRF, SUBWF, SWAPF, XORWF}

\* The special function registers.
INDF_ADDRESS   == 0
TMR0_ADDRESS   == 1
OPTION_ADDRESS == 2
STATUS_ADDRESS == 3
FSR_ADDRESS    == 4
EECON_ADDRESS  == 7
EEDATA_ADDRESS == 8
EEADR_ADDRESS  == 9

\* The 3-bit instruction_type codes.
Literal    == "000"
ToWreg     == "001"
ToRam      == "010"
ReadReg    == "011"
ReadMem    == "100"
DumpRam    == "101"
DumpEeprom == "110"
InstructionType ==
    {Literal, ToWreg, ToRam, ReadReg, ReadMem, DumpRam, DumpEeprom}
=============================================================================
