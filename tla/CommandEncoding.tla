-------------------------- MODULE CommandEncoding --------------------------
(***************************************************************************)
(* The lines a user writes (common_data.c, process_command.c) and the      *)
(* words that create_binary_command of hw_if.c makes of them.  A line is   *)
(* its first word and its arguments; numbers, file names and messages are  *)
(* numbers here.                                                           *)
(***************************************************************************)
EXTENDS PicInstructions, Sequences

BitOriented == {"BCF", "BSF"}
BitOrByteInstructions ==
    BitOriented \cup {"ADDWF", "ANDWF", "CLR", "COMF", "DECF", "DECFSZ", "INCF", "INCFSZ",
                      "IORWF", "MOVF", "RLF", "RRF", "SUBWF", "SWAPF", "XORWF"}
LiteralInstructions ==
    {"ADDLW", "ANDLW", "IORLW", "MOVLW", "SUBLW", "XORLW", "READ_ADDRESS"}
OtherInstructions == {"READ_WREG", "READ_STATUS", "DUMP_RAM", "DUMP_EEPROM", "NOP"}

Encodable == BitOrByteInstructions \cup LiteralInstructions \cup OtherInstructions

SwCommands == {"ENABLE_CLOCK", "DISABLE_CLOCK", "ENABLE_RESET", "DISABLE_RESET", "EXIT",
               "HELP", "SELECT_SLAVE", "SHOW_SLAVE", "SET_CLK_FREQ", "SHOW_CLK_FREQ"}
HwCommands == Encodable \cup {"READ_FILE", "read_temperature", "echo"}

\* The number of arguments that the regular expression of a command asks for.
Arity(name) ==
    CASE name \in BitOrByteInstructions -> 2
      [] name \in LiteralInstructions \cup {"READ_FILE", "SELECT_SLAVE", "SET_CLK_FREQ", "echo"} -> 1
      [] OTHER -> 0

\* verify_command_syntax; SELECT_SLAVE takes a single digit.
Accepted(line) ==
    /\ line.name \in SwCommands \cup HwCommands
    /\ Len(line.args) = Arity(line.name)
    /\ line.name = "SELECT_SLAVE" => line.args[1] \in 0..9

\* slave_0_commands: the opcodes the host knows, independent of constants_package.vhd.
Opcode ==
    [ADDWF |-> 7, ANDWF |-> 5, CLR |-> 1, COMF |-> 9, DECF |-> 3, DECFSZ |-> 11, INCF |-> 10,
     INCFSZ |-> 15, IORWF |-> 4, MOVF |-> 8, RLF |-> 13, RRF |-> 12, SUBWF |-> 2,
     SWAPF |-> 14, XORWF |-> 6, ADDLW |-> 62, ANDLW |-> 57, IORLW |-> 56, MOVLW |-> 48,
     SUBLW |-> 61, XORLW |-> 58, BCF |-> 4, BSF |-> 5, READ_WREG |-> 49,
     READ_STATUS |-> 50, READ_ADDRESS |-> 51, DUMP_RAM |-> 40, DUMP_EEPROM |-> 44,
     NOP |-> 0]

\* decimal_to_binary subtracts every weight that still fits, from the largest
\* on: the digits of n, or only ones if n needs more than num_bits of them.
DecimalToBinary(n, num_bits) ==
    [i \in 1..num_bits |-> IF n >= 2^num_bits THEN 1 ELSE Bit(n, num_bits - i)]

\* Mutant: every operand has the seven bits of an address.
NarrowOperand(c) ==
    LET bit_or_d == IF c.name \in BitOriented THEN 3 ELSE IF Arity(c.name) = 2 THEN 1 ELSE 0
        address  == IF c.args = <<>> THEN 0 ELSE c.args[Len(c.args)]
    IN  IF bit_or_d = 0 THEN <<0>> \o DecimalToBinary(address, 7)
        ELSE DecimalToBinary(c.args[1], bit_or_d) \o DecimalToBinary(address, 7)

\* What follows the opcode in the create_*_instruction functions.
Operand(c) ==
    CASE c.name \in BitOriented
            -> DecimalToBinary(c.args[1], 3) \o DecimalToBinary(c.args[2], 7)
      [] c.name \in BitOrByteInstructions \ BitOriented
            -> DecimalToBinary(c.args[1], 1) \o DecimalToBinary(c.args[2], 7)
      [] c.name \in LiteralInstructions -> DecimalToBinary(c.args[1], 8)
      [] c.name \in OtherInstructions   -> DecimalToBinary(0, 8)

BinaryCommand(c) ==
    DecimalToBinary(Opcode[c.name], IF c.name \in BitOriented THEN 4 ELSE 6) \o Operand(c)

\* The word as the board receives it: the first character sent is bit 13.
EncodedWord(c) ==
    LET digits == BinaryCommand(c) IN [i \in 0..FRAME_BITS - 1 |-> digits[FRAME_BITS - i]]
=============================================================================
