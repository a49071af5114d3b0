----------------------------- MODULE MCCommands -----------------------------
(***************************************************************************)
(* Instances of CommandProcessing for TLC.                                 *)
(***************************************************************************)
EXTENDS CommandProperties, TLC, FiniteSets

\* The loop of decimal_to_binary; left[i] is decimal_in after i digits.
LoopDigits(n, num_bits) ==
    LET left[i \in 0..num_bits] ==
            IF i = 0 THEN n
            ELSE LET before == left[i - 1]
                     weight == 2^(num_bits - i)
                 IN  IF weight > before THEN before ELSE before - weight
    IN  [i \in 1..num_bits |-> IF left[i] = left[i - 1] THEN 0 ELSE 1]

ASSUME LoopComputesDigits ==
    \A num_bits \in {1, 3, 4, 6, 7, 8} : \A n \in 0..520 :
        DecimalToBinary(n, num_bits) = LoopDigits(n, num_bits)

L0(name)       == [name |-> name, args |-> <<>>]
L1(name, a)    == [name |-> name, args |-> <<a>>]
L2(name, a, b) == [name |-> name, args |-> <<a, b>>]

Ends(lines) == [lines |-> lines, newline |-> TRUE]
Cut(lines)  == [lines |-> lines, newline |-> FALSE]

\* Every instruction, with operands at and beyond the limits of their fields.
Instructions ==
    {L2(name, b, a) : name \in BitOriented, b \in {0, 7, 8}, a \in {126, 128}}
    \cup {L2(name, d, a) : name \in BitOrByteInstructions \ BitOriented, d \in {0, 1, 2},
                          a \in {126, 128}}
    \cup {L1(name, k) : name \in LiteralInstructions, k \in {127, 200, 256}}
    \cup {L0(name) : name \in OtherInstructions}

EncodingScripts == {Ends(<<L0("ENABLE_CLOCK"), c>>) : c \in Instructions}

\* Lines that change what later lines mean, or fail.
SessionLines ==
    {L0("ENABLE_CLOCK"), L0("DISABLE_CLOCK"), L0("ENABLE_RESET"), L1("SELECT_SLAVE", 1),
     L1("SELECT_SLAVE", 7), L1("SET_CLK_FREQ", 30000), L0("EXIT"), L0("READ_WREG"),
     L1("READ_FILE", 1), L1("READ_FILE", 3), L1("NOP", 1), L0("comment")}

Sessions == {Ends(<<L0("ENABLE_CLOCK"), a, b>>) : a, b \in SessionLines}
            \cup {Cut(<<L0("DISABLE_RESET"), a>>) : a \in SessionLines}
            \cup {Ends(<<L0("ENABLE_CLOCK"), L1("READ_FILE", 2), L0("READ_WREG")>>)}

AllScripts == EncodingScripts \cup Sessions

\* A file of commands, noise and a last line without newline; a file that
\* holds commands which are not for the board.
TestFiles == (1 :> Cut(<<L1("MOVLW", 3), L0("comment"), L1("NOP", 1), L1("ADDLW", 12)>>))
             @@ (2 :> Ends(<<L0("NOP"), L1("SELECT_SLAVE", 1), L0("NOP")>>))
=============================================================================
