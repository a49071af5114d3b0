------------------------------ MODULE HpsAdder ------------------------------
(***************************************************************************)
(* hps_adder.vhd: two registers on the HPS bus and their sum, all of them  *)
(* 16 bits wide.  The highest bit of what is read tells that it is valid,  *)
(* so that 15 bits of the sum remain.                                      *)
(***************************************************************************)
EXTENDS Naturals

CONSTANT Valid      \* the weight of the highest bit, 2^15 in the code

ASSUME ValidAssumption == Valid \in Nat \ {0}

VARIABLES operand_1, operand_2

adder_registers == <<operand_1, operand_2>>

Data == 0..2 * Valid - 1

OPERAND_1 == 0
OPERAND_2 == 1
RESULT    == 2

AdderRegistersType == operand_1 \in Data /\ operand_2 \in Data

AdderInit == operand_1 = 0 /\ operand_2 = 0

\* A write to any other address clears both.
BusWrite(address, writedata) ==
    /\ operand_1' = CASE address = OPERAND_1 -> writedata
                      [] address = OPERAND_2 -> operand_1
                      [] OTHER               -> 0
    /\ operand_2' = CASE address = OPERAND_2 -> writedata
                      [] address = OPERAND_1 -> operand_2
                      [] OTHER               -> 0

\* readdata
BusRead(address) ==
    CASE address = OPERAND_1 -> Valid + (operand_1 % Valid)
      [] address = OPERAND_2 -> Valid + (operand_2 % Valid)
      [] address = RESULT    -> Valid + ((operand_1 + operand_2) % Valid)
      [] OTHER               -> 0
=============================================================================
