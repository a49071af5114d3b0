-------------------------------- MODULE Alu --------------------------------
(***************************************************************************)
(* alu.vhd, the clocked part.  A pending skip turns the opcode into 0.     *)
(***************************************************************************)
EXTENDS AluFunctions

VARIABLES alu_output_int, status_out_alu, skip_next, result

alu_vars == <<alu_output_int, status_out_alu, skip_next, result>>

AluType ==
    /\ alu_output_int \in Byte
    /\ status_out_alu \in Byte
    /\ skip_next \in BOOLEAN
    /\ result \in Byte

AluInit ==
    /\ alu_output_int = 0
    /\ status_out_alu = 0
    /\ skip_next = FALSE
    /\ result = 0

\* Mutant: a pending skip is never cleared.
SkipKept(opcode, w, m, s, b) ==
    LET op == IF skip_next THEN NOP ELSE opcode IN
    /\ alu_output_int' = Output(op, w, m, s, b, alu_output_int)
    /\ status_out_alu' = Flags(op, w, m, s, b, status_out_alu, result)
    /\ result' = LastResult(op, w, m, s, b, result)
    /\ skip_next' = (skip_next \/ Skips(op, m))

Compute(opcode, w, m, s, b) ==
    LET op == IF skip_next THEN NOP ELSE opcode IN
    /\ alu_output_int' = Output(op, w, m, s, b, alu_output_int)
    /\ status_out_alu' = Flags(op, w, m, s, b, status_out_alu, result)
    /\ result' = LastResult(op, w, m, s, b, result)
    /\ skip_next' = Skips(op, m)

AluRise(enable, opcode, w, m, s, b) ==
    IF enable THEN Compute(opcode, w, m, s, b) ELSE UNCHANGED alu_vars

AluReset ==
    /\ alu_output_int' = 0
    /\ status_out_alu' = 0
    /\ skip_next' = FALSE
    /\ result' = 0
=============================================================================
