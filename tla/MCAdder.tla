------------------------------ MODULE MCAdder ------------------------------
(***************************************************************************)
(* Two programs that use the driver and one that does not, at eight bits   *)
(* for a number and the valid bit: one sum fits, one overflows, and one    *)
(* operand of the third does not fit a register.                           *)
(***************************************************************************)
EXTENDS AdderPrograms

ThreePrograms == {"main_1", "main_2", "first_test"}
OneDirect == {"first_test"}
TheOperands == [main_1 |-> <<3, 5>>, main_2 |-> <<100, 120>>, first_test |-> <<300, 1>>]
=============================================================================
