------------------------------ MODULE Datapath ------------------------------
(***************************************************************************)
(* The registers around the ALU: w_register.vhd, alu_input_mux.vhd and the *)
(* combinational alu_output_demux.vhd.                                     *)
(***************************************************************************)
EXTENDS Bytes

VARIABLES w_output_int, output_mux

datapath_vars == <<w_output_int, output_mux>>

DatapathType == w_output_int \in Byte /\ output_mux \in Byte

DatapathInit == w_output_int = 0 /\ output_mux = 0

WRegisterRise(enable, data_in) ==
    w_output_int' = IF enable THEN data_in ELSE w_output_int

\* Mutant: the inputs of the multiplexer are swapped.
SwappedMux(enable, sel, input_ram, input_literal) ==
    output_mux' = CASE ~enable        -> output_mux
                    [] enable /\ sel  -> input_literal
                    [] enable /\ ~sel -> input_ram

InputMuxRise(enable, sel, input_ram, input_literal) ==
    output_mux' = CASE ~enable        -> output_mux
                    [] enable /\ sel  -> input_ram
                    [] enable /\ ~sel -> input_literal

\* The three outputs of the demultiplexer for the decoded instruction i.
DataToSw(i, data)   == IF i.to_sw THEN data ELSE 0
DataToWreg(i, data) == IF ~i.to_sw /\ ~i.to_ram THEN data ELSE 0
DataToRam(i, data)  == IF ~i.to_sw /\ i.to_ram THEN data ELSE 0

DatapathReset == w_output_int' = 0 /\ output_mux' = 0
=============================================================================
