------------------------------ MODULE PicCore ------------------------------
(***************************************************************************)
(* pic16f84a.vhd with its host: the entities wired together as its port    *)
(* maps wire them, on one clock that the host drives, and the host's end   *)
(* of the serial link.  Every entity samples its inputs on the rising      *)
(* edge; the state machine changes state, and the host acts, on the        *)
(* falling edge.  The I2C master is not part of this model: its inputs to  *)
(* the memory, eeprom_read and write_completed, stay low.                  *)
(***************************************************************************)
EXTENDS InputReceive, StateMachine, Alu, Datapath, Ram, ParallelToSerial, Timer,
        HostSerial

CONSTANTS Commands,        \* the words the host may send
          MaxCommands, MaxResets, MaxTimerEdges   \* bounds on the environment

ASSUME CoreAssumption == /\ Commands \subseteq Word
                         /\ MaxCommands \in Nat
                         /\ MaxResets \in Nat
                         /\ MaxTimerEdges \in Nat

(***************************************************************************)
(* What host and board must agree on without ever checking it: the pause   *)
(* between two words covers the countdown of input_receive, the dumps are  *)
(* as long as the memories, and no reading thread gives up on a board that *)
(* is still working.  An instruction runs for six clocks at most,          *)
(* DUMP_EEPROM for EepromDumpWait + 4, and every answer bit takes one.     *)
(***************************************************************************)
RunClocks(type) == IF type = DumpEeprom THEN EepromDumpWait + 4 ELSE 6

ASSUME LinkAssumption ==
    /\ MinIdle >= 5
    /\ DumpBytes[DumpRam] = RamSize /\ DumpBytes[DumpEeprom] = EepromSize
    /\ ResultTimeout >= 42 + 2 * RunClocks(ReadMem) + 16
    /\ DumpTimeout >= 42 + 2 * RunClocks(DumpRam) + 16 * RamSize
    /\ DumpTimeout >= 42 + 2 * RunClocks(DumpEeprom) + 16 * EepromSize

VARIABLES clk, reset, commands_sent, resets_done, timer_edges

fpga_vars == <<receive_vars, decoder_vars, sequencer_vars, alu_vars, datapath_vars,
               ram_vars, output_vars>>
bound_vars == <<commands_sent, resets_done, timer_edges>>
vars == <<fpga_vars, timer_vars, host_vars, bound_vars, clk, reset>>

Init ==
    /\ ReceiveInit /\ DecoderInit /\ SequencerInit /\ AluInit /\ DatapathInit
    /\ RamInit /\ OutputInit /\ TimerInit /\ HostInit
    /\ clk = FALSE /\ reset = FALSE
    /\ commands_sent = 0 /\ resets_done = 0 /\ timer_edges = 0

\* One rising edge of clk at every clocked entity.
FpgaRise ==
    /\ ReceiveRise(mosi, serial_in)
    /\ DecoderRise(trig_instruction_process, binary_string)
    /\ SequencerRise(trig_state_machine, decoded.type)
    /\ InputMuxRise("alu_input_mux" \in enables, decoded.from_ram, from_ram_to_alu,
                    decoded.literal)
    /\ AluRise("alu" \in enables, decoded.opcode, w_output_int, output_mux,
               status_in_alu, decoded.bit_idx)
    /\ WRegisterRise("wreg" \in enables, DataToWreg(decoded, alu_output_int))
    /\ RamRise(enables, FALSE, FALSE, data_out_falling, data_out_rising, 0,
               DataToRam(decoded, alu_output_int), status_out_alu, decoded.address)
    /\ OutputRise(enables, DataToSw(decoded, alu_output_int), ram_dump_int, RamSize,
                  eeprom_dump_int, EepromSize)

FpgaReset ==
    /\ ReceiveReset /\ DecoderResetStep /\ SequencerReset /\ AluReset
    /\ DatapathReset /\ RamReset /\ OutputReset /\ TimerReset

RisingEdge ==
    /\ ~clk /\ clk' = TRUE
    /\ IF reset THEN UNCHANGED fpga_vars ELSE FpgaRise
    /\ HostRise
    /\ UNCHANGED <<timer_vars, reset, bound_vars>>

FallingEdge ==
    /\ clk /\ clk' = FALSE
    /\ IF reset THEN UNCHANGED sequencer_vars ELSE SequencerFall
    /\ HostFall(miso, alu_output_raspi)
    /\ UNCHANGED <<receive_vars, decoder_vars, alu_vars, datapath_vars, ram_vars,
                   output_vars, timer_vars, reset, bound_vars>>

\* A HW command of the user reaches send_command_to_fpga.
Submit ==
    /\ commands_sent < MaxCommands
    /\ \E word \in Commands : SendCommand(word)
    /\ commands_sent' = commands_sent + 1
    /\ UNCHANGED <<fpga_vars, timer_vars, clk, reset, resets_done, timer_edges>>

\* ENABLE_RESET and DISABLE_RESET, which the main thread handles between commands.
EnableReset ==
    /\ HostIdle
    /\ ~reset /\ reset' = TRUE
    /\ resets_done < MaxResets
    /\ resets_done' = resets_done + 1
    /\ FpgaReset
    /\ UNCHANGED <<host_vars, clk, commands_sent, timer_edges>>

DisableReset ==
    /\ HostIdle
    /\ reset /\ reset' = FALSE
    /\ UNCHANGED <<fpga_vars, timer_vars, host_vars, bound_vars, clk>>

\* timer_ext_clk_thread drives the timer input, asynchronously to clk.
TimerEdge ==
    /\ timer_edges < MaxTimerEdges
    /\ timer_edges' = timer_edges + 1
    /\ RisingInput(reset, edge_trigger_int) \/ FallingInput(reset, edge_trigger_int)
    /\ UNCHANGED <<fpga_vars, host_vars, clk, reset, commands_sent, resets_done>>

Next == RisingEdge \/ FallingEdge \/ Submit \/ EnableReset \/ DisableReset \/ TimerEdge

\* clk_thread toggles the clock for as long as it is enabled.
Fairness == WF_vars(RisingEdge) /\ WF_vars(FallingEdge)

Spec == Init /\ [][Next]_vars
FairSpec == Spec /\ Fairness
=============================================================================
