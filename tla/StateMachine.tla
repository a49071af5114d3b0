---------------------------- MODULE StateMachine ----------------------------
(***************************************************************************)
(* state_machine.vhd: the sequencer.  On a rising clock edge the current   *)
(* state sets the enable lines and the next state; the state itself        *)
(* changes on the falling edge, so every enable is seen by the other       *)
(* entities one clock after its state was entered.                         *)
(***************************************************************************)
EXTENDS PicInstructions

CONSTANT EepromDumpWait   \* num_wait_cycles of do_eeprom_dump (1792 in the code)

ASSUME EepromDumpWaitAssumption == EepromDumpWait \in Nat

VARIABLES state, next_state, enables, wait_for_state_change, num_wait_cycles,
          cycles_waited

sequencer_vars == <<state, next_state, enables, wait_for_state_change,
                    num_wait_cycles, cycles_waited>>

PicState == {"do_nop", "do_wait", "do_ram_read", "do_ram_dump", "do_eeprom_dump",
             "do_alu_input_sel", "do_alu", "do_wreg", "do_ram_write", "do_result"}

\* The enable outputs, each named for the entity it drives; `enables` is the
\* set of those that are high.
EnableLine == {"ram_read", "alu_input_mux", "alu", "wreg", "ram_write", "ram_dump",
               "eeprom_dump", "status_write", "result", "timer_write",
               "result_ram_dump", "result_eeprom_dump"}

SequencerType ==
    /\ state \in PicState /\ next_state \in PicState
    /\ enables \in SUBSET EnableLine
    /\ wait_for_state_change \in BOOLEAN
    /\ num_wait_cycles \in 0..EepromDumpWait
    /\ cycles_waited \in 0..EepromDumpWait

\* The line of do_result that loads the answer into the shifter.
ResultLine(type) == CASE type = DumpEeprom -> "result_eeprom_dump"
                      [] type = DumpRam    -> "result_ram_dump"
                      [] OTHER             -> "result"

\* What each state drives high.
Asserted(s, type) ==
    CASE s = "do_ram_read"      -> {"ram_read"}
      [] s = "do_ram_dump"      -> {"ram_dump"}
      [] s = "do_eeprom_dump"   -> {"eeprom_dump"}
      [] s = "do_alu_input_sel" -> {"alu_input_mux"}
      [] s = "do_alu"           -> {"alu"}
      [] s = "do_wreg"          -> {"wreg", "status_write", "timer_write"}
      [] s = "do_ram_write"     -> {"ram_write", "status_write", "timer_write"}
      [] s = "do_result"        -> {"timer_write", ResultLine(type)}
      [] OTHER                  -> {}

\* do_alu is the only state that leaves a line (status_write_enable) alone.
Held(s) == IF s = "do_alu" THEN {"status_write"} ELSE {}

\* Mutant: DUMP_EEPROM is missing from the dispatch of do_nop.
DumpForgotten(type) ==
    CASE type = DumpRam                   -> "do_ram_dump"
      [] type = Literal                   -> "do_alu_input_sel"
      [] type \in {ToWreg, ToRam, ReadMem} -> "do_ram_read"
      [] type = ReadReg                   -> "do_alu"
      [] OTHER                            -> "do_nop"

Dispatch(type) ==
    CASE type = DumpEeprom                -> "do_eeprom_dump"
      [] type = DumpRam                   -> "do_ram_dump"
      [] type = Literal                   -> "do_alu_input_sel"
      [] type \in {ToWreg, ToRam, ReadMem} -> "do_ram_read"
      [] type = ReadReg                   -> "do_alu"
      [] OTHER                            -> "do_nop"

AfterAlu(type) ==
    CASE type \in {Literal, ToWreg}  -> "do_wreg"
      [] type = ToRam                -> "do_ram_write"
      [] type \in {ReadMem, ReadReg} -> "do_wait"
      [] OTHER                       -> "do_nop"

Successor(s, trig, type) ==
    CASE s = "do_nop" -> IF trig THEN Dispatch(type) ELSE "do_nop"
      [] s = "do_wait"                           -> "do_result"
      [] s \in {"do_ram_dump", "do_eeprom_dump"} -> "do_wait"
      [] s = "do_ram_read"                       -> "do_alu_input_sel"
      [] s = "do_alu_input_sel"                  -> "do_alu"
      [] s = "do_alu"                            -> AfterAlu(type)
      [] OTHER                                   -> "do_nop"

SequencerInit ==
    /\ state = "do_nop" /\ next_state = "do_nop"
    /\ enables = {}
    /\ wait_for_state_change = FALSE
    /\ num_wait_cycles = 0
    /\ cycles_waited = 0

\* Mutant: do_ram_write leaves status_write_enable low.
StatusForgotten(trig, type) ==
    /\ next_state' = Successor(state, trig, type)
    /\ enables' = (Asserted(state, type) \cup (enables \cap Held(state)))
                  \ (IF state = "do_ram_write" THEN {"status_write"} ELSE {})
    /\ wait_for_state_change' = (state = "do_eeprom_dump")
    /\ num_wait_cycles' = IF state = "do_eeprom_dump" THEN EepromDumpWait ELSE 0
    /\ UNCHANGED <<state, cycles_waited>>

SequencerRise(trig, type) ==
    /\ next_state' = Successor(state, trig, type)
    /\ enables' = Asserted(state, type) \cup (enables \cap Held(state))
    /\ wait_for_state_change' = (state = "do_eeprom_dump")
    /\ num_wait_cycles' = IF state = "do_eeprom_dump" THEN EepromDumpWait ELSE 0
    /\ UNCHANGED <<state, cycles_waited>>

\* Mutant: the wait counter does not move.
WaitStuck ==
    /\ IF wait_for_state_change /\ cycles_waited < num_wait_cycles
       THEN UNCHANGED <<state, cycles_waited>>
       ELSE cycles_waited' = 0 /\ state' = next_state
    /\ UNCHANGED <<next_state, enables, wait_for_state_change, num_wait_cycles>>

SequencerFall ==
    /\ IF wait_for_state_change /\ cycles_waited < num_wait_cycles
       THEN cycles_waited' = cycles_waited + 1 /\ UNCHANGED state
       ELSE cycles_waited' = 0 /\ state' = next_state
    /\ UNCHANGED <<next_state, enables, wait_for_state_change, num_wait_cycles>>

SequencerReset ==
    /\ state' = "do_nop" /\ next_state' = "do_nop"
    /\ enables' = {}
    /\ wait_for_state_change' = FALSE
    /\ num_wait_cycles' = 0
    /\ cycles_waited' = 0
=============================================================================
