-------------------------- MODULE EepromProperties --------------------------
(***************************************************************************)
(* What the path from EECON to the EEPROM and back must guarantee.         *)
(***************************************************************************)
EXTENDS EepromLink

CONSTANT DumpPeriods    \* the host clocks at which DUMP_EEPROM works

\* The registers of both ends stay within their widths.
EepromTypeOK ==
    /\ RamType
    /\ master \in Masters /\ ChipTypeOK(chip) /\ phase \in Phases
    /\ tick \in 0..period /\ since \in 0..PauseClocks
    /\ request \in {"none", "read", "write", "dump"} /\ served \in BOOLEAN
    /\ buffer \in Byte

\* Whatever the alignment of the two clocks, a request that was strobed for
\* one host clock is seen, carried out once and answered: through the wires a
\* program finds the registers and the memory of EepromPort, bit for bit
\* (i2c.vhd, ram.vhd, pcf8582_simulator.vhd; tb_input.txt tests 31 and 32).
ImplementsPort == Port!PortSpec

\* A request is over and the master idle again before the next command can
\* come: otherwise the command's strobe would be lost, or its operand
\* overwritten by the 201 cycles in which write_to_ram is held.
OverBeforeNextCommand ==
    Settled => /\ request = "none"
               /\ master.next_state = "i2c_nop" /\ ~WritesToRam(master)

\* With a suitable clock, DUMP_EEPROM leaves in the dump register the byte of
\* every address: each of its reads is over when the seventh clock takes the
\* byte (write_eeprom_dump of ram.vhd counts clocks and waits for nothing).
DumpReadsMemory ==
    request = "dump" /\ dump_clocks = 0 /\ period \in DumpPeriods =>
        \A a \in 0..EepromSize - 1 : eeprom_dump_int[a] = Stored(chip.eeprom, a)

\* While SCL is high the master moves SDA only to make a start or a stop
\* condition, which the EEPROM would take any other movement for.
OnlyStartAndStopWhileHigh ==
    [][ (phase \in {"high_fall", "high_rise"} /\ master.scl_enable
            /\ {master.sda_output, master'.sda_output} = {0, 1}) =>
            \/ master.outputs \in {"create_start_cond", "create_repeated_start_cond"}
               /\ master'.sda_output = 0
            \/ master.outputs = "create_stop_cond" /\ master'.sda_output = 1
            \/ resets' # resets
      ]_link_vars
=============================================================================
