------------------------- MODULE CommandProperties -------------------------
(***************************************************************************)
(* What a user of the Raspberry Pi's program relies on.                    *)
(***************************************************************************)
EXTENDS CommandProcessing

\* The decoder of the board; only its operator Decode is used.
Board == INSTANCE InstructionDecoder WITH decoded <- command, trig_state_machine <- send_status

BoardOpcode ==
    [ADDWF |-> ADDWF, ANDWF |-> ANDWF, CLR |-> CLR, COMF |-> COMF, DECF |-> DECF,
     DECFSZ |-> DECFSZ, INCF |-> INCF, INCFSZ |-> INCFSZ, IORWF |-> IORWF, MOVF |-> MOVF,
     RLF |-> RLF, RRF |-> RRF, SUBWF |-> SUBWF, SWAPF |-> SWAPF, XORWF |-> XORWF,
     ADDLW |-> ADDLW, ANDLW |-> ANDLW, IORLW |-> IORLW, MOVLW |-> MOVLW, SUBLW |-> SUBLW,
     XORLW |-> XORLW, BCF |-> BCF, BSF |-> BSF, READ_WREG |-> READ_WREG,
     READ_STATUS |-> READ_STATUS, READ_ADDRESS |-> READ_ADDRESS, DUMP_RAM |-> DUMP_RAM,
     DUMP_EEPROM |-> DUMP_EEPROM, NOP |-> NOP]

AtMost(n, max) == IF n > max THEN max ELSE n

\* The outputs of the decoder: a command has an operand in memory (from_ram), goes
\* to memory (to_ram) or is answered (to_sw).
Outputs(opcode, bit_idx, address, literal, from_ram, to_ram, to_sw, type) ==
    [opcode |-> opcode, bit_idx |-> bit_idx, address |-> address, literal |-> literal,
     from_ram |-> from_ram, to_ram |-> to_ram, to_sw |-> to_sw, type |-> type]

\* What the decoder should make of a command: operands out of range count as
\* the largest one, but READ_ADDRESS has an eighth bit, which the board drops.
Meaning(c) ==
    LET op == BoardOpcode[c.name] IN
    CASE c.name \in BitOriented ->
             Outputs(op, AtMost(c.args[1], 7), AtMost(c.args[2], 127), 0, TRUE, TRUE, FALSE, ToRam)
      [] c.name \in BitOrByteInstructions \ BitOriented ->
             Outputs(op, 0, AtMost(c.args[2], 127), 0, TRUE, c.args[1] > 0, FALSE,
                     IF c.args[1] > 0 THEN ToRam ELSE ToWreg)
      [] c.name = "READ_ADDRESS" ->
             Outputs(op, 0, AtMost(c.args[1], 255) % 128, 0, TRUE, FALSE, TRUE, ReadMem)
      [] c.name \in LiteralInstructions \ {"READ_ADDRESS"} ->
             Outputs(op, 0, 0, AtMost(c.args[1], 255), FALSE, FALSE, FALSE, Literal)
      [] c.name \in {"READ_WREG", "READ_STATUS"} ->
             Outputs(op, 0, 0, 0, FALSE, FALSE, TRUE, ReadReg)
      [] c.name = "DUMP_RAM"    -> Outputs(op, 0, 0, 0, FALSE, FALSE, FALSE, DumpRam)
      [] c.name = "DUMP_EEPROM" -> Outputs(op, 0, 0, 0, FALSE, FALSE, FALSE, DumpEeprom)
      [] c.name = "NOP"         -> Outputs(op, 0, 0, 0, FALSE, FALSE, FALSE, Literal)

SettingsOK == settings \in [slave_id : {SLAVE_ID_FPGA, SLAVE_ID_ARDUINO}, clk_enable : BOOLEAN,
                            clk_exit : BOOLEAN, clk_freq : Nat, reset : BOOLEAN]
SourceOK == /\ mode \in {"app", "tests"} /\ input \in Scripts
            /\ input_pos \in 0..Len(input.lines)
FileOK == /\ file \in DOMAIN Files \cup {NoFile}
          /\ file # NoFile => file_pos \in 0..Len(Files[file].lines)
ControlOK == /\ command \in Line
             /\ pc \in {"reading", "sending", "waiting", "closing", "joining", "ended"}
TransferOK == /\ binary_command \in Word /\ bits_left \in 0..FRAME_BITS + 1
              /\ reader_left \in Nat /\ send_status \in BOOLEAN
ClocksOK == /\ thread \in [Threads -> {"check_exit", "check_enable", "high", "done"}]
            /\ pin \in [Threads -> BOOLEAN]
HistoryOK == file_start \in 0..Len(delivered) /\ failed \in BOOLEAN

\* The globals keep values the code knows (slave_id above all: the branches for
\* an invalid one in hw_if.c and process_command.c are never taken), and the
\* read positions stay within their texts.
CommandTypeOK == /\ SettingsOK /\ SourceOK /\ FileOK /\ ControlOK
                 /\ TransferOK /\ ClocksOK /\ HistoryOK

\* Each word that create_binary_command of hw_if.c makes is decoded by
\* serial_to_parallel_instruction.vhd as the command that the user wrote.
DeliveredAsWritten ==
    \A i \in DOMAIN delivered :
        delivered[i].slave = SLAVE_ID_FPGA
            => Board!Decode(delivered[i].word) = Meaning(delivered[i].command)

\* The lines among the first n of a text that are commands, and a sequence of
\* lines that holds each of them once and in order: at[i] is where line i is from.
CommandsOf(text, n) == {i \in 1..n : Accepted(LineRead(text, i))}

OneByOne(lines, text, n) ==
    \E at \in [1..Len(lines) -> CommandsOf(text, n)] :
        /\ \A i, j \in 1..Len(lines) : i < j => at[i] < at[j]
        /\ \A k \in CommandsOf(text, n) : \E i \in 1..Len(lines) : at[i] = k
        /\ \A i \in 1..Len(lines) : lines[i] = LineRead(text, at[i])

\* What has been delivered since the file was opened, and how many lines of it
\* are done with.
DeliveredOfFile ==
    [i \in 1..Len(delivered) - file_start |-> delivered[file_start + i].command]
Handled == IF pc \in {"sending", "waiting"} THEN file_pos - 1 ELSE file_pos

\* process_commands_from_file: while a file is open, its commands have been
\* delivered one by one, none lost, repeated or reordered, and none after one
\* that failed.
FileInOrder == file # NoFile => OneByOne(DeliveredOfFile, Files[file], Handled)

\* Nothing changes the globals of common_data.c or the reset line between the
\* start of a command and its end, a whole READ_FILE included.
SettingsFixedWhileBusy ==
    [][(pc \in {"sending", "waiting"} \/ file # NoFile) => settings' = settings]_vars

\* run_tests stops at the first failing command, also when it failed within a
\* file of READ_FILE: nothing more is read or delivered (app.c:112, 144).
TestsStopAtFailure ==
    [][mode = "tests" /\ failed => UNCHANGED <<input_pos, file, delivered>>]_vars

\* When main has joined them, clk_thread and timer_ext_clk_thread have
\* finished the period they were in and left their pins low.
ClocksLeftLow == pc = "ended" => \A t \in Threads : thread[t] = "done" /\ ~pin[t]

\* A transfer begun by send_command_to_fpga always ends: the clock it waits
\* for is running and stays so.
TransferEnds == pc = "sending" ~> pc # "sending"

\* Every file that READ_FILE opens is closed again: no line of it can turn to
\* the Arduino, whose answer may never come, or stop the clock.
FileEnds == file # NoFile ~> file = NoFile

\* After EXIT, the end of the tests or a failing test the program ends, also
\* if the clock was never enabled.
ProgramEnds == pc = "closing" ~> pc = "ended"

-----------------------------------------------------------------------------
\* is_slave_valid warns "Invalid slave_id %d, setting to %d" with
\* SLAVE_ID_FPGA (process_command.c:212).
InvalidSlaveSelectsFpga ==
    [][command' # command /\ command'.name = "SELECT_SLAVE" /\ command'.args[1] > 1
           => settings'.slave_id = SLAVE_ID_FPGA]_vars

\* line[strlen(line) - 1] = '\0' is there to "Remove trailing newline"
\* (process_command.c:318): what is executed is what the file says.
LinesAsInFile ==
    file # NoFile /\ file_pos > 0 => command = Files[file].lines[file_pos]
=============================================================================
