------------------------- MODULE CommandProcessing -------------------------
(***************************************************************************)
(* The program on the Raspberry Pi: the main thread that reads lines from  *)
(* the user (run_app), from the test file (run_tests) or from a file named *)
(* by READ_FILE and acts on them, and the two clock threads, which share   *)
(* the globals of common_data.c with it.  The bits of a transfer are       *)
(* HostSerial's matter; here a transfer takes falling edges of the clock.  *)
(***************************************************************************)
EXTENDS CommandEncoding

CONSTANTS Scripts,       \* what may come from stdin or the test file
          Files,         \* the files READ_FILE can open, by number
          ReadEdges      \* falling edges for which a reading thread may live

\* A line's first word is a command, nothing at all, the start of what run_tests
\* skips, or, "chopped", anything else.  A text is a sequence of lines and whether
\* a newline ends the last of them.
Name == SwCommands \cup HwCommands \cup {"", "comment", "header", "chopped"}
Line == [name : Name, args : Seq(Nat)]
Text == [lines : Seq(Line), newline : BOOLEAN]

ASSUME CommandAssumption == /\ Scripts \subseteq Text
                            /\ DOMAIN Files \subseteq Nat \ {0}
                            /\ \A f \in DOMAIN Files : Files[f] \in Text
                            /\ ReadEdges \subseteq Nat \ {0}

VARIABLES mode, input, input_pos,       \* "app" or "tests", and what is read
          file, file_pos,               \* the open file of READ_FILE, or NoFile
          pc, command,                  \* the main thread and its command
          settings,                     \* the globals of common_data.c, the reset pin
          binary_command, bits_left, reader_left, send_status,
          thread, pin,                  \* the two clock threads and their pins
          delivered, file_start, failed \* history: what was sent; if a command failed

source == <<mode, input>>
transfer == <<binary_command, bits_left, reader_left, send_status>>
clocks == <<thread, pin>>
vars == <<mode, input, input_pos, file, file_pos, pc, command, settings,
          binary_command, bits_left, reader_left, send_status, thread, pin,
          delivered, file_start, failed>>

NoFile == 0
SLAVE_ID_FPGA == 0
SLAVE_ID_ARDUINO == 1
Threads == {"clk", "timer_ext_clk"}
CLK_FREQ_DEFAULT == 4000

\* poll_timeout in milliseconds: ten clock periods, rounded.
PollTimeout(freq) == (20000 + freq) \div (2 * freq)

Answered == {"READ_WREG", "READ_ADDRESS", "READ_STATUS", "DUMP_RAM", "DUMP_EEPROM"}

\* A line that loses its last character: a digit, or the end of its name.
Chopped(line) ==
    LET last == Len(line.args) IN
    IF last > 0 /\ (line.args[last] > 9 \/ line.name = "echo")
    THEN [line EXCEPT !.args[last] = @ \div 10]
    ELSE [line EXCEPT !.name = "chopped"]

\* line[strlen(line) - 1] = '\0' of process_one_line and process_one_line_from_tb_file.
LineRead(text, i) ==
    IF i = Len(text.lines) /\ ~text.newline THEN Chopped(text.lines[i]) ELSE text.lines[i]

\* The threads start before the first line; pins are low as after power-up
\* and after each normal end, except RESET, which run_tests may leave high.
Init ==
    /\ mode \in {"app", "tests"}
    /\ input \in Scripts /\ input_pos = 0
    /\ file = NoFile /\ file_pos = 0
    /\ pc = "reading"
    /\ command = [name |-> "", args |-> <<>>]
    /\ settings \in [slave_id : {SLAVE_ID_FPGA}, clk_enable : {FALSE}, clk_exit : {FALSE},
                     clk_freq : {CLK_FREQ_DEFAULT}, reset : BOOLEAN]
    /\ binary_command = ZeroWord
    /\ bits_left = 0 /\ reader_left = 0 /\ send_status = TRUE
    /\ thread = [t \in Threads |-> "check_exit"]
    /\ pin = [t \in Threads |-> FALSE]
    /\ delivered = <<>> /\ file_start = 0 /\ failed = FALSE

-----------------------------------------------------------------------------
\* Mutant: a failing command never ends the tests.
RefuseAlone ==
    /\ failed' = TRUE
    /\ file' = NoFile
    /\ pc' = "reading"

\* A command that fails: an open file is closed, run_app goes on and
\* run_tests ends.
Refuse ==
    /\ failed' = TRUE
    /\ file' = NoFile
    /\ pc' = IF mode = "app" THEN "reading" ELSE "closing"

\* Mutant: the clock is not checked.
SendableUnclocked(c) == c.name \in Encodable

Sendable(c) == c.name \in Encodable /\ settings.clk_enable

\* send_command_to_fpga up to the start of the transfer; the pin to poll may
\* also fail to open.
SendToFpga(c) ==
    /\ settings.slave_id = SLAVE_ID_FPGA
    /\ \/ /\ Sendable(c)
          /\ pc' = "sending"
          /\ binary_command' = EncodedWord(c)
          /\ bits_left' = FRAME_BITS + 1
          /\ reader_left' \in IF c.name \in Answered THEN ReadEdges ELSE {0}
          /\ send_status' = TRUE
          /\ UNCHANGED <<file, failed>>
       \/ Refuse /\ UNCHANGED transfer

\* send_command_to_arduino: the port may fail to open; else the whole line is sent.
SendToArduino ==
    /\ settings.slave_id = SLAVE_ID_ARDUINO
    /\ \/ pc' = "waiting" /\ UNCHANGED <<file, failed>>
       \/ Refuse
    /\ UNCHANGED transfer

\* No other slave_id occurs.
SendCommandToHw(c) == SendToFpga(c) \/ SendToArduino

\* process_hw_command.
HwCommand(c) ==
    \/ /\ c.name = "READ_FILE" /\ settings.slave_id = SLAVE_ID_FPGA
       /\ IF c.args[1] \in DOMAIN Files
          THEN /\ file' = c.args[1] /\ file_pos' = 0 /\ file_start' = Len(delivered)
               /\ UNCHANGED <<pc, failed>>
          ELSE Refuse /\ UNCHANGED <<file_pos, file_start>>
       /\ UNCHANGED transfer
    \/ /\ ~(c.name = "READ_FILE" /\ settings.slave_id = SLAVE_ID_FPGA)
       /\ SendCommandToHw(c)
       /\ UNCHANGED <<file_pos, file_start>>

Updated(c) ==
    CASE c.name = "SELECT_SLAVE"  -> [settings EXCEPT !.slave_id = c.args[1]]
      [] c.name = "ENABLE_CLOCK"  -> [settings EXCEPT !.clk_enable = TRUE]
      [] c.name = "DISABLE_CLOCK" -> [settings EXCEPT !.clk_enable = FALSE]
      [] c.name = "ENABLE_RESET"  -> [settings EXCEPT !.reset = TRUE]
      [] c.name = "DISABLE_RESET" -> [settings EXCEPT !.reset = FALSE]
      [] c.name = "SET_CLK_FREQ"  -> [settings EXCEPT !.clk_freq = c.args[1]]
      [] c.name = "EXIT"          -> [settings EXCEPT !.reset = FALSE, !.clk_exit = TRUE]
      [] OTHER                    -> settings

\* Mutant: is_slave_valid is not asked.
SwCommandAnySlave(c) ==
    /\ settings' = Updated(c)
    /\ pc' = IF c.name = "EXIT" THEN "closing" ELSE pc
    /\ UNCHANGED <<file, failed, file_pos, file_start, transfer>>

\* process_sw_command.
SwCommand(c) ==
    /\ IF c.name = "SELECT_SLAVE" /\ c.args[1] \notin {SLAVE_ID_FPGA, SLAVE_ID_ARDUINO}
       THEN Refuse /\ UNCHANGED settings
       ELSE /\ settings' = Updated(c)
            /\ pc' = IF c.name = "EXIT" THEN "closing" ELSE pc
            /\ UNCHANGED <<file, failed>>
    /\ UNCHANGED <<file_pos, file_start, transfer>>

\* One line in run_app or process_one_line_from_tb_file.  Only the latter
\* knows comments and headers, before it cuts off the last character.
ReadLine ==
    /\ pc = "reading" /\ file = NoFile /\ input_pos < Len(input.lines)
    /\ input_pos' = input_pos + 1
    /\ LET raw == input.lines[input_pos + 1]
           c   == IF mode = "app" THEN raw ELSE LineRead(input, input_pos + 1)
       IN  /\ command' = c
           /\ \/ /\ mode = "tests" /\ raw.name \in {"comment", "header"}
                 /\ UNCHANGED <<pc, file, file_pos, settings, transfer, file_start, failed>>
              \/ /\ ~(mode = "tests" /\ raw.name \in {"comment", "header"})
                 /\ ~Accepted(c)
                 /\ Refuse
                 /\ UNCHANGED <<file_pos, settings, transfer, file_start>>
              \/ Accepted(c) /\ c.name \in SwCommands /\ SwCommand(c)
              \/ Accepted(c) /\ c.name \in HwCommands /\ HwCommand(c) /\ UNCHANGED settings
    /\ UNCHANGED <<source, clocks, delivered>>

\* Mutant: a line of a file is dispatched like one of the user.
ObeyFileLine(c) ==
    IF Accepted(c) /\ c.name \in SwCommands
    THEN settings' = Updated(c) /\ UNCHANGED <<pc, file, failed, transfer, file_start>>
    ELSE IF Accepted(c) THEN SendCommandToHw(c) /\ UNCHANGED <<file_start, settings>>
    ELSE UNCHANGED <<pc, file, failed, transfer, file_start, settings>>

\* Mutant: a line that cannot be sent is passed over like one that is no command.
SkipFailing(c) ==
    IF Accepted(c) /\ (settings.slave_id = SLAVE_ID_ARDUINO \/ Sendable(c))
    THEN SendCommandToHw(c) /\ UNCHANGED <<file_start, settings>>
    ELSE UNCHANGED <<pc, file, failed, transfer, file_start, settings>>

\* process_one_line: what is no command is passed over, and any command,
\* SW commands included, goes to send_command_to_hw.
FileLine(c) ==
    IF Accepted(c) THEN SendCommandToHw(c) /\ UNCHANGED <<file_start, settings>>
    ELSE UNCHANGED <<pc, file, failed, transfer, file_start, settings>>

ReadFileLine ==
    /\ pc = "reading" /\ file # NoFile /\ file_pos < Len(Files[file].lines)
    /\ file_pos' = file_pos + 1
    /\ command' = LineRead(Files[file], file_pos + 1)
    /\ FileLine(LineRead(Files[file], file_pos + 1))
    /\ UNCHANGED <<source, input_pos, clocks, delivered>>

EndOfFile ==
    /\ pc = "reading" /\ file # NoFile /\ file_pos = Len(Files[file].lines)
    /\ file' = NoFile
    /\ UNCHANGED <<source, input_pos, file_pos, pc, command, settings, transfer, clocks,
                   delivered, file_start, failed>>

\* run_tests leaves its loop at the end of the file; run_app, whose fgets
\* fails from then on, stays in its loop.
EndOfInput ==
    /\ mode = "tests"
    /\ pc = "reading" /\ file = NoFile /\ input_pos = Len(input.lines)
    /\ pc' = "closing"
    /\ UNCHANGED <<source, input_pos, file, file_pos, command, settings, transfer, clocks,
                   delivered, file_start, failed>>

Delivery(word) == [slave |-> settings.slave_id, command |-> command, word |-> word]

\* send_command_to_fpga after the transfer, when the reading thread is joined.
SendDone ==
    /\ pc = "sending" /\ bits_left = 0 /\ reader_left = 0
    /\ IF send_status
       THEN /\ delivered' = Append(delivered, Delivery(binary_command))
            /\ pc' = "reading"
            /\ UNCHANGED <<file, failed>>
       ELSE Refuse /\ UNCHANGED delivered
    /\ UNCHANGED <<source, input_pos, file_pos, command, settings, transfer, clocks, file_start>>

\* poll returns before an edge comes when it may not wait at all.
PollExpires ==
    /\ pc = "sending" /\ PollTimeout(settings.clk_freq) = 0
    /\ \/ bits_left > 0 /\ bits_left' = 0 /\ send_status' = FALSE /\ UNCHANGED reader_left
       \/ reader_left > 0 /\ reader_left' = 0 /\ UNCHANGED <<bits_left, send_status>>
    /\ UNCHANGED binary_command
    /\ UNCHANGED <<source, input_pos, file, file_pos, pc, command, settings, clocks,
                   delivered, file_start, failed>>

\* receive_response: the Arduino has sent its line.
Response ==
    /\ pc = "waiting"
    /\ delivered' = Append(delivered, Delivery(ZeroWord))
    /\ pc' = "reading"
    /\ UNCHANGED <<source, input_pos, file, file_pos, command, settings, transfer, clocks,
                   file_start, failed>>

\* main after run_app or run_tests: stop the threads, then join them.
StopThreads ==
    /\ pc = "closing"
    /\ pc' = "joining"
    /\ settings' = [settings EXCEPT !.clk_exit = TRUE]
    /\ UNCHANGED <<source, input_pos, file, file_pos, command, transfer, clocks, delivered,
                   file_start, failed>>

JoinThreads ==
    /\ pc = "joining"
    /\ \A t \in Threads : thread[t] = "done"
    /\ pc' = "ended"
    /\ UNCHANGED <<source, input_pos, file, file_pos, command, settings, transfer, clocks,
                   delivered, file_start, failed>>

-----------------------------------------------------------------------------
\* clk_thread and timer_ext_clk_thread: two reads of globals, then a period.
program == <<source, input_pos, file, file_pos, pc, command, settings, delivered,
             file_start, failed>>

\* Mutant: the exit flag is looked at only while the clock is enabled.
ExitWhenEnabled(t) ==
    /\ thread[t] = "check_exit"
    /\ thread' = [thread EXCEPT ![t] = IF settings.clk_exit /\ settings.clk_enable THEN "done"
                                       ELSE "check_enable"]
    /\ UNCHANGED <<pin, transfer, program>>

CheckExit(t) ==
    /\ thread[t] = "check_exit"
    /\ thread' = [thread EXCEPT ![t] = IF settings.clk_exit THEN "done" ELSE "check_enable"]
    /\ UNCHANGED <<pin, transfer, program>>

PinHigh(t) ==
    /\ thread[t] = "check_enable"
    /\ IF settings.clk_enable
       THEN /\ thread' = [thread EXCEPT ![t] = "high"]
            /\ pin' = [pin EXCEPT ![t] = TRUE]
       ELSE /\ thread' = [thread EXCEPT ![t] = "check_exit"]
            /\ UNCHANGED pin
    /\ UNCHANGED <<transfer, program>>

\* The falling edge of the clock is one edge of the transfer and its reader.
TransferEdge(t) ==
    /\ bits_left' = IF t = "clk" /\ bits_left > 0 THEN bits_left - 1 ELSE bits_left
    /\ reader_left' = IF t = "clk" /\ reader_left > 0 THEN reader_left - 1 ELSE reader_left
    /\ UNCHANGED <<binary_command, send_status>>

\* Mutant: the thread breaks off in the middle of a period.
LowUnlessExit(t) ==
    /\ thread[t] = "high"
    /\ thread' = [thread EXCEPT ![t] = IF settings.clk_exit THEN "done" ELSE "check_exit"]
    /\ pin' = [pin EXCEPT ![t] = settings.clk_exit]
    /\ TransferEdge(t)
    /\ UNCHANGED program

PinLow(t) ==
    /\ thread[t] = "high"
    /\ thread' = [thread EXCEPT ![t] = "check_exit"]
    /\ pin' = [pin EXCEPT ![t] = FALSE]
    /\ TransferEdge(t)
    /\ UNCHANGED program

ThreadStep(t) == CheckExit(t) \/ PinHigh(t) \/ PinLow(t)

Next ==
    \/ ReadLine \/ ReadFileLine \/ EndOfFile \/ EndOfInput
    \/ SendDone \/ PollExpires \/ Response
    \/ StopThreads \/ JoinThreads
    \/ \E t \in Threads : ThreadStep(t)

\* The threads run on, and the main thread does whatever does not wait for
\* a user or for the Arduino.
Fairness ==
    /\ \A t \in Threads : WF_vars(ThreadStep(t))
    /\ WF_vars(SendDone) /\ WF_vars(StopThreads) /\ WF_vars(JoinThreads)
    /\ WF_vars(ReadFileLine) /\ WF_vars(EndOfFile)

Spec == Init /\ [][Next]_vars

FairSpec == Spec /\ Fairness
=============================================================================
