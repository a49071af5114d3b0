------------------------------ MODULE HostLink ------------------------------
(***************************************************************************)
(* send_to_fpga of hw_if.c, system call by system call, against clk_thread *)
(* and the board's input_receive.vhd.  An edge of the clock makes the file *)
(* of the CLK_IN pin ready; the sender clears that with a read, polls, and *)
(* only then looks at the level of the clock pin.  Nothing makes it finish *)
(* before the next edge: an edge that finds it elsewhere than in poll is   *)
(* late.                                                                   *)
(***************************************************************************)
EXTENDS HostSetup, InputReceive

CONSTANTS LinkWords,      \* the frames that may be sent
          MinGap,         \* idle falling edges between two transfers
          MaxTransfers, MaxTimeouts, MaxLate

ASSUME LinkAssumption == /\ LinkWords \subseteq Word
                         /\ {MinGap, MaxTransfers, MaxTimeouts, MaxLate} \subseteq Nat

\* The pause between two commands is long enough for input_receive to count
\* down and be cleared, also when MOSI fell late.
ASSUME PauseAssumption == MinGap >= 6

VARIABLES clk_pin, event,             \* the level of the clock; an edge to report
          mosi, serial_in,            \* the pins MOSI and DATA
          pc, idx, binary_command,    \* send_to_fpga
          gap,                        \* falling edges since the last transfer
          late, timeouts,
          begun, completed, executed  \* history: transfers, their words, the board's words

sender_vars == <<pc, idx, binary_command>>
pin_vars == <<mosi, serial_in>>
link_vars == <<setup_vars, receive_vars, clk_pin, event, mosi, serial_in, pc, idx,
               binary_command, gap, late, timeouts, begun, completed, executed>>

InitHostLink ==
    /\ SetupInit /\ ReceiveInit
    /\ clk_pin = FALSE /\ event = FALSE
    /\ mosi = FALSE /\ serial_in = 0
    /\ pc = "idle" /\ idx = 0 /\ binary_command = ZeroWord
    /\ gap = MinGap
    /\ late = 0 /\ timeouts = 0
    /\ begun = 0 /\ completed = <<>> /\ executed = <<>>

Setup ==
    /\ SetupNext
    /\ UNCHANGED <<receive_vars, clk_pin, event, pin_vars, sender_vars, gap, late, timeouts,
                   begun, completed, executed>>

-----------------------------------------------------------------------------
\* The two edges of clk_thread, with the clock enabled.
Waiting == pc = "idle" \/ (pc = "poll" /\ ~event)

Edge(level) ==
    /\ stage = "ready"
    /\ clk_pin = ~level /\ clk_pin' = level
    /\ event' = TRUE
    /\ Waiting \/ late < MaxLate
    /\ late' = IF Waiting THEN late ELSE late + 1
    /\ UNCHANGED <<setup_vars, pin_vars, sender_vars, timeouts, begun, completed>>

ClockFall ==
    /\ Edge(FALSE)
    /\ gap' = IF pc = "idle" /\ gap < MinGap THEN gap + 1 ELSE gap
    /\ UNCHANGED <<receive_vars, executed>>

\* The board shifts on rising edges, and takes a word over when its trigger
\* comes up.
ClockRise ==
    /\ Edge(TRUE)
    /\ ReceiveRise(mosi, serial_in)
    /\ UNCHANGED gap
    /\ executed' = IF trig_instruction_process' /\ ~trig_instruction_process
                   THEN Append(executed, binary_string) ELSE executed

-----------------------------------------------------------------------------
SenderStep == UNCHANGED <<setup_vars, receive_vars, clk_pin, late, executed>>

\* send_command_to_fpga calls send_to_fpga; the file of the pin may fail to
\* open, and then nothing happens.
Begin ==
    /\ stage = "ready" /\ pc = "idle" /\ gap = MinGap /\ begun < MaxTransfers
    /\ \E word \in LinkWords : binary_command' = word
    /\ pc' = "read" /\ idx' = 0
    /\ begun' = begun + 1
    /\ SenderStep
    /\ UNCHANGED <<event, pin_vars, gap, timeouts, completed>>

Read ==
    /\ pc = "read" /\ pc' = "poll"
    /\ event' = FALSE
    /\ SenderStep
    /\ UNCHANGED <<pin_vars, idx, binary_command, gap, timeouts, begun, completed>>

Poll ==
    /\ pc = "poll" /\ event
    /\ pc' = "sample"
    /\ SenderStep
    /\ UNCHANGED <<event, pin_vars, idx, binary_command, gap, timeouts, begun, completed>>

\* Mutant: a broken transfer ends the word.
TimeoutEndsWord ==
    /\ pc = "poll" /\ ~event /\ timeouts < MaxTimeouts
    /\ timeouts' = timeouts + 1
    /\ pc' = "idle" /\ gap' = 0 /\ mosi' = FALSE
    /\ SenderStep
    /\ UNCHANGED <<event, serial_in, idx, binary_command, begun, completed>>

\* poll gives up, or fails: MOSI and DATA stay as they are.
PollEnds ==
    /\ pc = "poll" /\ ~event /\ timeouts < MaxTimeouts
    /\ timeouts' = timeouts + 1
    /\ pc' = "idle" /\ gap' = 0
    /\ SenderStep
    /\ UNCHANGED <<event, pin_vars, idx, binary_command, begun, completed>>

\* The level read now decides which edge this was.
Sample ==
    /\ pc = "sample"
    /\ pc' = CASE clk_pin                            -> "read"
               [] ~clk_pin /\ idx = 0                -> "set_mosi"
               [] ~clk_pin /\ idx \in 1..FRAME_BITS - 1 -> "set_data"
               [] ~clk_pin /\ idx = FRAME_BITS       -> "clear_mosi"
    /\ SenderStep
    /\ UNCHANGED <<event, pin_vars, idx, binary_command, gap, timeouts, begun, completed>>

SetMosi ==
    /\ pc = "set_mosi" /\ pc' = "set_data"
    /\ mosi' = TRUE
    /\ SenderStep
    /\ UNCHANGED <<event, serial_in, idx, binary_command, gap, timeouts, begun, completed>>

SetData ==
    /\ pc = "set_data" /\ pc' = "read"
    /\ serial_in' = binary_command[FRAME_BITS - 1 - idx]
    /\ idx' = idx + 1
    /\ SenderStep
    /\ UNCHANGED <<event, mosi, binary_command, gap, timeouts, begun, completed>>

\* Mutant: MOSI is left high at the end of the frame.
MosiLeftHigh ==
    /\ pc = "clear_mosi" /\ pc' = "idle"
    /\ idx' = idx + 1
    /\ completed' = Append(completed, binary_command)
    /\ gap' = 0
    /\ SenderStep
    /\ UNCHANGED <<event, pin_vars, binary_command, timeouts, begun>>

ClearMosi ==
    /\ pc = "clear_mosi" /\ pc' = "idle"
    /\ mosi' = FALSE
    /\ idx' = idx + 1
    /\ completed' = Append(completed, binary_command)
    /\ gap' = 0
    /\ SenderStep
    /\ UNCHANGED <<event, serial_in, binary_command, timeouts, begun>>

Transfer == Begin \/ Read \/ Poll \/ PollEnds \/ Sample \/ SetMosi \/ SetData \/ ClearMosi

HostLinkNext == Setup \/ ClockRise \/ ClockFall \/ Transfer

HostLinkSpec == InitHostLink /\ [][HostLinkNext]_link_vars

-----------------------------------------------------------------------------
Steps == {"idle", "read", "poll", "sample", "set_mosi", "set_data", "clear_mosi"}

\* The variables keep their types.
HostLinkTypeOK ==
    /\ SetupType /\ ReceiveType
    /\ clk_pin \in BOOLEAN /\ event \in BOOLEAN
    /\ mosi \in BOOLEAN /\ serial_in \in {0, 1}
    /\ pc \in Steps /\ idx \in 0..FRAME_BITS + 1 /\ binary_command \in Word
    /\ gap \in 0..MinGap /\ late \in Nat /\ timeouts \in Nat
    /\ begun \in Nat /\ completed \in Seq(Word) /\ executed \in Seq(Word)

\* The clock runs and commands are sent only with every pin of the program
\* set to its direction, whatever an earlier program made of it, and no other
\* pin is ever touched (init_pins of gpio_setup.c and its comment on OUT_GPIO).
PinsConfigured ==
    /\ \A p \in OtherPins : function[p] = found[p]
    /\ (clk_pin \/ pc # "idle" \/ stage = "ready") =>
           /\ gpio_map /\ ~mem_fd
           /\ \A p \in OutPins : function[p] = OUTPUT
           /\ \A p \in InPins : function[p] = INPUT

\* A word that was completely sent, and nothing else, makes the board execute
\* once, however late the sender handles the edges and however a transfer was
\* broken off before (send_to_fpga of hw_if.c, input_receive.vhd).
OneWordPerTransfer ==
    /\ Len(executed) \in {Len(completed), Len(completed) - 1}
    /\ (pc = "idle" /\ gap = MinGap /\ ~mosi) => Len(executed) = Len(completed)

\* As long as no edge is late, what the board executes is what was sent, also
\* after a transfer that a timeout broke off with MOSI high: the board goes on
\* shifting, and the next frame drives the rest of the broken one out.
WordsAsSent ==
    late = 0 => \A i \in 1..Len(executed) :
                    i \in DOMAIN completed /\ executed[i] = completed[i]
=============================================================================
