------------------------- MODULE PicCoreProperties -------------------------
(***************************************************************************)
(* What PicCore promises: the two abstract specifications it implements,   *)
(* with their refinement mappings, and its invariants.                     *)
(***************************************************************************)
EXTENDS PicCore

CONSTANT None

ASSUME NoneAssumption == None \notin Decoded /\ None \notin Word /\ None \notin Seq(Byte)

TypeOK ==
    /\ ReceiveType /\ DecoderType /\ SequencerType /\ AluType /\ DatapathType
    /\ RamType /\ OutputType /\ TimerType /\ HostType
    /\ clk \in BOOLEAN /\ reset \in BOOLEAN
    /\ commands_sent \in 0..MaxCommands
    /\ resets_done \in 0..MaxResets
    /\ timer_edges \in 0..MaxTimerEdges

\* A word is on its way: being sent to a running board, or received and not
\* yet taken up by the sequencer.
InTransit == (Sending /\ ~reset) \/ counter > 0

\* The sequencer is at work, or has enables out whose effect is not committed.
Busy == state # "do_nop" \/ next_state # "do_nop" \/ enables # {}

Flow == INSTANCE InstructionFlow
        WITH Instructions <- {Decode(word) : word \in Commands},
             pending <- IF InTransit THEN Decode(frame) ELSE None,
             active <- IF Busy THEN decoded ELSE None,
             running <- ~reset

(***************************************************************************)
(* The instruction takes effect, as one step, on the clock where the ALU   *)
(* computes (or where the memory is copied for a dump).  Until the clock   *)
(* that commits them, its effects are read from the enable lines.          *)
(***************************************************************************)
BeforeExecution ==
    \/ state = "do_nop" /\ next_state # "do_nop"
    \/ state \in {"do_ram_read", "do_alu_input_sel", "do_alu", "do_ram_dump"}
    \/ enables \cap {"alu", "ram_dump"} # {}

Uncommitted == ~BeforeExecution /\ state \in {"do_wait", "do_result"}

MemoryAfterClock ==
    NextBlock(enables, FALSE, FALSE, data_out_falling, data_out_rising, 0,
              DataToRam(decoded, alu_output_int), status_out_alu, decoded.address)

\* The running instruction has read TMR0 while it follows the external count:
\* to the program the count stands still until the instruction executes.
Following == Bit(ram_block[OPTION_ADDRESS], 5) = 1

Sampled ==
    /\ enables \cap {"alu_input_mux", "alu"} # {}
    /\ decoded.from_ram /\ Target(decoded.address) = TMR0_ADDRESS
    /\ Following

ProgramMemory ==
    IF "timer_write" \in enables THEN MemoryAfterClock
    ELSE CASE Uncommitted /\ ~Following ->
                  [ram_block EXCEPT ![TMR0_ADDRESS] = (@ + 1) % 256]
           [] Sampled ->
                  [ram_block EXCEPT ![TMR0_ADDRESS] =
                       IF "alu" \in enables THEN output_mux ELSE from_ram_to_alu]
           [] OTHER -> ram_block

ProgramW == IF "wreg" \in enables THEN DataToWreg(decoded, alu_output_int) ELSE w_output_int

ProgramStrobe ==
    reset_eecon \/ ("ram_write" \in enables /\ decoded.address = EECON_ADDRESS)

ProgramTodo ==
    (IF BeforeExecution THEN <<decoded>> ELSE <<>>)
    \o (IF InTransit THEN <<Decode(frame)>> ELSE <<>>)

ProgramAnswer ==
    IF ~Reading \/ reset \/ InTransit \/ BeforeExecution THEN None
    ELSE IF reader = DumpRam THEN [n \in 1..RamSize |-> ram_dump_int[n - 1]]
    ELSE <<alu_output_int>>

ExternalCount == (data_out_falling + data_out_rising) % 256

IdealPic == INSTANCE PicIsa
       WITH IsaRamSize <- RamSize,
            Instructions <- {Decode(word) : word \in Commands},
            w <- ProgramW, ram <- ProgramMemory,
            acc <- alu_output_int, last <- result, carried <- status_out_alu,
            skip <- skip_next, strobe <- ProgramStrobe,
            external_count <- ExternalCount, following <- Following,
            todo <- ProgramTodo, answer <- ProgramAnswer, shown <- printed,
            running <- ~reset

\* Every word sent is executed exactly once, as itself, and in order: the
\* trigger input_receive holds for three clocks starts the sequencer once, the
\* decoder latches the whole word, and no reset, gap or overlap of a new word
\* with a running instruction duplicates or changes one.
ExactlyOnce == Flow!FlowSpec

\* Seen from the program, each instruction is atomic: no stage of the pipeline
\* reads a stale operand, loses a write or commits twice, the registers STATUS,
\* TMR0, EECON and INDF change as the instruction says and only then, and the
\* host prints the value the instruction answered.
ImplementsIsa == IdealPic!IsaSpec

\* Between instructions the flags the ALU keeps for itself and the ones a
\* program reads from STATUS agree: ram.vhd copies the three flags on every
\* path that changed them, and no other write reaches them.  The one exception
\* is a read that was skipped: it clears the ALU's copy and writes no STATUS, so
\* the copies differ until the next instruction that stores.
FlagsAgree ==
    ~Busy /\ ~InTransit =>
        \/ ram_block[STATUS_ADDRESS] % 8 = status_out_alu % 8
        \/ status_out_alu = 0 /\ decoded.type \notin {Literal, ToWreg, ToRam}

\* The clock on which the ALU computes a sum, of an instruction not skipped.
Summing ==
    /\ "alu" \in enables /\ ~clk /\ clk' /\ ~reset
    /\ ~skip_next /\ decoded.opcode \in Sums

\* The sums of alu.vhd as numbers: what ADDWF and ADDLW leave in the byte and
\* the carry is the whole sum, and the subtractions leave operand minus W, with
\* the carry up when nothing was borrowed; but with W = 0, or its low digit 0,
\* the carry, or digit carry, stays down although nothing was borrowed.
ArithmeticFlags ==
    [][Summing =>
           LET m == output_mux
               w == w_output_int
               c == Bit(status_out_alu', 0)
               d == Bit(status_out_alu', 1)
           IN  /\ decoded.opcode \in {ADDWF, ADDLW} =>
                      /\ alu_output_int' + 256 * c = m + w
                      /\ (d = 1 <=> (m % 16) + (w % 16) > 15)
               /\ decoded.opcode \in {SUBWF, SUBLW} =>
                      /\ alu_output_int' = IF m >= w THEN m - w ELSE 256 + m - w
                      /\ (c = 1 <=> (w > 0 /\ m >= w))
                      /\ (d = 1 <=> (w % 16 > 0 /\ m % 16 >= w % 16))
               /\ (Bit(status_out_alu', 2) = 1 <=> alu_output_int' = 0)]_vars

\* The receive trigger is never up while a word is being shifted in, when the
\* decoder would latch it half way.
NoTriggerWhileShifting == trig_instruction_process => ~mosi_detected \/ counter < 4

\* The reading threads find their answer before RESULT_TIMEOUT and
\* MEM_DUMP_TIMEOUT edges have gone by, while the board is not held in reset.
AnswerInTime == Reading /\ ~reset => timeout < TimeoutLimit - 1

\* Every word sent to a running board is executed to the end.
EveryWordCompletes ==
    /\ InTransit ~> (Busy \/ reset)
    /\ Busy ~> ~Busy
=============================================================================
