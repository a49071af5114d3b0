# A TLA+ model of PIC-FPGA

PIC-FPGA is a small microcontroller (after Microchip's PIC16F84A) in VHDL, a control
program on a Raspberry Pi that clocks it and feeds it instructions over a serial link, an
Arduino on a USB line, and an adder behind a kernel driver on a second board. This
directory holds TLA+ modules of all of them, the TLC configurations that check them, and
TLAPS proofs about them.

## The system

| part | source | state | operations |
|------|--------|-------|------------|
| `input_receive` | hw/src/input_receive.vhd | shift register, `mosi_detected`, countdown, receive trigger | shift, count down, clear |
| instruction decoder | hw/src/serial_to_parallel_instruction.vhd | latched fields, sequencer trigger | latch a word |
| sequencer | hw/src/state_machine.vhd | state, next state, enable lines, wait counter | outputs on the rising, state on the falling edge |
| ALU and datapath | alu, w_register, alu_input_mux, alu_output_demux | output, flags, skip flag, last result, W | compute, load |
| memory | hw/src/ram.vhd | 127 bytes with special registers, dump counters, registered outputs | read, write, dumps, STATUS, TMR0 and EECON updates |
| output shifter | hw/src/parallel_to_serial_output.vhd | bits left, bytes to send, `miso` | load, shift |
| timer | hw/src/timer.vhd | two edge counters | external edges |
| I2C master, clock divider | hw/src/i2c.vhd, clk_div.vhd | protocol state, bit counters, SDA/SCL | read or write one EEPROM byte |
| EEPROM chip | hw/src/pcf8582_simulator.vhd | memory, protocol state | answer the master |
| pin setup | gpio_setup.c | mapped registers, functions of the pins | map, set inputs and outputs |
| host link | sw/.../hw_if.c | the transfer, a reading thread, the clock threads | send a word, read a byte or a dump |
| command loops | app.c, process_command.c, common_data.c | slave, clock and reset settings | parse, dispatch, READ_FILE |
| Arduino | sw/src/arduino/arduino.ino | last message | answer one line |
| adder | hps_adder.vhd, adder_driver.c, adder/main.c, first_test/main.c | operands, sum; what the module holds; each program's file | load and remove the module, write operands, read sum |

The host drives everything: `clk_thread` toggles the board's clock, `send_to_fpga` puts one
bit of a 14-bit word on each falling edge with MOSI high, and a reading thread samples MISO
and the result pin. On the board the word passes through `input_receive`, the decoder and
the sequencer, which enables the other entities one after the other. There is no handshake
anywhere: the receive trigger, the pause between words, the number of wait cycles of a dump
and the timeouts of the host are numbers that have to fit each other. The commands
ENABLE_RESET and DISABLE_RESET drive an asynchronous reset, the external timer input runs
on a clock of its own, and so does the I2C master.

What is hard about it, and what the properties are about:

* The trigger is held for three clocks and must start the sequencer exactly once; the next
  word arrives while the previous instruction may still run; a reset may fall on any clock.
* Enables act one clock after the state that sets them, status outputs one clock after
  STATUS: each stage must find the operands it needs already committed, and the two copies
  of the flags (the ALU's and STATUS's) must agree when an instruction begins.
* In ram.vhd several assignments to one register fall on one clock and the last wins
  (instruction write, flags, TMR0 tick, external count, EECON strobe).
* `skip_next` and `result` in the ALU survive from one instruction to a later one.
* The readers count edges from before the first bit is sent and must not give up early.
* The host's main thread waits for edges that another thread makes, under settings it shares
  with it; a command may fail at every level between a line of a file and the test loop.
* The host and the board each have a table of the instruction set of their own.
* The sender learns of a clock edge by `poll` and reads the level later; a transfer may be
  broken off at any bit, and what it leaves on the wire meets the next one.
* The CPU and the I2C master pass requests and answers as levels between two unrelated
  clocks, and the EEPROM and the master talk on both edges of both I2C clocks.
* The sketch keeps its globals from line to line, and its reading timeout, its boot and the
  host's pauses must fit.
* The driver's file exists before its registers are mapped; any step of insmod may fail; two
  programs may interleave their register accesses.

## Modules

| module | models | notes |
|--------|--------|-------|
| `Bytes`, `PicInstructions` | vector arithmetic; constants_package.vhd and the word format | a word is a function from bit number to 0 or 1 |
| `InputReceive`, `InstructionDecoder`, `StateMachine` | the control path | one operator per branch; `...Rise` is a rising edge, `SequencerFall` the falling one |
| `AluFunctions`, `Alu`, `Datapath` | the data path | `AluFunctions` holds what one clock computes; `Alu` the registers |
| `Ram` | ram.vhd | `NextBlock` applies the assignments of one clock in source order |
| `ParallelToSerial`, `Timer` | output shifter, edge counters | the three `*_to_send` registers are one function `to_send`: at most one is non-zero |
| `HostSerial` | hw_if.c's end of the link | a host that sees every edge before the next |
| `PicCore` | pic16f84a.vhd and the host together | `Init`, `Next`, `Spec`, `FairSpec`; the assumptions on the constants |
| `InstructionFlow` | abstract: one pending and one active instruction | refined by `PicCore` (`ExactlyOnce`) |
| `PicIsa` | abstract: the instruction set, one step per instruction | refined by `PicCore` (`ImplementsIsa`) |
| `PicCoreProperties` | the refinement mappings and the properties | |
| `PicCoreInvariant` | `ControlInv` and `DataInv`, the inductive invariants of the proofs | |
| `MCPicCore` | programs for TLC | |
| `CommandEncoding` | create_binary_command, the command tables, the syntax check | a line is a name and numbers; names other than the commands are four, by what the program does with them; the word format is that of the board |
| `CommandProcessing` | app.c, process_command.c, common_data.c, the clock threads | a transfer takes falling edges of the clock; its bits are `HostSerial`'s matter |
| `CommandProperties`, `MCCommands` | its properties; scripts and files for TLC | `Board` is an instance of the decoder |
| `I2cMaster`, `Pcf8582` | i2c.vhd; pcf8582_simulator.vhd | a state is a record, a clock edge a function from state to state |
| `EepromLink` | ram.vhd with the I2C master, clk_div.vhd and the EEPROM | two clocks; SDA is resolved from both drivers |
| `EepromPort` | abstract: three registers and a memory | refined by `EepromLink` (`ImplementsPort`) |
| `EepromProperties`, `MCEeprom` | the properties; instances | |
| `EepromInvariant` | `TimingInv`, the inductive invariant of `RequestsOver`, and the hypotheses `SuitableTiming` and `SuitableDumps`; `ProtocolInv` and `PathInv` (`TransferInv` or `DumpingInv`), those of `PortImplemented` and `DumpReads` | |
| `HostSetup` | gpio_setup.c and the start of main | the two statements per pin are steps |
| `HostLink`, `MCHostLink` | send_to_fpga call by call, clk_thread, input_receive.vhd; its properties | the fine-grained side of what `HostSerial` does on one edge |
| `HpsAdder`, `AdderDriver`, `AdderPrograms`, `MCAdder` | hps_adder.vhd; adder_driver.c; adder/main.c and first_test/main.c with the properties; an instance | |
| `SerialLink`, `MCSerialLink` | send_command_to_arduino, the port, arduino.ino; its properties | time in half seconds |
| `RamTheorems`, `PicCore_proofs`, `PicCoreIsa_proofs`, `Eeprom_proofs`, `CommandProcessing_proofs`, `SerialLink_proofs`, `HostLink_proofs`, `Adder_proofs` | proofs | `RamTheorems`: bytes and the memory, for both of its users |

Correspondence of state and steps. The variables of the entity modules carry the names of
the signals and variables of the VHDL (where pic16f84a.vhd gives a port another name, that
one). A VHDL signal assignment takes effect after the clock edge, so the whole rising edge
is one action: `RisingEdge` conjoins the `...Rise` operator of every clocked entity over
the unprimed values of all of them, with the port maps as arguments, and the rising-edge
half of the host's threads. `FallingEdge` is the state change of the sequencer and the
falling-edge half of the host. `Submit` is `send_command_to_fpga` up to the start of its
threads; it waits until the previous command has been joined. `EnableReset` and
`DisableReset` are the two commands, which the main thread handles between commands, and
`TimerEdge` is `timer_ext_clk_thread`. `idle_edges` counts what the code leaves to a pause
of wall-clock time: the falling edges between two words.

In `CommandProcessing` one action is what the main thread does between two waits: `ReadLine`
handles a line of the user or of the test file up to the start of a transfer, `ReadFileLine`
a line of a READ_FILE, `SendDone` and `Response` what follows the transfer. `settings` holds
the globals of common_data.c and the reset pin. Each clock thread reads clk_exit, then
clk_enable, and drives its pin in steps of its own; the falling edges of `clk` drive the
transfer. `delivered`, `file_start` and `failed` are history. Names, numbers, messages and
file names are numbers or strings as wholes; `Chopped` is what the loss of its last
character makes of a line. Opening a port, a pin or a file may fail.

In `EepromLink` the two I2C clocks of clk_div.vhd have four phases, one every 2.5 µs;
`I2cStep` is one of them, with the processes of master and EEPROM that it clocks. `IdleEdge`,
`WriteOperand`, `WriteRequest` and `DumpEdge` are the rising edges of the CPU clock, `period`
phases apart, with the enables of an idle CPU, a write of EEADR, EEDATA or EECON and the EEPROM
dump; any alignment of the two clocks occurs, because the commands come at any edge. The
time a command needs on the serial link is the pause `MinPause`. `request`, `served`
and `buffer` are history for the refinement mapping.

In `HostLink` each system call of `send_to_fpga` is an action, and the clock pin changes
between any two of them. An edge that finds the sender elsewhere than in `poll` is late;
`MaxLate` bounds these and `MaxTimeouts` the polls that give up. `ClockRise` also is the
board's `input_receive`, `gap` the falling edges since the last transfer, and `executed`
the words the decoder is triggered with. `HostSetup` is what precedes it.

In `AdderPrograms` an action is one register access or one system call; `AdderDriver` goes
through adder_init and adder_exit one kernel call at a time, each of which may fail.
`alone` is history: nobody else has written since a program's first write. In `SerialLink` a
text is a sequence of pieces (a blank, a tab, a part of a word), which the port may deliver
at any times; `split` records that a command was torn apart by a pause as long as the
timeout of `readString`.

What is abstracted: a byte is a number and a word a function on bit numbers; file
descriptors, log lines and print layout are left out, `printed` holds the values that
`print_result` or the dump prints; a read at address 127 (one past the memory) may return
any byte; `enables` is the set of enable lines that are high; `eeprom_dump`, which the code never resets, powers up as zero; so do all registers.

## Assumptions

`CoreAssumption`, `MemoryAssumption`, `EepromDumpWaitAssumption` and `HostAssumption` type
the constants. `LinkAssumption` (PicCore) is the substance: at least five idle falling edges
between two words, as many dump bytes as the memories have, and timeouts that cover
transfer, execution and answer. With the numbers of the code (1000 and 12000 edges, 127 and
256 bytes, 1792 wait cycles) the last two hold; the first is the 200 ms pause of
`PROCESS_COMMAND_DELAY_USEC`, or of a human, at any clock above 25 Hz. TLC evaluates the
assumptions on every run. `NoneAssumption` keeps the value for "no instruction, no answer" apart from
those. `NoEepromDump`, the hypothesis of the two theorems about data, says that no word is a
DUMP_EEPROM: its bytes come from the I2C master, which is outside `PicCore` (`EepromLink` has
it), and `PicIsa` does not have the instruction. The model also assumes that the clock stays enabled
(only the main thread writes `clk_enable`, and it does not return from a transfer before the
transfer is over: `SettingsFixedWhileBusy`), that the
host handles each edge before the next, and that no access of the EEPROM is in progress:
`eeprom_read` and `write_completed`, which the I2C master drives, stay low. `HostLink` drops the
second of these, `EepromLink` the third.

`PauseAssumption` (HostLink) asks for six idle falling edges, one more than `PicCore` needs,
because MOSI may fall late. `MinPause` (EepromLink) is 2.5 ms between a request and the next
command, `DumpPeriods` the clocks at which the dump works. `SuitableTiming` (EepromInvariant) is the
hypothesis of five theorems, not of the model: a host's clock of 86 to 4 * `RamWait` + 3 steps
(with the 200 cycles of the code some 500 Hz to 4.6 kHz; the default is 4 kHz), a pause of
4 * (`RamWait` + 44) steps (2.44 ms; the host's is 200 ms), and one dump. The strobe must last until the master has asked for the
word address: TLC finds 83 steps too short and 84 enough, so the bound is two steps from the true one.
That the answer is held for a whole period of the host's clock is sufficient, not necessary: TLC finds
no loss up to some 929 steps. The third is no convenience: after a
second dump without a reset EECON stays 1 and the master reads for ever. `SuitableDumps` is what the
theorems ask of `DumpPeriods`: seven clocks outlast a read (7p >= 4 * `RamWait` + 174), and the
strobe of two clocks is gone before the master is idle again (2p <= 4 * `RamWait` + 166); with 200
cycles 140 to 483 steps, 830 Hz to 2.8 kHz. `SerialAssumption` (SerialLink): the
Arduino boots within the two seconds that the host waits, and a line is shorter than the value
that stands for "no index". `SyntaxAssumption` is what the two expressions of common_data.c:20 ask
of a line for the Arduino. The others type constants.

`FairSpec` adds weak fairness of the two clock edges: `clk_thread` toggles the clock
for as long as it is enabled, whatever the other threads do. Nothing is assumed fair that
depends on a user (`Submit`, the resets) or on the external timer input. In
`CommandProcessing` the two threads and the main thread's own steps are weakly fair; reading
a line of the user and the answer of the Arduino are not. Frequencies are positive there.
`SerialFairness` makes time pass, the port deliver, the sketch loop and the host go on with a
command it has begun; a hold-up in the port is bounded by `MaxGap`. `LinkSpec` lets both clocks of the
EEPROM run on. `HostLink` and the adder have safety properties only.

## Runs

| run | instance | checks |
|-----|----------|--------|
| `Skip.cfg` | all programs of up to 4 words out of 10 (literals, skips, skips of reads, sums, rotates, SWAPF, reads, DUMP_RAM), 12 bytes of RAM | `ImplementsIsa`, `FlagsAgree`, `ArithmeticFlags` |
| `Registers.cfg` | up to 3 words out of 14 on INDF, FSR, TMR0, OPTION, EECON and STATUS, one reset anywhere between commands | `ImplementsIsa`, `DataInv` |
| `Control.cfg` | up to 2 words, one of each instruction type and an unassigned opcode, DUMP_EEPROM with 7 wait cycles, one reset, timeouts that expire when the board is in reset; fairness | `ControlInv`, `TypeOK`, `NoTriggerWhileShifting`, `ExactlyOnce`, `EveryWordCompletes` |
| `FullSize.cfg` | both dumps at the sizes and timeouts of the code | `AnswerInTime` |
| `TimerMode.cfg` | up to 2 words on OPTION and TMR0, 3 edges of the external input at any moment, one reset | `ImplementsIsa`, `DataInv` |
| `Commands.cfg` | every instruction with operands at and beyond its fields' limits; sessions of up to 3 lines out of 12 and two files, in both modes; fairness | `CommandTypeOK`, `DeliveredAsWritten`, `FileInOrder`, `ClocksLeftLow`, `SettingsFixedWhileBusy`, `TestsStopAtFailure`, `TransferEnds`, `FileEnds`, `ProgramEnds` |
| `Eeprom.cfg` | CPU clocks of 3960 and 1333 Hz, two addresses, two bytes, reads, writes and a write without the enable bit; 2 requests, 1 dump, 1 reset at any moment | `EepromTypeOK`, `OverBeforeNextCommand`, `TimingInv`, `DumpReadsMemory`, `ImplementsPort`, `OnlyStartAndStopWhileHigh` |
| `HostLink.cfg` | every failure of the setup; 3 transfers of 2 complementary words, 2 timeouts and 1 late edge anywhere, pause of 6 | `HostLinkTypeOK`, `PinsConfigured`, `OneWordPerTransfer`, `WordsAsSent` |
| `Adder.cfg` | 2 programs on the driver and 1 on the registers, 8-bit operands, 2 insmods with any failure | `AdderTypeOK`, `AllOrNothing`, `CallbackFindsRegisters`, `SumOfOwnOperands` |
| `SerialLink.cfg` | 2 calls out of 5 commands, boot of up to 2 s, pauses of up to 1.5 s between pieces, with and without automatic reset; fairness | `SerialTypeOK`, `WholeAnswer`, `AnswersOwnCommand`, `AnswerComes` |
| `InvalidSlave.cfg` | the same sessions | `InvalidSlaveSelectsFpga`, violated |
| `LastLine.cfg` | the same sessions | `LinesAsInFile`, violated |

Bounds. `MaxCommands`, `MaxResets` and `MaxTimerEdges` bound only the environment. Three words
are one more than the number of instructions that can interact through `result`, the strobe
and the latched fields: these act on the next ALU instruction, and a third one observes the
outcome. The skip flag needs a fourth: a skipped read clears the ALU's flags only, the next
instruction that keeps them writes that into STATUS, and the last one reads it. Two words
suffice for the control path, which overlaps at most two instructions. The reset may fall on
every clock after which the host is free, hence at every stage of an instruction that does
not answer. RAM sizes of 10 and 12 include all special registers and up to two plain cells.
The timer counts 3 edges so that both selections of the edge and a change between them occur.

Two requests to the EEPROM are a write and the read that shows it, or a write refused and one
granted; a dump after a write reads what it wrote, and the reset may fall into either. The
address 200 and the byte 149 tell a reversed or shifted byte from a right one. Three transfers
are one that is broken off, one that pushes its rest out, and one after both. Two insmods are
a failure, or a removal under running programs, and a fresh start. Two sessions suffice for
what the sketch keeps of the one before.

In the sessions the first line enables the clock or not, the second changes a setting, opens
a file or fails, the third shows the effect; a setting is only read by the next command, so a
fourth line adds nothing. The files hold a failing line in the middle, noise, and a last line
without newline. `ReadEdges` has a value below and one above the length of a frame.

What they show. `ImplementsIsa` is the main result: the pipelined machine with its serial
link refines `PicIsa`, in which an instruction is one step. The mapping executes the
instruction on the clock of `do_alu` (or of the RAM copy), reads effects that are computed
but not yet committed from the enable lines, and takes the answer to be pending until
the host prints it. Behaviours of the code that a user may not expect are in `PicIsa` as
what the machine does: Z after DECFSZ and INCFSZ tells of an earlier result, a direct write
to TMR0 is lost, a skipped instruction still stores the old ALU output, INDF with FSR = 0
stores 0, every instruction is a tick of TMR0. A skipped read clears the ALU's copy of the
flags but not STATUS, so that a program loses them not then but with the next instruction
that leaves flags alone; `PicIsa` has the variable `carried` for that, and `FlagsAgree` names
it as its only exception. `ArithmeticFlags` compares the sums of the ALU with those of
numbers: SUBWF and SUBLW with W = 0 are the exception, whose carry says "borrow". As `PicIsa` and
`PicCore` share `AluFunctions`, the refinement is about when a function is computed and what
becomes of its result; that the function itself is right is stated for sums and differences only.

`ImplementsPort`: at these clocks every request to the EEPROM is carried out once and is over
before the next command. The instances also show where this ends. A direct request is lost
above some 4.9 kHz (82 steps of 2.5 µs) and carried out again below some 430 Hz (930 steps). DUMP_EEPROM, which takes
each byte after seven clocks without looking, works from about 0.8 to 2.9 kHz (139 to 484
steps); at the default of 4 kHz its bytes are those of the addresses before, and every second
dump leaves EECON = 1. At about 3.4 to 3.7 kHz (`Periods` of 109 to 117 steps; try 110) a dump
can even write: when the strobe of two clocks meets the master late, after a read cut short or
out of step, it is gone by the acknowledge of the word address, the master gives up with SCL still
running, and the chip, left waiting for data, takes eight bits of an idle line and stores them.
`ImplementsPort` is violated there. No text of the repository names a clock for dumps, so this is
no disagreement with its words. `RequestsOver` and `PortImplemented` have the direct requests for all clocks from some 500 Hz to 4.6 kHz,
`PortImplemented` and `DumpReads` the dumps from 830 Hz to 2.8 kHz. After a write EEDATA holds the byte last read, as `EepromPort` says.

`OneWordPerTransfer` holds for late edges too, but `WordsAsSent` needs a punctual sender: a
bit that is driven late is shifted twice or missed. `CallbackFindsRegisters` states the time
in which a callback of the driver faults, between the creation of the device file and the end of
the mapping. `SumOfOwnOperands` is about the sum modulo `Valid`, 2^15 in the code: the highest of
the sixteen bits says that the result is valid, and a carry into it is lost. `AnswerComes` needs what `SerialAssumption` says: a longer boot, or an answer lost in
the port, blocks `receive_response` for good. An echo whose name ends with a tab passes
the host's syntax check and is answered as an invalid message.

`DeliveredAsWritten` joins the two ends: the word that the host makes of any command is
decoded on the board as that command, with operands cut to the largest value of their field
(READ_ADDRESS alone drops a bit on the board instead). The two violations are disagreements
of the code with its own words: an invalid SELECT_SLAVE logs that it sets the slave to 0 and
leaves it as it was, and the statement that is to remove the trailing newline removes the
last character of a file that has none. MCCommands also checks, as an assumption that TLC
evaluates, that `DecimalToBinary` is what the loop in hw_if.c computes.

## Proofs

All theorems are for every value of the constants that satisfies the assumptions above.

* `TypeCorrect` (PicCore_proofs): `Spec => []TypeOK`, one lemma per entity, on top of the byte
  arithmetic in `RamTheorems`. That the multi-bit operations stay in 0..255 and that the
  shifter never indexes beyond what it was loaded with are the parts with content.
* `ControlCorrect` (PicCore_proofs): `Spec => []ControlInv`. `ControlInv` says at every clock
  edge where the word is (`LinkInv`, `ReceiveInv`: which bits have been shifted in, and that
  countdown and idle edges add up to five), how the trigger passes from `input_receive` to
  the decoder and the sequencer (`DecoderInv`), which states and enable lines belong to the
  instruction (`SequencerInv`), how many clocks it has left (`BusyInv`, with `Left` as its
  measure) and how far the answer is (`AnswerInv`, which ties the reader's timeout, its bit
  count and the shifter's index together). The parts need each other: that the trigger falls
  before the next word needs the idle edges, that the decoder does not overwrite a running
  instruction needs the clocks left, and the timeouts need both.
* `TriggerSafe`, `AnswerArrives` (PicCore_proofs): `NoTriggerWhileShifting` and
  `AnswerInTime` from `TypeOK` and `ControlInv`.
* `FlowRefined` (PicCore_proofs): `Spec => ExactlyOnce`, the refinement of
  `InstructionFlow`; each action of `PicCore` maps to a step of it or to a stutter.
* `SumsCorrect` (PicCore_proofs): `Spec => ArithmeticFlags`, for all operands.
* `FlagsCorrect` (PicCore_proofs): `Spec => []FlagsAgree`. `FlagsInv` follows the flags from
  the ALU to STATUS: unless the write line of STATUS is up the copies agree or the ALU's is 0
  (`CopyInv`), which lines are up in which stage (`LinesInv`, `StageInv`), and that an
  instruction with an answer has a read's opcode (`AnswerOpcodes`). It rests on `ControlInv`
  for the order of the stages.
* `DataCorrect` (PicCoreIsa_proofs): for programs without DUMP_EEPROM, `Spec => []DataInv`.
  `DataInv` is inductive relative to `TypeOK` and `ControlInv`: the fields of a decoded
  word fit its type (`DecodedInv`), the lines that are up are those of one stage of that
  type (`PipelineInv`), what a stage is about to read is what the stage before committed
  (`OperandInv`), the strobe of EECON is over before the next instruction (`StrobeInv`), and
  the bits that are out and those still in the shifter are those of the answer (`ShiftInv`).
* `IsaRefined` (PicCoreIsa_proofs): for the same programs, `Spec => ImplementsIsa`. A rising
  edge of `PicCore` is the `Execute` of an instruction (the clock of `do_alu` or of the dump's
  copy), the `SetMode` that lets a write of OPTION act, `EndStrobe`, the `Show` of a complete
  answer, or the `Mirror` of the external count; a falling edge stutters; Submit, the two
  resets and an edge of the timer's input are `Send`, `IsaReset`, `IsaRestart` and `ExternalEdge`.
  The memory of the program and the board's agree but for TMR0 while a result is
  under way (`Alike`), and the store of the last stage makes them equal again. While it was
  proved, the mapping turned out to be too coarse in one case: with TMR0 following the external count, an
  edge that comes between the read of TMR0 and the ALU's clock changes the memory but not the
  operand. The instruction has then read TMR0 before the edge, so the mapping freezes TMR0
  from the read to the ALU (`Sampled`); `TimerMode.cfg` has a program that shows it.
* `LinkTypes`, `PinsSet`, `ExecutedOnce`, `WordsArrive` (HostLink_proofs). `PinsSet` follows from which
  statement of the setup has been reached (`StageInv`, `StatementsInv`). `ExecutedOnce` counts:
  `DownInv` and `UpInv` tie the board's countdown to the idle edges while MOSI is low and while it is
  high, `TransferInv` the position in the transfer to both, so that between two words the
  board triggers exactly once. `WordsArrive` adds, for a punctual sender, which bit is on the
  wire at which edge (`PunctualInv`) and that the last bits of the shift register are those
  sent of the current frame (`FrameInv`), whatever a broken one left before them.
* `AdderTypes`, `NothingLeftBehind`, `CallbacksMapped`, `OwnSumPrinted` (Adder_proofs). `HeldInv` says what the
  module holds at each step of adder_init and adder_exit, `OpenedInv` that a callback keeps the
  file from being removed; `StoredInv` and `PrintedInv` follow a program's operands through
  the registers while it is alone, with the arithmetic of the valid bit in lemmas.
* `SettingsStable`, `TestsStop`, `ClocksEndLow` (CommandProcessing_proofs): for all scripts
  and files, from `ProgramInv`: a pin is high only within a period, a program that is ending
  has no file open, failing tests are ending, and main ends after both threads.
* `CommandTypes`, `WordsUnderstood`, `FilesInOrder` (CommandProcessing_proofs): for all scripts
  and files, `CommandTypeOK`, `DeliveredAsWritten` and `FileInOrder`, from `DeliveryInv`.
  `WordsUnderstood` has two parts. The lemma `Understood` is about hw_if.c and the VHDL alone:
  for each encodable command and all operands, also those beyond their fields, the decoder of
  the board makes of the word what the command means; it goes through the digits of
  `DecimalToBinary`, the slices of the decoder and the table of opcodes, class by class.
  `SendingInv` then says that the word of a running transfer is that of the command.
  `FilesInOrder` needs the command of a running transfer to be the last line read (`LineInv`);
  each step then either passes over a line that is no command or appends the next one that is.
* `SerialTypes`, `AnswersWhole`, `AnswersOwn` (SerialLink_proofs): for all commands and delays
  of the port, from `SerialInv`. `Left` is what the board has not acted on: what it has read,
  its receive buffer and what is still in the port. `PauseInv` says that the board has booted
  when the command is written. As long as nothing is split, `Left` is the whole command until
  the sketch answers, and then what has been read and what is on its way are the answer
  (`WholeInv`). With a reset by every opening `Left` is an end of the command
  whatever is split, so that the sketch only ever answers a part of it, and what the host has
  read starts the first of these answers (`OwnInv`). The lemma `ExpectedAnswer` says that the
  `length` which the sketch keeps from line to line never reaches an answer to a whole command.

* `EepromTypes`, `SdaOrderly` (Eeprom_proofs): for all clocks, pauses, programs and resets, with
  one lemma per edge of the I2C clocks. Proving the type of `cycles_waited` showed that it
  was written for waits of more than seven cycles only.
* `TimingCorrect`, `RequestsOver` (Eeprom_proofs): under `SuitableTiming`, `OverBeforeNextCommand`
  from `TimingInv`. `Left` is how many steps of the I2C clocks the master has left, if every
  acknowledge comes; a step always lowers it, whatever the EEPROM does (`SuccessorNearer`),
  unless the master is idle and starts. `PendingInv` compares it with the edges of the
  host's clock since the request: the master sees the strobe within four steps of the edge
  that puts it on `eecon`, is past the acknowledge of the word address, where it looks at the
  start bits for the last time, when the strobe ends, and holds the answer until the memory has
  taken it. `IdleInv` says that nothing is asked for after that, so that `Left` is used up in the
  pause; `EeconInv` and `DumpInv` that the strobe bits of EECON are back at 0, after a dump too.

* `TransferCorrect`, `PortImplemented`, `DumpReads` (Eeprom_proofs): `ImplementsPort` under
  `SuitableTiming`, if no dump is made (`MaxDumps = 0`) or all clocks suit dumps
  (`SuitableDumps /\ Periods \subseteq DumpPeriods`); `DumpReadsMemory` under `SuitableTiming` and
  `SuitableDumps`, whatever the other clocks are. The invariants on top of `TimingInv`:
  - `ProtocolInv` ties the EEPROM to the master. For each of its states and each edge within it
    (`BitNo`, `Early`), `ChipPlaced` says in which state the EEPROM is, which one it still shows
    and where its bit counts are, `ChipStarted` for how many more edges of SCL it listens for
    its address, `Wires` who drives SDA with what. Two lemmas per edge: what it moves
    (`LowRiseMoves`, ...) and that both sides stay in step.
  - `Carried` follows the bits: after k bits of a byte the first k of both sides agree
    (`Agree`, with the arithmetic of one more bit in `AgreeStep`), until the EEPROM has address
    and byte (`AddressHeard`) and has stored or sent the byte (`DoneAt`, which is `served`).
  - `RestInv` says why nothing else happens: the answer that is still held after the memory has
    taken it is the one in EEDATA, and a strobe that the master has not yet seen to end has
    ended for it before it is idle again.
  - `DumpingInv` takes over from the first clock of a dump to the end of the pause after it. All
    of it is measured by `DumpTime`, the steps since the strobe was last put out, which the
    counters of ram.vhd determine: the master's start bit is the strobe as it was `Age` steps
    ago; the master is idle or has exactly as many steps left as `DumpTime` leaves of a read, to
    three steps of alignment (`DumpCourse`); the byte is there 3p steps after the strobe, when it
    is taken, because at most 4 * `RamWait` + 174 - 3p steps are left then, which is less than
    the answer lasts (`NotDoneYet`). `DumpCells` follows the counters through all addresses to the wrap,
    `DumpCarry` the bits of the read under way (EEDATA may change meanwhile: a read does not send
    it, `CarriedRead`), and
    `DumpedInv` says which cells of the dump are already those of the EEPROM.

  No acknowledge is missed then, and the master never gives up in the middle of a procedure, as it
  may with dumps at other clocks. The refinement has one lemma per action: `WriteOperand` is
  `WriteAddress` or `WriteData`, `WriteRequest` is `WriteControl`, `Reset` is `PortReset`,
  the fall of clk_100khz that shifts in the eighth bit of a read and the edge at which the EEPROM
  takes a byte over are `Serve`, the host's edge at which the memory takes the answer is `Complete`,
  every step of a dump and of the pause after it is `Dump` (`PathPort`: a dump stores nothing),
  all others stutter. Dumps at other clocks are excluded because they break the refinement at some
  clocks within `SuitableTiming` (3.4 to 3.7 kHz, above). `Eeprom.cfg` checks it with a dump at
  3960 Hz too, where the dump reads the wrong bytes but stores none.

Only model-checked: all liveness properties (`EveryWordCompletes`, `TransferEnds`, `FileEnds`,
`ProgramEnds`, `AnswerComes`), which the prover does not handle, and `ImplementsPort` with dumps at
clocks that do not suit them. Every safety property of a run is stated by a theorem.

## Not modelled

* A frequency of zero (SET_CLK_FREQ 0), by which `clk_thread` and `send_to_fpga` divide, and
  frequencies that break `PauseAssumption` or `MinPause`.
* Sizes of text buffers, such as `binary_command` with room for 14 digits and no terminator
  (hw_if.c:574): texts are wholes, and what lies behind a buffer is up to the compiler.
* An allocation that fails within a call of `adder_write` (adder_driver.c:65).
* Late edges in the reading threads; `HostSerial` has them punctual.
* `PicCore` with a live I2C master, and `CommandProcessing` with `PicCore` as its board: the
  products are out of TLC's reach. They meet at `Ram`, which both use as it is, and
  at the word that is delivered (`DeliveredAsWritten`).
* run_app at the end of its input repeats the failed `fgets` for ever: `CommandProcessing`
  behaves so, but nothing in the code promises otherwise.
* The Qsys subsystem (generated), testbenches, unit tests and scripts: read as
  documentation of what is intended.
