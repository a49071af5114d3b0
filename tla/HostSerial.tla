----------------------------- MODULE HostSerial -----------------------------
(***************************************************************************)
(* hw_if.c, the Raspberry Pi's end of the serial link, for a host that     *)
(* handles each clock edge before the next one: send_to_fpga puts out one  *)
(* bit of the frame on each falling edge; result_thread and                *)
(* mem_dump_thread sample the answer on falling edges and finish on a      *)
(* rising one.  The main thread joins them before the next command.        *)
(***************************************************************************)
EXTENDS InstructionDecoder, Sequences

CONSTANTS MinIdle,         \* idle falling edges the host leaves between frames
          DumpBytes,       \* [DumpRam |-> NUM_BYTES_RAM, DumpEeprom |-> NUM_BYTES_EEPROM]
          ResultTimeout,   \* RESULT_TIMEOUT, in edges
          DumpTimeout      \* MEM_DUMP_TIMEOUT, in edges

ASSUME HostAssumption == /\ MinIdle \in Nat
                         /\ DumpBytes \in [{DumpRam, DumpEeprom} -> Nat \ {0}]
                         /\ ResultTimeout \in Nat \ {0}
                         /\ DumpTimeout \in Nat \ {0}

VARIABLES mosi, serial_in,
          frame, sent_bits,   \* binary_command and idx of send_to_fpga
          idle_edges,         \* falling edges since the frame ended, up to MinIdle
          reader,             \* the instruction type being read back, or NoReader
          miso_trigger, data, timeout, printed

host_vars == <<mosi, serial_in, frame, sent_bits, idle_edges, reader, miso_trigger,
               data, timeout, printed>>

NoReader == "none"
Done == FRAME_BITS + 1
Sending == sent_bits < Done
Reading == reader # NoReader
Readable == {ReadReg, ReadMem, DumpRam, DumpEeprom}

HostType ==
    /\ mosi \in BOOLEAN /\ serial_in \in {0, 1}
    /\ frame \in Word
    /\ sent_bits \in 0..Done
    /\ idle_edges \in 0..MinIdle
    /\ reader \in Readable \cup {NoReader}
    /\ miso_trigger \in BOOLEAN
    /\ data \in Seq({0, 1})
    /\ timeout \in Nat

HostInit ==
    /\ mosi = FALSE /\ serial_in = 0
    /\ frame = ZeroWord
    /\ sent_bits = Done
    /\ idle_edges = MinIdle
    /\ reader = NoReader
    /\ miso_trigger = FALSE
    /\ data = <<>>
    /\ timeout = 0
    /\ printed = <<>>

\* num_bits and the timeout of the thread that reads an answer.
AnswerBytes == IF reader \in {DumpRam, DumpEeprom} THEN DumpBytes[reader] ELSE 1
TimeoutLimit == IF reader \in {DumpRam, DumpEeprom} THEN DumpTimeout ELSE ResultTimeout

HostIdle == ~Sending /\ ~Reading

\* send_command_to_fpga: start the reading thread, if any, and the transfer.
SendCommand(word) ==
    /\ HostIdle
    /\ idle_edges = MinIdle
    /\ frame' = word
    /\ sent_bits' = 0
    /\ reader' = IF Decode(word).type \in Readable THEN Decode(word).type ELSE NoReader
    /\ miso_trigger' = FALSE
    /\ data' = <<>>
    /\ timeout' = 0
    /\ UNCHANGED <<mosi, serial_in, idle_edges, printed>>

\* send_to_fpga on a falling edge: bits first, then mosi low.
SenderFall ==
    /\ sent_bits' = IF Sending THEN sent_bits + 1 ELSE sent_bits
    /\ mosi' = (sent_bits < FRAME_BITS)
    /\ serial_in' = IF sent_bits < FRAME_BITS THEN frame[FRAME_BITS - 1 - sent_bits]
                    ELSE serial_in
    /\ idle_edges' = CASE Sending                           -> 0
                       [] ~Sending /\ idle_edges < MinIdle -> idle_edges + 1
                       [] ~Sending /\ idle_edges = MinIdle -> MinIdle
    /\ UNCHANGED frame

\* result_thread / mem_dump_thread on a falling edge.
ReaderFall(miso, result_pin) ==
    /\ miso_trigger' = (miso_trigger \/ (Reading /\ miso))
    /\ data' = IF Reading /\ miso_trigger /\ Len(data) < 8 * AnswerBytes
               THEN Append(data, result_pin) ELSE data
    /\ timeout' = IF Reading THEN timeout + 1 ELSE timeout
    /\ reader' = IF Reading /\ timeout + 1 = TimeoutLimit THEN NoReader ELSE reader
    /\ UNCHANGED printed

\* binary_to_decimal of the n-th group of eight bits.
DataByte(n) == FromBits([b \in 0..7 |-> data[8 * n - b]])

\* print_result prints the byte; a dump is printed from its last byte to its first.
Printout == [n \in 1..AnswerBytes |-> DataByte(AnswerBytes + 1 - n)]

\* The reading thread on a rising edge.
ReaderRise ==
    LET complete == Reading /\ Len(data) = 8 * AnswerBytes IN
    /\ timeout' = IF Reading THEN timeout + 1 ELSE timeout
    /\ printed' = IF complete THEN Printout ELSE printed
    /\ reader' = IF complete \/ (Reading /\ timeout + 1 = TimeoutLimit) THEN NoReader
                 ELSE reader
    /\ UNCHANGED <<miso_trigger, data>>

HostFall(miso, result_pin) == SenderFall /\ ReaderFall(miso, result_pin)

HostRise == ReaderRise /\ UNCHANGED <<mosi, serial_in, frame, sent_bits, idle_edges>>
=============================================================================
