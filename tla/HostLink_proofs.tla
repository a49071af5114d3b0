-------------------------- MODULE HostLink_proofs --------------------------
(***************************************************************************)
(* For any frames, any number of transfers and timeouts, and any pause of  *)
(* at least six clocks: the pins are set before they are used, each frame  *)
(* that was sent is executed once, however late the sender is, and a       *)
(* sender in time has its frames executed as they were.                    *)
(***************************************************************************)
EXTENDS HostLink, TLAPS

\* How far main has come decides what is open and which pins are set.
StageInv ==
    /\ mem_fd <=> stage \in {"map", "close"}
    /\ gpio_map => stage \notin {"open", "map"}
    /\ stage \in {"pins", "ready"} => gpio_map
    /\ (clk_pin \/ pc # "idle") => stage = "ready"

\* Two statements for each output pin and one for each input pin.
StatementsInv ==
    /\ pins_done \in 0..2 * Len(out_pins) + Len(in_pins)
    /\ stage = "ready" => pins_done = 2 * Len(out_pins) + Len(in_pins)
    /\ stage = "pins" => pins_done < 2 * Len(out_pins) + Len(in_pins)
    /\ stage \in {"open", "map", "close", "wiring"} => pins_done = 0
    /\ function \in [Pins -> 0..7] /\ found \in [Pins -> 0..7]
    /\ \A i \in 1..Len(out_pins) :
           /\ pins_done >= 2 * i => function[out_pins[i]] = OUTPUT
           /\ pins_done = 2 * i - 1 => function[out_pins[i]] = INPUT
    /\ \A i \in 1..Len(in_pins) :
           pins_done >= 2 * Len(out_pins) + i => function[in_pins[i]] = INPUT
    /\ \A p \in OtherPins : function[p] = found[p]

\* The types that the arguments need.
LinkType ==
    /\ pc \in Steps /\ idx \in 0..FRAME_BITS + 1 /\ gap \in 0..MinGap /\ counter \in 0..5
    /\ completed \in Seq(Word) /\ executed \in Seq(Word) /\ late \in Nat

Low == IF clk_pin THEN 0 ELSE 1

\* Where a transfer is, and that MOSI is up from its first bit on.
TransferInv ==
    /\ pc \in {"read", "poll", "sample"} => idx <= FRAME_BITS
    /\ pc = "set_mosi" => idx = 0
    /\ pc = "set_data" => idx < FRAME_BITS /\ mosi
    /\ pc = "clear_mosi" => idx = FRAME_BITS
    /\ (pc # "idle" /\ idx > 0) => mosi

\* With MOSI low the board counts down to its trigger, or is cleared again
\* before the next transfer raises MOSI.
DownInv ==
    ~mosi =>
        /\ ~mosi_detected => ~trig_instruction_process
        /\ (mosi_detected /\ ~trig_instruction_process) =>
               counter >= 3 /\ Len(completed) = Len(executed) + 1
        /\ trig_instruction_process => counter <= 2
        /\ (trig_instruction_process \/ ~mosi_detected) => Len(completed) = Len(executed)
        /\ (mosi_detected /\ pc = "idle") => gap + counter <= 5 + Low
        /\ (mosi_detected /\ pc # "idle") =>
               pc \in {"read", "poll"} /\ ~clk_pin /\ counter = 0 /\ (pc = "poll" => ~event)

\* With MOSI high the board is not triggered, and has seen it by the time the
\* second bit is out.
UpInv ==
    mosi =>
        /\ ~trig_instruction_process /\ Len(completed) = Len(executed)
        /\ mosi_detected => counter = 5
        /\ ~mosi_detected =>
               \/ pc = "idle" /\ gap <= Low
               \/ pc = "set_data" /\ (idx = 0 \/ (idx = 1 /\ ~clk_pin))
               \/ pc = "read" /\ (idx = 1 \/ (idx = 2 /\ ~clk_pin))
               \/ pc = "poll" /\ idx = 1 /\ (event => ~clk_pin)
               \/ pc = "poll" /\ idx = 2 /\ ~clk_pin /\ ~event
               \/ pc = "sample" /\ idx = 1 /\ ~clk_pin

\* Bits of the frame that the board has shifted in, if no edge was late.
Shifted ==
    IF clk_pin \/ pc \in {"sample", "set_mosi", "set_data", "clear_mosi"} \/ (pc = "poll" /\ event)
    THEN idx ELSE idx - 1

InTime == late = 0

\* An edge in time finds the sender in poll, and it goes on with it.
PunctualInv ==
    InTime /\ pc \in {"set_mosi", "set_data", "clear_mosi"} => ~clk_pin

\* What has been executed and the word being counted down stay as they are.
Delivered ==
    /\ \A i \in 1..Len(executed) : i \in DOMAIN completed /\ executed[i] = completed[i]
    /\ Len(completed) = Len(executed) + 1 => binary_string = completed[Len(completed)]

\* What the sender has put out of the frame under way.
OnTheWire ==
    (pc # "idle" /\ idx > 0) =>
        /\ pc # "set_data" => serial_in = binary_command[FRAME_BITS - idx]
        /\ \A j \in 0..Shifted - 1 :
               binary_string[j] = binary_command[FRAME_BITS - Shifted + j]

FrameInv == InTime => Delivered /\ OnTheWire

-----------------------------------------------------------------------------
\* The pins.

SetupInv == StageInv /\ StatementsInv

\* The eight pins of the two tables differ from each other and from the other pins.
LEMMA PinNames ==
  /\ Len(out_pins) = 5 /\ Len(in_pins) = 3
  /\ \A i \in 1..5 : out_pins[i] \in Pins \ OtherPins
  /\ \A i \in 1..3 : in_pins[i] \in Pins \ OtherPins
  /\ \A i, j \in 1..5 : out_pins[i] = out_pins[j] => i = j
  /\ \A i, j \in 1..3 : in_pins[i] = in_pins[j] => i = j
  /\ \A i \in 1..5, j \in 1..3 : out_pins[i] # in_pins[j]
<1>1. Len(out_pins) = 5 /\ Len(in_pins) = 3
  BY DEF out_pins, in_pins
<1>2. /\ \A i \in 1..5 : out_pins[i] \in OutPins
      /\ \A i \in 1..3 : in_pins[i] \in InPins
  BY <1>1 DEF OutPins, InPins
<1>3. /\ \A i, j \in 1..5 : out_pins[i] = out_pins[j] => i = j
      /\ \A i, j \in 1..3 : in_pins[i] = in_pins[j] => i = j
      /\ \A i \in 1..5, j \in 1..3 : out_pins[i] # in_pins[j]
  BY SMTT(30) DEF out_pins, in_pins
<1>4. QED
  BY <1>1, <1>2, <1>3, SetupAssumption DEF Pins

\* No pin has been set up at first.
LEMMA InitSetup == InitHostLink => SetupInv
<1> SUFFICES ASSUME InitHostLink PROVE SetupInv
  OBVIOUS
<1>1. StageInv
  BY DEF InitHostLink, SetupInit, StageInv
<1>2. function \in [Pins -> 0..7]
  BY SetupAssumption DEF InitHostLink, SetupInit
<1>3. StatementsInv
  BY <1>2, PinNames DEF InitHostLink, SetupInit, StatementsInv
<1>4. QED
  BY <1>1, <1>3 DEF SetupInv

\* A statement of init_pins leaves the pins before it as they are.
LEMMA PinsKeep ==
  ASSUME SetupInv, InitPins
  PROVE  StatementsInv'
<1> DEFINE k == pins_done + 1
<1>0. /\ pins_done \in 0..13 /\ pins_done < 13 /\ stage = "pins" /\ pins_done' = k
      /\ stage' \in {"pins", "ready"} /\ found' = found
      /\ stage' = "ready" <=> k = 13
      /\ function \in [Pins -> 0..7] /\ found \in [Pins -> 0..7]
  BY PinNames DEF SetupInv, StatementsInv, InitPins
<1>1. CASE pins_done < 10
  <2> DEFINE j == (k + 1) \div 2
  <2>1. /\ j \in 1..5 /\ (k % 2 = 1 => k = 2 * j - 1) /\ (k % 2 # 1 => k = 2 * j)
    BY <1>0, <1>1
  <2>2. function' = [function EXCEPT ![out_pins[j]] = IF k % 2 = 1 THEN INPUT ELSE Or1(@)]
    BY <1>0, <1>1, PinNames DEF InitPins, OutStatement
  <2> HIDE DEF j, k
  <2>3. k % 2 # 1 => function[out_pins[j]] = INPUT
    BY <1>0, <2>1, PinNames DEF SetupInv, StatementsInv, k
  <2>4. function'[out_pins[j]] = IF k % 2 = 1 THEN INPUT ELSE OUTPUT
    BY <1>0, <2>1, <2>2, <2>3, PinNames DEF Or1, INPUT, OUTPUT
  <2>5. function' \in [Pins -> 0..7]
    BY <1>0, <2>1, <2>2, <2>3, PinNames DEF Or1, INPUT
  <2>6. \A p \in Pins : p # out_pins[j] => function'[p] = function[p]
    BY <1>0, <2>2
  <2>7. \A i \in 1..5 : /\ k >= 2 * i => function'[out_pins[i]] = OUTPUT
                        /\ k = 2 * i - 1 => function'[out_pins[i]] = INPUT
    <3> SUFFICES ASSUME NEW i \in 1..5
                 PROVE  /\ k >= 2 * i => function'[out_pins[i]] = OUTPUT
                        /\ k = 2 * i - 1 => function'[out_pins[i]] = INPUT
      OBVIOUS
    <3>1. CASE i = j
      BY <1>0, <2>1, <2>4, <3>1 DEF k
    <3>2. CASE i # j
      <4>1. function'[out_pins[i]] = function[out_pins[i]]
        BY <2>1, <2>6, <3>2, PinNames
      <4>2. k # 2 * i - 1 /\ (k >= 2 * i => pins_done >= 2 * i)
        BY <1>0, <2>1, <3>2 DEF k
      <4>3. QED
        BY <4>1, <4>2, PinNames DEF SetupInv, StatementsInv
    <3>3. QED
      BY <3>1, <3>2
  <2>8. \A p \in OtherPins : function'[p] = found'[p]
    BY <1>0, <2>1, <2>6, PinNames DEF SetupInv, StatementsInv, Pins
  <2>9. k \in 0..10
    BY <1>0, <1>1 DEF k
  <2>10. QED
    BY <1>0, <2>5, <2>7, <2>8, <2>9, PinNames DEF StatementsInv
<1>2. CASE ~(pins_done < 10)
  <2> DEFINE j == k - 10
  <2>1. j \in 1..3
    BY <1>0, <1>2
  <2>2. function' = [function EXCEPT ![in_pins[j]] = INPUT]
    BY <1>0, <1>2, PinNames DEF InitPins, InStatement
  <2> HIDE DEF j
  <2>3. /\ function' \in [Pins -> 0..7] /\ function'[in_pins[j]] = INPUT
        /\ \A p \in Pins : p # in_pins[j] => function'[p] = function[p]
    BY <1>0, <2>1, <2>2, PinNames DEF INPUT
  <2>4. \A i \in 1..5 : function'[out_pins[i]] = OUTPUT
    BY <1>0, <1>2, <2>1, <2>3, PinNames DEF SetupInv, StatementsInv
  <2>5. \A i \in 1..3 : k >= 10 + i => function'[in_pins[i]] = INPUT
    BY <1>0, <1>2, <2>1, <2>3, PinNames DEF SetupInv, StatementsInv, j
  <2>6. \A p \in OtherPins : function'[p] = found'[p]
    BY <1>0, <2>1, <2>3, PinNames DEF SetupInv, StatementsInv, Pins
  <2>7. QED
    BY <1>0, <1>2, <2>3, <2>4, <2>5, <2>6, PinNames DEF StatementsInv
<1>3. QED
  BY <1>1, <1>2

\* Every step leaves the pins set up as far as the stage says.
LEMMA SetupKept ==
  ASSUME SetupInv, [HostLinkNext]_link_vars
  PROVE  SetupInv'
<1>1. CASE InitPins /\ UNCHANGED <<clk_pin, sender_vars>>
  <2>1. StageInv'
    BY <1>1 DEF SetupInv, StageInv, InitPins, sender_vars
  <2>2. QED
    BY <1>1, <2>1, PinsKeep DEF SetupInv
<1>2. CASE (OpenMem \/ MapRegisters \/ CloseMem \/ CheckSetup) /\ UNCHANGED <<clk_pin, sender_vars>>
  <2>1. StageInv'
    BY <1>2 DEF SetupInv, StageInv, OpenMem, MapRegisters, CloseMem, CheckSetup, sender_vars
  <2>2. /\ UNCHANGED <<function, found, pins_done>> /\ pins_done = 0
        /\ stage' \in {"map", "close", "wiring", "pins", "failed"}
    BY <1>2 DEF SetupInv, StatementsInv, OpenMem, MapRegisters, CloseMem, CheckSetup
  <2>3. StatementsInv'
    BY <2>2, PinNames DEF SetupInv, StatementsInv
  <2>4. QED
    BY <2>1, <2>3 DEF SetupInv
<1>3. CASE UNCHANGED setup_vars /\ (stage = "ready" \/ UNCHANGED <<clk_pin, pc>>)
  BY <1>3 DEF SetupInv, StageInv, StatementsInv, setup_vars
<1>4. Setup => SetupNext /\ UNCHANGED <<clk_pin, sender_vars>>
  BY DEF Setup
<1>5. ClockRise \/ ClockFall => UNCHANGED setup_vars /\ stage = "ready"
  BY DEF ClockRise, ClockFall, Edge
<1>6. Transfer => UNCHANGED setup_vars /\ stage = "ready"
  BY DEF Transfer, Begin, Read, Poll, PollEnds, Sample, SetMosi, SetData, ClearMosi, SenderStep,
         SetupInv, StageInv
<1>7. UNCHANGED link_vars => UNCHANGED <<setup_vars, clk_pin, pc>>
  BY DEF link_vars
<1>8. QED
  BY <1>1, <1>2, <1>3, <1>4, <1>5, <1>6, <1>7 DEF HostLinkNext, SetupNext

\* The clock and the transfers find all pins set, whatever they were before,
\* and no pin of another program is touched (init_pins of gpio_setup.c).
THEOREM PinsSet == HostLinkSpec => []PinsConfigured
<1>1. SetupInv => PinsConfigured
  <2> SUFFICES ASSUME SetupInv PROVE PinsConfigured
    OBVIOUS
  <2>1. stage = "ready" => \A p \in OutPins : function[p] = OUTPUT
    BY PinNames DEF SetupInv, StatementsInv, OutPins
  <2>2. stage = "ready" => \A p \in InPins : function[p] = INPUT
    BY PinNames DEF SetupInv, StatementsInv, InPins
  <2>3. QED
    BY <2>1, <2>2 DEF SetupInv, StageInv, StatementsInv, PinsConfigured
<1>2. QED
  BY <1>1, InitSetup, SetupKept, PTL DEF HostLinkSpec

-----------------------------------------------------------------------------
\* Transfers and executions.

OnceInv == LinkType /\ TransferInv /\ DownInv /\ UpInv

\* No word is under way at first.
LEMMA InitOnce == InitHostLink => OnceInv
<1> SUFFICES ASSUME InitHostLink PROVE OnceInv
  OBVIOUS
<1>1. LinkType
  BY LinkAssumption DEF InitHostLink, ReceiveInit, LinkType, Steps, FRAME_BITS
<1>2. TransferInv /\ DownInv /\ UpInv
  BY DEF InitHostLink, ReceiveInit, TransferInv, DownInv, UpInv
<1>3. QED
  BY <1>1, <1>2 DEF OnceInv

\* What the assumptions say of the numbers used below.
LEMMA Numbers == MinGap \in Nat /\ MinGap >= 6 /\ FRAME_BITS = 14
BY LinkAssumption, PauseAssumption DEF FRAME_BITS

\* The steps of the sender between two edges.
LEMMA SenderKeepsOnce ==
  ASSUME OnceInv, Begin \/ Read \/ Poll \/ PollEnds \/ Sample
  PROVE  OnceInv'
<1> USE Numbers DEF OnceInv, SenderStep, receive_vars, pin_vars, sender_vars
<1>1. LinkType'
  <2>1. UNCHANGED <<counter, completed, executed, late>> /\ idx' \in {0, idx} /\ gap' \in {0, gap}
    BY DEF Begin, Read, Poll, PollEnds, Sample
  <2>2. pc' \in Steps
    BY DEF LinkType, Steps, TransferInv, Begin, Read, Poll, PollEnds, Sample
  <2>3. QED
    BY <2>1, <2>2 DEF LinkType
<1>2. TransferInv'
  BY DEF LinkType, TransferInv, Begin, Read, Poll, PollEnds, Sample
<1>3. CASE Begin
  BY <1>1, <1>2, <1>3, SMTT(30) DEF LinkType, DownInv, UpInv, Begin, Low
<1>4. CASE Read
  BY <1>1, <1>2, <1>4, SMTT(30) DEF LinkType, DownInv, UpInv, Read, Low
<1>5. CASE Poll
  BY <1>1, <1>2, <1>5, SMTT(30) DEF LinkType, DownInv, UpInv, Poll, Low
<1>6. CASE PollEnds
  BY <1>1, <1>2, <1>6, SMTT(30) DEF LinkType, DownInv, UpInv, PollEnds, Low
<1>7. CASE Sample
  <2>1. UNCHANGED <<mosi, clk_pin, idx, gap, counter, mosi_detected, trig_instruction_process,
                    completed, executed>> /\ pc = "sample"
    BY <1>7 DEF Sample
  <2>2. \/ pc' = "read" /\ clk_pin
        \/ pc' = "set_mosi" /\ idx = 0
        \/ pc' = "set_data" /\ ~clk_pin /\ idx > 0
        \/ pc' = "clear_mosi" /\ ~clk_pin /\ idx = FRAME_BITS
    BY <1>7 DEF Sample, LinkType, TransferInv
  <2>3. DownInv'
    BY <2>1, <2>2 DEF DownInv
  <2>4. UpInv'
    BY <2>1, <2>2 DEF LinkType, UpInv
  <2>5. QED
    BY <1>1, <1>2, <2>3, <2>4
<1>8. QED
  BY <1>3, <1>4, <1>5, <1>6, <1>7

\* The steps that drive a pin.
LEMMA DriveKeepsOnce ==
  ASSUME OnceInv, binary_command \in Word, SetMosi \/ SetData \/ ClearMosi
  PROVE  OnceInv'
<1> USE Numbers DEF OnceInv, SenderStep, receive_vars
<1>1. CASE SetMosi
  BY <1>1, SMTT(30) DEF LinkType, Steps, TransferInv, DownInv, UpInv, SetMosi
<1>2. CASE SetData
  BY <1>2, SMTT(30) DEF LinkType, Steps, TransferInv, DownInv, UpInv, SetData
<1>3. CASE ClearMosi
  <2>1. mosi /\ mosi_detected /\ counter = 5 /\ ~trig_instruction_process
    BY <1>3 DEF LinkType, TransferInv, UpInv, ClearMosi
  <2>2. completed' \in Seq(Word) /\ Len(completed') = Len(completed) + 1
    BY <1>3 DEF LinkType, ClearMosi
  <2>3. QED
    BY <1>3, <2>1, <2>2 DEF LinkType, Steps, TransferInv, DownInv, UpInv, ClearMosi, Low
<1>4. QED
  BY <1>1, <1>2, <1>3

\* A falling edge keeps transfers and executions in step.
LEMMA FallKeepsOnce ==
  ASSUME OnceInv, ClockFall
  PROVE  OnceInv'
<1> USE Numbers DEF OnceInv, ClockFall, Edge, receive_vars, pin_vars, sender_vars
<1>1. LinkType' /\ TransferInv'
  BY DEF LinkType, TransferInv
<1>2. /\ clk_pin /\ ~clk_pin' /\ event' /\ gap' = IF pc = "idle" /\ gap < MinGap THEN gap + 1 ELSE gap
      /\ UNCHANGED <<mosi, pc, idx, counter, mosi_detected, trig_instruction_process,
                     completed, executed>>
  OBVIOUS
<1>3. DownInv'
  BY <1>2 DEF LinkType, DownInv, Low
<1>4. UpInv'
  BY <1>2 DEF LinkType, UpInv, Low
<1>5. QED
  BY <1>1, <1>3, <1>4

\* So does a rising edge, which completes a word with the last bit.
LEMMA RiseKeepsOnce ==
  ASSUME OnceInv, binary_string \in Word, ClockRise
  PROVE  OnceInv'
<1> USE Numbers DEF OnceInv
<1>0. late' \in Nat
  BY DEF LinkType, ClockRise, Edge
<1>1. /\ ~clk_pin /\ clk_pin' /\ event' /\ late' \in Nat
      /\ UNCHANGED <<mosi, serial_in, pc, idx, gap, completed>>
      /\ ReceiveRise(mosi, serial_in)
      /\ executed' = IF trig_instruction_process' /\ ~trig_instruction_process
                     THEN Append(executed, binary_string) ELSE executed
  BY <1>0 DEF ClockRise, Edge, pin_vars, sender_vars
<1>2. TransferInv'
  BY <1>1 DEF TransferInv
<1>3. CASE mosi
  BY <1>1, <1>2, <1>3, SMTT(30) DEF ReceiveRise, ShiftIn, LinkType, DownInv, UpInv
<1>4. CASE ~mosi /\ CountDown
  <2>1. CASE trig_instruction_process \/ counter >= 4
    <3>0. trig_instruction_process' <=> trig_instruction_process
      <4>1. trig_instruction_process' = (trig_instruction_process \/ counter < 4)
        BY <1>4 DEF CountDown
      <4>2. trig_instruction_process \/ ~(counter < 4)
        BY <2>1 DEF LinkType
      <4>3. QED
        BY <4>1, <4>2, Zenon
    <3>1. /\ counter' = counter - 1 /\ mosi_detected /\ mosi_detected' /\ ~mosi' /\ counter > 0
          /\ trig_instruction_process' <=> trig_instruction_process
          /\ UNCHANGED <<pc, idx, gap, completed, executed>>
      BY <1>1, <1>4, <3>0 DEF CountDown, LinkType
    <3>2. LinkType' /\ UpInv'
      BY <1>1, <1>4, <3>1 DEF LinkType, UpInv
    <3>3. DownInv'
      BY <1>1, <1>4, <2>1, <3>1 DEF LinkType, DownInv, Low
    <3>4. QED
      BY <1>2, <3>2, <3>3
  <2>2. CASE ~trig_instruction_process /\ counter < 4
    <3>1. counter = 3 /\ Len(completed) = Len(executed) + 1
      BY <1>4, <2>2 DEF CountDown, LinkType, DownInv
    <3>0. trig_instruction_process'
      BY <1>4, <2>2 DEF CountDown
    <3>2. executed' \in Seq(Word) /\ Len(executed') = Len(executed) + 1
      BY <1>1, <2>2, <3>0 DEF LinkType
    <3>3. QED
      BY <1>1, <1>2, <1>4, <2>2, <3>1, <3>2, SMTT(30)
         DEF CountDown, LinkType, DownInv, UpInv, Low
  <2>3. QED
    BY <2>1, <2>2 DEF LinkType
<1>5. CASE ~mosi /\ ClearInput
  BY <1>1, <1>2, <1>5, SMTT(30) DEF ClearInput, LinkType, DownInv, UpInv
<1>6. QED
  BY <1>1, <1>3, <1>4, <1>5 DEF ReceiveRise

\* The words are words.
WordsType == binary_command \in Word /\ binary_string \in Word /\ serial_in \in {0, 1}

\* Every step keeps the words within their type.
LEMMA WordsKept ==
  ASSUME OnceInv, WordsType, [HostLinkNext]_link_vars
  PROVE  WordsType'
<1>1. CASE ClockRise
  <2>1. UNCHANGED <<binary_command, serial_in>> /\ ReceiveRise(mosi, serial_in)
    BY <1>1 DEF ClockRise, Edge, pin_vars, sender_vars
  <2>2. \/ binary_string' = Shift(binary_string, serial_in)
        \/ binary_string' = binary_string
        \/ binary_string' = ZeroWord
    BY <2>1 DEF ReceiveRise, ShiftIn, CountDown, ClearInput
  <2>3. Shift(binary_string, serial_in) \in Word /\ ZeroWord \in Word
    BY DEF WordsType, Word, Shift, ZeroWord, FRAME_BITS
  <2>4. QED
    BY <2>1, <2>2, <2>3 DEF WordsType
<1>2. CASE SetData
  <2>1. /\ serial_in' = binary_command[FRAME_BITS - 1 - idx]
        /\ UNCHANGED <<binary_command, binary_string>> /\ idx \in 0..FRAME_BITS - 1
    BY <1>2, Numbers DEF SetData, SenderStep, receive_vars, OnceInv, LinkType, TransferInv
  <2>2. FRAME_BITS - 1 - idx \in 0..FRAME_BITS - 1
    BY <2>1, Numbers
  <2>3. QED
    BY <2>1, <2>2 DEF WordsType, Word
<1>3. CASE Setup \/ ClockFall \/ Begin \/ Read \/ Poll \/ PollEnds \/ Sample \/ SetMosi \/ ClearMosi
            \/ UNCHANGED link_vars
  BY <1>3, LinkAssumption DEF WordsType, Setup, ClockFall, Edge, Begin, Read, Poll, PollEnds,
     Sample, SetMosi, ClearMosi, SenderStep, receive_vars, pin_vars, sender_vars, link_vars
<1>4. QED
  BY <1>1, <1>2, <1>3 DEF HostLinkNext, Transfer

\* Every step keeps transfers and executions in step.
LEMMA OnceKept ==
  ASSUME OnceInv, WordsType, [HostLinkNext]_link_vars
  PROVE  OnceInv'
<1>1. CASE Setup \/ UNCHANGED link_vars
  <2>1. UNCHANGED <<receive_vars, clk_pin, event, pin_vars, sender_vars, gap, late, completed,
                    executed>>
    BY <1>1 DEF Setup, link_vars, pin_vars, sender_vars
  <2>2. QED
    BY <2>1 DEF OnceInv, LinkType, TransferInv, DownInv, UpInv, Low, receive_vars, pin_vars,
                 sender_vars
<1>2. QED
  BY <1>1, SenderKeepsOnce, DriveKeepsOnce, FallKeepsOnce, RiseKeepsOnce
     DEF WordsType, HostLinkNext, Transfer

\* Transfers and executions are in step throughout.
LEMMA OnceAlways == HostLinkSpec => [](OnceInv /\ WordsType)
<1>1. InitHostLink => WordsType
  BY DEF InitHostLink, ReceiveInit, WordsType, Word, ZeroWord
<1>2. QED
  BY <1>1, InitOnce, OnceKept, WordsKept, PTL DEF HostLinkSpec

\* Whichever edges the sender handles late, and wherever timeouts broke off a
\* transfer before, the board executes one word for each frame that was sent
\* to its end (send_to_fpga of hw_if.c, input_receive.vhd).
THEOREM ExecutedOnce == HostLinkSpec => []OneWordPerTransfer
<1>1. OnceInv => OneWordPerTransfer
  <2> SUFFICES ASSUME OnceInv PROVE OneWordPerTransfer
    OBVIOUS
  <2>1. Len(executed) \in Nat /\ Len(completed) \in Nat
    BY DEF OnceInv, LinkType
  <2>2. Len(completed) = Len(executed) \/ Len(completed) = Len(executed) + 1
    BY DEF OnceInv, DownInv, UpInv
  <2>3. (pc = "idle" /\ gap = MinGap /\ ~mosi) => Len(completed) = Len(executed)
    BY Numbers DEF OnceInv, LinkType, DownInv, Low
  <2>4. QED
    BY <2>1, <2>2, <2>3 DEF OneWordPerTransfer
<1>2. QED
  BY <1>1, OnceAlways, PTL

-----------------------------------------------------------------------------
\* The bits of a frame.

BitsInv == PunctualInv /\ FrameInv

\* No bit has been delivered at first.
LEMMA InitBits == InitHostLink => BitsInv
BY DEF InitHostLink, ReceiveInit, BitsInv, PunctualInv, FrameInv, Delivered, OnTheWire

\* The sender's own steps between the edges keep the bits delivered.
LEMMA SenderKeepsBits ==
  ASSUME OnceInv, WordsType, BitsInv, Begin \/ Read \/ Poll \/ PollEnds \/ Sample \/ SetMosi \/ SetData
  PROVE  BitsInv'
<1>1. UNCHANGED <<clk_pin, late, executed, completed, binary_string>>
  BY DEF Begin, Read, Poll, PollEnds, Sample, SetMosi, SetData, SenderStep, receive_vars
<1>2. Delivered => Delivered'
  BY <1>1 DEF Delivered
<1>3. PunctualInv'
  BY <1>1 DEF BitsInv, PunctualInv, InTime, Begin, Read, Poll, PollEnds, Sample, SetMosi, SetData
<1>4. ASSUME InTime, OnTheWire PROVE OnTheWire'
  <2>1. CASE Begin \/ PollEnds
    BY <2>1 DEF Begin, PollEnds, OnTheWire
  <2>2. CASE Read \/ Poll \/ Sample \/ SetMosi
    <3>1. UNCHANGED <<idx, serial_in, binary_command>> /\ pc \notin {"idle", "set_data"}
      BY <2>2 DEF Read, Poll, Sample, SetMosi, pin_vars
    <3>2. Read => Shifted' = Shifted
      BY <1>1 DEF Read, Shifted
    <3>3. Poll => Shifted' = Shifted
      BY <1>1 DEF Poll, Shifted
    <3>4. ASSUME Sample, idx > 0 PROVE Shifted' = Shifted
      <4>1. pc = "sample" /\ (clk_pin \/ idx = 0 \/ pc' \in {"set_data", "clear_mosi"})
        BY <3>4, Numbers DEF Sample, OnceInv, LinkType, TransferInv
      <4>2. QED
        BY <1>1, <3>1, <3>4, <4>1 DEF Shifted
    <3>5. SetMosi => idx = 0
      BY DEF SetMosi, OnceInv, TransferInv
    <3>6. idx > 0 => Shifted' = Shifted
      BY <2>2, <3>2, <3>3, <3>4, <3>5
    <3>7. QED
      BY <1>1, <1>4, <3>1, <3>6 DEF OnTheWire
  <2>3. CASE SetData
    <3>1. /\ pc = "set_data" /\ pc' = "read" /\ ~clk_pin /\ idx \in 0..FRAME_BITS - 1
          /\ idx' = idx + 1 /\ UNCHANGED <<binary_command, event>>
          /\ serial_in' = binary_command[FRAME_BITS - 1 - idx]
      BY <1>4, <2>3, Numbers DEF SetData, BitsInv, PunctualInv, OnceInv, LinkType, TransferInv
    <3>2. Shifted = idx /\ Shifted' = idx
      BY <1>1, <3>1, Numbers DEF Shifted
    <3>3. serial_in' = binary_command'[FRAME_BITS - idx']
      BY <3>1, Numbers
    <3>4. \A j \in 0..Shifted' - 1 :
              binary_string'[j] = binary_command'[FRAME_BITS - Shifted' + j]
      BY <1>1, <1>4, <3>1, <3>2 DEF OnTheWire
    <3>5. QED
      BY <3>3, <3>4 DEF OnTheWire
  <2>4. QED
    BY <2>1, <2>2, <2>3
<1>5. QED
  BY <1>1, <1>2, <1>3, <1>4 DEF BitsInv, FrameInv, InTime

\* Words of the same bits are the same.
LEMMA SameWord ==
  ASSUME NEW v \in Word, NEW w \in Word, \A j \in 0..FRAME_BITS - 1 : v[j] = w[j]
  PROVE  v = w
<1>1. v = [j \in 0..FRAME_BITS - 1 |-> v[j]] /\ w = [j \in 0..FRAME_BITS - 1 |-> w[j]]
  BY DEF Word
<1>2. [j \in 0..FRAME_BITS - 1 |-> v[j]] = [j \in 0..FRAME_BITS - 1 |-> w[j]]
  BY Zenon
<1>3. QED
  BY <1>1, <1>2, Zenon

\* The last bit is in: the shift register is the frame.
LEMMA ClearKeepsBits ==
  ASSUME OnceInv, WordsType, BitsInv, ClearMosi
  PROVE  BitsInv'
<1>1. /\ pc = "clear_mosi" /\ pc' = "idle" /\ idx = FRAME_BITS /\ mosi
      /\ completed' = Append(completed, binary_command)
      /\ UNCHANGED <<late, executed, binary_string>>
  BY Numbers DEF ClearMosi, SenderStep, receive_vars, OnceInv, TransferInv
<1>2. /\ Len(completed) = Len(executed) /\ completed \in Seq(Word) /\ executed \in Seq(Word)
      /\ binary_command \in Word /\ binary_string \in Word
  BY <1>1 DEF OnceInv, UpInv, LinkType, WordsType
<1>3. /\ completed' \in Seq(Word) /\ Len(completed') = Len(completed) + 1
      /\ completed'[Len(completed')] = binary_command
      /\ \A i \in 1..Len(completed) : completed'[i] = completed[i]
  BY <1>1, <1>2
<1>4. ASSUME InTime, Delivered, OnTheWire PROVE Delivered'
  <2>1. Shifted = FRAME_BITS
    BY <1>1 DEF Shifted
  <2>2. \A j \in 0..FRAME_BITS - 1 : binary_string[j] = binary_command[j]
    BY <1>1, <1>4, <2>1, Numbers DEF OnTheWire
  <2>3. binary_string = binary_command
    BY <1>2, <2>2, SameWord
  <2>4. QED
    BY <1>1, <1>2, <1>3, <1>4, <2>3 DEF Delivered
<1>5. QED
  BY <1>1, <1>4 DEF BitsInv, PunctualInv, FrameInv, InTime, OnTheWire

\* An edge in time comes between two commands, or while the sender polls.
LEMMA EdgeInTime ==
  ASSUME OnceInv, NEW level, Edge(level), late' = 0
  PROVE  late = 0 /\ (pc = "idle" \/ (pc = "poll" /\ ~event))
BY DEF OnceInv, LinkType, Edge, Waiting

\* A falling edge keeps the bits delivered.
LEMMA FallKeepsBits ==
  ASSUME OnceInv, BitsInv, ClockFall
  PROVE  BitsInv'
<1>1. /\ clk_pin /\ ~clk_pin' /\ event'
      /\ UNCHANGED <<pc, idx, binary_command, serial_in, binary_string, completed, executed>>
  BY DEF ClockFall, Edge, receive_vars, pin_vars, sender_vars
<1>2. late' = 0 => late = 0 /\ (pc = "idle" \/ (pc = "poll" /\ ~event))
  BY EdgeInTime DEF ClockFall
<1>3. PunctualInv'
  BY <1>1 DEF PunctualInv
<1>4. Delivered => Delivered'
  BY <1>1 DEF Delivered
<1>5. ASSUME late' = 0, OnTheWire PROVE OnTheWire'
  <2>1. pc = "poll" => Shifted' = Shifted
    BY <1>1 DEF Shifted
  <2>2. QED
    BY <1>1, <1>2, <1>5, <2>1 DEF OnTheWire
<1>6. QED
  BY <1>2, <1>3, <1>4, <1>5 DEF BitsInv, FrameInv, InTime

\* A rising edge delivers the bit on the wire, unless the sender was late for it.
LEMMA RiseKeepsBits ==
  ASSUME OnceInv, WordsType, BitsInv, ClockRise
  PROVE  BitsInv'
<1>1. /\ ~clk_pin /\ clk_pin' /\ event'
      /\ UNCHANGED <<mosi, serial_in, pc, idx, binary_command, completed>>
      /\ ReceiveRise(mosi, serial_in)
      /\ executed' = IF trig_instruction_process' /\ ~trig_instruction_process
                     THEN Append(executed, binary_string) ELSE executed
  BY DEF ClockRise, Edge, pin_vars, sender_vars
<1>2. late' = 0 => late = 0 /\ (pc = "idle" \/ (pc = "poll" /\ ~event))
  BY EdgeInTime DEF ClockRise
<1>3. PunctualInv'
  BY <1>1, <1>2 DEF PunctualInv, InTime
<1>4. /\ Len(completed) \in {Len(executed), Len(executed) + 1}
      /\ completed \in Seq(Word) /\ executed \in Seq(Word)
  BY DEF OnceInv, LinkType, DownInv, UpInv
<1>5. ASSUME Delivered PROVE Delivered'
  <2>1. CASE trig_instruction_process' /\ ~trig_instruction_process
    <3>1. ~mosi /\ mosi_detected
      BY <1>1, <2>1 DEF ReceiveRise, ShiftIn, ClearInput, CountDown
    <3>2. Len(completed) = Len(executed) + 1
      BY <2>1, <3>1 DEF OnceInv, DownInv
    <3>3. /\ executed' = Append(executed, binary_string) /\ executed' \in Seq(Word)
          /\ Len(executed') = Len(executed) + 1
      BY <1>1, <1>4, <2>1 DEF WordsType
    <3>4. QED
      BY <1>1, <1>4, <1>5, <3>2, <3>3 DEF Delivered
  <2>2. CASE ~(trig_instruction_process' /\ ~trig_instruction_process)
    <3>1. executed' = executed
      BY <1>1, <2>2
    <3>2. Len(completed) = Len(executed) + 1 => ~mosi /\ mosi_detected /\ counter > 0
      BY <1>4 DEF OnceInv, LinkType, DownInv, UpInv
    <3>3. Len(completed) = Len(executed) + 1 => binary_string' = binary_string
      BY <1>1, <3>2 DEF ReceiveRise, CountDown, ClearInput
    <3>4. QED
      BY <1>1, <1>5, <3>1, <3>3 DEF Delivered
  <2>3. QED
    BY <2>1, <2>2
<1>6. ASSUME late' = 0, OnTheWire PROVE OnTheWire'
  <2> SUFFICES ASSUME pc # "idle", idx > 0 PROVE OnTheWire'
    BY <1>1 DEF OnTheWire
  <2>1. pc = "poll" /\ ~event /\ mosi /\ idx \in 1..FRAME_BITS
    BY <1>2, <1>6, Numbers DEF OnceInv, LinkType, TransferInv
  <2>2. Shifted = idx - 1 /\ Shifted' = idx
    BY <1>1, <2>1 DEF Shifted
  <2>3. binary_string' = Shift(binary_string, serial_in)
    BY <1>1, <2>1 DEF ReceiveRise, ShiftIn
  <2>4. /\ serial_in = binary_command[FRAME_BITS - idx]
        /\ \A j \in 0..idx - 2 : binary_string[j] = binary_command[FRAME_BITS - (idx - 1) + j]
    BY <1>6, <2>1, <2>2 DEF OnTheWire
  <2>5. ASSUME NEW j \in 0..idx - 1
        PROVE  binary_string'[j] = binary_command[FRAME_BITS - idx + j]
    <3>1. j \in 0..FRAME_BITS - 1
      BY <2>1, Numbers
    <3>2. binary_string'[j] = IF j = 0 THEN serial_in ELSE binary_string[j - 1]
      BY <2>3, <3>1 DEF Shift
    <3>3. CASE j = 0
      <4>1. FRAME_BITS - idx + j = FRAME_BITS - idx
        BY <2>1, <3>3, Numbers
      <4>2. QED
        BY <2>4, <3>2, <3>3, <4>1
    <3>4. CASE j # 0
      <4>1. j - 1 \in 0..idx - 2 /\ FRAME_BITS - (idx - 1) + (j - 1) = FRAME_BITS - idx + j
        BY <2>1, <3>4, Numbers
      <4>2. QED
        BY <2>4, <3>2, <3>4, <4>1
    <3>5. QED
      BY <3>3, <3>4
  <2>6. QED
    BY <1>1, <2>1, <2>2, <2>4, <2>5 DEF OnTheWire
<1>7. QED
  BY <1>2, <1>3, <1>5, <1>6 DEF BitsInv, FrameInv, InTime

\* Every step keeps the bits delivered.
LEMMA BitsKept ==
  ASSUME OnceInv, WordsType, BitsInv, [HostLinkNext]_link_vars
  PROVE  BitsInv'
<1>1. CASE Setup \/ UNCHANGED link_vars
  <2>1. UNCHANGED <<receive_vars, clk_pin, event, pin_vars, sender_vars, late, completed, executed>>
    BY <1>1 DEF Setup, link_vars, pin_vars, sender_vars
  <2>2. QED
    BY <2>1 DEF BitsInv, PunctualInv, FrameInv, InTime, Delivered, OnTheWire, Shifted,
                 receive_vars, pin_vars, sender_vars
<1>2. QED
  BY <1>1, SenderKeepsBits, ClearKeepsBits, FallKeepsBits, RiseKeepsBits
     DEF HostLinkNext, Transfer

\* As long as the sender is in time, what the board executes is bit for bit
\* what was sent, also after transfers that were broken off.
THEOREM WordsArrive == HostLinkSpec => []WordsAsSent
<1>1. BitsInv => WordsAsSent
  BY DEF BitsInv, FrameInv, InTime, Delivered, WordsAsSent
<1>2. HostLinkSpec => []BitsInv
  BY InitBits, BitsKept, OnceAlways, PTL DEF HostLinkSpec
<1>3. QED
  BY <1>1, <1>2, PTL
-----------------------------------------------------------------------------
\* Types that no argument above needed.
FlagsType ==
    /\ stage \in Stages /\ mem_fd \in BOOLEAN /\ gpio_map \in BOOLEAN
    /\ clk_pin \in BOOLEAN /\ event \in BOOLEAN /\ mosi \in BOOLEAN
    /\ mosi_detected \in BOOLEAN /\ trig_instruction_process \in BOOLEAN
    /\ timeouts \in Nat /\ begun \in Nat

\* Setting up the pins stays within the types.
LEMMA SetupKeepsFlags ==
  ASSUME FlagsType, Setup
  PROVE  FlagsType'
<1>1. /\ stage' \in Stages /\ mem_fd' \in BOOLEAN /\ gpio_map' \in BOOLEAN
  BY Zenon DEF FlagsType, Stages, Setup, SetupNext, OpenMem, MapRegisters, CloseMem, CheckSetup,
     InitPins
<1>2. QED
  BY <1>1, Zenon DEF FlagsType, Setup, receive_vars, pin_vars

\* So do the edges of the clock.
LEMMA EdgeKeepsFlags ==
  ASSUME FlagsType, ClockRise \/ ClockFall
  PROVE  FlagsType'
<1>1. clk_pin' \in BOOLEAN /\ event' \in BOOLEAN
  BY Zenon DEF ClockRise, ClockFall, Edge
<1>2. mosi_detected' \in BOOLEAN /\ trig_instruction_process' \in BOOLEAN
  BY Zenon DEF FlagsType, ClockRise, ClockFall, ReceiveRise, ShiftIn, CountDown, ClearInput,
     receive_vars
<1>3. QED
  BY <1>1, <1>2, Zenon DEF FlagsType, ClockRise, ClockFall, Edge, setup_vars, pin_vars

\* So do the steps of the sender.
LEMMA TransferKeepsFlags ==
  ASSUME FlagsType, Transfer
  PROVE  FlagsType'
<1>1. UNCHANGED <<stage, mem_fd, gpio_map, clk_pin, mosi_detected, trig_instruction_process>>
  BY Zenon DEF Transfer, Begin, Read, Poll, PollEnds, Sample, SetMosi, SetData, ClearMosi, SenderStep,
     setup_vars, receive_vars
<1>2. event' \in {event, FALSE} /\ mosi' \in {mosi, TRUE, FALSE}
  BY Zenon DEF Transfer, Begin, Read, Poll, PollEnds, Sample, SetMosi, SetData, ClearMosi, pin_vars
<1>3. timeouts' \in Nat /\ begun' \in Nat
  BY DEF FlagsType, Transfer, Begin, Read, Poll, PollEnds, Sample, SetMosi, SetData, ClearMosi
<1>4. QED
  BY <1>1, <1>2, <1>3, Zenon DEF FlagsType

\* The flags stay within their types throughout.
LEMMA FlagsAlways == HostLinkSpec => []FlagsType
<1>1. InitHostLink => FlagsType
  <2> SUFFICES ASSUME InitHostLink PROVE FlagsType
    OBVIOUS
  <2>1. /\ stage = "open" /\ mem_fd = FALSE /\ gpio_map = FALSE
        /\ clk_pin = FALSE /\ event = FALSE /\ mosi = FALSE
        /\ mosi_detected = FALSE /\ trig_instruction_process = FALSE
    BY Zenon DEF InitHostLink, SetupInit, ReceiveInit
  <2>2. timeouts \in Nat /\ begun \in Nat
    BY DEF InitHostLink
  <2>3. QED
    BY <2>1, <2>2, Zenon DEF FlagsType, Stages
<1>2. FlagsType /\ [HostLinkNext]_link_vars => FlagsType'
  <2> SUFFICES ASSUME FlagsType, [HostLinkNext]_link_vars PROVE FlagsType'
    OBVIOUS
  <2>1. CASE UNCHANGED link_vars
    BY <2>1, Zenon DEF link_vars, setup_vars, receive_vars, FlagsType
  <2>2. QED
    BY <2>1, SetupKeepsFlags, EdgeKeepsFlags, TransferKeepsFlags DEF HostLinkNext
<1>3. QED
  BY <1>1, <1>2, PTL DEF HostLinkSpec

\* For all words and bounds: no statement of init_pins but those that are there,
\* no bit but those of the frame, and a countdown that stays within its range.
THEOREM LinkTypes == HostLinkSpec => []HostLinkTypeOK
<1>1. SetupInv /\ OnceInv /\ WordsType /\ FlagsType => HostLinkTypeOK
  <2> SUFFICES ASSUME SetupInv, OnceInv, WordsType, FlagsType PROVE HostLinkTypeOK
    OBVIOUS
  <2>1. SetupType
    BY Zenon DEF SetupInv, StatementsInv, FlagsType, SetupType
  <2>2. ReceiveType
    BY Zenon DEF OnceInv, LinkType, WordsType, FlagsType, ReceiveType
  <2>3. QED
    BY <2>1, <2>2, Zenon DEF OnceInv, LinkType, WordsType, FlagsType, HostLinkTypeOK
<1>2. QED
  BY <1>1, InitSetup, SetupKept, OnceAlways, FlagsAlways, PTL DEF HostLinkSpec
=============================================================================
