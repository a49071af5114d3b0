---------------------------- MODULE InputReceive ----------------------------
(***************************************************************************)
(* input_receive.vhd: the shift register that collects a 14-bit word from  *)
(* serial_in while mosi is high and, once mosi has been low for a few      *)
(* clocks, raises trig_instruction_process for the decoder.                *)
(***************************************************************************)
EXTENDS PicInstructions

VARIABLES binary_string, mosi_detected, counter, trig_instruction_process

receive_vars == <<binary_string, mosi_detected, counter, trig_instruction_process>>

ReceiveType ==
    /\ binary_string \in Word
    /\ mosi_detected \in BOOLEAN
    /\ counter \in 0..5
    /\ trig_instruction_process \in BOOLEAN

ReceiveInit ==
    /\ binary_string = ZeroWord
    /\ mosi_detected = FALSE
    /\ counter = 0
    /\ trig_instruction_process = FALSE

\* binary_string(12 downto 0) & serial_in
Shift(s, b) == [i \in 0..FRAME_BITS - 1 |-> IF i = 0 THEN b ELSE s[i - 1]]

\* A word is arriving; the trigger keeps its value.
ShiftIn(serial_in) ==
    /\ binary_string' = Shift(binary_string, serial_in)
    /\ mosi_detected' = TRUE
    /\ counter' = 5
    /\ UNCHANGED trig_instruction_process

\* Mutant: the trigger comes up one count too early.
EarlyTrigger ==
    /\ mosi_detected /\ counter > 0
    /\ trig_instruction_process' = (trig_instruction_process \/ counter < 5)
    /\ counter' = counter - 1
    /\ UNCHANGED <<binary_string, mosi_detected>>

\* Mutant: the countdown does not stop at zero.
EndlessCountDown ==
    /\ mosi_detected
    /\ trig_instruction_process' = (trig_instruction_process \/ counter < 4)
    /\ counter' = counter - 1
    /\ UNCHANGED <<binary_string, mosi_detected>>

\* The word has ended: count down, triggering on the last three counts.
CountDown ==
    /\ mosi_detected /\ counter > 0
    /\ trig_instruction_process' = (trig_instruction_process \/ counter < 4)
    /\ counter' = counter - 1
    /\ UNCHANGED <<binary_string, mosi_detected>>

\* Mutant: the trigger is not lowered.
TriggerLeftUp ==
    /\ ~(mosi_detected /\ counter > 0)
    /\ binary_string' = ZeroWord
    /\ mosi_detected' = FALSE
    /\ counter' = 0
    /\ UNCHANGED trig_instruction_process

ClearInput ==
    /\ ~(mosi_detected /\ counter > 0)
    /\ binary_string' = ZeroWord
    /\ mosi_detected' = FALSE
    /\ counter' = 0
    /\ trig_instruction_process' = FALSE

ReceiveRise(mosi, serial_in) ==
    IF mosi THEN ShiftIn(serial_in) ELSE CountDown \/ ClearInput

ReceiveReset ==
    /\ binary_string' = ZeroWord
    /\ mosi_detected' = FALSE
    /\ counter' = 0
    /\ trig_instruction_process' = FALSE
=============================================================================
