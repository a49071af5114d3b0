----------------------------- MODULE HostSetup -----------------------------
(***************************************************************************)
(* main of app.c up to its threads: init_gpio_map and init_pins of         *)
(* gpio_setup.c and check_setup_succeeded.  The function of a pin is a     *)
(* three-bit field of a register it shares with other pins; the macro      *)
(* INP_GPIO clears the field and OUT_GPIO sets its lowest bit.             *)
(***************************************************************************)
EXTENDS Naturals, Sequences

CONSTANTS FunctionsBefore,    \* the functions of a pin the program may find
          OtherPins           \* pins that are not the program's

VARIABLES stage,              \* how far main has come
          mem_fd, gpio_map,   \* /dev/mem is open; the registers are mapped
          function,           \* the pins' functions,
          found,              \* as they were before
          pins_done           \* statements of init_pins that are over

setup_vars == <<stage, mem_fd, gpio_map, function, found, pins_done>>

out_pins == <<"CLK", "TIMER_EXT_CLK", "RESET", "DATA", "MOSI">>
in_pins == <<"RESULT", "MISO", "CLK_IN">>
OutPins == {out_pins[i] : i \in 1..Len(out_pins)}
InPins == {in_pins[i] : i \in 1..Len(in_pins)}
Pins == OutPins \cup InPins \cup OtherPins

INPUT == 0
OUTPUT == 1

ASSUME SetupAssumption == /\ FunctionsBefore \subseteq 0..7
                          /\ OtherPins \cap (OutPins \cup InPins) = {}

Stages == {"open", "map", "close", "wiring", "pins", "ready", "failed"}

SetupType ==
    /\ stage \in Stages
    /\ mem_fd \in BOOLEAN /\ gpio_map \in BOOLEAN
    /\ function \in [Pins -> 0..7] /\ found \in [Pins -> 0..7]
    /\ pins_done \in 0..2 * Len(out_pins) + Len(in_pins)

SetupInit ==
    /\ stage = "open"
    /\ mem_fd = FALSE /\ gpio_map = FALSE
    /\ \E f \in FunctionsBefore, g \in FunctionsBefore :
           function = [p \in Pins |-> IF p \in OutPins THEN f ELSE g]
    /\ found = function
    /\ pins_done = 0

OpenMem ==
    /\ stage = "open"
    /\ \/ stage' = "map" /\ mem_fd' = TRUE
       \/ stage' = "wiring" /\ UNCHANGED mem_fd
    /\ UNCHANGED <<gpio_map, function, found, pins_done>>

\* mmap succeeds or not; its result is looked at after the close.
MapRegisters ==
    /\ stage = "map"
    /\ stage' = "close"
    /\ gpio_map' \in BOOLEAN
    /\ UNCHANGED <<mem_fd, function, found, pins_done>>

CloseMem ==
    /\ stage = "close"
    /\ stage' = "wiring"
    /\ mem_fd' = FALSE
    /\ UNCHANGED <<gpio_map, function, found, pins_done>>

\* wiringPiSetup, which may fail, and then the pointer are checked.
CheckSetup ==
    /\ stage = "wiring"
    /\ stage' \in IF gpio_map THEN {"pins", "failed"} ELSE {"failed"}
    /\ UNCHANGED <<mem_fd, gpio_map, function, found, pins_done>>

\* OUT_GPIO ors a one into the field.
Or1(f) == IF f % 2 = 0 THEN f + 1 ELSE f

\* Mutant: a pin is set as output without being set as input first.
OutputOnly(i) ==
    LET pin == out_pins[(i + 1) \div 2] IN
    function' = [function EXCEPT ![pin] = Or1(@)]

\* The statements of the first loop, two for each pin.
OutStatement(i) ==
    LET pin == out_pins[(i + 1) \div 2] IN
    function' = [function EXCEPT ![pin] = IF i % 2 = 1 THEN INPUT ELSE Or1(@)]

InStatement(i) == function' = [function EXCEPT ![in_pins[i]] = INPUT]

InitPins ==
    /\ stage = "pins"
    /\ pins_done' = pins_done + 1
    /\ IF pins_done < 2 * Len(out_pins) THEN OutStatement(pins_done + 1)
       ELSE InStatement(pins_done + 1 - 2 * Len(out_pins))
    /\ stage' = IF pins_done' = 2 * Len(out_pins) + Len(in_pins) THEN "ready" ELSE stage
    /\ UNCHANGED <<mem_fd, gpio_map, found>>

SetupNext == OpenMem \/ MapRegisters \/ CloseMem \/ CheckSetup \/ InitPins
=============================================================================
