------------------------------- MODULE Timer -------------------------------
(***************************************************************************)
(* timer.vhd: two counters of the edges of timer_external_input, of which  *)
(* edge_trigger selects the one that counts.                               *)
(***************************************************************************)
EXTENDS Bytes

VARIABLES timer_external_input, data_out_falling, data_out_rising

timer_vars == <<timer_external_input, data_out_falling, data_out_rising>>

TimerType ==
    /\ timer_external_input \in BOOLEAN
    /\ data_out_falling \in Byte
    /\ data_out_rising \in Byte

TimerInit ==
    /\ timer_external_input = FALSE
    /\ data_out_falling = 0
    /\ data_out_rising = 0

RisingInput(reset, edge_trigger) ==
    /\ ~timer_external_input
    /\ timer_external_input' = TRUE
    /\ data_out_rising' = IF ~reset /\ edge_trigger = 0 THEN (data_out_rising + 1) % 256
                          ELSE data_out_rising
    /\ UNCHANGED data_out_falling

FallingInput(reset, edge_trigger) ==
    /\ timer_external_input
    /\ timer_external_input' = FALSE
    /\ data_out_falling' = IF ~reset /\ edge_trigger = 1 THEN (data_out_falling + 1) % 256
                           ELSE data_out_falling
    /\ UNCHANGED data_out_rising

\* Mutant: the count of falling edges alone is reset.
HalfReset ==
    /\ data_out_falling' = 0
    /\ UNCHANGED <<timer_external_input, data_out_rising>>

TimerReset ==
    /\ data_out_falling' = 0
    /\ data_out_rising' = 0
    /\ UNCHANGED timer_external_input
=============================================================================
