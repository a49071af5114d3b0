-------------------------- MODULE InstructionFlow --------------------------
(***************************************************************************)
(* What the serial link and the sequencer promise together: every word the *)
(* host sends to a running board becomes exactly one execution of exactly  *)
(* that instruction, in order, and nothing else is ever executed.  A reset *)
(* drops what is in flight, and nothing else does.                         *)
(***************************************************************************)
CONSTANTS Instructions, None   \* None is not an instruction

VARIABLES pending, active, running

flow_vars == <<pending, active, running>>

FlowInit == pending = None /\ active = None /\ running = TRUE

\* The host begins to send an instruction.
Send(i) ==
    /\ running
    /\ pending = None
    /\ pending' = i
    /\ UNCHANGED <<active, running>>

\* The sequencer takes it up.
Begin ==
    /\ running
    /\ pending # None /\ active = None
    /\ active' = pending
    /\ pending' = None
    /\ UNCHANGED running

\* Its last effect has been committed.
Complete ==
    /\ running
    /\ active # None
    /\ active' = None
    /\ UNCHANGED <<pending, running>>

Stop ==
    /\ running /\ ~running'
    /\ pending' = None /\ active' = None

Restart ==
    /\ ~running /\ running'
    /\ UNCHANGED <<pending, active>>

FlowNext ==
    (\E i \in Instructions : Send(i)) \/ Begin \/ Complete \/ Stop \/ Restart

FlowSpec == FlowInit /\ [][FlowNext]_flow_vars
=============================================================================
