----------------------------- MODULE MCHostLink -----------------------------
(***************************************************************************)
(* An instance of HostLink for TLC.                                        *)
(***************************************************************************)
EXTENDS HostLink

\* Two words that differ in all their bits, and change from bit to bit.
Alternating == [i \in 0..FRAME_BITS - 1 |-> (i \div 2) % 2]
TwoWords == {Alternating, [i \in 0..FRAME_BITS - 1 |-> 1 - Alternating[i]]}

\* A pin may be an input, an output or have an alternate function.
ThreeFunctions == {0, 1, 4}
OneOther == {"OTHER"}
=============================================================================
