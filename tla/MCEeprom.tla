------------------------------ MODULE MCEeprom ------------------------------
(***************************************************************************)
(* Instances of EepromLink for TLC.  Neither the address 200 nor the byte  *)
(* 149 reads the same backwards; a dump covers the addresses 0 and 1.      *)
(***************************************************************************)
EXTENDS EepromInvariant

TwoPeriods == {101, 300}
SlowPeriods == {300}
TwoAddresses == {1, 200}
TwoBytes == {0, 149}

\* Read, write, and a write without the write-enable bit.
ThreeControls == {1, 6, 2}

\* The hypotheses of RequestsOver and of DumpReads hold here.
ASSUME SuitableTiming
ASSUME SuitableDumps
=============================================================================
