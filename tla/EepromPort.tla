----------------------------- MODULE EepromPort -----------------------------
(***************************************************************************)
(* What the registers EEADR, EEDATA and EECON promise to a program: one    *)
(* byte is read or written, all of it at once, for each write to EECON     *)
(* that asks for it.  No clocks, no wires.  The byte last read stays in a  *)
(* buffer, and EEDATA holds that buffer after a write too.                 *)
(***************************************************************************)
EXTENDS Bytes

VARIABLES memory,     \* the bytes written so far; the others are 0
          buffer, request, served, eeadr, eedata, eecon, dumping

port_vars == <<memory, buffer, request, served, eeadr, eedata, eecon, dumping>>

ByteAt(a) == IF a \in DOMAIN memory THEN memory[a] ELSE 0

\* Bit 0 asks for a read, bits 1 and 2 together for a write.
Asked(control) ==
    IF Bit(control, 0) = 1 THEN "read"
    ELSE IF Bit(control, 1) = 1 /\ Bit(control, 2) = 1 THEN "write" ELSE "none"

PortInit ==
    /\ memory = <<>> /\ buffer = 0
    /\ request = "none" /\ served = FALSE
    /\ eeadr = 0 /\ eedata = 0 /\ eecon = 0
    /\ dumping = FALSE

Quiet == request = "none" /\ ~dumping

WriteAddress ==
    /\ Quiet
    /\ eeadr' \in Byte
    /\ UNCHANGED <<memory, buffer, request, served, eedata, eecon, dumping>>

WriteData ==
    /\ Quiet
    /\ eedata' \in Byte
    /\ UNCHANGED <<memory, buffer, request, served, eeadr, eecon, dumping>>

\* The two strobe bits do not stay.
WriteControl ==
    /\ Quiet
    /\ \E control \in Byte : /\ eecon' = PutLow(control, 4, 0)
                             /\ request' = Asked(control)
    /\ UNCHANGED <<memory, buffer, served, eeadr, eedata, dumping>>

Serve ==
    /\ request # "none" /\ ~served /\ ~dumping
    /\ served' = TRUE
    /\ IF request = "read"
       THEN buffer' = ByteAt(eeadr) /\ UNCHANGED memory
       ELSE /\ memory' = [a \in DOMAIN memory \cup {eeadr} |->
                           IF a = eeadr THEN eedata ELSE memory[a]]
            /\ UNCHANGED buffer
    /\ UNCHANGED <<request, eeadr, eedata, eecon, dumping>>

\* Bit 4 tells that a write is over.
Complete ==
    /\ served /\ ~dumping
    /\ eedata' = buffer
    /\ eecon' = IF request = "write" THEN PutBit(eecon, 4, 1) ELSE eecon
    /\ request' = "none" /\ served' = FALSE
    /\ UNCHANGED <<memory, buffer, eeadr, dumping>>

\* A dump uses the same registers: they mean nothing while it lasts, but the
\* memory stays as it is.
Dump ==
    /\ dumping \/ dumping'
    /\ Quiet \/ dumping
    /\ UNCHANGED memory

PortReset ==
    /\ memory' = <<>> /\ buffer' = 0
    /\ request' = "none" /\ served' = FALSE
    /\ eeadr' = 0 /\ eedata' = 0 /\ eecon' = 0
    /\ dumping' = FALSE

PortNext == WriteAddress \/ WriteData \/ WriteControl \/ Serve \/ Complete \/ Dump \/ PortReset

PortSpec == PortInit /\ [][PortNext]_port_vars
=============================================================================
