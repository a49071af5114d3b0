-------------------------------- MODULE Ram --------------------------------
(***************************************************************************)
(* ram.vhd: data memory with the special function registers in it.         *)
(* Signal assignments of one clock read the old memory, and a later        *)
(* assignment to the same bits wins: NextBlock applies them in that order. *)
(***************************************************************************)
EXTENDS Bytes, PicInstructions

CONSTANTS RamSize,      \* RAM_SIZE, 127 in the code
          EepromSize    \* EEPROM_SIZE, 256 in the code

ASSUME MemoryAssumption == /\ RamSize \in 10..127
                           /\ EepromSize \in 1..256

VARIABLES ram_block, reset_eecon, dump_counter, dump_addr,
          from_ram_to_alu, status_in_alu, edge_trigger_int,
          eedata_int, eeadr_int, eecon_int, ram_dump_int, eeprom_dump_int

ram_vars == <<ram_block, reset_eecon, dump_counter, dump_addr, from_ram_to_alu,
              status_in_alu, edge_trigger_int, eedata_int, eeadr_int, eecon_int,
              ram_dump_int, eeprom_dump_int>>

RamAddress == 0..RamSize - 1
Memory == [RamAddress -> Byte]
Eeprom == [0..EepromSize - 1 -> Byte]
ClearedRam == [a \in RamAddress |-> 0]
ClearedEeprom == [a \in 0..EepromSize - 1 |-> 0]

RamType ==
    /\ ram_block \in Memory
    /\ reset_eecon \in BOOLEAN
    /\ dump_counter \in 0..6
    /\ dump_addr \in 0..EepromSize - 1
    /\ {from_ram_to_alu, status_in_alu, eedata_int, eeadr_int, eecon_int} \subseteq Byte
    /\ edge_trigger_int \in {0, 1}
    /\ ram_dump_int \in Memory
    /\ eeprom_dump_int \in Eeprom

\* eeprom_dump has no reset value and powers up low.
RamInit ==
    /\ ram_block = ClearedRam
    /\ reset_eecon = FALSE
    /\ dump_counter = 0 /\ dump_addr = 0
    /\ from_ram_to_alu = 0 /\ status_in_alu = 0 /\ edge_trigger_int = 0
    /\ eedata_int = 0 /\ eeadr_int = 0 /\ eecon_int = 0
    /\ ram_dump_int = ClearedRam
    /\ eeprom_dump_int = ClearedEeprom

\* Mutant: no indirect addressing.
DirectTarget(address) == address

\* Where an access goes: INDF stands for the cell FSR points at.
Target(address) ==
    IF address = INDF_ADDRESS THEN ram_block[FSR_ADDRESS] % 128 ELSE address

\* A cell outside the memory (address 127) reads as anything.
ReadRam(address) ==
    IF Target(address) \in RamAddress THEN {ram_block[Target(address)]} ELSE Byte

\* write_ram on memory m: a direct write reaches only bits 7..5 of STATUS, and
\* INDF with FSR = 0 clears cell 0.
WriteRam(m, address, data) ==
    [m EXCEPT ![Target(address)] =
        CASE address = STATUS_ADDRESS -> PutLow(data, 32, @)
          [] address # STATUS_ADDRESS /\ Target(address) = INDF_ADDRESS -> 0
          [] OTHER -> data]

\* Mutant: the byte is asked for when it is due.
LateDumpStep(m) ==
    [m EXCEPT ![EECON_ADDRESS] = IF dump_counter \in {4, 5} THEN 1 ELSE 0,
              ![EEADR_ADDRESS] = IF dump_counter = 6 THEN 0 ELSE dump_addr]

\* write_eeprom_dump on memory m: seven clocks for each EEPROM address.
DumpStep(m) ==
    [m EXCEPT ![EECON_ADDRESS] = IF dump_counter \in {1, 2} THEN 1 ELSE 0,
              ![EEADR_ADDRESS] = IF dump_counter = 6 THEN 0 ELSE dump_addr]

\* The branch taken: the first of these enables that is high.
Access(en) ==
    IF "ram_dump" \in en THEN "ram_dump"
    ELSE IF "eeprom_dump" \in en THEN "eeprom_dump"
    ELSE IF "ram_read" \in en THEN "ram_read"
    ELSE IF "ram_write" \in en THEN "ram_write" ELSE "none"

NextBlock(en, eeprom_read, written, falling, rising, eeprom_data, data, status, address) ==
    LET external == Bit(ram_block[OPTION_ADDRESS], 5) = 1
        m1 == IF eeprom_read THEN [ram_block EXCEPT ![EEDATA_ADDRESS] = eeprom_data]
              ELSE ram_block
        m2 == IF reset_eecon THEN [m1 EXCEPT ![EECON_ADDRESS] = PutLow(@, 4, 0)] ELSE m1
        m3 == CASE Access(en) = "eeprom_dump" -> DumpStep(m2)
                [] Access(en) = "ram_write"   -> WriteRam(m2, address, data)
                [] OTHER                      -> m2
        m4 == IF "status_write" \in en
              THEN [m3 EXCEPT ![STATUS_ADDRESS] = PutLow(@, 8, status)] ELSE m3
        m5 == IF "timer_write" \in en /\ ~external
              THEN [m4 EXCEPT ![TMR0_ADDRESS] = (ram_block[TMR0_ADDRESS] + 1) % 256]
              ELSE m4
        m6 == IF external
              THEN [m5 EXCEPT ![TMR0_ADDRESS] = (falling + rising) % 256] ELSE m5
    IN  IF written THEN [m6 EXCEPT ![EECON_ADDRESS] = PutBit(@, 4, 1)] ELSE m6

\* The enable lines, the I2C master's outputs (`written` is
\* eeprom_write_completed), the timer's counts, and the data, status and
\* address to write.
RamRise(en, eeprom_read, written, falling, rising, eeprom_data, data, status, address) ==
    LET dumping == Access(en) = "eeprom_dump" IN
    /\ ram_block' = NextBlock(en, eeprom_read, written, falling, rising,
                              eeprom_data, data, status, address)
    /\ reset_eecon' = (Access(en) = "ram_write" /\ address = EECON_ADDRESS)
    /\ IF Access(en) = "ram_read" THEN from_ram_to_alu' \in ReadRam(address)
       ELSE UNCHANGED from_ram_to_alu
    /\ ram_dump_int' = IF Access(en) = "ram_dump" THEN ram_block ELSE ram_dump_int
    /\ dump_counter' = IF dumping THEN (dump_counter + 1) % 7 ELSE dump_counter
    /\ dump_addr' = IF dumping /\ dump_counter = 6 THEN (dump_addr + 1) % EepromSize
                    ELSE dump_addr
    /\ eeprom_dump_int' = IF dumping /\ dump_counter = 5
                          THEN [eeprom_dump_int EXCEPT ![dump_addr] = eeprom_data]
                          ELSE eeprom_dump_int
    /\ status_in_alu' = ram_block[STATUS_ADDRESS]
    /\ edge_trigger_int' = Bit(ram_block[OPTION_ADDRESS], 4)
    /\ eedata_int' = ram_block[EEDATA_ADDRESS]
    /\ eeadr_int' = ram_block[EEADR_ADDRESS]
    /\ eecon_int' = ram_block[EECON_ADDRESS]

\* Reset leaves the dump register as it was.
RamReset ==
    /\ ram_block' = ClearedRam
    /\ reset_eecon' = FALSE
    /\ dump_counter' = 0 /\ dump_addr' = 0
    /\ from_ram_to_alu' = 0 /\ status_in_alu' = 0 /\ edge_trigger_int' = 0
    /\ eedata_int' = 0 /\ eeadr_int' = 0 /\ eecon_int' = 0
    /\ ram_dump_int' = ClearedRam
    /\ UNCHANGED eeprom_dump_int
=============================================================================
