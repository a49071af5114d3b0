-------------------------- MODULE ParallelToSerial --------------------------
(***************************************************************************)
(* parallel_to_serial_output.vhd: shifts a result byte, the RAM dump or    *)
(* the EEPROM dump out on serial_out (alu_output_raspi), the highest bit   *)
(* of the highest byte first, with miso high from the clock that loads it. *)
(***************************************************************************)
EXTENDS Bytes

VARIABLES miso, alu_output_raspi, idx,
          to_send   \* data_to_send, ram_to_send or eeprom_to_send: bytes from 0

output_vars == <<miso, alu_output_raspi, idx, to_send>>

OutputType ==
    /\ miso \in BOOLEAN /\ alu_output_raspi \in {0, 1}
    /\ \E n \in 0..256 : idx \in 0..8 * n /\ to_send \in [0..n - 1 -> Byte]

NothingToSend == [i \in {} |-> 0]

OutputInit ==
    /\ miso = FALSE /\ alu_output_raspi = 0
    /\ idx = 0
    /\ to_send = NothingToSend

\* bytes is a function from 0..n-1 to Byte.
Load(bytes, n) ==
    /\ to_send' = bytes
    /\ idx' = 8 * n
    /\ miso' = TRUE
    /\ alu_output_raspi' = 0

\* Mutant: the bits of a byte are sent lowest first.
LowestFirst ==
    /\ alu_output_raspi' = Bit(to_send[(idx - 1) \div 8], 7 - ((idx - 1) % 8))
    /\ idx' = idx - 1
    /\ miso' = TRUE
    /\ UNCHANGED to_send

ShiftOut ==
    /\ alu_output_raspi' = Bit(to_send[(idx - 1) \div 8], (idx - 1) % 8)
    /\ idx' = idx - 1
    /\ miso' = TRUE
    /\ UNCHANGED to_send

OutputRise(en, data_to_sw, ram_dump, ram_size, eeprom_dump, eeprom_size) ==
    CASE idx > 0 -> ShiftOut
      [] idx = 0 /\ "result_eeprom_dump" \in en -> Load(eeprom_dump, eeprom_size)
      [] idx = 0 /\ en \cap {"result_eeprom_dump", "result_ram_dump"}
                    = {"result_ram_dump"} -> Load(ram_dump, ram_size)
      [] idx = 0 /\ en \cap {"result_eeprom_dump", "result_ram_dump", "result"}
                    = {"result"} -> Load([i \in {0} |-> data_to_sw], 1)
      [] OTHER -> /\ to_send' = NothingToSend
                  /\ idx' = 0
                  /\ miso' = FALSE /\ alu_output_raspi' = 0

OutputReset ==
    /\ miso' = FALSE /\ alu_output_raspi' = 0
    /\ idx' = 0
    /\ to_send' = NothingToSend
=============================================================================
