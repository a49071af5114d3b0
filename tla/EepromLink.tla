----------------------------- MODULE EepromLink -----------------------------
(***************************************************************************)
(* The data memory (ram.vhd), the I2C master (i2c.vhd) and the EEPROM, as  *)
(* pic16f84a.vhd and the testbench wire them.  Two clocks that know        *)
(* nothing of each other drive them: the master and the EEPROM step every  *)
(* 2.5 us, the memory on the host's clock, `period` such steps apart.  The *)
(* only thing that passes between the two is a level held long enough for  *)
(* the other side to see it.                                               *)
(***************************************************************************)
EXTENDS Ram, Pcf8582, FiniteSets

CONSTANTS Periods,        \* lengths of the host's clock in steps of 2.5 us
          Addresses,      \* what programs write to EEADR,
          DataBytes,      \* EEDATA
          Controls,       \* and EECON
          MinPause,       \* steps between a request and the next write
          MaxRequests, MaxDumps, MaxResets

ASSUME LinkAssumption ==
    /\ Periods \subseteq Nat \ {0}
    /\ Addresses \subseteq Byte /\ DataBytes \subseteq Byte /\ Controls \subseteq Byte
    /\ {MinPause, MaxRequests, MaxDumps, MaxResets} \subseteq Nat

VARIABLES master, chip,     \* the registers of i2c.vhd and of the EEPROM
          phase,            \* the next edges of the two I2C clocks
          period, tick,     \* the host's clock, and the steps to its next edge
          since,            \* its edges since the last request, as far as they matter
          dump_clocks,      \* edges that the enable of a dump is still high
          requests, dumps, resets,
          request, served, buffer    \* history: the request under way, the byte last read

wire_vars == <<master, chip, phase>>
clock_vars == <<period, tick>>
count_vars == <<requests, dumps, resets>>
link_vars == <<ram_vars, wire_vars, clock_vars, count_vars, since, dump_clocks,
               request, served, buffer>>

Port == INSTANCE EepromPort WITH
    memory  <- chip.eeprom,
    eeadr   <- ram_block[EEADR_ADDRESS],
    eedata  <- ram_block[EEDATA_ADDRESS],
    eecon   <- PutLow(ram_block[EECON_ADDRESS], 4, 0),
    dumping <- dump_clocks > 0 \/ request = "dump"

\* The phases, named for the level of clk_100khz and the edge of clk_200khz.
Phases == {"low_rise", "high_fall", "high_rise", "low_fall"}

NextPhase == [low_rise |-> "high_fall", high_fall |-> "high_rise",
              high_rise |-> "low_fall", low_fall |-> "low_rise"][phase]

\* Two drivers against each other.
Conflict == 3

Line(m, c) ==
    LET driven == {m.sda_output, c.sda_output} \ {Released} IN
    CASE driven = {} -> Released
      [] driven = {0, 1} -> Conflict
      [] OTHER -> CHOOSE v \in driven : TRUE

sda == Line(master, chip)

\* SCL while clk_100khz is at the given level.
Scl(level) == IF master.scl_enable THEN level ELSE 1

DumpSteps == 7 * EepromSize + 1

PauseClocks == MinPause \div period + 3
Settled == since = PauseClocks /\ dump_clocks = 0

InitLink ==
    /\ RamInit
    /\ master = InitMaster /\ chip = InitChip /\ phase = "low_rise"
    /\ period \in Periods /\ tick = period
    /\ since = PauseClocks
    /\ dump_clocks = 0
    /\ requests = 0 /\ dumps = 0 /\ resets = 0
    /\ request = "none" /\ served = FALSE /\ buffer = 0

Moved(m, c, scl) ==
    /\ master' = m
    /\ chip' = PollStart(c, sda, Line(m, c), scl)

LowRise ==
    /\ phase = "low_rise"
    /\ Moved(MasterRiseLow(master, eeadr_int, eedata_int), ChipRiseLow(chip), Scl(0))
    /\ UNCHANGED <<served, buffer>>

\* The EEPROM takes a byte over as it acknowledges it.
HighFall ==
    LET fallen == ChipFall200(chip) IN
    /\ phase = "high_fall"
    /\ Moved(MasterRise100(master, eecon_int),
             IF master.scl_enable THEN ChipRiseScl(fallen) ELSE fallen, 1)
    /\ served' = (served \/ (master.scl_enable /\ Stores(fallen)))
    /\ UNCHANGED buffer

HighRise ==
    /\ phase = "high_rise"
    /\ Moved(MasterRiseHigh(master, sda), chip, 1)
    /\ UNCHANGED <<served, buffer>>

\* A byte is read when its eighth bit is.
LowFall ==
    LET fallen == ChipFall200(chip)
        byte_read == master.outputs = "read_data" /\ master.read_bits_used = 7 IN
    /\ phase = "low_fall"
    /\ Moved(MasterFall(master, eecon_int, sda),
             IF master.scl_enable THEN ChipFallScl(fallen, sda) ELSE fallen, Scl(0))
    /\ served' = (served \/ byte_read)
    /\ buffer' = IF byte_read THEN master'.data_out ELSE buffer

\* One edge of the I2C clocks of clk_div.vhd.
I2cStep ==
    /\ tick > 0 /\ tick' = tick - 1
    /\ phase' = NextPhase
    /\ LowRise \/ HighFall \/ HighRise \/ LowFall
    /\ UNCHANGED <<ram_vars, period, count_vars, since, dump_clocks, request>>

\* An edge of the host's clock with these enables: the memory sees what the
\* master holds out to it.
HostEdge(en, data, address) ==
    /\ tick = 0 /\ tick' = period
    /\ RamRise(en, WritesToRam(master), CompletesWrite(master), 0, 0, master.data_out,
               data, 0, address)
    /\ UNCHANGED <<wire_vars, period, buffer, resets>>

\* The master's answer ends a request.
Answered == WritesToRam(master) /\ request # "dump"

IdleEdge ==
    /\ dump_clocks = 0
    /\ HostEdge({}, 0, 0)
    /\ since' = IF since < PauseClocks THEN since + 1 ELSE since
    /\ IF Answered \/ (request = "dump" /\ since' = PauseClocks)
       THEN request' = "none" /\ served' = FALSE
       ELSE UNCHANGED <<request, served>>
    /\ UNCHANGED <<dump_clocks, requests, dumps>>

WriteOperand ==
    /\ Settled /\ requests < MaxRequests
    /\ \/ \E a \in Addresses \ {ram_block[EEADR_ADDRESS]} :
              HostEdge({"ram_write"}, a, EEADR_ADDRESS)
       \/ \E d \in DataBytes \ {ram_block[EEDATA_ADDRESS]} :
              HostEdge({"ram_write"}, d, EEDATA_ADDRESS)
    /\ UNCHANGED <<since, dump_clocks, requests, dumps, request, served>>

WriteRequest ==
    /\ Settled /\ requests < MaxRequests
    /\ \E control \in Controls : /\ HostEdge({"ram_write"}, control, EECON_ADDRESS)
                                 /\ request' = Port!Asked(control)
    /\ since' = 0 /\ requests' = requests + 1
    /\ UNCHANGED <<dump_clocks, dumps, served>>

\* DUMP_EEPROM: state_machine.vhd holds the enable for DumpSteps edges.
DumpEdge ==
    /\ \/ Settled /\ dumps < MaxDumps /\ dumps' = dumps + 1 /\ dump_clocks' = DumpSteps - 1
       \/ dump_clocks > 0 /\ dump_clocks' = dump_clocks - 1 /\ UNCHANGED dumps
    /\ HostEdge({"eeprom_dump"}, 0, 0)
    /\ since' = 0 /\ request' = "dump"
    /\ UNCHANGED <<requests, served>>

\* The reset line of the board reaches all of it, the simulated EEPROM too.
\* Between two edges of the I2C clocks it is as good as at one.
Reset ==
    /\ resets < MaxResets /\ resets' = resets + 1
    /\ RamReset
    /\ master' = InitMaster /\ chip' = InitChip /\ phase' = "low_rise"
    /\ tick' = period
    /\ since' = PauseClocks /\ dump_clocks' = 0
    /\ request' = "none" /\ served' = FALSE /\ buffer' = 0
    /\ UNCHANGED <<period, requests, dumps>>

LinkNext == I2cStep \/ IdleEdge \/ WriteOperand \/ WriteRequest \/ DumpEdge \/ Reset

LinkSpec == InitLink /\ [][LinkNext]_link_vars /\ WF_link_vars(I2cStep \/ IdleEdge)
=============================================================================
