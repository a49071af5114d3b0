---------------------------- MODULE RamTheorems ----------------------------
(***************************************************************************)
(* The vector operations of Bytes stay within a byte, a slice of a word    *)
(* within its width, and a byte is made of its bits.  Every clock of       *)
(* ram.vhd leaves bytes in the memory, whatever is written.                *)
(***************************************************************************)
EXTENDS Ram, TLAPS

\* A bit of a byte is 0 or 1.
LEMMA BitType == ASSUME NEW v \in Nat, NEW i \in 0..7 PROVE Bit(v, i) \in {0, 1}
<1>1. Weight(i) \in Nat \ {0}
  BY SMT DEF Weight
<1>2. v \div Weight(i) \in Int
  BY <1>1, SMT
<1> QED
  BY <1>2, SMT DEF Bit

\* Eight bits make a byte.
LEMMA FromBitsType ==
  ASSUME NEW b, \A i \in 0..7 : b[i] \in {0, 1}
  PROVE  FromBits(b) \in Byte
<1>1. /\ b[0] \in {0, 1} /\ b[1] \in {0, 1} /\ b[2] \in {0, 1} /\ b[3] \in {0, 1}
      /\ b[4] \in {0, 1} /\ b[5] \in {0, 1} /\ b[6] \in {0, 1} /\ b[7] \in {0, 1}
  OBVIOUS
<1> QED
  BY <1>1, SMT DEF FromBits, Byte

\* The bitwise operators of two bytes.
LEMMA BitwiseType ==
  ASSUME NEW a \in Byte, NEW b \in Byte
  PROVE  /\ BitAnd(a, b) \in Byte /\ BitOr(a, b) \in Byte
         /\ BitXor(a, b) \in Byte /\ BitNot(a) \in Byte
<1>1. \A i \in 0..7 : Bit(a, i) \in {0, 1} /\ Bit(b, i) \in {0, 1}
  BY BitType, SMT DEF Byte
<1>2. BitAnd(a, b) \in Byte
  <2>1. \A i \in 0..7 : Bit(a, i) * Bit(b, i) \in {0, 1}
    BY <1>1, SMT
  <2> QED
    BY <2>1, FromBitsType DEF BitAnd
<1>3. BitOr(a, b) \in Byte
  BY FromBitsType DEF BitOr
<1>4. BitXor(a, b) \in Byte
  <2>1. \A i \in 0..7 : (Bit(a, i) + Bit(b, i)) % 2 \in {0, 1}
    BY <1>1, SMT
  <2> QED
    BY <2>1, FromBitsType DEF BitXor
<1>5. BitNot(a) \in Byte
  BY SMT DEF BitNot, Byte
<1> QED
  BY <1>2, <1>3, <1>4, <1>5

\* Changing one bit of a byte.
LEMMA PutBitType ==
  ASSUME NEW v \in Byte, NEW i \in 0..7, NEW b \in {0, 1}
  PROVE  PutBit(v, i, b) \in Byte
<1>1. v \in 0..255 /\ b \in Int
  BY DEF Byte
<1>2. /\ PutBit(v, 0, b) \in Byte /\ PutBit(v, 1, b) \in Byte
      /\ PutBit(v, 2, b) \in Byte /\ PutBit(v, 3, b) \in Byte
      /\ PutBit(v, 4, b) \in Byte /\ PutBit(v, 5, b) \in Byte
      /\ PutBit(v, 6, b) \in Byte /\ PutBit(v, 7, b) \in Byte
  BY <1>1, SMTT(30) DEF PutBit, Bit, Weight, Byte
<1> QED
  BY <1>2

\* Replacing the low bits of a byte.
LEMMA PutLowType ==
  ASSUME NEW v \in Byte, NEW x \in Nat, NEW n \in {4, 8, 32}
  PROVE  PutLow(v, n, x) \in Byte
<1>1. PutLow(v, 4, x) \in Byte /\ PutLow(v, 8, x) \in Byte /\ PutLow(v, 32, x) \in Byte
  BY SMTT(30) DEF PutLow, Byte
<1> QED
  BY <1>1

\* A slice of n + 1 bits is a number below 2^(n + 1).
LEMMA SliceType ==
  ASSUME NEW word \in Word
  PROVE  /\ Slice(word, 7, 0) \in 0..255 /\ Slice(word, 6, 0) \in 0..127
         /\ Slice(word, 13, 8) \in 0..63 /\ Slice(word, 13, 10) \in 0..15
         /\ Slice(word, 9, 7) \in 0..7
<1>1. \A i \in 0..13 : word[i] \in {0, 1}
  BY SMT DEF Word, FRAME_BITS
<1>2. Slice(word, 7, 0) \in 0..255
  BY <1>1, SMT DEF Slice, FromBits
<1>3. Slice(word, 6, 0) \in 0..127
  BY <1>1, SMT DEF Slice, FromBits
<1>4. Slice(word, 13, 8) \in 0..63
  BY <1>1, SMT DEF Slice, FromBits
<1>5. Slice(word, 13, 10) \in 0..15
  BY <1>1, SMT DEF Slice, FromBits
<1>6. Slice(word, 9, 7) \in 0..7
  BY <1>1, SMT DEF Slice, FromBits
<1> QED
  BY <1>2, <1>3, <1>4, <1>5, <1>6

\* A byte is the byte of its bits.
LEMMA BitsOfByte == ASSUME NEW v \in Byte PROVE FromBits([i \in 0..7 |-> Bit(v, i)]) = v
<1>1. FromBits([i \in 0..7 |-> Bit(v, i)])
      = (v % 2) + 2 * ((v \div 2) % 2) + 4 * ((v \div 4) % 2) + 8 * ((v \div 8) % 2)
        + 16 * ((v \div 16) % 2) + 32 * ((v \div 32) % 2) + 64 * ((v \div 64) % 2)
        + 128 * ((v \div 128) % 2)
  <2> DEFINE b == [i \in 0..7 |-> Bit(v, i)]
  <2>1. /\ Bit(v, 0) = v % 2 /\ Bit(v, 1) = (v \div 2) % 2 /\ Bit(v, 2) = (v \div 4) % 2
        /\ Bit(v, 3) = (v \div 8) % 2 /\ Bit(v, 4) = (v \div 16) % 2
        /\ Bit(v, 5) = (v \div 32) % 2 /\ Bit(v, 6) = (v \div 64) % 2
        /\ Bit(v, 7) = (v \div 128) % 2
    BY SMT DEF Bit, Weight, Byte
  <2>2. /\ b[0] = Bit(v, 0) /\ b[1] = Bit(v, 1) /\ b[2] = Bit(v, 2) /\ b[3] = Bit(v, 3)
        /\ b[4] = Bit(v, 4) /\ b[5] = Bit(v, 5) /\ b[6] = Bit(v, 6) /\ b[7] = Bit(v, 7)
    BY SMT
  <2> HIDE DEF b
  <2>3. FromBits(b) = (v % 2) + 2 * ((v \div 2) % 2) + 4 * ((v \div 4) % 2)
                      + 8 * ((v \div 8) % 2) + 16 * ((v \div 16) % 2)
                      + 32 * ((v \div 32) % 2) + 64 * ((v \div 64) % 2)
                      + 128 * ((v \div 128) % 2)
    BY <2>1, <2>2, Zenon DEF FromBits
  <2> QED
    BY <2>3 DEF b
<1> QED
  BY <1>1, SMT DEF Byte

-----------------------------------------------------------------------------
\* A write, direct or through INDF, stores bytes.
LEMMA WriteRamType ==
  ASSUME NEW m \in Memory, NEW address \in 0..127, NEW d \in Byte
  PROVE  WriteRam(m, address, d) \in Memory
<1> DEFINE t == Target(address)
           v == CASE address = STATUS_ADDRESS -> PutLow(d, 32, m[t])
                  [] address # STATUS_ADDRESS /\ t = INDF_ADDRESS -> 0
                  [] OTHER -> d
<1>1. WriteRam(m, address, d) = [m EXCEPT ![t] = v]
  BY DEF WriteRam
<1>2. t \in RamAddress => v \in Byte
  <2>1. t \in RamAddress => PutLow(d, 32, m[t]) \in Byte
    <3>1. ASSUME t \in RamAddress PROVE m[t] \in Nat
      BY <3>1, SMT DEF Memory, Byte
    <3> QED
      BY <3>1, PutLowType
  <2>2. 0 \in Byte
    BY SMT DEF Byte
  <2> QED
    BY <2>1, <2>2, Zenon
<1> HIDE DEF t, v
<1> QED
  BY <1>1, <1>2 DEF Memory

\* An increment of a register stays a byte.
LEMMA ModByte == ASSUME NEW n \in Nat PROVE n % 256 \in Byte
BY SMT DEF Byte

\* The special function registers are cells of the memory.
LEMMA RegisterCells ==
  /\ {INDF_ADDRESS, TMR0_ADDRESS, OPTION_ADDRESS, STATUS_ADDRESS, FSR_ADDRESS,
      EECON_ADDRESS, EEDATA_ADDRESS, EEADR_ADDRESS} \subseteq RamAddress
  /\ \A m \in Memory : \A a \in RamAddress : m[a] \in Byte /\ m[a] \in Nat
<1>1. 0..9 \subseteq RamAddress
  BY MemoryAssumption, SMT DEF RamAddress
<1>2. {INDF_ADDRESS, TMR0_ADDRESS, OPTION_ADDRESS, STATUS_ADDRESS, FSR_ADDRESS,
       EECON_ADDRESS, EEDATA_ADDRESS, EEADR_ADDRESS} \subseteq 0..9
  BY SMT DEF INDF_ADDRESS, TMR0_ADDRESS, OPTION_ADDRESS, STATUS_ADDRESS, FSR_ADDRESS,
             EECON_ADDRESS, EEDATA_ADDRESS, EEADR_ADDRESS
<1>3. \A m \in Memory : \A a \in RamAddress : m[a] \in Byte
  BY DEF Memory
<1>4. Byte \subseteq Nat
  BY SMT DEF Byte
<1> QED
  BY <1>1, <1>2, <1>3, <1>4

\* One clock of the memory, whatever its order of assignments.
LEMMA NextBlockType ==
  ASSUME RamType, NEW en, NEW read, NEW written, NEW falling \in Byte, NEW rising \in Byte,
         NEW e \in Byte, NEW d \in Byte, NEW status \in Byte, NEW address \in 0..127
  PROVE  NextBlock(en, read, written, falling, rising, e, d, status, address) \in Memory
<1> DEFINE external == Bit(ram_block[OPTION_ADDRESS], 5) = 1
           m1 == IF read THEN [ram_block EXCEPT ![EEDATA_ADDRESS] = e] ELSE ram_block
           m2 == IF reset_eecon THEN [m1 EXCEPT ![EECON_ADDRESS] = PutLow(@, 4, 0)] ELSE m1
           m3 == CASE Access(en) = "eeprom_dump" -> DumpStep(m2)
                   [] Access(en) = "ram_write"   -> WriteRam(m2, address, d)
                   [] OTHER                      -> m2
           m4 == IF "status_write" \in en
                 THEN [m3 EXCEPT ![STATUS_ADDRESS] = PutLow(@, 8, status)] ELSE m3
           m5 == IF "timer_write" \in en /\ ~external
                 THEN [m4 EXCEPT ![TMR0_ADDRESS] = (ram_block[TMR0_ADDRESS] + 1) % 256]
                 ELSE m4
           m6 == IF external
                 THEN [m5 EXCEPT ![TMR0_ADDRESS] = (falling + rising) % 256] ELSE m5
<1>1. \A m \in Memory : \A a : \A v \in Byte : [m EXCEPT ![a] = v] \in Memory
  BY DEF Memory
<1>2. m2 \in Memory
  <2>1. m1 \in Memory
    BY <1>1 DEF RamType
  <2>2. PutLow(m1[EECON_ADDRESS], 4, 0) \in Byte
    BY <2>1, RegisterCells, PutLowType
  <2> HIDE DEF m1
  <2> QED
    BY <1>1, <2>1, <2>2
<1>3. m3 \in Memory
  <2>1. DumpStep(m2) \in Memory
    <3> DEFINE c == IF dump_counter \in {1, 2} THEN 1 ELSE 0
               a == IF dump_counter = 6 THEN 0 ELSE dump_addr
    <3>1. c \in Byte /\ a \in Byte
      BY MemoryAssumption, SMT DEF RamType, Byte
    <3>2. DumpStep(m2) = [[m2 EXCEPT ![EECON_ADDRESS] = c] EXCEPT ![EEADR_ADDRESS] = a]
      BY DEF DumpStep
    <3> DEFINE n == [m2 EXCEPT ![EECON_ADDRESS] = c]
    <3> HIDE DEF m2, c, a
    <3>3. n \in Memory
      BY <1>1, <1>2, <3>1
    <3>4. DumpStep(m2) = [n EXCEPT ![EEADR_ADDRESS] = a]
      BY <3>2
    <3> HIDE DEF n
    <3> QED
      BY <3>1, <3>3, <3>4 DEF Memory
  <2>2. WriteRam(m2, address, d) \in Memory
    BY <1>2, WriteRamType
  <2> HIDE DEF m2
  <2> QED
    BY <1>2, <2>1, <2>2, Zenon
<1> HIDE DEF m3
<1>4. m4 \in Memory
  <2>1. PutLow(m3[STATUS_ADDRESS], 8, status) \in Byte
    <3>1. status \in Nat
      BY SMT DEF Byte
    <3> QED
      BY <1>3, <3>1, RegisterCells, PutLowType
  <2> QED
    BY <1>1, <1>3, <2>1
<1> HIDE DEF m4
<1>5. m5 \in Memory
  <2>1. ram_block[TMR0_ADDRESS] + 1 \in Nat
    BY RegisterCells, SMT DEF RamType
  <2> QED
    BY <1>1, <1>4, <2>1, ModByte
<1> HIDE DEF m5
<1>6. m6 \in Memory
  <2>1. falling + rising \in Nat
    BY SMT DEF Byte
  <2> QED
    BY <1>1, <1>5, <2>1, ModByte
<1> DEFINE m7 == IF written THEN [m6 EXCEPT ![EECON_ADDRESS] = PutBit(@, 4, 1)] ELSE m6
<1> HIDE DEF m6
<1>7. m7 \in Memory
  <2>1. PutBit(m6[EECON_ADDRESS], 4, 1) \in Byte
    BY <1>6, RegisterCells, PutBitType
  <2> QED
    BY <1>1, <1>6, <2>1
<1>8. NextBlock(en, read, written, falling, rising, e, d, status, address) = m7
  BY DEF NextBlock, m3, m4, m5, m6
<1> QED
  BY <1>7, <1>8

\* The memory's outputs are bytes, and its dump registers memories.
LEMMA RamStep ==
  ASSUME RamType, NEW en, NEW read, NEW written, NEW falling \in Byte, NEW rising \in Byte,
         NEW e \in Byte, NEW d \in Byte, NEW status \in Byte, NEW address \in 0..127,
         RamRise(en, read, written, falling, rising, e, d, status, address)
  PROVE  RamType'
<1>1. ram_block' \in Memory
  BY NextBlockType DEF RamRise
<1>2. reset_eecon' \in BOOLEAN
  BY DEF RamRise
<1>3. dump_counter' \in 0..6
  BY SMT DEF RamRise, RamType
<1>4. dump_addr' \in 0..EepromSize - 1
  BY MemoryAssumption, SMT DEF RamRise, RamType
<1>5. {from_ram_to_alu', status_in_alu', eedata_int', eeadr_int', eecon_int'}
        \subseteq Byte
  <2>1. ReadRam(address) \subseteq Byte
    BY RegisterCells DEF ReadRam, RamType
  <2>2. from_ram_to_alu' \in Byte
    BY <2>1 DEF RamRise, RamType
  <2> QED
    BY <2>2, RegisterCells DEF RamRise, RamType
<1>6. edge_trigger_int' \in {0, 1}
  <2>1. ram_block[OPTION_ADDRESS] \in Nat /\ 4 \in 0..7
    BY RegisterCells, SMT DEF RamType
  <2> QED
    BY <2>1, BitType DEF RamRise
<1>7. ram_dump_int' \in Memory
  BY DEF RamRise, RamType
<1>8. eeprom_dump_int' \in Eeprom
  BY DEF RamRise, RamType, Eeprom
<1> QED
  BY <1>1, <1>2, <1>3, <1>4, <1>5, <1>6, <1>7, <1>8 DEF RamType

\* The reset leaves bytes in the memory.
LEMMA RamResetType == RamReset /\ eeprom_dump_int \in Eeprom => RamType'
<1>1. 0 \in Byte
  BY SMT DEF Byte
<1>2. ClearedRam \in Memory
  BY <1>1 DEF ClearedRam, Memory
<1>3. 0 \in 0..6 /\ 0 \in 0..EepromSize - 1
  BY MemoryAssumption, SMT
<1> QED
  BY <1>1, <1>2, <1>3 DEF RamReset, RamType
=============================================================================
