---------------------- MODULE CommandProcessing_proofs ----------------------
(***************************************************************************)
(* For any scripts and files: every word that is sent means the command it *)
(* was made of, a file is sent line by line, nothing changes a setting     *)
(* under a running command, the tests stop at a failure, and the clocks    *)
(* are left low.                                                           *)
(***************************************************************************)
EXTENDS CommandProperties, SequenceTheorems, TLAPS

-----------------------------------------------------------------------------
(***************************************************************************)
(* The word that is made of a command means the command to the board.      *)
(***************************************************************************)
\* A bit of a byte is 0 or 1.
LEMMA BitType == ASSUME NEW v \in Nat, NEW i \in 0..7 PROVE Bit(v, i) \in {0, 1}
<1>1. Weight(i) \in Nat \ {0}
  BY SMT DEF Weight
<1>2. v \div Weight(i) \in Int
  BY <1>1, SMT
<1> QED
  BY <1>2, SMT DEF Bit

\* A byte is the byte of its bits.
LEMMA BitsOfByte == ASSUME NEW v \in Byte PROVE FromBits([i \in 0..7 |-> Bit(v, i)]) = v
<1>1. FromBits([i \in 0..7 |-> Bit(v, i)])
      = (v % 2) + 2 * ((v \div 2) % 2) + 4 * ((v \div 4) % 2) + 8 * ((v \div 8) % 2)
        + 16 * ((v \div 16) % 2) + 32 * ((v \div 32) % 2) + 64 * ((v \div 64) % 2)
        + 128 * ((v \div 128) % 2)
  <2> DEFINE b == [i \in 0..7 |-> Bit(v, i)]
  <2>1. /\ Bit(v, 0) = v % 2 /\ Bit(v, 1) = (v \div 2) % 2 /\ Bit(v, 2) = (v \div 4) % 2
        /\ Bit(v, 3) = (v \div 8) % 2 /\ Bit(v, 4) = (v \div 16) % 2
        /\ Bit(v, 5) = (v \div 32) % 2 /\ Bit(v, 6) = (v \div 64) % 2
        /\ Bit(v, 7) = (v \div 128) % 2
    BY SMT DEF Bit, Weight, Byte
  <2>2. /\ b[0] = Bit(v, 0) /\ b[1] = Bit(v, 1) /\ b[2] = Bit(v, 2) /\ b[3] = Bit(v, 3)
        /\ b[4] = Bit(v, 4) /\ b[5] = Bit(v, 5) /\ b[6] = Bit(v, 6) /\ b[7] = Bit(v, 7)
    BY SMT
  <2> HIDE DEF b
  <2>3. FromBits(b) = (v % 2) + 2 * ((v \div 2) % 2) + 4 * ((v \div 4) % 2)
                      + 8 * ((v \div 8) % 2) + 16 * ((v \div 16) % 2)
                      + 32 * ((v \div 32) % 2) + 64 * ((v \div 64) % 2)
                      + 128 * ((v \div 128) % 2)
    BY <2>1, <2>2, Zenon DEF FromBits
  <2> QED
    BY <2>3 DEF b
<1> QED
  BY <1>1, SMT DEF Byte

Widths == {1, 3, 4, 6, 7, 8}

\* The largest number of num_bits bits.
Largest(num_bits) == 2^num_bits - 1

\* The widths that occur, and the largest number of each.
LEMMA LargestValue ==
  /\ Largest(1) = 1 /\ Largest(3) = 7 /\ Largest(4) = 15 /\ Largest(6) = 63
  /\ Largest(7) = 127 /\ Largest(8) = 255
BY SMT DEF Largest

\* A number needs more than k digits exactly when it is larger than Largest(k).
LEMMA TooLarge ==
  ASSUME NEW n \in Nat, NEW k \in Widths
  PROVE  n >= 2^k <=> n > Largest(k)
<1> DEFINE P(j) == n >= 2^j <=> n > Largest(j)
<1>1. P(1) /\ P(3) /\ P(4) /\ P(6) /\ P(7) /\ P(8)
  BY SMT DEF Largest
<1> QED
  <2> HIDE DEF P
  <2>1. P(k)
    BY <1>1 DEF Widths
  <2> QED
    BY <2>1 DEF P

\* decimal_to_binary fills its buffer with binary digits.
LEMMA DigitsType ==
  ASSUME NEW n \in Nat, NEW k \in Widths
  PROVE  DecimalToBinary(n, k) \in [1..k -> {0, 1}]
<1>1. \A i \in 1..k : k - i \in 0..7
  BY SMT DEF Widths
<1>2. \A i \in 1..k : Bit(n, k - i) \in {0, 1}
  BY <1>1, BitType
<1> QED
  BY <1>2 DEF DecimalToBinary

\* Bit i of a number, counted from the lowest, is digit k - i of its k digits.
LEMMA DigitsAreBits ==
  ASSUME NEW n \in Nat, NEW k \in Widths, NEW i \in 0..k - 1
  PROVE  DecimalToBinary(n, k)[k - i] = IF n > Largest(k) THEN 1 ELSE Bit(n, i)
<1>1. k - i \in 1..k /\ k - (k - i) = i
  BY SMT DEF Widths
<1> QED
  BY <1>1, TooLarge DEF DecimalToBinary

\* A number of at most k bits has no bits above these.
LEMMA NoHigherBits ==
  ASSUME NEW k \in Widths, NEW n \in 0..Largest(k), NEW i \in k..7
  PROVE  Bit(n, i) = 0
<1>1. /\ Weight(1) = 2 /\ Weight(2) = 4 /\ Weight(3) = 8 /\ Weight(4) = 16
      /\ Weight(5) = 32 /\ Weight(6) = 64 /\ Weight(7) = 128
  BY SMT DEF Weight
<1>2. n \in Nat /\ i \in 1..7 /\ n < Weight(i)
  BY <1>1, LargestValue, SMT DEF Widths
<1>3. Weight(i) \in Nat \ {0}
  BY <1>1, <1>2, SMT
<1>4. n \div Weight(i) = 0
  BY <1>2, <1>3, SMT
<1> QED
  BY <1>4, SMT DEF Bit

\* The digits of a number are worth the number, or all that fits.
LEMMA DigitsValue ==
  ASSUME NEW n \in Nat, NEW k \in Widths
  PROVE  FromBits([i \in 0..7 |-> IF i < k THEN DecimalToBinary(n, k)[k - i] ELSE 0])
         = AtMost(n, Largest(k))
<1> DEFINE b == [i \in 0..7 |-> IF i < k THEN DecimalToBinary(n, k)[k - i] ELSE 0]
<1>1. \A i \in 0..7 : i < k => i \in 0..k - 1
  BY SMT DEF Widths
<1>2. Largest(k) \in 0..255
  BY LargestValue, SMT DEF Widths
<1>3. CASE n > Largest(k)
  <2>1. \A i \in 0..7 : b[i] = IF i < k THEN 1 ELSE 0
    BY <1>1, <1>3, DigitsAreBits
  <2>2. FromBits(b) = Largest(k)
    <3> HIDE DEF b
    <3> QED
      BY <2>1, LargestValue, SMT DEF FromBits, Widths
  <2> QED
    BY <1>3, <2>2 DEF AtMost
<1>4. CASE ~(n > Largest(k))
  <2>1. n \in 0..Largest(k) /\ n \in Byte
    BY <1>2, <1>4, SMT DEF Byte
  <2>2. ASSUME NEW i \in 0..7 PROVE b[i] = Bit(n, i)
    <3>1. CASE i < k
      BY <1>1, <1>4, <3>1, DigitsAreBits
    <3>2. CASE ~(i < k)
      <4>1. i \in k..7
        BY <3>2, SMT DEF Widths
      <4> QED
        BY <2>1, <3>2, <4>1, NoHigherBits
    <3> QED
      BY <3>1, <3>2
  <2>3. b = [i \in 0..7 |-> Bit(n, i)]
    BY <2>2
  <2> QED
    BY <1>4, <2>1, <2>3, BitsOfByte DEF AtMost
<1> QED
  BY <1>3, <1>4

\* One piece of a word after the other.
LEMMA Joined ==
  ASSUME NEW m \in Nat, NEW n \in Nat, NEW a \in [1..m -> {0, 1}], NEW b \in [1..n -> {0, 1}]
  PROVE  /\ a \o b \in [1..m + n -> {0, 1}]
         /\ \A i \in 1..m + n : (a \o b)[i] = IF i <= m THEN a[i] ELSE b[i - m]
<1>1. a \in Seq({0, 1}) /\ b \in Seq({0, 1}) /\ Len(a) = m /\ Len(b) = n
  BY SMT
<1>2. /\ a \o b \in Seq({0, 1}) /\ Len(a \o b) = m + n
      /\ \A i \in 1..m + n : (a \o b)[i] = IF i <= m THEN a[i] ELSE b[i - m]
  BY <1>1, SMT
<1>3. a \o b \in [1..m + n -> {0, 1}]
  BY <1>2, LenProperties
<1> QED
  BY <1>2, <1>3

\* Bits lo, lo + 1, ... of a word hold the k digits of n: a slice of the word is
\* worth n.
HasDigits(w, lo, n, k) == \A i \in 0..k - 1 : w[lo + i] = DecimalToBinary(n, k)[k - i]

TopBit(lo, k) == lo + k - 1

\* The slice of a word that holds the digits of n is n, cut to the width.
LEMMA SliceOfDigits ==
  ASSUME NEW w, NEW n \in Nat, NEW k \in Widths, NEW lo \in Nat, HasDigits(w, lo, n, k)
  PROVE  Slice(w, TopBit(lo, k), lo) = AtMost(n, Largest(k))
<1>1. \A i \in 0..7 : (lo + i <= TopBit(lo, k) <=> i < k) /\ (i < k => i \in 0..k - 1)
  BY SMT DEF Widths, TopBit
<1>2. [i \in 0..7 |-> IF lo + i <= TopBit(lo, k) THEN w[lo + i] ELSE 0]
      = [i \in 0..7 |-> IF i < k THEN DecimalToBinary(n, k)[k - i] ELSE 0]
  BY <1>1 DEF HasDigits
<1> QED
  BY <1>2, DigitsValue DEF Slice

\* The word that is received when digits d are sent, of two numbers or of three.
Received(d) == [i \in 0..FRAME_BITS - 1 |-> d[FRAME_BITS - i]]

\* The board has the bits in the reverse order of the digits sent.
LEMMA ReceivedBits ==
  ASSUME NEW d \in [1..14 -> {0, 1}]
  PROVE  Received(d) \in Word /\ \A i \in 0..13 : Received(d)[i] = d[14 - i]
<1>1. FRAME_BITS = 14 /\ 0..FRAME_BITS - 1 = 0..13
  BY SMT DEF FRAME_BITS
<1>2. Received(d) = [i \in 0..13 |-> d[14 - i]]
  BY <1>1 DEF Received
<1>3. \A i \in 0..13 : 14 - i \in 1..14
  BY SMT
<1> QED
  BY <1>1, <1>2, <1>3, Zenon DEF Word

TwoNumbers(a, b) == Received(DecimalToBinary(a, 6) \o DecimalToBinary(b, 8))

\* Where the digits of the two numbers are in the word.
LEMMA TwoNumbersDigits ==
  ASSUME NEW a \in Nat, NEW b \in Nat
  PROVE  /\ TwoNumbers(a, b) \in Word
         /\ HasDigits(TwoNumbers(a, b), 0, b, 8) /\ HasDigits(TwoNumbers(a, b), 8, a, 6)
<1> DEFINE w == TwoNumbers(a, b)
           x == DecimalToBinary(a, 6)
           y == DecimalToBinary(b, 8)
           d == x \o y
<1>1. d \in [1..14 -> {0, 1}] /\ \A i \in 1..14 : d[i] = IF i <= 6 THEN x[i] ELSE y[i - 6]
  <2>1. 6 + 8 = 14 /\ 6 \in Nat /\ 8 \in Nat
    BY SMT
  <2>2. x \in [1..6 -> {0, 1}] /\ y \in [1..8 -> {0, 1}]
    BY DigitsType DEF Widths
  <2> HIDE DEF x, y
  <2>3. /\ d \in [1..6 + 8 -> {0, 1}]
        /\ \A i \in 1..6 + 8 : d[i] = IF i <= 6 THEN x[i] ELSE y[i - 6]
    BY <2>1, <2>2, Joined, Zenon
  <2> QED
    BY <2>1, <2>3, Zenon
<1>2. w = Received(d)
  BY DEF TwoNumbers
<1> HIDE DEF w, d
<1>3. w \in Word /\ \A i \in 0..13 : w[i] = d[14 - i]
  BY <1>1, <1>2, ReceivedBits
<1>4. HasDigits(w, 0, b, 8)
  <2> HIDE DEF x, y
  <2>1. ASSUME NEW i \in 0..8 - 1 PROVE w[0 + i] = y[8 - i]
    <3>1. 0 + i \in 0..13 /\ 14 - (0 + i) \in 1..14 /\ ~(14 - (0 + i) <= 6)
          /\ 14 - (0 + i) - 6 = 8 - i
      BY SMT
    <3> QED
      BY <1>1, <1>3, <3>1, Zenon
  <2> QED
    BY <2>1, Zenon DEF HasDigits, y
<1>5. HasDigits(w, 8, a, 6)
  <2> HIDE DEF x, y
  <2>1. ASSUME NEW i \in 0..6 - 1 PROVE w[8 + i] = x[6 - i]
    <3>1. 8 + i \in 0..13 /\ 14 - (8 + i) \in 1..14 /\ 14 - (8 + i) <= 6
          /\ 14 - (8 + i) = 6 - i
      BY SMT
    <3>2. w[8 + i] = d[14 - (8 + i)]
      BY <1>3, <3>1, Zenon
    <3>3. d[14 - (8 + i)] = x[14 - (8 + i)]
      BY <1>1, <3>1, Zenon
    <3> QED
      BY <3>1, <3>2, <3>3, Zenon
  <2> QED
    BY <2>1, Zenon DEF HasDigits, x
<1> QED
  BY <1>3, <1>4, <1>5 DEF w

ThreeNumbers(p, q, a, b, c) ==
    Received(DecimalToBinary(a, p) \o (DecimalToBinary(b, q) \o DecimalToBinary(c, 7)))
WidthsOfThree(p, q) == p \in Widths /\ q \in Widths /\ p + q = 7

\* Where the digits of the three numbers are in the word.
LEMMA ThreeNumbersDigits ==
  ASSUME NEW p, NEW q, WidthsOfThree(p, q), NEW a \in Nat, NEW b \in Nat, NEW c \in Nat
  PROVE  LET w == ThreeNumbers(p, q, a, b, c) IN
         /\ w \in Word
         /\ HasDigits(w, 0, c, 7) /\ HasDigits(w, 7, b, q) /\ HasDigits(w, 7 + q, a, p)
<1> DEFINE w == ThreeNumbers(p, q, a, b, c)
           x == DecimalToBinary(a, p)
           y == DecimalToBinary(b, q)
           z == DecimalToBinary(c, 7)
           r == y \o z
           d == x \o r
<1>1. /\ p \in Nat /\ q \in Nat /\ 7 \in Nat /\ q + 7 \in Nat /\ p + (q + 7) = 14
      /\ p \in Widths /\ q \in Widths /\ 7 \in Widths
  BY SMT DEF Widths, WidthsOfThree
<1>2. x \in [1..p -> {0, 1}] /\ y \in [1..q -> {0, 1}] /\ z \in [1..7 -> {0, 1}]
  BY <1>1, DigitsType
<1>3. w = Received(d)
  BY DEF ThreeNumbers
<1> HIDE DEF w, x, y, z
<1>4. /\ r \in [1..q + 7 -> {0, 1}]
      /\ \A i \in 1..q + 7 : r[i] = IF i <= q THEN y[i] ELSE z[i - q]
  BY <1>1, <1>2, Joined, Zenon
<1> HIDE DEF r
<1>5. d \in [1..14 -> {0, 1}] /\ \A i \in 1..14 : d[i] = IF i <= p THEN x[i] ELSE r[i - p]
  <2>1. /\ d \in [1..p + (q + 7) -> {0, 1}]
        /\ \A i \in 1..p + (q + 7) : d[i] = IF i <= p THEN x[i] ELSE r[i - p]
    BY <1>1, <1>2, <1>4, Joined, Zenon
  <2> QED
    BY <1>1, <2>1, Zenon
<1> HIDE DEF d
<1>6. w \in Word /\ \A i \in 0..13 : w[i] = d[14 - i]
  BY <1>3, <1>5, ReceivedBits
<1>7. HasDigits(w, 0, c, 7)
  <2>1. ASSUME NEW i \in 0..7 - 1 PROVE w[0 + i] = z[7 - i]
    <3>1. 0 + i \in 0..13 /\ 14 - (0 + i) \in 1..14 /\ ~(14 - (0 + i) <= p)
          /\ 14 - (0 + i) - p \in 1..q + 7 /\ ~(14 - (0 + i) - p <= q)
          /\ 14 - (0 + i) - p - q = 7 - i
      BY <1>1, SMT
    <3> QED
      BY <1>4, <1>5, <1>6, <3>1, Zenon
  <2> QED
    BY <2>1, Zenon DEF HasDigits, z
<1>8. HasDigits(w, 7, b, q)
  <2>1. ASSUME NEW i \in 0..q - 1 PROVE w[7 + i] = y[q - i]
    <3>1. 7 + i \in 0..13 /\ 14 - (7 + i) \in 1..14 /\ ~(14 - (7 + i) <= p)
          /\ 14 - (7 + i) - p \in 1..q + 7 /\ 14 - (7 + i) - p <= q
          /\ 14 - (7 + i) - p = q - i
      BY <1>1, SMT
    <3> QED
      BY <1>4, <1>5, <1>6, <3>1, Zenon
  <2> QED
    BY <2>1, Zenon DEF HasDigits, y
<1>9. HasDigits(w, 7 + q, a, p)
  <2>1. ASSUME NEW i \in 0..p - 1 PROVE w[7 + q + i] = x[p - i]
    <3>1. 7 + q + i \in 0..13 /\ 14 - (7 + q + i) \in 1..14 /\ 14 - (7 + q + i) <= p
          /\ 14 - (7 + q + i) = p - i
      BY <1>1, SMT
    <3> QED
      BY <1>5, <1>6, <3>1, Zenon
  <2> QED
    BY <2>1, Zenon DEF HasDigits, x
<1> QED
  BY <1>6, <1>7, <1>8, <1>9 DEF w

\* The fields of a word of two numbers, and those of one with three.
LEMMA TwoFields ==
  ASSUME NEW a \in Nat, NEW b \in Nat
  PROVE  LET w == TwoNumbers(a, b) IN
         w \in Word /\ Slice(w, 13, 8) = AtMost(a, 63) /\ Slice(w, 7, 0) = AtMost(b, 255)
<1> DEFINE w == TwoNumbers(a, b)
<1>1. w \in Word /\ HasDigits(w, 0, b, 8) /\ HasDigits(w, 8, a, 6)
  BY TwoNumbersDigits, Zenon
<1> HIDE DEF w
<1>2. 8 \in Widths /\ 6 \in Widths /\ 0 \in Nat /\ 8 \in Nat
  BY SMT DEF Widths
<1>3. Slice(w, TopBit(0, 8), 0) = AtMost(b, Largest(8))
  BY <1>1, <1>2, SliceOfDigits, SMT
<1>4. Slice(w, TopBit(8, 6), 8) = AtMost(a, Largest(6))
  BY <1>1, <1>2, SliceOfDigits, SMT
<1>5. TopBit(0, 8) = 7 /\ TopBit(8, 6) = 13
  BY SMT DEF TopBit
<1> QED
  BY <1>1, <1>3, <1>4, <1>5, LargestValue, Zenon DEF w

\* What the decoder's slices read there.
LEMMA ThreeFields ==
  ASSUME NEW p, NEW q, WidthsOfThree(p, q), NEW a \in Nat, NEW b \in Nat, NEW c \in Nat
  PROVE  LET w == ThreeNumbers(p, q, a, b, c) IN
         /\ w \in Word
         /\ HasDigits(w, 7, b, q)
         /\ Slice(w, 13, 7 + q) = AtMost(a, Largest(p))
         /\ Slice(w, 6 + q, 7) = AtMost(b, Largest(q))
         /\ Slice(w, 6, 0) = AtMost(c, 127)
<1> DEFINE w == ThreeNumbers(p, q, a, b, c)
<1>1. /\ w \in Word
      /\ HasDigits(w, 0, c, 7) /\ HasDigits(w, 7, b, q) /\ HasDigits(w, 7 + q, a, p)
  BY ThreeNumbersDigits, Zenon
<1> HIDE DEF w
<1>2. /\ p \in Widths /\ q \in Widths /\ 7 \in Widths
      /\ 0 \in Nat /\ 7 \in Nat /\ 7 + q \in Nat
  BY SMT DEF Widths, WidthsOfThree
<1>3. Slice(w, TopBit(0, 7), 0) = AtMost(c, Largest(7))
  BY <1>1, <1>2, SliceOfDigits, SMT
<1>4. Slice(w, TopBit(7, q), 7) = AtMost(b, Largest(q))
  BY <1>1, <1>2, SliceOfDigits, SMT
<1>5. Slice(w, TopBit(7 + q, p), 7 + q) = AtMost(a, Largest(p))
  BY <1>1, <1>2, SliceOfDigits, SMT
<1>6. TopBit(0, 7) = 6 /\ TopBit(7, q) = 6 + q /\ TopBit(7 + q, p) = 13
  BY SMT DEF TopBit, Widths, WidthsOfThree
<1> QED
  BY <1>1, <1>3, <1>4, <1>5, <1>6, LargestValue, Zenon DEF w

\* The tables of the host and of the board have the same opcodes; the host keeps
\* four bits of those of BCF and BSF.
LEMMA ByteOpcodes ==
  ASSUME NEW name \in BitOrByteInstructions \ BitOriented
  PROVE  Opcode[name] \in 1..15 /\ BoardOpcode[name] = Opcode[name]
BY SMT DEF BitOrByteInstructions, BitOriented, Opcode, BoardOpcode, ADDWF, ANDWF, CLR, COMF,
           DECF, DECFSZ, INCF, INCFSZ, IORWF, MOVF, RLF, RRF, SUBWF, SWAPF, XORWF

\* The opcodes of the bit-oriented instructions, at the host and on the board.
LEMMA BitOpcodes ==
  ASSUME NEW name \in BitOriented
  PROVE  Opcode[name] \in {4, 5} /\ BoardOpcode[name] = 4 * Opcode[name]
BY SMT DEF BitOriented, Opcode, BoardOpcode, BCF, BSF

\* Those of the instructions with a literal or an address.
LEMMA LiteralOpcodes ==
  ASSUME NEW name \in LiteralInstructions
  PROVE  /\ Opcode[name] \in {48, 51, 56, 57, 58, 61, 62}
         /\ BoardOpcode[name] = Opcode[name]
         /\ name = "READ_ADDRESS" <=> Opcode[name] = 51
BY SMT DEF LiteralInstructions, Opcode, BoardOpcode, ADDLW, ANDLW, IORLW, MOVLW, SUBLW, XORLW,
           READ_ADDRESS

\* Those of the instructions without an operand.
LEMMA OtherOpcodes ==
  /\ Opcode["READ_WREG"] = 49 /\ BoardOpcode["READ_WREG"] = 49
  /\ Opcode["READ_STATUS"] = 50 /\ BoardOpcode["READ_STATUS"] = 50
  /\ Opcode["DUMP_RAM"] = 40 /\ BoardOpcode["DUMP_RAM"] = 40
  /\ Opcode["DUMP_EEPROM"] = 44 /\ BoardOpcode["DUMP_EEPROM"] = 44
  /\ Opcode["NOP"] = 0 /\ BoardOpcode["NOP"] = 0
BY SMT DEF Opcode, BoardOpcode, READ_WREG, READ_STATUS, DUMP_RAM, DUMP_EEPROM, NOP

\* What the board makes of a word, in terms of its fields.
OpcodeOf(w)  == Slice(w, 13, 8)
IsBit(w)     == w[13] = 0 /\ w[12] = 1
IsByte(w)    == OpcodeOf(w) \in ByteOriented
IsDump(w)    == OpcodeOf(w) \in {40, 44}
IsReadReg(w) == OpcodeOf(w) \in {49, 50}
IsReadMem(w) == OpcodeOf(w) = 51
GoesToRam(w) == IsBit(w) \/ (IsByte(w) /\ w[7] = 1)
TypeOf(w) == CASE GoesToRam(w)                -> ToRam
               [] IsByte(w) /\ ~GoesToRam(w)  -> ToWreg
               [] OpcodeOf(w) = 44            -> DumpEeprom
               [] OpcodeOf(w) = 40            -> DumpRam
               [] IsReadMem(w)                -> ReadMem
               [] IsReadReg(w)                -> ReadReg
               [] OTHER                       -> Literal

\* The board's decoder, with its four classes of words in one expression.
LEMMA BoardDecodes ==
  ASSUME NEW w
  PROVE  Board!Decode(w) =
           Outputs(IF IsBit(w) THEN 4 * Slice(w, 13, 10) ELSE OpcodeOf(w),
                   IF IsBit(w) THEN Slice(w, 9, 7) ELSE 0,
                   IF IsBit(w) \/ IsByte(w) \/ IsReadMem(w) THEN Slice(w, 6, 0) ELSE 0,
                   IF IsBit(w) \/ IsByte(w) \/ IsDump(w) \/ IsReadReg(w) \/ IsReadMem(w)
                   THEN 0 ELSE Slice(w, 7, 0),
                   IsBit(w) \/ IsByte(w) \/ IsReadMem(w), GoesToRam(w),
                   IsReadReg(w) \/ IsReadMem(w), TypeOf(w))
BY Zenon DEF Board!Decode, Board!Slice, Board!FromBits, Board!ByteOriented, Board!DUMP_RAM,
   Board!DUMP_EEPROM, Board!READ_WREG, Board!READ_STATUS, Board!READ_ADDRESS, Board!ToRam,
   Board!ToWreg, Board!DumpEeprom, Board!DumpRam, Board!ReadMem, Board!ReadReg, Board!Literal,
   Slice, FromBits, ByteOriented, ToRam, ToWreg, DumpEeprom, DumpRam, ReadMem, ReadReg, Literal,
   Board!ADDWF, Board!ANDWF, Board!CLR, Board!COMF, Board!DECF, Board!DECFSZ, Board!INCF,
   Board!INCFSZ, Board!IORWF, Board!MOVF, Board!RLF, Board!RRF, Board!SUBWF, Board!SWAPF,
   Board!XORWF, ADDWF, ANDWF, CLR, COMF, DECF, DECFSZ, INCF, INCFSZ, IORWF, MOVF, RLF, RRF,
   SUBWF, SWAPF, XORWF, OpcodeOf, IsBit, IsByte, IsDump, IsReadReg, IsReadMem, GoesToRam, TypeOf,
   Outputs

\* The byte-oriented opcodes are the first fifteen.
LEMMA ByteOrientedOpcodes == ByteOriented = 1..15
BY SMT DEF ByteOriented, ADDWF, ANDWF, CLR, COMF, DECF, DECFSZ, INCF, INCFSZ, IORWF, MOVF,
           RLF, RRF, SUBWF, SWAPF, XORWF

\* The decoding of a word, by its opcode.
LEMMA DecodesBit ==
  ASSUME NEW w \in Word, Slice(w, 13, 10) \in {4, 5}
  PROVE  Board!Decode(w) = Outputs(4 * Slice(w, 13, 10), Slice(w, 9, 7), Slice(w, 6, 0), 0,
                                   TRUE, TRUE, FALSE, ToRam)
<1>1. \A i \in 0..13 : w[i] \in {0, 1}
  BY SMT DEF Word, FRAME_BITS
<1>2. IsBit(w) /\ OpcodeOf(w) \in 16..31
  BY <1>1, SMT DEF IsBit, OpcodeOf, Slice, FromBits
<1>3. /\ ~IsReadReg(w) /\ ~IsReadMem(w) /\ GoesToRam(w)
      /\ OpcodeOf(w) # 44 /\ OpcodeOf(w) # 40
  BY <1>2, SMT DEF IsReadReg, IsReadMem, GoesToRam
<1>4. TypeOf(w) = ToRam
  BY <1>2, <1>3, Zenon DEF TypeOf
<1>5. /\ (IsBit(w) \/ IsByte(w) \/ IsReadMem(w)) = TRUE /\ GoesToRam(w) = TRUE
      /\ (IsReadReg(w) \/ IsReadMem(w)) = FALSE
  BY <1>2, <1>3, Zenon
<1> QED
  BY <1>2, <1>4, <1>5, BoardDecodes, Zenon

\* What the board makes of a byte-oriented word.
LEMMA DecodesByte ==
  ASSUME NEW w \in Word, OpcodeOf(w) \in 1..15
  PROVE  Board!Decode(w) = Outputs(OpcodeOf(w), 0, Slice(w, 6, 0), 0, TRUE, w[7] = 1,
                                   FALSE, IF w[7] = 1 THEN ToRam ELSE ToWreg)
<1>1. \A i \in 0..13 : w[i] \in {0, 1}
  BY SMT DEF Word, FRAME_BITS
<1>2. ~(w[12] = 1)
  BY <1>1, SMT DEF OpcodeOf, Slice, FromBits
<1>3. ~IsBit(w) /\ IsByte(w)
  BY <1>2, ByteOrientedOpcodes, Zenon DEF IsBit, IsByte
<1>4. ~IsReadReg(w) /\ ~IsReadMem(w) /\ OpcodeOf(w) # 44 /\ OpcodeOf(w) # 40
  BY SMT DEF IsReadReg, IsReadMem
<1>5. GoesToRam(w) = (w[7] = 1)
  BY <1>3, Zenon DEF GoesToRam
<1>6. TypeOf(w) = IF w[7] = 1 THEN ToRam ELSE ToWreg
  BY <1>3, <1>4, <1>5, Zenon DEF TypeOf
<1>7. /\ (IsBit(w) \/ IsByte(w) \/ IsReadMem(w)) = TRUE
      /\ (IsReadReg(w) \/ IsReadMem(w)) = FALSE
  BY <1>3, <1>4, Zenon
<1> QED
  BY <1>3, <1>5, <1>6, <1>7, BoardDecodes, Zenon

\* What it makes of the words with six bits of opcode.
LEMMA DecodesOther ==
  ASSUME NEW w \in Word, OpcodeOf(w) \in {0} \cup 32..63
  PROVE  /\ OpcodeOf(w) = 51 =>
              Board!Decode(w) = Outputs(51, 0, Slice(w, 6, 0), 0, TRUE, FALSE, TRUE, ReadMem)
         /\ OpcodeOf(w) \in {49, 50} =>
              Board!Decode(w) = Outputs(OpcodeOf(w), 0, 0, 0, FALSE, FALSE, TRUE, ReadReg)
         /\ OpcodeOf(w) = 40 =>
              Board!Decode(w) = Outputs(40, 0, 0, 0, FALSE, FALSE, FALSE, DumpRam)
         /\ OpcodeOf(w) = 44 =>
              Board!Decode(w) = Outputs(44, 0, 0, 0, FALSE, FALSE, FALSE, DumpEeprom)
         /\ OpcodeOf(w) \notin {40, 44, 49, 50, 51} =>
              Board!Decode(w) = Outputs(OpcodeOf(w), 0, 0, Slice(w, 7, 0), FALSE, FALSE, FALSE,
                                        Literal)
<1>1. \A i \in 0..13 : w[i] \in {0, 1}
  BY SMT DEF Word, FRAME_BITS
<1>2. ~(w[13] = 0 /\ w[12] = 1)
  BY <1>1, SMT DEF OpcodeOf, Slice, FromBits
<1>3. OpcodeOf(w) \notin 1..15
  BY SMT
<1>4. ~IsBit(w) /\ ~IsByte(w) /\ ~GoesToRam(w)
  BY <1>2, <1>3, ByteOrientedOpcodes, Zenon DEF IsBit, IsByte, GoesToRam
<1>5. GoesToRam(w) = FALSE
  BY <1>4, Zenon DEF GoesToRam
<1>6. CASE OpcodeOf(w) = 51
  <2>1. /\ OpcodeOf(w) \notin {49, 50} /\ OpcodeOf(w) # 44 /\ OpcodeOf(w) # 40
        /\ IsReadMem(w) /\ ~IsReadReg(w)
    BY <1>6, SMT DEF IsReadMem, IsReadReg
  <2>2. TypeOf(w) = ReadMem
    BY <1>4, <2>1, Zenon DEF TypeOf
  <2>3. (IsBit(w) \/ IsByte(w) \/ IsReadMem(w)) = TRUE /\ (IsReadReg(w) \/ IsReadMem(w)) = TRUE
    BY <1>4, <2>1, Zenon
  <2> QED
    BY <1>4, <1>5, <1>6, <2>1, <2>2, <2>3, BoardDecodes, Zenon
<1>7. CASE OpcodeOf(w) \in {49, 50}
  <2>1. /\ OpcodeOf(w) # 51 /\ OpcodeOf(w) # 44 /\ OpcodeOf(w) # 40
        /\ ~IsReadMem(w) /\ IsReadReg(w)
    BY <1>7, SMT DEF IsReadMem, IsReadReg
  <2>2. TypeOf(w) = ReadReg
    BY <1>4, <2>1, Zenon DEF TypeOf
  <2>3. (IsBit(w) \/ IsByte(w) \/ IsReadMem(w)) = FALSE /\ (IsReadReg(w) \/ IsReadMem(w)) = TRUE
    BY <1>4, <2>1, Zenon
  <2> QED
    BY <1>4, <1>5, <1>7, <2>1, <2>2, <2>3, BoardDecodes, Zenon
<1>8. CASE OpcodeOf(w) = 40
  <2>1. /\ OpcodeOf(w) \notin {49, 50, 51} /\ OpcodeOf(w) # 44
        /\ ~IsReadMem(w) /\ ~IsReadReg(w) /\ IsDump(w)
    BY <1>8, SMT DEF IsReadMem, IsReadReg, IsDump
  <2>2. TypeOf(w) = DumpRam
    BY <1>4, <1>8, <2>1, Zenon DEF TypeOf
  <2>3. (IsBit(w) \/ IsByte(w) \/ IsReadMem(w)) = FALSE /\ (IsReadReg(w) \/ IsReadMem(w)) = FALSE
    BY <1>4, <2>1, Zenon
  <2> QED
    BY <1>4, <1>5, <1>8, <2>1, <2>2, <2>3, BoardDecodes, Zenon
<1>9. CASE OpcodeOf(w) = 44
  <2>1. /\ OpcodeOf(w) \notin {49, 50, 51} /\ OpcodeOf(w) # 40
        /\ ~IsReadMem(w) /\ ~IsReadReg(w) /\ IsDump(w)
    BY <1>9, SMT DEF IsReadMem, IsReadReg, IsDump
  <2>2. TypeOf(w) = DumpEeprom
    BY <1>4, <1>9, <2>1, Zenon DEF TypeOf
  <2>3. (IsBit(w) \/ IsByte(w) \/ IsReadMem(w)) = FALSE /\ (IsReadReg(w) \/ IsReadMem(w)) = FALSE
    BY <1>4, <2>1, Zenon
  <2> QED
    BY <1>4, <1>5, <1>9, <2>1, <2>2, <2>3, BoardDecodes, Zenon
<1>10. CASE OpcodeOf(w) \notin {40, 44, 49, 50, 51}
  <2>1. /\ OpcodeOf(w) # 44 /\ OpcodeOf(w) # 40 /\ OpcodeOf(w) # 51
        /\ OpcodeOf(w) # 49 /\ OpcodeOf(w) # 50
        /\ ~IsReadMem(w) /\ ~IsReadReg(w) /\ ~IsDump(w)
    BY <1>10, SMT DEF IsReadMem, IsReadReg, IsDump
  <2>2. TypeOf(w) = Literal
    BY <1>4, <2>1, Zenon DEF TypeOf
  <2>3. (IsBit(w) \/ IsByte(w) \/ IsReadMem(w)) = FALSE /\ (IsReadReg(w) \/ IsReadMem(w)) = FALSE
    BY <1>4, <2>1, Zenon
  <2> QED
    BY <1>4, <1>5, <2>1, <2>2, <2>3, BoardDecodes, Zenon
<1> QED
  <2>1. \/ OpcodeOf(w) = 51 \/ OpcodeOf(w) \in {49, 50} \/ OpcodeOf(w) = 40
        \/ OpcodeOf(w) = 44 \/ OpcodeOf(w) \notin {40, 44, 49, 50, 51}
    BY SMT
  <2>2. ~(OpcodeOf(w) = 51 /\ OpcodeOf(w) \in {49, 50})
    BY SMT
  <2> QED
    BY <1>6, <1>7, <1>8, <1>9, <1>10, <2>1, <2>2, Zenon

\* A command is of one class.
ByteInstructions == BitOrByteInstructions \ BitOriented

\* The classes of instruction names do not overlap.
LEMMA Classes ==
  /\ \A name \in BitOriented :
        /\ name \in BitOrByteInstructions /\ name \notin ByteInstructions
        /\ name \notin LiteralInstructions /\ name \notin OtherInstructions
  /\ \A name \in ByteInstructions :
        /\ name \in BitOrByteInstructions /\ name \notin BitOriented
        /\ name \notin LiteralInstructions /\ name \notin OtherInstructions
  /\ \A name \in LiteralInstructions :
        /\ name \notin BitOriented /\ name \notin ByteInstructions
        /\ name \notin OtherInstructions /\ name \notin BitOrByteInstructions
  /\ \A name \in OtherInstructions :
        /\ name \notin BitOriented /\ name \notin ByteInstructions
        /\ name \notin LiteralInstructions
  /\ \A name \in Encodable : \/ name \in BitOriented \/ name \in ByteInstructions
                             \/ name \in LiteralInstructions \/ name \in OtherInstructions
BY SMT DEF Encodable, ByteInstructions, BitOrByteInstructions, BitOriented, LiteralInstructions,
           OtherInstructions

\* An accepted command has the operands of its class.
LEMMA Operands ==
  ASSUME NEW c \in Line, Accepted(c)
  PROVE  /\ c.name \in BitOrByteInstructions => c.args[1] \in Nat /\ c.args[2] \in Nat
         /\ c.name \in LiteralInstructions => c.args[1] \in Nat
<1>1. c.args \in Seq(Nat)
  BY SMT DEF Line
<1>2. CASE c.name \in BitOrByteInstructions
  <2>1. Len(c.args) = 2
    <3>1. ~(c.name \in LiteralInstructions \cup {"READ_FILE", "SELECT_SLAVE", "SET_CLK_FREQ", "echo"})
      BY <1>2, SMT DEF BitOrByteInstructions, BitOriented, LiteralInstructions
    <3> QED
      BY <1>2, <3>1, Zenon DEF Accepted, Arity
  <2>2. c.name \notin LiteralInstructions
    BY <1>2, Classes, Zenon
  <2> QED
    BY <1>1, <2>1, <2>2, SMT
<1>3. CASE c.name \in LiteralInstructions
  <2>1. Len(c.args) = 1
    BY <1>3, Classes, SMT DEF Accepted, Arity
  <2>2. c.name \notin BitOrByteInstructions
    BY <1>3, Classes, Zenon
  <2> QED
    BY <1>1, <2>1, <2>2, SMT
<1> QED
  BY <1>2, <1>3

\* The board understands an accepted bit-oriented line as it was meant.
LEMMA UnderstoodBit ==
  ASSUME NEW c \in Line, Accepted(c), c.name \in BitOriented
  PROVE  EncodedWord(c) \in Word /\ Board!Decode(EncodedWord(c)) = Meaning(c)
<1> DEFINE w == EncodedWord(c)
           op == Opcode[c.name]
           v == ThreeNumbers(4, 3, op, c.args[1], c.args[2])
<1>1. /\ c.args[1] \in Nat /\ c.args[2] \in Nat
      /\ op \in Nat /\ op \in {4, 5} /\ BoardOpcode[c.name] = 4 * op
  <2>1. c.args[1] \in Nat /\ c.args[2] \in Nat
    BY Operands, Classes, Zenon
  <2>2. op \in {4, 5} /\ BoardOpcode[c.name] = 4 * op
    BY BitOpcodes, Zenon
  <2> QED
    BY <2>1, <2>2, SMT
<1>2. w = v
  <2>1. Operand(c) = DecimalToBinary(c.args[1], 3) \o DecimalToBinary(c.args[2], 7)
    BY Classes, Zenon DEF Operand, ByteInstructions
  <2> QED
    BY <2>1, Zenon DEF BinaryCommand, EncodedWord, Received, ThreeNumbers
<1>3. /\ v \in Word /\ Slice(v, 13, 10) = op
      /\ Slice(v, 9, 7) = AtMost(c.args[1], 7) /\ Slice(v, 6, 0) = AtMost(c.args[2], 127)
  <2>1. WidthsOfThree(4, 3) /\ 7 + 3 = 10 /\ 6 + 3 = 9
    BY SMT DEF WidthsOfThree, Widths
  <2> HIDE DEF op
  <2>2. /\ v \in Word /\ Slice(v, 13, 7 + 3) = AtMost(op, Largest(4))
        /\ Slice(v, 6 + 3, 7) = AtMost(c.args[1], Largest(3))
        /\ Slice(v, 6, 0) = AtMost(c.args[2], 127)
    BY <1>1, <2>1, ThreeFields, SMT
  <2> HIDE DEF v
  <2>3. AtMost(op, 15) = op
    BY <1>1, SMT DEF AtMost
  <2> QED
    BY <2>1, <2>2, <2>3, LargestValue, Zenon
<1> HIDE DEF w, v, op
<1>4. Board!Decode(w) = Outputs(4 * op, AtMost(c.args[1], 7), AtMost(c.args[2], 127), 0,
                                TRUE, TRUE, FALSE, ToRam)
  BY <1>1, <1>2, <1>3, DecodesBit, Zenon
<1>5. Meaning(c) = Outputs(4 * op, AtMost(c.args[1], 7), AtMost(c.args[2], 127), 0,
                           TRUE, TRUE, FALSE, ToRam)
  <2>1. /\ c.name # "READ_ADDRESS" /\ c.name \notin {"READ_WREG", "READ_STATUS"}
        /\ c.name # "DUMP_RAM" /\ c.name # "DUMP_EEPROM" /\ c.name # "NOP"
    BY SMT DEF BitOriented
  <2> QED
    BY <1>1, <2>1, Classes, Zenon DEF Meaning, ByteInstructions
<1> QED
  BY <1>2, <1>3, <1>4, <1>5, Zenon DEF w

\* So it does a byte-oriented one.
LEMMA UnderstoodByte ==
  ASSUME NEW c \in Line, Accepted(c), c.name \in ByteInstructions
  PROVE  EncodedWord(c) \in Word /\ Board!Decode(EncodedWord(c)) = Meaning(c)
<1> DEFINE w == EncodedWord(c)
           op == Opcode[c.name]
           v == ThreeNumbers(6, 1, op, c.args[1], c.args[2])
<1>1. /\ c.args[1] \in Nat /\ c.args[2] \in Nat
      /\ op \in Nat /\ op \in 1..15 /\ BoardOpcode[c.name] = op
  <2>1. c.args[1] \in Nat /\ c.args[2] \in Nat
    BY Operands, Classes, Zenon
  <2>2. op \in 1..15 /\ BoardOpcode[c.name] = op
    BY ByteOpcodes, Zenon DEF ByteInstructions
  <2> QED
    BY <2>1, <2>2, SMT
<1>2. w = v
  <2>1. Operand(c) = DecimalToBinary(c.args[1], 1) \o DecimalToBinary(c.args[2], 7)
    BY Classes, Zenon DEF Operand, ByteInstructions
  <2> QED
    BY <2>1, Classes, Zenon DEF BinaryCommand, EncodedWord, Received, ThreeNumbers
<1>3. /\ v \in Word /\ OpcodeOf(v) = op /\ Slice(v, 6, 0) = AtMost(c.args[2], 127)
      /\ v[7] = 1 <=> c.args[1] > 0
  <2>1. WidthsOfThree(6, 1) /\ 7 + 1 = 8 /\ 6 \in Widths /\ 1 \in Widths
    BY SMT DEF WidthsOfThree, Widths
  <2> HIDE DEF op
  <2>2. /\ v \in Word /\ Slice(v, 13, 7 + 1) = AtMost(op, Largest(6))
        /\ HasDigits(v, 7, c.args[1], 1)
        /\ Slice(v, 6, 0) = AtMost(c.args[2], 127)
    BY <1>1, <2>1, ThreeFields, SMT
  <2> HIDE DEF v
  <2>3. AtMost(op, 63) = op
    BY <1>1, SMT DEF AtMost
  <2>4. Slice(v, 13, 8) = op
    BY <2>1, <2>2, <2>3, LargestValue, Zenon
  <2>5. v[7] = DecimalToBinary(c.args[1], 1)[1 - 0]
    <3>1. 0 \in 0..1 - 1 /\ 7 + 0 = 7
      BY SMT
    <3> QED
      BY <2>2, <3>1, Zenon DEF HasDigits
  <2>6. DecimalToBinary(c.args[1], 1)[1 - 0]
        = IF c.args[1] > Largest(1) THEN 1 ELSE Bit(c.args[1], 0)
    <3>1. 0 \in 0..1 - 1
      BY SMT
    <3> QED
      BY <1>1, <2>1, <3>1, DigitsAreBits, Zenon
  <2>7. v[7] = 1 <=> c.args[1] > 0
    BY <1>1, <2>5, <2>6, LargestValue, SMT DEF Bit, Weight
  <2> QED
    BY <2>2, <2>4, <2>7, Zenon DEF OpcodeOf
<1> HIDE DEF w, v, op
<1>4. Board!Decode(w) = Outputs(op, 0, AtMost(c.args[2], 127), 0, TRUE, v[7] = 1, FALSE,
                                IF v[7] = 1 THEN ToRam ELSE ToWreg)
  BY <1>1, <1>2, <1>3, DecodesByte, Zenon
<1>5. Meaning(c) = Outputs(op, 0, AtMost(c.args[2], 127), 0, TRUE, c.args[1] > 0, FALSE,
                           IF c.args[1] > 0 THEN ToRam ELSE ToWreg)
  <2>1. /\ c.name # "READ_ADDRESS" /\ c.name \notin {"READ_WREG", "READ_STATUS"}
        /\ c.name # "DUMP_RAM" /\ c.name # "DUMP_EEPROM" /\ c.name # "NOP"
    BY SMT DEF ByteInstructions, BitOrByteInstructions, BitOriented
  <2>2. c.name \in BitOrByteInstructions \ BitOriented /\ c.name \notin BitOriented
        /\ c.name \notin LiteralInstructions \ {"READ_ADDRESS"}
    BY Classes, Zenon DEF ByteInstructions
  <2> QED
    BY <1>1, <2>1, <2>2, Zenon DEF Meaning
<1>6. CASE v[7] = 1
  <2>1. (v[7] = 1) = TRUE /\ (c.args[1] > 0) = TRUE
    BY <1>3, <1>6, Zenon
  <2> QED
    BY <1>2, <1>3, <1>4, <1>5, <2>1, Zenon DEF w
<1>7. CASE v[7] # 1
  <2>1. (v[7] = 1) = FALSE
    BY <1>7, Zenon
  <2>2. (c.args[1] > 0) = FALSE
    <3>1. ~(c.args[1] > 0)
      BY <1>3, <1>7, Zenon
    <3> QED
      BY <3>1, SMT
  <2> QED
    BY <1>2, <1>3, <1>4, <1>5, <2>1, <2>2, Zenon DEF w
<1> QED
  BY <1>6, <1>7

\* The eighth bit of an address is dropped.
LEMMA SevenBits == ASSUME NEW w \in Word PROVE Slice(w, 6, 0) = Slice(w, 7, 0) % 128
<1>1. \A i \in 0..13 : w[i] \in {0, 1}
  BY SMT DEF Word, FRAME_BITS
<1> QED
  BY <1>1, SMT DEF Slice, FromBits

\* So it does one with a literal or an address.
LEMMA UnderstoodLiteral ==
  ASSUME NEW c \in Line, Accepted(c), c.name \in LiteralInstructions
  PROVE  EncodedWord(c) \in Word /\ Board!Decode(EncodedWord(c)) = Meaning(c)
<1> DEFINE w == EncodedWord(c)
           op == Opcode[c.name]
           v == TwoNumbers(op, c.args[1])
<1>1. /\ c.args[1] \in Nat /\ op \in Nat /\ op \in {48, 51, 56, 57, 58, 61, 62}
      /\ BoardOpcode[c.name] = op
      /\ c.name = "READ_ADDRESS" <=> op = 51
  <2>1. c.args[1] \in Nat
    BY Operands, Zenon
  <2>2. /\ op \in {48, 51, 56, 57, 58, 61, 62} /\ BoardOpcode[c.name] = op
        /\ c.name = "READ_ADDRESS" <=> op = 51
    BY LiteralOpcodes, Zenon
  <2> QED
    BY <2>1, <2>2, SMT
<1>2. w = v
  <2>1. Operand(c) = DecimalToBinary(c.args[1], 8)
    BY Classes, Zenon DEF Operand, ByteInstructions
  <2> QED
    BY <2>1, Classes, Zenon DEF BinaryCommand, EncodedWord, Received, TwoNumbers
<1>3. v \in Word /\ OpcodeOf(v) = op /\ Slice(v, 7, 0) = AtMost(c.args[1], 255)
  <2> HIDE DEF op
  <2>1. /\ v \in Word /\ Slice(v, 13, 8) = AtMost(op, 63)
        /\ Slice(v, 7, 0) = AtMost(c.args[1], 255)
    BY <1>1, TwoFields, SMT
  <2> HIDE DEF v
  <2>2. AtMost(op, 63) = op
    BY <1>1, SMT DEF AtMost
  <2> QED
    BY <2>1, <2>2, Zenon DEF OpcodeOf
<1> HIDE DEF w, v, op
<1>4. /\ c.name \notin BitOriented /\ c.name \notin BitOrByteInstructions \ BitOriented
      /\ c.name \notin {"READ_WREG", "READ_STATUS"}
      /\ c.name # "DUMP_RAM" /\ c.name # "DUMP_EEPROM" /\ c.name # "NOP"
  BY SMT DEF LiteralInstructions, BitOrByteInstructions, BitOriented
<1>5. OpcodeOf(v) \in {0} \cup 32..63
  BY <1>1, <1>3, SMT
<1>6. CASE c.name = "READ_ADDRESS"
  <2>1. OpcodeOf(v) = 51 /\ op = 51
    BY <1>1, <1>3, <1>6, Zenon
  <2>2. Slice(v, 6, 0) = AtMost(c.args[1], 255) % 128
    BY <1>3, SevenBits, Zenon
  <2>3. Board!Decode(v) = Outputs(51, 0, AtMost(c.args[1], 255) % 128, 0, TRUE, FALSE, TRUE,
                                  ReadMem)
    BY <1>3, <1>5, <2>1, <2>2, DecodesOther, Zenon
  <2>4. Meaning(c) = Outputs(51, 0, AtMost(c.args[1], 255) % 128, 0, TRUE, FALSE, TRUE, ReadMem)
    BY <1>1, <1>4, <1>6, <2>1, Zenon DEF Meaning
  <2> QED
    BY <1>2, <1>3, <2>3, <2>4, Zenon DEF w
<1>7. CASE c.name # "READ_ADDRESS"
  <2>1. OpcodeOf(v) \notin {40, 44, 49, 50, 51}
    BY <1>1, <1>3, <1>7, SMT
  <2>2. Board!Decode(v) = Outputs(op, 0, 0, AtMost(c.args[1], 255), FALSE, FALSE, FALSE, Literal)
    BY <1>3, <1>5, <2>1, DecodesOther, Zenon
  <2>3. Meaning(c) = Outputs(op, 0, 0, AtMost(c.args[1], 255), FALSE, FALSE, FALSE, Literal)
    <3>1. c.name \in LiteralInstructions \ {"READ_ADDRESS"}
      BY <1>7, Zenon
    <3> QED
      BY <1>1, <1>4, <1>7, <3>1, Zenon DEF Meaning
  <2> QED
    BY <1>2, <1>3, <2>2, <2>3, Zenon DEF w
<1> QED
  BY <1>6, <1>7

\* So it does one without an operand.
LEMMA UnderstoodOther ==
  ASSUME NEW c \in Line, Accepted(c), c.name \in OtherInstructions
  PROVE  EncodedWord(c) \in Word /\ Board!Decode(EncodedWord(c)) = Meaning(c)
<1> DEFINE w == EncodedWord(c)
           op == Opcode[c.name]
           v == TwoNumbers(op, 0)
<1>1. op \in Nat /\ op \in {0, 40, 44, 49, 50} /\ BoardOpcode[c.name] = op
  BY OtherOpcodes, SMT DEF OtherInstructions
<1>2. w = v
  <2>1. Operand(c) = DecimalToBinary(0, 8)
    BY Classes, Zenon DEF Operand, ByteInstructions
  <2> QED
    BY <2>1, Classes, Zenon DEF BinaryCommand, EncodedWord, Received, TwoNumbers
<1>3. v \in Word /\ OpcodeOf(v) = op /\ Slice(v, 7, 0) = 0
  <2> HIDE DEF op
  <2>1. /\ v \in Word /\ Slice(v, 13, 8) = AtMost(op, 63) /\ Slice(v, 7, 0) = AtMost(0, 255)
    BY <1>1, TwoFields, SMT
  <2> HIDE DEF v
  <2>2. AtMost(op, 63) = op /\ AtMost(0, 255) = 0
    BY <1>1, SMT DEF AtMost
  <2> QED
    BY <2>1, <2>2, Zenon DEF OpcodeOf
<1> HIDE DEF w, v
<1>4. /\ c.name \notin BitOriented /\ c.name \notin BitOrByteInstructions \ BitOriented
      /\ c.name # "READ_ADDRESS" /\ c.name \notin LiteralInstructions \ {"READ_ADDRESS"}
  BY SMT DEF OtherInstructions, LiteralInstructions, BitOrByteInstructions, BitOriented
<1>5. OpcodeOf(v) \in {0} \cup 32..63
  BY <1>1, <1>3, SMT
<1>6. CASE c.name \in {"READ_WREG", "READ_STATUS"}
  <2>1. c.name # "DUMP_RAM" /\ c.name # "DUMP_EEPROM" /\ c.name # "NOP"
    BY <1>6, SMT
  <2>2. OpcodeOf(v) \in {49, 50}
    BY <1>3, <1>6, OtherOpcodes, SMT
  <2>3. Board!Decode(v) = Outputs(op, 0, 0, 0, FALSE, FALSE, TRUE, ReadReg)
    BY <1>3, <1>5, <2>2, DecodesOther, Zenon
  <2>4. Meaning(c) = Outputs(op, 0, 0, 0, FALSE, FALSE, TRUE, ReadReg)
    BY <1>1, <1>4, <1>6, <2>1, Zenon DEF Meaning
  <2> QED
    BY <1>2, <1>3, <2>3, <2>4, Zenon DEF w
<1>7. CASE c.name = "DUMP_RAM"
  <2>1. /\ c.name # "DUMP_EEPROM" /\ c.name # "NOP"
        /\ c.name \notin {"READ_WREG", "READ_STATUS"} /\ op = 40
    BY <1>7, OtherOpcodes, SMT
  <2>2. Board!Decode(v) = Outputs(op, 0, 0, 0, FALSE, FALSE, FALSE, DumpRam)
    BY <1>3, <1>5, <2>1, DecodesOther, Zenon
  <2>3. Meaning(c) = Outputs(op, 0, 0, 0, FALSE, FALSE, FALSE, DumpRam)
    BY <1>1, <1>4, <1>7, <2>1, Zenon DEF Meaning
  <2> QED
    BY <1>2, <1>3, <2>2, <2>3, Zenon DEF w
<1>8. CASE c.name = "DUMP_EEPROM"
  <2>1. /\ c.name # "DUMP_RAM" /\ c.name # "NOP"
        /\ c.name \notin {"READ_WREG", "READ_STATUS"} /\ op = 44
    BY <1>8, OtherOpcodes, SMT
  <2>2. Board!Decode(v) = Outputs(op, 0, 0, 0, FALSE, FALSE, FALSE, DumpEeprom)
    BY <1>3, <1>5, <2>1, DecodesOther, Zenon
  <2>3. Meaning(c) = Outputs(op, 0, 0, 0, FALSE, FALSE, FALSE, DumpEeprom)
    BY <1>1, <1>4, <1>8, <2>1, Zenon DEF Meaning
  <2> QED
    BY <1>2, <1>3, <2>2, <2>3, Zenon DEF w
<1>9. CASE c.name = "NOP"
  <2>1. /\ c.name # "DUMP_RAM" /\ c.name # "DUMP_EEPROM"
        /\ c.name \notin {"READ_WREG", "READ_STATUS"} /\ op = 0
    BY <1>9, OtherOpcodes, SMT
  <2>2. OpcodeOf(v) \notin {40, 44, 49, 50, 51}
    BY <1>3, <2>1, SMT
  <2>3. Board!Decode(v) = Outputs(op, 0, 0, 0, FALSE, FALSE, FALSE, Literal)
    BY <1>3, <1>5, <2>2, DecodesOther, Zenon
  <2>4. Meaning(c) = Outputs(op, 0, 0, 0, FALSE, FALSE, FALSE, Literal)
    BY <1>1, <1>4, <1>9, <2>1, Zenon DEF Meaning
  <2> QED
    BY <1>2, <1>3, <2>3, <2>4, Zenon DEF w
<1> QED
  <2>1. \/ c.name \in {"READ_WREG", "READ_STATUS"} \/ c.name = "DUMP_RAM"
        \/ c.name = "DUMP_EEPROM" \/ c.name = "NOP"
    BY SMT DEF OtherInstructions
  <2> QED
    BY <1>6, <1>7, <1>8, <1>9, <2>1, Zenon

\* The word that is made of a command is decoded as the command.
LEMMA Understood ==
  ASSUME NEW c \in Line, Accepted(c), c.name \in Encodable
  PROVE  EncodedWord(c) \in Word /\ Board!Decode(EncodedWord(c)) = Meaning(c)
BY Classes, UnderstoodBit, UnderstoodByte, UnderstoodLiteral, UnderstoodOther, Zenon

-----------------------------------------------------------------------------
(***************************************************************************)
(* The control of the main thread and of the two clock threads.            *)
(***************************************************************************)
ThreadState == {"check_exit", "check_enable", "high", "done"}
Closed == {"closing", "joining", "ended"}

\* A pin is high only within a period; a program that is ending has no file
\* open; a failing test ends the program; main ends after the threads.
ThreadInv == /\ thread \in [Threads -> ThreadState]
             /\ pin \in [Threads -> BOOLEAN]
             /\ \A t \in Threads : pin[t] => thread[t] = "high"
ClosedInv == pc \in Closed => file = NoFile
FailedInv == mode = "tests" /\ failed => pc \in Closed
JoinedInv == pc = "ended" => \A t \in Threads : thread[t] = "done"

ProgramInv == ThreadInv /\ ClosedInv /\ FailedInv /\ JoinedInv

\* The main thread's control that a step leaves alone keeps the invariant.
control == <<mode, file, pc, failed>>

\* The invariant holds before the first line.
LEMMA InitEstablishes == Init => ProgramInv
<1> SUFFICES ASSUME Init PROVE ProgramInv
  OBVIOUS
<1>1. ThreadInv
  BY DEF Init, ThreadInv, ThreadState
<1>2. ClosedInv /\ FailedInv /\ JoinedInv
  BY DEF Init, ClosedInv, FailedInv, JoinedInv, Closed
<1>3. QED
  BY <1>1, <1>2 DEF ProgramInv

\* An error leaves the program closing or, in run_app, with no file open.
LEMMA RefuseCloses ==
  ASSUME ProgramInv, Refuse, UNCHANGED <<clocks, mode>>
  PROVE  ProgramInv'
BY SMT DEF ProgramInv, ThreadInv, ClosedInv, FailedInv, JoinedInv, Refuse, clocks, Closed, NoFile

\* A step that keeps a running program running.
LEMMA RunningKeeps ==
  ASSUME ProgramInv, pc \notin Closed, pc' \notin Closed, failed' = failed,
         UNCHANGED <<clocks, mode>>
  PROVE  ProgramInv'
BY SMT DEF ProgramInv, ThreadInv, ClosedInv, FailedInv, JoinedInv, clocks, Closed

\* A step that leaves control and threads alone.
LEMMA ControlKeeps ==
  ASSUME ProgramInv, UNCHANGED <<control, clocks>>
  PROVE  ProgramInv'
BY SMT DEF ProgramInv, ThreadInv, ClosedInv, FailedInv, JoinedInv, control, clocks, Closed

\* send_command_to_hw starts to send, or fails.
LEMMA SendKeeps ==
  ASSUME NEW c, ProgramInv, pc = "reading", SendCommandToHw(c), UNCHANGED <<clocks, mode>>
  PROVE  ProgramInv'
<1>1. CASE Refuse
  BY <1>1, RefuseCloses
<1>2. CASE ~Refuse
  <2>1. pc' \in {"sending", "waiting"} /\ failed' = failed
    BY <1>2, SMT DEF SendCommandToHw, SendToFpga, SendToArduino
  <2>2. QED
    BY <2>1, RunningKeeps DEF Closed
<1>3. QED
  BY <1>1, <1>2

\* A line of the standard input keeps the program's control consistent.
LEMMA ReadLineKeeps ==
  ASSUME ProgramInv, ReadLine
  PROVE  ProgramInv'
<1>1. pc = "reading" /\ file = NoFile /\ UNCHANGED <<clocks, mode>>
  BY DEF ReadLine, source
<1>2. PICK c : \/ UNCHANGED <<pc, file, failed>>
               \/ Refuse
               \/ SwCommand(c)
               \/ HwCommand(c)
  BY SMT DEF ReadLine
<1>3. CASE UNCHANGED <<pc, file, failed>>
  BY <1>1, <1>3, ControlKeeps DEF control
<1>4. CASE Refuse
  BY <1>1, <1>4, RefuseCloses
<1>5. CASE SwCommand(c) /\ ~Refuse
  <2>1. UNCHANGED <<file, failed>> /\ pc' \in {"reading", "closing"}
    BY <1>1, <1>5, SMT DEF SwCommand
  <2>2. QED
    BY <1>1, <2>1, SMT DEF ProgramInv, ThreadInv, ClosedInv, FailedInv, JoinedInv, clocks, Closed
<1>6. CASE HwCommand(c) /\ ~Refuse
  <2>1. CASE SendCommandToHw(c)
    BY <1>1, <2>1, SendKeeps
  <2>2. CASE ~SendCommandToHw(c)
    <3>1. UNCHANGED <<pc, failed>>
      BY <1>6, <2>2, SMT DEF HwCommand
    <3>2. QED
      BY <1>1, <3>1, RunningKeeps DEF Closed
  <2>3. QED
    BY <2>1, <2>2
<1>7. QED
  BY <1>2, <1>3, <1>4, <1>5, <1>6

\* So does a line of a file.
LEMMA ReadFileLineKeeps ==
  ASSUME ProgramInv, ReadFileLine
  PROVE  ProgramInv'
<1>1. pc = "reading" /\ UNCHANGED <<clocks, mode>>
  BY DEF ReadFileLine, source
<1>2. PICK c : SendCommandToHw(c) \/ UNCHANGED <<pc, file, failed>>
  BY DEF ReadFileLine, FileLine
<1>3. QED
  BY <1>1, <1>2, SendKeeps, ControlKeeps DEF control

\* So does a step of a clock thread.
LEMMA ThreadStepKeeps ==
  ASSUME ProgramInv, NEW t \in Threads, ThreadStep(t)
  PROVE  ProgramInv'
<1>1. UNCHANGED control
  BY SMT DEF ThreadStep, CheckExit, PinHigh, PinLow, program, source, control
<1>2. thread[t] # "done"
  BY SMT DEF ThreadStep, CheckExit, PinHigh, PinLow
<1>3. ThreadInv'
  <2>1. CASE CheckExit(t)
    BY <2>1, SMT DEF CheckExit, ProgramInv, ThreadInv, ThreadState
  <2>2. CASE PinHigh(t)
    <3>1. CASE settings.clk_enable
      <4>1. /\ thread' = [thread EXCEPT ![t] = "high"]
            /\ pin' = [pin EXCEPT ![t] = TRUE]
        BY <2>2, <3>1 DEF PinHigh
      <4>2. QED
        BY <4>1, SMT DEF ProgramInv, ThreadInv, ThreadState
    <3>2. CASE ~settings.clk_enable
      <4>1. thread' = [thread EXCEPT ![t] = "check_exit"] /\ pin' = pin
            /\ thread[t] = "check_enable"
        BY <2>2, <3>2 DEF PinHigh
      <4>2. QED
        BY <4>1, SMT DEF ProgramInv, ThreadInv, ThreadState
    <3>3. QED
      BY <3>1, <3>2
  <2>3. CASE PinLow(t)
    BY <2>3, SMT DEF PinLow, ProgramInv, ThreadInv, ThreadState
  <2>4. QED
    BY <2>1, <2>2, <2>3 DEF ThreadStep
<1>4. (ClosedInv /\ FailedInv)'
  BY <1>1, SMT DEF control, ProgramInv, ClosedInv, FailedInv
<1>5. JoinedInv'
  BY <1>1, <1>2, SMT DEF control, ProgramInv, JoinedInv
<1>6. QED
  BY <1>3, <1>4, <1>5 DEF ProgramInv

\* So does every step.
LEMMA StepKeeps == ProgramInv /\ [Next]_vars => ProgramInv'
<1> SUFFICES ASSUME ProgramInv, [Next]_vars PROVE ProgramInv'
  OBVIOUS
<1>1. CASE UNCHANGED vars
  BY <1>1, ControlKeeps DEF vars, control, clocks
<1>2. CASE ReadLine
  BY <1>2, ReadLineKeeps
<1>3. CASE ReadFileLine
  BY <1>3, ReadFileLineKeeps
<1>4. CASE EndOfFile
  BY <1>4, RunningKeeps DEF EndOfFile, Closed, source
<1>5. CASE EndOfInput
  BY <1>5, SMT DEF EndOfInput, source, clocks, ProgramInv, ThreadInv, ClosedInv, FailedInv,
                   JoinedInv, Closed
<1>6. CASE SendDone
  <2>1. pc = "sending" /\ UNCHANGED <<clocks, mode>>
    BY <1>6 DEF SendDone, source
  <2>2. Refuse \/ (pc' = "reading" /\ failed' = failed)
    BY <1>6, SMT DEF SendDone
  <2>3. QED
    BY <2>1, <2>2, RefuseCloses, RunningKeeps DEF Closed
<1>7. CASE PollExpires
  BY <1>7, ControlKeeps DEF PollExpires, source, control
<1>8. CASE Response
  BY <1>8, RunningKeeps DEF Response, Closed, source
<1>9. CASE StopThreads
  BY <1>9, SMT DEF StopThreads, source, clocks, ProgramInv, ThreadInv, ClosedInv, FailedInv,
                   JoinedInv, Closed
<1>10. CASE JoinThreads
  BY <1>10, SMT DEF JoinThreads, source, clocks, ProgramInv, ThreadInv, ClosedInv, FailedInv,
                    JoinedInv, Closed
<1>11. CASE \E t \in Threads : ThreadStep(t)
  BY <1>11, ThreadStepKeeps
<1>12. QED
  BY <1>1, <1>2, <1>3, <1>4, <1>5, <1>6, <1>7, <1>8, <1>9, <1>10, <1>11 DEF Next

\* The invariant that the three results below rest on.
THEOREM ProgramCorrect == Spec => []ProgramInv
BY InitEstablishes, StepKeeps, PTL DEF Spec

\* At the end of the program both clock threads have ended with their pins low.
THEOREM ClocksEndLow == Spec => []ClocksLeftLow
<1>1. ProgramInv => ClocksLeftLow
  BY SMT DEF ProgramInv, ThreadInv, JoinedInv, ClocksLeftLow
<1>2. QED
  BY <1>1, ProgramCorrect, PTL

\* No setting changes between the start of a command and its end.
THEOREM SettingsStable == Spec => SettingsFixedWhileBusy
<1>1. ASSUME ProgramInv, [Next]_vars
      PROVE  [(pc \in {"sending", "waiting"} \/ file # NoFile) => settings' = settings]_vars
  <2> SUFFICES ASSUME pc \in {"sending", "waiting"} \/ file # NoFile, ~UNCHANGED vars
               PROVE  settings' = settings
    OBVIOUS
  <2>1. ~ReadLine
    BY SMT DEF ReadLine
  <2>2. ~StopThreads
    BY <1>1, SMT DEF StopThreads, ProgramInv, ClosedInv, Closed
  <2>3. ReadFileLine => settings' = settings
    BY SMT DEF ReadFileLine, FileLine
  <2>4. EndOfFile \/ EndOfInput \/ SendDone \/ PollExpires \/ Response \/ JoinThreads
           => settings' = settings
    BY SMT DEF EndOfFile, EndOfInput, SendDone, PollExpires, Response, JoinThreads
  <2>5. (\E t \in Threads : ThreadStep(t)) => settings' = settings
    BY SMT DEF ThreadStep, CheckExit, PinHigh, PinLow, program
  <2>6. QED
    BY <1>1, <2>1, <2>2, <2>3, <2>4, <2>5 DEF Next
<1>2. QED
  BY <1>1, ProgramCorrect, PTL DEF Spec, SettingsFixedWhileBusy

\* After a failing command run_tests reads and delivers nothing more.
THEOREM TestsStop == Spec => TestsStopAtFailure
<1>1. ASSUME ProgramInv, [Next]_vars
      PROVE  [mode = "tests" /\ failed => UNCHANGED <<input_pos, file, delivered>>]_vars
  <2> SUFFICES ASSUME mode = "tests", failed, ~UNCHANGED vars
               PROVE  UNCHANGED <<input_pos, file, delivered>>
    OBVIOUS
  <2>1. pc \in Closed
    BY <1>1 DEF ProgramInv, FailedInv
  <2>2. /\ ~ReadLine /\ ~ReadFileLine /\ ~EndOfFile /\ ~EndOfInput
        /\ ~SendDone /\ ~PollExpires /\ ~Response
    BY <2>1 DEF Closed, ReadLine, ReadFileLine, EndOfFile, EndOfInput, SendDone, PollExpires,
                Response
  <2>3. StopThreads \/ JoinThreads => UNCHANGED <<input_pos, file, delivered>>
    BY DEF StopThreads, JoinThreads
  <2>4. (\E t \in Threads : ThreadStep(t)) => UNCHANGED <<input_pos, file, delivered>>
    BY DEF ThreadStep, CheckExit, PinHigh, PinLow, program
  <2>5. QED
    BY <1>1, <2>2, <2>3, <2>4 DEF Next
<1>2. QED
  BY <1>1, ProgramCorrect, PTL DEF Spec, TestsStopAtFailure

-----------------------------------------------------------------------------
(***************************************************************************)
(* What is sent is what was written, and a file is sent line by line.      *)
(***************************************************************************)
Slaves == {SLAVE_ID_FPGA, SLAVE_ID_ARDUINO}
DeliveryType == [slave : Slaves, command : Line, word : Word]

\* While a transfer runs, the word is the command's; the Arduino is sent lines only.
TypeInv == CommandTypeOK /\ delivered \in Seq(DeliveryType)
SendingInv == pc = "sending" => /\ settings.slave_id = SLAVE_ID_FPGA
                                /\ Accepted(command) /\ command.name \in Encodable
                                /\ binary_command = EncodedWord(command)
WaitingInv == pc = "waiting" => settings.slave_id = SLAVE_ID_ARDUINO
\* The command of a file that is being sent is the line last read.
LineInv == file # NoFile /\ pc \in {"sending", "waiting"} =>
              /\ file_pos > 0
              /\ command = LineRead(Files[file], file_pos) /\ Accepted(command)

DeliveryInv == /\ TypeInv /\ SendingInv /\ WaitingInv /\ LineInv /\ ClosedInv
               /\ DeliveredAsWritten /\ FileInOrder

\* The lines of a text stay lines when the program cuts off a character.
LEMMA ChoppedType == ASSUME NEW line \in Line PROVE Chopped(line) \in Line
<1> DEFINE last == Len(line.args)
<1>1. line = [name |-> line.name, args |-> line.args] /\ line.name \in Name
      /\ line.args \in Seq(Nat)
  BY DEF Line
<1>2. CASE last > 0 /\ (line.args[last] > 9 \/ line.name = "echo")
  <2>1. last \in 1..last /\ line.args[last] \in Nat
    BY <1>1, <1>2, SMT
  <2>2. line.args[last] \div 10 \in Nat
    BY <2>1, SMT
  <2>3. [line.args EXCEPT ![last] = line.args[last] \div 10] \in Seq(Nat)
    BY <1>1, <2>1, <2>2, ExceptSeq
  <2>4. Chopped(line) = [name |-> line.name,
                         args |-> [line.args EXCEPT ![last] = line.args[last] \div 10]]
    BY <1>1, <1>2 DEF Chopped
  <2> QED
    BY <1>1, <2>3, <2>4 DEF Line
<1>3. CASE ~(last > 0 /\ (line.args[last] > 9 \/ line.name = "echo"))
  <2>1. Chopped(line) = [name |-> "chopped", args |-> line.args]
    BY <1>1, <1>3 DEF Chopped
  <2>2. "chopped" \in Name
    BY DEF Name
  <2> HIDE DEF last
  <2>3. [name |-> "chopped", args |-> line.args] \in [name : Name, args : Seq(Nat)]
    BY <1>1, <2>2, Zenon
  <2> QED
    BY <2>1, <2>3, Zenon DEF Line
<1> QED
  BY <1>2, <1>3

\* What is read of a line is a line.
LEMMA LineReadType ==
  ASSUME NEW text \in Text, NEW i \in 1..Len(text.lines)
  PROVE  text.lines[i] \in Line /\ LineRead(text, i) \in Line
<1>1. text.lines \in Seq(Line)
  BY DEF Text
<1>2. text.lines[i] \in Line
  BY <1>1
<1> QED
  BY <1>2, ChoppedType DEF LineRead

\* The scripts and the files are texts.
LEMMA Texts ==
  /\ \A text \in Scripts : text \in Text /\ Len(text.lines) \in Nat
  /\ \A f \in DOMAIN Files : f # NoFile /\ Files[f] \in Text /\ Len(Files[f].lines) \in Nat
<1>1. \A text \in Text : Len(text.lines) \in Nat
  <2> TAKE text \in Text
  <2>1. text.lines \in Seq(Line)
    BY DEF Text
  <2> QED
    BY <2>1
<1> QED
  BY <1>1, CommandAssumption DEF NoFile

\* What has been delivered of a file is a sequence of lines.
LEMMA DeliveredLines ==
  delivered \in Seq(DeliveryType) /\ file_start \in 0..Len(delivered)
    => /\ Len(delivered) \in Nat /\ Len(DeliveredOfFile) = Len(delivered) - file_start
       /\ \A i \in 1..Len(delivered) - file_start :
             DeliveredOfFile[i] = delivered[file_start + i].command
<1> SUFFICES ASSUME delivered \in Seq(DeliveryType), file_start \in 0..Len(delivered)
             PROVE  /\ Len(delivered) \in Nat
                    /\ Len(DeliveredOfFile) = Len(delivered) - file_start
                    /\ \A i \in 1..Len(delivered) - file_start :
                          DeliveredOfFile[i] = delivered[file_start + i].command
  BY Zenon
<1> DEFINE n == Len(delivered) - file_start
<1>1. Len(delivered) \in Nat /\ n \in Nat
  BY SMT
<1> HIDE DEF n
<1>2. Len([i \in 1..n |-> delivered[file_start + i].command]) = n
  BY <1>1
<1> QED
  BY <1>1, <1>2 DEF DeliveredOfFile, n

\* The lines of a text, one after the other.
LEMMA NothingHandled ==
  ASSUME NEW text, NEW lines, Len(lines) = 0
  PROVE  OneByOne(lines, text, 0)
<1>1. CommandsOf(text, 0) = {}
  BY SMT DEF CommandsOf
<1> DEFINE at == [i \in 1..Len(lines) |-> i]
<1>2. \A i : i \notin 1..Len(lines)
  BY SMT
<1>3. at \in [1..Len(lines) -> CommandsOf(text, 0)]
  BY <1>2
<1> HIDE DEF at
<1> QED
  BY <1>1, <1>2, <1>3, Zenon DEF OneByOne

\* A line that is not accepted adds no command to those handled.
LEMMA NoCommandHandled ==
  ASSUME NEW text, NEW lines, NEW n \in Nat, OneByOne(lines, text, n),
         ~Accepted(LineRead(text, n + 1))
  PROVE  OneByOne(lines, text, n + 1)
<1>1. \A i : i \in 1..n + 1 <=> i \in 1..n \/ i = n + 1
  BY SMT
<1>2. CommandsOf(text, n + 1) = CommandsOf(text, n)
  BY <1>1, Zenon DEF CommandsOf
<1> QED
  BY <1>2, Zenon DEF OneByOne

\* A line that is accepted adds its own.
LEMMA CommandHandled ==
  ASSUME NEW text, NEW lines, NEW more, NEW n \in Nat, OneByOne(lines, text, n),
         Accepted(LineRead(text, n + 1)),
         Len(lines) \in Nat, Len(more) = Len(lines) + 1,
         \A i \in 1..Len(lines) : more[i] = lines[i],
         more[Len(lines) + 1] = LineRead(text, n + 1)
  PROVE  OneByOne(more, text, n + 1)
<1> DEFINE len == Len(lines)
<1>1. \A i : i \in 1..n + 1 <=> i \in 1..n \/ i = n + 1
  BY SMT
<1>2. /\ \A k \in CommandsOf(text, n) : k \in CommandsOf(text, n + 1) /\ k \in 1..n
      /\ n + 1 \in CommandsOf(text, n + 1)
      /\ \A k \in CommandsOf(text, n + 1) : k \in CommandsOf(text, n) \/ k = n + 1
  BY <1>1, Zenon DEF CommandsOf
<1>3. PICK at \in [1..len -> CommandsOf(text, n)] :
         /\ \A i, j \in 1..len : i < j => at[i] < at[j]
         /\ \A k \in CommandsOf(text, n) : \E i \in 1..len : at[i] = k
         /\ \A i \in 1..len : lines[i] = LineRead(text, at[i])
  BY DEF OneByOne
<1> DEFINE next == [i \in 1..len + 1 |-> IF i = len + 1 THEN n + 1 ELSE at[i]]
<1> HIDE DEF len
<1>4. /\ len \in Nat /\ len + 1 \in 1..len + 1
      /\ \A i \in 1..len + 1 : i = len + 1 \/ (i \in 1..len /\ i # len + 1)
      /\ \A i \in 1..len : i \in 1..len + 1 /\ i # len + 1
  BY SMT DEF len
<1>5. next \in [1..len + 1 -> CommandsOf(text, n + 1)]
  BY <1>2, <1>3, <1>4
<1>6. next[len + 1] = n + 1 /\ \A i \in 1..len : next[i] = at[i]
  BY <1>4
<1> HIDE DEF next
<1>7. ASSUME NEW i \in 1..len + 1, NEW j \in 1..len + 1, i < j
      PROVE  next[i] < next[j]
  <2>1. i \in 1..len /\ (j \in 1..len \/ j = len + 1)
    BY <1>4, <1>7, SMT
  <2>2. at[i] \in 1..n
    BY <1>2, <1>3, <2>1
  <2>3. CASE j \in 1..len
    BY <1>3, <1>6, <1>7, <2>1, <2>3
  <2>4. CASE j = len + 1
    BY <1>6, <2>1, <2>2, <2>4, SMT
  <2> QED
    BY <2>1, <2>3, <2>4
<1>8. ASSUME NEW k \in CommandsOf(text, n + 1)
      PROVE  \E i \in 1..len + 1 : next[i] = k
  <2>1. CASE k = n + 1
    BY <1>4, <1>6, <2>1
  <2>2. CASE k \in CommandsOf(text, n)
    <3>1. PICK i \in 1..len : at[i] = k
      BY <1>3, <2>2
    <3> QED
      BY <1>4, <1>6, <3>1
  <2> QED
    BY <1>2, <2>1, <2>2
<1>9. ASSUME NEW i \in 1..len + 1 PROVE more[i] = LineRead(text, next[i])
  <2>1. CASE i = len + 1
    BY <1>6, <2>1 DEF len
  <2>2. CASE i \in 1..len
    <3>1. more[i] = lines[i]
      BY <2>2 DEF len
    <3> QED
      BY <1>3, <1>6, <2>2, <3>1
  <2> QED
    BY <1>4, <2>1, <2>2
<1>10. Len(more) = len + 1
  BY DEF len
<1> QED
  BY <1>5, <1>7, <1>8, <1>9, <1>10 DEF OneByOne

\* Nothing has been delivered at first.
LEMMA InitDelivery == Init => DeliveryInv
<1> SUFFICES ASSUME Init PROVE DeliveryInv
  OBVIOUS
<1>1. /\ mode \in {"app", "tests"} /\ input \in Scripts /\ input_pos = 0
      /\ file = NoFile /\ pc = "reading"
      /\ settings \in [slave_id : {SLAVE_ID_FPGA}, clk_enable : {FALSE}, clk_exit : {FALSE},
                       clk_freq : {CLK_FREQ_DEFAULT}, reset : BOOLEAN]
      /\ binary_command = ZeroWord /\ bits_left = 0 /\ reader_left = 0 /\ send_status = TRUE
      /\ thread = [t \in Threads |-> "check_exit"] /\ pin = [t \in Threads |-> FALSE]
      /\ delivered = <<>> /\ file_start = 0 /\ failed = FALSE
  BY Zenon DEF Init
<1>2. SettingsOK
  <2>1. CLK_FREQ_DEFAULT \in Nat
    BY DEF CLK_FREQ_DEFAULT
  <2>2. /\ {SLAVE_ID_FPGA} \subseteq {SLAVE_ID_FPGA, SLAVE_ID_ARDUINO}
        /\ {FALSE} \subseteq BOOLEAN /\ {CLK_FREQ_DEFAULT} \subseteq Nat
    BY <2>1
  <2> QED
    BY <1>1, <2>2, Zenon DEF SettingsOK
<1>3. SourceOK /\ FileOK /\ ClocksOK
  BY <1>1, Texts, SMT DEF SourceOK, FileOK, ClocksOK
<1>4. ControlOK
  <2>1. "" \in Name
    BY Zenon DEF Name
  <2>2. [name |-> "", args |-> <<>>] \in Line
    BY <2>1, EmptySeq, Zenon DEF Line
  <2> QED
    BY <2>2, Zenon DEF Init, ControlOK
<1>5. TransferOK
  <2>1. ZeroWord \in Word
    BY DEF ZeroWord, Word
  <2> QED
    BY <1>1, <2>1, SMT DEF TransferOK, FRAME_BITS
<1>6. HistoryOK /\ delivered \in Seq(DeliveryType) /\ delivered = <<>>
  <2>1. <<>> \in Seq(DeliveryType) /\ Len(<<>>) = 0
    BY EmptySeq, Zenon
  <2>2. 0 \in 0..0 /\ FALSE \in BOOLEAN
    BY SMT
  <2> QED
    BY <1>1, <2>1, <2>2, Zenon DEF HistoryOK
<1>7. SendingInv /\ WaitingInv /\ LineInv /\ ClosedInv /\ FileInOrder
  BY <1>1, Zenon DEF SendingInv, WaitingInv, LineInv, ClosedInv, Closed, FileInOrder
<1>8. DeliveredAsWritten
  BY <1>6 DEF DeliveredAsWritten
<1> QED
  BY <1>2, <1>3, <1>4, <1>5, <1>6, <1>7, <1>8 DEF DeliveryInv, TypeInv, CommandTypeOK

\* A step that delivers nothing keeps what has been delivered.
LEMMA NothingDelivered ==
  ASSUME DeliveredAsWritten, UNCHANGED delivered
  PROVE  DeliveredAsWritten'
BY DEF DeliveredAsWritten

\* The order within the file stays while these registers do.
LEMMA SameFile ==
  ASSUME FileInOrder, UNCHANGED <<file, file_start, delivered>>, Handled' = Handled
  PROVE  FileInOrder'
<1>1. DeliveredOfFile' = DeliveredOfFile
  BY DEF DeliveredOfFile
<1> QED
  BY <1>1, Zenon DEF FileInOrder

\* Without a file there is nothing to keep.
LEMMA NoFileOpen == ASSUME file' = NoFile PROVE FileInOrder' /\ LineInv' /\ FileOK'
BY DEF FileInOrder, LineInv, FileOK

\* What send_command_to_hw does with a line.
LEMMA SendEffect ==
  ASSUME NEW c \in Line, Accepted(c), SendCommandToHw(c), pc = "reading",
         TransferOK, failed \in BOOLEAN
  PROVE  /\ TransferOK' /\ failed' \in BOOLEAN
         /\ pc' \in {"reading", "sending", "waiting", "closing"}
         /\ file' = file \/ file' = NoFile
         /\ pc' \in {"reading", "closing"} => file' = NoFile
         /\ pc' = "sending" => /\ settings.slave_id = SLAVE_ID_FPGA /\ c.name \in Encodable
                               /\ binary_command' = EncodedWord(c)
         /\ pc' = "waiting" => settings.slave_id = SLAVE_ID_ARDUINO
<1>1. CASE Refuse /\ UNCHANGED transfer
  BY <1>1, SMT DEF Refuse, transfer, TransferOK
<1>2. CASE /\ settings.slave_id = SLAVE_ID_FPGA /\ Sendable(c) /\ pc' = "sending"
           /\ binary_command' = EncodedWord(c) /\ bits_left' = FRAME_BITS + 1
           /\ reader_left' \in IF c.name \in Answered THEN ReadEdges ELSE {0}
           /\ send_status' = TRUE /\ UNCHANGED <<file, failed>>
  <2>1. c.name \in Encodable
    BY <1>2 DEF Sendable
  <2>2. EncodedWord(c) \in Word
    BY <2>1, Understood
  <2>3. reader_left' \in Nat
    BY <1>2, CommandAssumption, SMT
  <2>4. FRAME_BITS + 1 \in 0..FRAME_BITS + 1
    BY SMT DEF FRAME_BITS
  <2>5. TransferOK'
    BY <1>2, <2>2, <2>3, <2>4, Zenon DEF TransferOK
  <2> QED
    BY <1>2, <2>1, <2>5, Zenon
<1>3. CASE /\ settings.slave_id = SLAVE_ID_ARDUINO /\ pc' = "waiting"
           /\ UNCHANGED <<file, failed>> /\ UNCHANGED transfer
  <2>1. TransferOK'
    BY <1>3 DEF TransferOK, transfer
  <2> QED
    BY <1>3, <2>1, Zenon
<1> QED
  BY <1>1, <1>2, <1>3, Zenon DEF SendCommandToHw, SendToFpga, SendToArduino

\* A SW command changes settings, within their types.
LEMMA UpdatedType ==
  ASSUME NEW c \in Line, Accepted(c), SettingsOK,
         ~(c.name = "SELECT_SLAVE" /\ c.args[1] \notin {SLAVE_ID_FPGA, SLAVE_ID_ARDUINO}),
         settings' = Updated(c)
  PROVE  SettingsOK'
<1> DEFINE S == [slave_id : {SLAVE_ID_FPGA, SLAVE_ID_ARDUINO}, clk_enable : BOOLEAN,
                 clk_exit : BOOLEAN, clk_freq : Nat, reset : BOOLEAN]
<1>1. settings \in S
  BY DEF SettingsOK
<1>2. CASE c.name = "SELECT_SLAVE"
  <2>1. settings' = [settings EXCEPT !.slave_id = c.args[1]]
    BY <1>2, SMT DEF Updated
  <2>2. c.args[1] \in {SLAVE_ID_FPGA, SLAVE_ID_ARDUINO}
    BY <1>2
  <2> QED
    BY <1>1, <2>1, <2>2 DEF SettingsOK
<1>3. CASE c.name = "SET_CLK_FREQ"
  <2>1. c.name \notin BitOrByteInstructions
    BY <1>3, SMT DEF BitOrByteInstructions, BitOriented
  <2>2. Len(c.args) = 1
    BY <1>3, <2>1, Zenon DEF Accepted, Arity
  <2>3. c.args \in Seq(Nat)
    BY DEF Line
  <2>4. c.args[1] \in Nat
    BY <2>2, <2>3
  <2>5. settings' = [settings EXCEPT !.clk_freq = c.args[1]]
    BY <1>3, SMT DEF Updated
  <2> QED
    BY <1>1, <2>4, <2>5 DEF SettingsOK
<1>4. CASE c.name \notin {"SELECT_SLAVE", "SET_CLK_FREQ"}
  <2>1. \/ settings' = [settings EXCEPT !.clk_enable = TRUE]
        \/ settings' = [settings EXCEPT !.clk_enable = FALSE]
        \/ settings' = [settings EXCEPT !.reset = TRUE]
        \/ settings' = [settings EXCEPT !.reset = FALSE]
        \/ settings' = [settings EXCEPT !.reset = FALSE, !.clk_exit = TRUE]
        \/ settings' = settings
    BY <1>4, SMT DEF Updated
  <2>2. /\ [settings EXCEPT !.clk_enable = TRUE] \in S
        /\ [settings EXCEPT !.clk_enable = FALSE] \in S
        /\ [settings EXCEPT !.reset = TRUE] \in S
        /\ [settings EXCEPT !.reset = FALSE] \in S
        /\ [settings EXCEPT !.reset = FALSE, !.clk_exit = TRUE] \in S
    BY <1>1
  <2> QED
    BY <1>1, <2>1, <2>2 DEF SettingsOK
<1> QED
  BY <1>2, <1>3, <1>4

\* A line of the standard input keeps the deliveries as they were written.
LEMMA ReadLineDelivery ==
  ASSUME DeliveryInv, ReadLine
  PROVE  DeliveryInv'
<1> DEFINE raw == input.lines[input_pos + 1]
           c   == IF mode = "app" THEN raw ELSE LineRead(input, input_pos + 1)
<1>1. /\ pc = "reading" /\ file = NoFile /\ input_pos < Len(input.lines)
      /\ input_pos' = input_pos + 1 /\ command' = c
      /\ UNCHANGED <<mode, input, thread, pin, delivered>>
  BY Zenon DEF ReadLine, source, clocks
<1>2. /\ TypeInv /\ CommandTypeOK /\ SettingsOK /\ SourceOK /\ TransferOK /\ ClocksOK
      /\ HistoryOK /\ DeliveredAsWritten /\ failed \in BOOLEAN /\ file_start \in 0..Len(delivered)
      /\ delivered \in Seq(DeliveryType) /\ Len(delivered) \in Nat
  <2>1. Len(delivered) \in Nat
    BY DEF DeliveryInv, TypeInv
  <2> QED
    BY <2>1, Zenon DEF DeliveryInv, TypeInv, CommandTypeOK, HistoryOK
<1>3. c \in Line
  <2>1. input \in Text /\ input_pos + 1 \in 1..Len(input.lines)
    BY <1>1, <1>2, Texts, SMT DEF SourceOK
  <2> QED
    BY <2>1, LineReadType
<1>4. SourceOK' /\ ClocksOK' /\ (delivered \in Seq(DeliveryType))'
  <2>1. SourceOK'
    <3>1. Len(input.lines) \in Nat
      BY <1>2, Texts DEF SourceOK
    <3> QED
      BY <1>1, <1>2, <3>1, SMT DEF SourceOK
  <2> QED
    BY <1>1, <1>2, <2>1 DEF ClocksOK
<1>5. DeliveredAsWritten'
  BY <1>1, <1>2, NothingDelivered
\* It is enough to look at what a line can do.
<1> DEFINE Rest == /\ SettingsOK' /\ FileOK' /\ TransferOK' /\ HistoryOK'
                   /\ pc' \in {"reading", "sending", "waiting", "closing"}
                   /\ SendingInv' /\ WaitingInv' /\ LineInv' /\ ClosedInv' /\ FileInOrder'
<1> HIDE DEF c
<1>6. Rest => DeliveryInv'
  <2>1. Rest => ControlOK'
    BY <1>1, <1>3, SMT DEF ControlOK
  <2> QED
    BY <1>4, <1>5, <2>1, Zenon DEF DeliveryInv, TypeInv, CommandTypeOK
<1>7. ASSUME UNCHANGED <<settings, transfer, file_start>>, failed' \in BOOLEAN
      PROVE  SettingsOK' /\ TransferOK' /\ HistoryOK'
  BY <1>1, <1>2, <1>7, Zenon DEF SettingsOK, TransferOK, HistoryOK, transfer
<1>8. CASE UNCHANGED <<pc, file, settings, transfer, file_start, failed>>
  <2>1. SendingInv' /\ WaitingInv' /\ ClosedInv'
    BY <1>1, <1>8, SMT DEF SendingInv, WaitingInv, ClosedInv, Closed
  <2> QED
    BY <1>1, <1>2, <1>6, <1>7, <1>8, <2>1, NoFileOpen, Zenon
<1>9. CASE Refuse /\ UNCHANGED <<settings, transfer, file_start>>
  <2>1. /\ pc' \in {"reading", "sending", "waiting", "closing"} /\ file' = NoFile
        /\ failed' \in BOOLEAN /\ SendingInv' /\ WaitingInv' /\ ClosedInv'
    BY <1>9, SMT DEF Refuse, SendingInv, WaitingInv, ClosedInv
  <2> QED
    BY <1>6, <1>7, <1>9, <2>1, NoFileOpen, Zenon
<1>10. CASE Accepted(c) /\ SwCommand(c)
  <2>1. CASE Refuse /\ UNCHANGED settings
    BY <1>9, <1>10, <2>1, Zenon DEF SwCommand
  <2>2. CASE ~(Refuse /\ UNCHANGED settings)
    <3>1. /\ ~(c.name = "SELECT_SLAVE" /\ c.args[1] \notin {SLAVE_ID_FPGA, SLAVE_ID_ARDUINO})
          /\ settings' = Updated(c) /\ pc' = IF c.name = "EXIT" THEN "closing" ELSE pc
          /\ UNCHANGED <<file, failed, file_start, transfer>>
      BY <1>10, <2>2, Zenon DEF SwCommand
    <3>2. SettingsOK'
      BY <1>2, <1>3, <1>10, <3>1, UpdatedType, Zenon
    <3>3. pc' \in {"reading", "closing"} /\ file' = NoFile
      BY <1>1, <3>1
    <3>4. SendingInv' /\ WaitingInv' /\ ClosedInv'
      BY <3>3, SMT DEF SendingInv, WaitingInv, ClosedInv
    <3>5. TransferOK' /\ HistoryOK'
      BY <1>1, <1>2, <3>1, Zenon DEF TransferOK, HistoryOK, transfer
    <3>6. pc' \in {"reading", "sending", "waiting", "closing"}
      BY <3>3
    <3> QED
      BY <1>6, <3>2, <3>3, <3>4, <3>5, <3>6, NoFileOpen, Zenon
  <2> QED
    BY <2>1, <2>2
<1>11. CASE Accepted(c) /\ HwCommand(c) /\ UNCHANGED settings
  <2>1. CASE SendCommandToHw(c) /\ UNCHANGED file_start
    <3>1. /\ TransferOK' /\ failed' \in BOOLEAN
          /\ pc' \in {"reading", "sending", "waiting", "closing"}
          /\ file' = file \/ file' = NoFile
          /\ pc' = "sending" => /\ settings.slave_id = SLAVE_ID_FPGA /\ c.name \in Encodable
                                /\ binary_command' = EncodedWord(c)
          /\ pc' = "waiting" => settings.slave_id = SLAVE_ID_ARDUINO
      BY <1>1, <1>2, <1>3, <1>11, <2>1, SendEffect, Zenon
    <3>2. file' = NoFile
      BY <1>1, <3>1
    <3>3. SettingsOK' /\ HistoryOK'
      BY <1>1, <1>2, <1>11, <2>1, <3>1, Zenon DEF SettingsOK, HistoryOK
    <3>4. SendingInv' /\ WaitingInv' /\ ClosedInv'
      BY <1>1, <1>11, <3>1, <3>2, Zenon DEF SendingInv, WaitingInv, ClosedInv
    <3> QED
      BY <1>6, <3>1, <3>2, <3>3, <3>4, NoFileOpen, Zenon
  <2>2. CASE Refuse /\ UNCHANGED <<file_pos, file_start, transfer>>
    BY <1>9, <1>11, <2>2, Zenon
  <2>3. CASE /\ c.args[1] \in DOMAIN Files /\ file' = c.args[1] /\ file_pos' = 0
             /\ file_start' = Len(delivered) /\ UNCHANGED <<pc, failed, transfer>>
    <3>1. /\ file' \in DOMAIN Files /\ file_pos' \in 0..Len(Files[file'].lines)
          /\ pc' = "reading" /\ Handled' = 0
      <4>1. Len(Files[file'].lines) \in Nat
        BY <2>3, Texts
      <4> QED
        BY <1>1, <2>3, <4>1, SMT DEF Handled
    <3>2. FileOK'
      BY <3>1 DEF FileOK
    <3>3. SettingsOK' /\ TransferOK'
      BY <1>2, <1>11, <2>3, Zenon DEF SettingsOK, TransferOK, transfer
    <3>4. HistoryOK' /\ (file_start \in 0..Len(delivered))' /\ Len(delivered)' - file_start' = 0
      <4>1. Len(delivered) \in 0..Len(delivered) /\ Len(delivered) - Len(delivered) = 0
        BY <1>2, SMT
      <4> QED
        BY <1>1, <1>2, <2>3, <4>1, Zenon DEF HistoryOK
    <3>5. SendingInv' /\ WaitingInv' /\ LineInv' /\ ClosedInv'
      BY <3>1, SMT DEF SendingInv, WaitingInv, LineInv, ClosedInv, Closed
    <3>6. FileInOrder'
      <4>1. (delivered \in Seq(DeliveryType))'
        BY <1>4
      <4>2. (file_start \in 0..Len(delivered))'
        BY <3>4
      <4>3. (Len(DeliveredOfFile) = Len(delivered) - file_start)'
        BY <4>1, <4>2, DeliveredLines, PTL
      <4>4. Len(DeliveredOfFile)' = 0
        BY <3>4, <4>3
      <4> QED
        BY <3>1, <4>4, NothingHandled, Zenon DEF FileInOrder
    <3>7. pc' \in {"reading", "sending", "waiting", "closing"}
      BY <3>1
    <3> QED
      BY <1>6, <3>2, <3>3, <3>4, <3>5, <3>6, <3>7, Zenon
  <2> QED
    BY <1>11, <2>1, <2>2, <2>3, Zenon DEF HwCommand
<1> QED
  <2>1. \/ UNCHANGED <<pc, file, settings, transfer, file_start, failed>>
        \/ Refuse /\ UNCHANGED <<settings, transfer, file_start>>
        \/ Accepted(c) /\ SwCommand(c)
        \/ Accepted(c) /\ HwCommand(c) /\ UNCHANGED settings
    BY Zenon DEF ReadLine, c
  <2> QED
    BY <1>8, <1>9, <1>10, <1>11, <2>1

\* So does a line of a file.
LEMMA ReadFileLineDelivery ==
  ASSUME DeliveryInv, ReadFileLine
  PROVE  DeliveryInv'
<1> DEFINE text == Files[file]
           c    == LineRead(text, file_pos + 1)
<1>1. /\ pc = "reading" /\ file # NoFile /\ file_pos < Len(text.lines)
      /\ file_pos' = file_pos + 1 /\ command' = c /\ FileLine(c)
      /\ UNCHANGED <<mode, input, input_pos, thread, pin, delivered>>
  BY Zenon DEF ReadFileLine, source, clocks
<1>2. /\ CommandTypeOK /\ SettingsOK /\ SourceOK /\ FileOK /\ TransferOK /\ ClocksOK
      /\ HistoryOK /\ DeliveredAsWritten /\ FileInOrder /\ failed \in BOOLEAN
      /\ delivered \in Seq(DeliveryType)
  BY Zenon DEF DeliveryInv, TypeInv, CommandTypeOK, HistoryOK
<1>3. /\ text \in Text /\ file_pos \in Nat /\ file_pos + 1 \in 1..Len(text.lines)
      /\ file_pos + 1 - 1 = file_pos /\ file_pos + 1 > 0 /\ Len(text.lines) \in Nat
  <2>1. text \in Text /\ Len(text.lines) \in Nat
    BY <1>1, <1>2, Texts DEF FileOK
  <2> QED
    BY <1>1, <1>2, <2>1, SMT DEF FileOK
<1>4. c \in Line
  BY <1>3, LineReadType
<1>5. SourceOK' /\ ClocksOK' /\ DeliveredAsWritten' /\ (delivered \in Seq(DeliveryType))'
  <2>1. SourceOK' /\ ClocksOK'
    BY <1>1, <1>2, SMT DEF SourceOK, ClocksOK
  <2> QED
    BY <1>1, <1>2, <2>1, NothingDelivered
<1>6. OneByOne(DeliveredOfFile, text, file_pos)
  BY <1>1, <1>2 DEF FileInOrder, Handled
<1> HIDE DEF c
<1>7. CASE ~Accepted(c)
  <2>1. UNCHANGED <<pc, file, failed, transfer, file_start, settings>>
    BY <1>1, <1>7, Zenon DEF FileLine
  <2>2. SettingsOK' /\ TransferOK' /\ HistoryOK'
    BY <1>1, <1>2, <2>1, Zenon DEF SettingsOK, TransferOK, transfer, HistoryOK
  <2>3. FileOK'
    BY <1>1, <1>2, <1>3, <2>1, SMT DEF FileOK
  <2>4. ControlOK' /\ SendingInv' /\ WaitingInv' /\ LineInv' /\ ClosedInv'
    BY <1>1, <1>4, <2>1, SMT DEF ControlOK, SendingInv, WaitingInv, LineInv, ClosedInv, Closed
  <2>5. FileInOrder'
    <3>1. OneByOne(DeliveredOfFile, text, file_pos + 1)
      BY <1>3, <1>6, <1>7, NoCommandHandled, Zenon DEF c
    <3>2. DeliveredOfFile' = DeliveredOfFile /\ Handled' = file_pos + 1 /\ text' = text
      BY <1>1, <2>1, SMT DEF DeliveredOfFile, Handled
    <3> QED
      BY <3>1, <3>2, Zenon DEF FileInOrder
  <2> QED
    BY <1>5, <2>2, <2>3, <2>4, <2>5, Zenon DEF DeliveryInv, TypeInv, CommandTypeOK
<1>8. CASE Accepted(c)
  <2>1. SendCommandToHw(c) /\ UNCHANGED <<file_start, settings>>
    BY <1>1, <1>8, Zenon DEF FileLine
  <2>2. /\ TransferOK' /\ failed' \in BOOLEAN
        /\ pc' \in {"reading", "sending", "waiting", "closing"}
        /\ file' = file \/ file' = NoFile
        /\ pc' \in {"reading", "closing"} => file' = NoFile
        /\ pc' = "sending" => /\ settings.slave_id = SLAVE_ID_FPGA /\ c.name \in Encodable
                              /\ binary_command' = EncodedWord(c)
        /\ pc' = "waiting" => settings.slave_id = SLAVE_ID_ARDUINO
    BY <1>1, <1>2, <1>4, <1>8, <2>1, SendEffect, Zenon
  <2>3. SettingsOK' /\ HistoryOK'
    BY <1>1, <1>2, <2>1, <2>2, Zenon DEF SettingsOK, HistoryOK
  <2>4. ControlOK'
    BY <1>1, <1>4, <2>2, SMT DEF ControlOK
  <2>5. SendingInv' /\ WaitingInv'
    BY <1>1, <1>8, <2>1, <2>2, Zenon DEF SendingInv, WaitingInv
  <2>6. ClosedInv'
    BY <2>2, SMT DEF ClosedInv, Closed
  <2>7. CASE file' = NoFile
    BY <1>5, <2>2, <2>3, <2>4, <2>5, <2>6, <2>7, NoFileOpen, Zenon
       DEF DeliveryInv, TypeInv, CommandTypeOK
  <2>8. CASE file' = file /\ file' # NoFile
    <3>1. pc' \in {"sending", "waiting"}
      BY <2>2, <2>8
    <3>2. FileOK'
      BY <1>1, <1>2, <1>3, <2>8, SMT DEF FileOK
    <3>3. LineInv'
      BY <1>1, <1>3, <1>8, <2>8, Zenon DEF LineInv, c
    <3>4. Handled' = Handled
      BY <1>1, <1>3, <3>1 DEF Handled
    <3>5. FileInOrder'
      BY <1>1, <1>2, <2>1, <2>8, <3>4, SameFile, Zenon
    <3> QED
      BY <1>5, <2>2, <2>3, <2>4, <2>5, <2>6, <3>2, <3>3, <3>5, Zenon
         DEF DeliveryInv, TypeInv, CommandTypeOK
  <2> QED
    BY <2>2, <2>7, <2>8
<1> QED
  BY <1>7, <1>8

\* The fields of a delivery.
LEMMA DeliveryFields ==
  ASSUME NEW word
  PROVE  /\ Delivery(word).slave = settings.slave_id /\ Delivery(word).command = command
         /\ Delivery(word).word = word
BY DEF Delivery

Delivers(word) == delivered' = Append(delivered, Delivery(word))
AsWritten(word) == settings.slave_id = SLAVE_ID_FPGA => Board!Decode(word) = Meaning(command)

\* A delivery is the next of its file, and the board decodes its word.
LEMMA DeliveryKeeps ==
  ASSUME DeliveryInv, pc \in {"sending", "waiting"}, pc' = "reading",
         NEW word \in Word, Delivers(word),
         AsWritten(word),
         UNCHANGED <<source, input_pos, file, file_pos, command, settings, transfer, clocks,
                     file_start, failed>>
  PROVE  DeliveryInv'
<1> DEFINE n == Len(delivered)
<1>1. /\ SettingsOK /\ SourceOK /\ FileOK /\ ControlOK /\ TransferOK /\ ClocksOK /\ HistoryOK
      /\ delivered \in Seq(DeliveryType) /\ DeliveredAsWritten /\ FileInOrder /\ LineInv
  BY Zenon DEF DeliveryInv, TypeInv, CommandTypeOK
<1>2. Delivery(word) \in DeliveryType
  <2>1. settings.slave_id \in Slaves /\ command \in Line
    BY <1>1 DEF SettingsOK, ControlOK, Slaves
  <2> QED
    BY <2>1 DEF Delivery, DeliveryType
<1>3. /\ n \in Nat /\ delivered' \in Seq(DeliveryType) /\ Len(delivered') = n + 1
      /\ \A i \in 1..n : delivered'[i] = delivered[i]
      /\ delivered'[n + 1] = Delivery(word)
      /\ DOMAIN delivered = 1..n /\ DOMAIN delivered' = 1..n + 1
  <2>1. n \in Nat /\ DOMAIN delivered = 1..n
    BY <1>1, LenProperties
  <2>2. /\ delivered' \in Seq(DeliveryType) /\ Len(delivered') = n + 1
        /\ \A i \in 1..n : delivered'[i] = delivered[i]
        /\ delivered'[n + 1] = Delivery(word)
    BY <1>1, <1>2, AppendProperties, Zenon DEF Delivers
  <2>3. DOMAIN delivered' = 1..n + 1
    BY <2>2, LenProperties, Zenon
  <2> QED
    BY <2>1, <2>2, <2>3, Zenon
<1> HIDE DEF n
<1>4. SettingsOK' /\ SourceOK' /\ FileOK' /\ ControlOK' /\ TransferOK' /\ ClocksOK'
  <2>1. SettingsOK' /\ SourceOK' /\ FileOK' /\ TransferOK' /\ ClocksOK'
    BY <1>1, Zenon DEF SettingsOK, SourceOK, FileOK, TransferOK, ClocksOK, source, transfer, clocks
  <2> QED
    BY <1>1, <2>1 DEF ControlOK
<1>5. HistoryOK' /\ file_start \in 0..n
  BY <1>1, <1>3, SMT DEF HistoryOK, n
<1>6. SendingInv' /\ WaitingInv' /\ LineInv' /\ ClosedInv'
  BY SMT DEF SendingInv, WaitingInv, LineInv, ClosedInv, Closed
<1>7. DeliveredAsWritten'
  <2> SUFFICES ASSUME NEW i \in 1..n + 1, delivered'[i].slave = SLAVE_ID_FPGA
               PROVE  Board!Decode(delivered'[i].word) = Meaning(delivered'[i].command)
    BY <1>3, Zenon DEF DeliveredAsWritten
  <2>1. CASE i \in 1..n
    <3>1. i \in DOMAIN delivered /\ delivered'[i] = delivered[i]
      BY <1>3, <2>1
    <3> QED
      BY <1>1, <3>1, Zenon DEF DeliveredAsWritten
  <2>2. CASE i = n + 1
    <3>1. delivered'[i] = Delivery(word)
      BY <1>3, <2>2
    <3>2. /\ delivered'[i].slave = settings.slave_id /\ delivered'[i].command = command
          /\ delivered'[i].word = word
      BY <3>1, DeliveryFields, Zenon
    <3> QED
      BY <3>2, Zenon DEF AsWritten
  <2> QED
    BY <1>3, <2>1, <2>2, SMT
<1>8. FileInOrder'
  <2> SUFFICES ASSUME file # NoFile
               PROVE  OneByOne(DeliveredOfFile', Files[file], file_pos)
    <3>1. Handled' = file_pos /\ file' = file
      BY DEF Handled
    <3> QED
      BY <3>1, Zenon DEF FileInOrder
  <2>1. /\ file_pos - 1 \in Nat /\ file_pos - 1 + 1 = file_pos
        /\ command = LineRead(Files[file], file_pos) /\ Accepted(command)
        /\ OneByOne(DeliveredOfFile, Files[file], file_pos - 1)
    <3>1. file_pos > 0 /\ command = LineRead(Files[file], file_pos) /\ Accepted(command)
      BY <1>1, Zenon DEF LineInv
    <3>2. file_pos \in Nat
      BY <1>1, Texts, SMT DEF FileOK
    <3>3. OneByOne(DeliveredOfFile, Files[file], file_pos - 1)
      BY <1>1 DEF FileInOrder, Handled
    <3> QED
      BY <3>1, <3>2, <3>3, SMT
  <2> DEFINE before == DeliveredOfFile
             after  == DeliveredOfFile'
             k      == n - file_start
  <2>2. /\ k \in Nat /\ n + 1 - file_start = k + 1 /\ file_start + (k + 1) = n + 1
        /\ k + 1 \in 1..k + 1
        /\ \A i \in 1..k : i \in 1..k + 1 /\ file_start + i \in 1..n
    BY <1>3, <1>5, SMT
  <2>3. Len(before) = k /\ \A i \in 1..k : before[i] = delivered[file_start + i].command
    BY <1>1, <1>5, DeliveredLines DEF n
  <2>4. Len(after) = k + 1 /\ \A i \in 1..k + 1 : after[i] = delivered'[file_start + i].command
    <3>1. (delivered \in Seq(DeliveryType) /\ file_start \in 0..Len(delivered))'
      BY <1>3, <1>5, Zenon DEF HistoryOK
    <3>2. (/\ Len(DeliveredOfFile) = Len(delivered) - file_start
           /\ \A i \in 1..Len(delivered) - file_start :
                 DeliveredOfFile[i] = delivered[file_start + i].command)'
      BY <3>1, DeliveredLines, PTL
    <3>3. Len(delivered') - file_start' = k + 1 /\ file_start' = file_start
      <4>1. file_start' = file_start
        OBVIOUS
      <4>2. Len(delivered') = n + 1
        BY <1>3, Zenon
      <4>3. n + 1 - file_start = k + 1
        BY <2>2, Zenon
      <4>4. file_start \in Int /\ n \in Int
        BY <1>3, <1>5, SMT
      <4>5. Len(delivered') - file_start' = n + 1 - file_start
        BY <4>1, <4>2, <4>4, SMT
      <4> QED
        BY <4>1, <4>3, <4>5, Zenon
    <3> HIDE DEF k
    <3>4. /\ Len(after) = Len(delivered') - file_start'
          /\ \A i \in 1..Len(delivered') - file_start' :
                after[i] = delivered'[file_start' + i].command
      BY <3>2
    <3> HIDE DEF after
    <3> QED
      BY <3>3, <3>4, Zenon
  <2> HIDE DEF before, after, k
  <2>5. \A i \in 1..k : after[i] = before[i]
    BY <1>3, <2>2, <2>3, <2>4
  <2>6. after[k + 1] = command
    <3>1. delivered'[n + 1].command = command
      BY <1>3, DeliveryFields, Zenon
    <3> QED
      BY <2>2, <2>4, <3>1
  <2>7. OneByOne(before, Files[file], file_pos - 1)
    BY <2>1 DEF before
  <2>8. OneByOne(after, Files[file], file_pos - 1 + 1)
    BY <2>1, <2>2, <2>3, <2>4, <2>5, <2>6, <2>7, CommandHandled, Zenon
  <2> QED
    BY <2>1, <2>8, Zenon DEF after
<1> QED
  BY <1>3, <1>4, <1>5, <1>6, <1>7, <1>8, Zenon DEF DeliveryInv, TypeInv, CommandTypeOK

\* A step that leaves no file open and sends nothing.
LEMMA MainMoves ==
  ASSUME DeliveryInv, SettingsOK', failed' \in BOOLEAN, file' = NoFile,
         pc' \in {"reading", "closing", "joining", "ended"},
         UNCHANGED <<source, input_pos, command, transfer, clocks, delivered, file_start>>
  PROVE  DeliveryInv'
<1>1. /\ SourceOK /\ ControlOK /\ TransferOK /\ ClocksOK /\ HistoryOK
      /\ delivered \in Seq(DeliveryType) /\ DeliveredAsWritten
  BY Zenon DEF DeliveryInv, TypeInv, CommandTypeOK
<1>2. UNCHANGED <<mode, input, input_pos, command, binary_command, bits_left, reader_left,
                  send_status, thread, pin, delivered, file_start>>
  BY DEF source, transfer, clocks
<1>3. SourceOK' /\ TransferOK' /\ ClocksOK' /\ HistoryOK' /\ (delivered \in Seq(DeliveryType))'
  BY <1>1, <1>2, Zenon DEF SourceOK, TransferOK, ClocksOK, HistoryOK
<1>4. ControlOK'
  BY <1>1, <1>2, SMT DEF ControlOK
<1>5. DeliveredAsWritten'
  BY <1>1, <1>2, NothingDelivered
<1>6. SendingInv' /\ WaitingInv' /\ ClosedInv'
  BY SMT DEF SendingInv, WaitingInv, ClosedInv
<1> QED
  BY <1>3, <1>4, <1>5, <1>6, NoFileOpen, Zenon DEF DeliveryInv, TypeInv, CommandTypeOK

\* A step in the middle of a transfer, or of a clock thread.
LEMMA TransferMoves ==
  ASSUME DeliveryInv, TransferOK', ClocksOK',
         UNCHANGED <<program, binary_command>>
  PROVE  DeliveryInv'
<1>1. /\ SettingsOK /\ SourceOK /\ FileOK /\ ControlOK /\ HistoryOK
      /\ delivered \in Seq(DeliveryType) /\ DeliveredAsWritten /\ FileInOrder
      /\ SendingInv /\ WaitingInv /\ LineInv /\ ClosedInv
  BY Zenon DEF DeliveryInv, TypeInv, CommandTypeOK
<1>2. UNCHANGED <<mode, input, input_pos, file, file_pos, pc, command, settings, delivered,
                  file_start, failed, binary_command>>
  BY DEF program, source
<1>3. /\ SettingsOK' /\ SourceOK' /\ FileOK' /\ HistoryOK' /\ (delivered \in Seq(DeliveryType))'
      /\ WaitingInv' /\ LineInv' /\ ClosedInv'
  BY <1>1, <1>2, Zenon DEF SettingsOK, SourceOK, FileOK, HistoryOK, WaitingInv, LineInv, ClosedInv
<1>4. ControlOK' /\ SendingInv'
  BY <1>1, <1>2, SMT DEF ControlOK, SendingInv
<1>5. DeliveredAsWritten'
  BY <1>1, <1>2, NothingDelivered
<1>6. FileInOrder'
  <2>1. Handled' = Handled
    BY <1>2 DEF Handled
  <2> QED
    BY <1>1, <1>2, <2>1, SameFile, Zenon
<1> QED
  BY <1>3, <1>4, <1>5, <1>6, Zenon DEF DeliveryInv, TypeInv, CommandTypeOK

\* So does the end of a transfer, which delivers its word.
LEMMA SendDoneDelivery ==
  ASSUME DeliveryInv, SendDone
  PROVE  DeliveryInv'
<1>1. /\ pc = "sending" /\ SettingsOK /\ ControlOK /\ TransferOK /\ SendingInv
      /\ UNCHANGED <<source, input_pos, file_pos, command, settings, transfer, clocks, file_start>>
  BY Zenon DEF SendDone, DeliveryInv, TypeInv, CommandTypeOK
<1>2. CASE send_status
  <2>1. pc' = "reading" /\ UNCHANGED <<file, failed>> /\ Delivers(binary_command)
    BY <1>2, Zenon DEF SendDone, Delivers
  <2>2. AsWritten(binary_command)
    <3>1. /\ command \in Line /\ Accepted(command) /\ command.name \in Encodable
          /\ binary_command = EncodedWord(command)
      BY <1>1, Zenon DEF SendingInv, ControlOK
    <3>2. Board!Decode(EncodedWord(command)) = Meaning(command)
      BY <3>1, Understood, Zenon
    <3> QED
      BY <3>1, <3>2, Zenon DEF AsWritten
  <2>3. binary_command \in Word /\ pc \in {"sending", "waiting"}
    BY <1>1 DEF TransferOK
  <2> QED
    BY <1>1, <2>1, <2>2, <2>3, DeliveryKeeps, Zenon
<1>3. CASE ~send_status
  <2>1. Refuse /\ UNCHANGED delivered
    BY <1>3, Zenon DEF SendDone
  <2>2. file' = NoFile /\ failed' \in BOOLEAN
        /\ pc' \in {"reading", "closing", "joining", "ended"}
    BY <2>1, SMT DEF Refuse
  <2>3. SettingsOK'
    BY <1>1, Zenon DEF SettingsOK
  <2> QED
    BY <1>1, <2>1, <2>2, <2>3, MainMoves, Zenon
<1> QED
  BY <1>2, <1>3, Zenon

\* So does the end of the wait for the other slave.
LEMMA ResponseDelivery ==
  ASSUME DeliveryInv, Response
  PROVE  DeliveryInv'
<1>1. /\ pc = "waiting" /\ pc' = "reading" /\ WaitingInv /\ Delivers(ZeroWord)
      /\ UNCHANGED <<source, input_pos, file, file_pos, command, settings, transfer, clocks,
                     file_start, failed>>
  BY Zenon DEF Response, Delivers, DeliveryInv
<1>2. AsWritten(ZeroWord)
  <2>1. settings.slave_id = SLAVE_ID_ARDUINO
    BY <1>1, Zenon DEF WaitingInv
  <2>2. SLAVE_ID_ARDUINO # SLAVE_ID_FPGA
    BY SMT DEF SLAVE_ID_ARDUINO, SLAVE_ID_FPGA
  <2> QED
    BY <2>1, <2>2, Zenon DEF AsWritten
<1>3. ZeroWord \in Word
  BY DEF ZeroWord, Word
<1>4. pc \in {"sending", "waiting"}
  BY <1>1
<1> QED
  BY <1>1, <1>2, <1>3, <1>4, DeliveryKeeps, Zenon

\* So do the ends of file, input and threads.
LEMMA EndOfFileDelivery ==
  ASSUME DeliveryInv, EndOfFile \/ EndOfInput \/ StopThreads \/ JoinThreads
  PROVE  DeliveryInv'
<1>1. SettingsOK /\ HistoryOK /\ ClosedInv
  BY Zenon DEF DeliveryInv, TypeInv, CommandTypeOK
<1>2. /\ UNCHANGED <<source, input_pos, command, transfer, clocks, delivered, file_start, failed>>
      /\ file' = file \/ file' = NoFile
      /\ settings' = settings \/ settings' = [settings EXCEPT !.clk_exit = TRUE]
  BY Zenon DEF EndOfFile, EndOfInput, StopThreads, JoinThreads
<1>3. pc' \in {"reading", "closing", "joining", "ended"}
  BY SMT DEF EndOfFile, EndOfInput, StopThreads, JoinThreads
<1>4. file' = NoFile
  BY <1>1, SMT DEF EndOfFile, EndOfInput, StopThreads, JoinThreads, ClosedInv, Closed
<1>5. SettingsOK'
  <2>1. CASE settings' = settings
    BY <1>1, <2>1, Zenon DEF SettingsOK
  <2>2. CASE settings' = [settings EXCEPT !.clk_exit = TRUE]
    BY <1>1, <2>2 DEF SettingsOK
  <2> QED
    BY <1>2, <2>1, <2>2, Zenon
<1>6. failed' \in BOOLEAN
  BY <1>1, <1>2, Zenon DEF HistoryOK
<1> QED
  BY <1>2, <1>3, <1>4, <1>5, <1>6, MainMoves, Zenon

\* So does a poll that runs out.
LEMMA PollExpiresDelivery ==
  ASSUME DeliveryInv, PollExpires
  PROVE  DeliveryInv'
<1>1. TransferOK /\ ClocksOK
  BY Zenon DEF DeliveryInv, TypeInv, CommandTypeOK
<1>2. UNCHANGED <<program, binary_command, thread, pin>>
  BY Zenon DEF PollExpires, program, clocks
<1>3. TransferOK'
  <2>1. \/ bits_left' = 0 /\ send_status' = FALSE /\ UNCHANGED reader_left
        \/ reader_left' = 0 /\ UNCHANGED <<bits_left, send_status>>
    BY Zenon DEF PollExpires
  <2>2. 0 \in 0..FRAME_BITS + 1 /\ 0 \in Nat /\ FALSE \in BOOLEAN
    BY SMT DEF FRAME_BITS
  <2> QED
    BY <1>1, <1>2, <2>1, <2>2, Zenon DEF TransferOK
<1>4. ClocksOK'
  BY <1>1, <1>2 DEF ClocksOK
<1> QED
  BY <1>2, <1>3, <1>4, TransferMoves, Zenon

\* So do the clock threads.
LEMMA ThreadStepDelivery ==
  ASSUME DeliveryInv, NEW t \in Threads, ThreadStep(t)
  PROVE  DeliveryInv'
<1>1. TransferOK /\ ClocksOK
  BY Zenon DEF DeliveryInv, TypeInv, CommandTypeOK
<1>2. UNCHANGED <<program, binary_command>>
  BY Zenon DEF ThreadStep, CheckExit, PinHigh, PinLow, TransferEdge, transfer
<1>3. ClocksOK'
  <2>1. thread' \in {[thread EXCEPT ![t] = "done"], [thread EXCEPT ![t] = "check_enable"],
                     [thread EXCEPT ![t] = "check_exit"], [thread EXCEPT ![t] = "high"]}
    BY SMT DEF ThreadStep, CheckExit, PinHigh, PinLow
  <2>2. pin' \in {pin, [pin EXCEPT ![t] = TRUE], [pin EXCEPT ![t] = FALSE]}
    BY SMT DEF ThreadStep, CheckExit, PinHigh, PinLow
  <2>3. thread' \in [Threads -> {"check_exit", "check_enable", "high", "done"}]
    BY <1>1, <2>1, SMT DEF ClocksOK
  <2>4. /\ pin \in [Threads -> BOOLEAN]
        /\ [pin EXCEPT ![t] = TRUE] \in [Threads -> BOOLEAN]
        /\ [pin EXCEPT ![t] = FALSE] \in [Threads -> BOOLEAN]
    BY <1>1 DEF ClocksOK
  <2> QED
    BY <2>2, <2>3, <2>4, Zenon DEF ClocksOK
<1>4. TransferOK'
  <2>1. CASE PinLow(t)
    BY <1>1, <2>1, SMT DEF PinLow, TransferEdge, TransferOK, FRAME_BITS
  <2>2. CASE CheckExit(t) \/ PinHigh(t)
    BY <1>1, <2>2, Zenon DEF CheckExit, PinHigh, transfer, TransferOK
  <2> QED
    BY <2>1, <2>2, Zenon DEF ThreadStep
<1> QED
  BY <1>2, <1>3, <1>4, TransferMoves, Zenon

\* So does every step.
LEMMA DeliveryStep == DeliveryInv /\ [Next]_vars => DeliveryInv'
<1> SUFFICES ASSUME DeliveryInv, [Next]_vars PROVE DeliveryInv'
  OBVIOUS
<1>1. CASE UNCHANGED vars
  <2>1. TransferOK /\ ClocksOK
    BY Zenon DEF DeliveryInv, TypeInv, CommandTypeOK
  <2>2. /\ UNCHANGED <<program, binary_command>>
        /\ UNCHANGED <<bits_left, reader_left, send_status, thread, pin>>
    BY <1>1 DEF vars, program, source
  <2>3. TransferOK' /\ ClocksOK'
    BY <2>1, <2>2, Zenon DEF TransferOK, ClocksOK
  <2> QED
    BY <2>2, <2>3, TransferMoves, Zenon
<1>2. CASE Next
  BY <1>2, ReadLineDelivery, ReadFileLineDelivery, SendDoneDelivery, ResponseDelivery,
     EndOfFileDelivery, PollExpiresDelivery, ThreadStepDelivery, Zenon DEF Next
<1> QED
  BY <1>1, <1>2, Zenon

\* The invariant that the three results below rest on.
THEOREM DeliveryCorrect == Spec => []DeliveryInv
BY InitDelivery, DeliveryStep, PTL DEF Spec

\* The globals of common_data.c keep values the code knows, and the program
\* reads nothing past the end of a text.
THEOREM CommandTypes == Spec => []CommandTypeOK
<1>1. DeliveryInv => CommandTypeOK
  BY DEF DeliveryInv, TypeInv
<1> QED
  BY <1>1, DeliveryCorrect, PTL

\* The board decodes every word it is sent as the command that the user or
\* the file wrote.
THEOREM WordsUnderstood == Spec => []DeliveredAsWritten
<1>1. DeliveryInv => DeliveredAsWritten
  BY DEF DeliveryInv
<1> QED
  BY <1>1, DeliveryCorrect, PTL

\* The commands of a file are delivered one by one, in order.
THEOREM FilesInOrder == Spec => []FileInOrder
<1>1. DeliveryInv => FileInOrder
  BY DEF DeliveryInv
<1> QED
  BY <1>1, DeliveryCorrect, PTL
=============================================================================
