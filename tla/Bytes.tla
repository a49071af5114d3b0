------------------------------- MODULE Bytes -------------------------------
(***************************************************************************)
(* std_logic_vector(7 downto 0) as a number, and the vector operations the *)
(* hardware applies to it (numeric_std / std_logic_unsigned).              *)
(***************************************************************************)
EXTENDS Integers

Byte == 0..255

\* The weight of bit i of a byte.
Weight(i) == <<1, 2, 4, 8, 16, 32, 64, 128>>[i + 1]

Bit(v, i) == (v \div Weight(i)) % 2

\* The byte whose bit i is b[i].
FromBits(b) == b[0] + 2 * b[1] + 4 * b[2] + 8 * b[3]
               + 16 * b[4] + 32 * b[5] + 64 * b[6] + 128 * b[7]

BitAnd(a, b) == FromBits([i \in 0..7 |-> Bit(a, i) * Bit(b, i)])
BitXor(a, b) == FromBits([i \in 0..7 |-> (Bit(a, i) + Bit(b, i)) % 2])
BitOr(a, b)  == FromBits([i \in 0..7 |-> IF Bit(a, i) + Bit(b, i) = 0 THEN 0 ELSE 1])
BitNot(a)    == 255 - a

\* v with its bit i replaced by b.
PutBit(v, i, b) == v + (b - Bit(v, i)) * Weight(i)

\* v with its bits n-1..0 replaced by those of x, where w = 2^n.
PutLow(v, w, x) == (v \div w) * w + (x % w)

Swap(v) == 16 * (v % 16) + (v \div 16)
=============================================================================
