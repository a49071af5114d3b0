---------------------------- MODULE AluFunctions ----------------------------
(***************************************************************************)
(* alu.vhd, the combinational part: what one enabled clock computes from   *)
(* the opcode, the W register w, the multiplexer output m, the bit index   *)
(* b, STATUS s, and the ALU's own registers (status_out `flags`,           *)
(* alu_output `out` and the variable `result` as `last`, of which only     *)
(* bits 7..0 are ever read before being written again).                    *)
(***************************************************************************)
EXTENDS Bytes, PicInstructions

Sums        == {ADDWF, ADDLW, SUBWF, SUBLW}
ZeroFlagged == {ANDWF, ANDLW, BCF, BSF, CLR, COMF, DECF, INCF, IORWF, IORLW,
                MOVF, XORWF, XORLW}
CountAndSkip == {DECFSZ, INCFSZ}
Rotates     == {RLF, RRF}
Reports     == {READ_WREG, READ_STATUS, READ_ADDRESS}

\* Mutant: the complement without the one.
Complement(w, n) == n - 1 - w

\* not w + 1, in n values.
Negated(w, n) == (n - w) % n

\* The first operand of the 9-bit sum: W, or its two's complement.
Addend(op, w, n) == IF op \in {SUBWF, SUBLW} THEN Negated(w % n, n) ELSE w % n

\* bits 7..0 of `result`
Value(op, w, m, s, b) ==
    CASE op \in Sums           -> (m + Addend(op, w, 256)) % 256
      [] op \in {ANDWF, ANDLW} -> BitAnd(w, m)
      [] op \in {IORWF, IORLW} -> BitOr(w, m)
      [] op \in {XORWF, XORLW} -> BitXor(w, m)
      [] op = BCF              -> PutBit(m, b, 0)
      [] op = BSF              -> PutBit(m, b, 1)
      [] op = COMF             -> BitNot(m)
      [] op \in {DECF, DECFSZ} -> (m + 255) % 256
      [] op \in {INCF, INCFSZ} -> (m + 1) % 256
      [] op \in {MOVF, MOVLW, READ_ADDRESS} -> m
      [] op = SWAPF            -> Swap(m)
      [] op = RLF              -> ((2 * m) % 256) + (s % 2)
      [] op = RRF              -> (m \div 2) + 128 * (s % 2)
      [] op = READ_WREG        -> w
      [] op = READ_STATUS      -> s
      [] OTHER                 -> 0

Carry(op, w, m)      == (m + Addend(op, w, 256)) \div 256
DigitCarry(op, w, m) == ((m % 16) + Addend(op, w, 16)) \div 16
Zero(v)              == IF v = 0 THEN 1 ELSE 0

\* status_out.  DECFSZ and INCFSZ look at `last`: status_out(2) is computed
\* before `result` is assigned.
Flags(op, w, m, s, b, flags, last) ==
    LET v == Value(op, w, m, s, b) IN
    CASE op \in Sums         -> PutLow(flags, 8, 4 * Zero(v) + 2 * DigitCarry(op, w, m)
                                                + Carry(op, w, m))
      [] op \in ZeroFlagged  -> PutBit(flags, 2, Zero(v))
      [] op \in CountAndSkip -> PutBit(flags, 2, Zero(last))
      [] op = RLF            -> PutBit(s, 0, Bit(m, 7))
      [] op = RRF            -> PutBit(s, 0, Bit(m, 0))
      [] op \in Reports      -> s
      [] op = SWAPF          -> flags
      [] OTHER               -> 0

\* alu_output: opcode 0 (NOP, and every skipped instruction) leaves it alone.
Output(op, w, m, s, b, out) == IF op = NOP THEN out ELSE Value(op, w, m, s, b)

\* The variable `result`, which the rotates and the unassigned opcodes skip.
AssignsResult(op) ==
    op \in Sums \cup ZeroFlagged \cup CountAndSkip \cup Reports \cup {MOVLW, SWAPF}

LastResult(op, w, m, s, b, last) ==
    IF AssignsResult(op) THEN Value(op, w, m, s, b) ELSE last

Skips(op, m) == op \in CountAndSkip /\ Value(op, 0, m, 0, 0) = 0
=============================================================================
