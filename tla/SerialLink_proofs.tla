-------------------------- MODULE SerialLink_proofs --------------------------
(***************************************************************************)
(* For any commands and delays of the port: an answer is whole, and it is  *)
(* the answer to the command that was sent.                                *)
(***************************************************************************)
EXTENDS SerialLink, SequenceTheorems, WellFoundedInduction, TLAPS

\* What of a command the board has not acted on.
Heard == IF board = "reading" THEN string ELSE IF board = "again" THEN msg ELSE <<>>
Left == Heard \o (rx \o to_arduino)

\* line is the end of whole; line is the start of whole.
Ends(whole, line) ==
    /\ Len(line) <= Len(whole)
    /\ \A i \in 1..Len(line) : line[i] = whole[Len(whole) - Len(line) + i]
Starts(whole, line) ==
    /\ Len(line) <= Len(whole)
    /\ \A i \in 1..Len(line) : line[i] = whole[i]

NoNewline(line) == \A i \in 1..Len(line) : line[i] # Newline

\* The pause outlasts the boot, and nothing waits in a port that is idle.
PauseInv == /\ boot_left > 0 => host = "opened" /\ boot_left <= sleep_left
            /\ host \in {"idle", "opened"} => to_arduino = <<>>
            /\ host # "idle" => command \in Commands
            /\ host = "opened" => result = <<>>

\* readString does not return before it has read something.
ReadInv == /\ board = "reading" => rx # <<>> \/ string # <<>>
           /\ board = "again" => msg # <<>>

\* An answer that has been read up to a point.
Told(line) == Starts(result \o to_host, line) /\ NoNewline(result)

\* Without a split: the host hears nothing before its command has been read to
\* the end, and then its answer.
Fresh == board \in {"boot", "loop"} /\ rx = <<>> /\ to_host = <<>>
Hearing == /\ result = <<>> /\ to_host = <<>> /\ Left = command
           /\ board = "again" => rx \o to_arduino = <<>>
Telling == /\ board = "loop" /\ rx = <<>> /\ to_arduino = <<>>
           /\ Told(Expected(command)) /\ result \o to_host = Expected(command)
WholeInv == ~split =>
    /\ host \in {"idle", "opened"} => Fresh
    /\ host = "receiving" => Hearing \/ Telling
    /\ host = "closing" => Fresh /\ board = "loop" /\ to_arduino = <<>>
    /\ host \in {"closing", "idle"} => result = <<>> \/ result = Expected(command)

\* With a reset by every opening: whatever was split, the first line the host
\* hears answers a part of its command.
Begun == \E text \in Parts(command), n \in 0..Len(command) : Told(AnswerTo(text, n))
OwnInv == auto_reset =>
    /\ host = "opened" => Fresh /\ length = 0
    /\ host = "receiving" => /\ Ends(command, Left) /\ length \in 0..Len(command)
                             /\ (result = <<>> /\ to_host = <<>>) \/ Begun
    /\ host \in {"closing", "idle"} => result = <<>> \/ OwnAnswer(result)

SerialInv == SerialTypeOK /\ PauseInv /\ ReadInv /\ WholeInv /\ OwnInv

-----------------------------------------------------------------------------
(***************************************************************************)
(* Sequences that are passed on piece by piece.                            *)
(***************************************************************************)
LEMMA Pass ==
  ASSUME NEW S, NEW a \in Seq(S), NEW b \in Seq(S), b # <<>>
  PROVE  /\ Head(b) \in S /\ Tail(b) \in Seq(S) /\ Append(a, Head(b)) \in Seq(S)
         /\ Append(a, Head(b)) \o Tail(b) = a \o b
<1>1. /\ Head(b) \in S /\ Tail(b) \in Seq(S) /\ Len(Tail(b)) = Len(b) - 1
      /\ \A i \in 1..Len(Tail(b)) : Tail(b)[i] = b[i + 1]
      /\ Len(b) \in Nat \ {0} /\ Len(a) \in Nat /\ Head(b) = b[1]
  BY HeadTailProperties, EmptySeq, LenProperties
<1>2. /\ Append(a, Head(b)) \in Seq(S) /\ Len(Append(a, Head(b))) = Len(a) + 1
      /\ \A i \in 1..Len(a) : Append(a, Head(b))[i] = a[i]
      /\ Append(a, Head(b))[Len(a) + 1] = Head(b)
  BY <1>1, AppendProperties
<1> DEFINE s == Append(a, Head(b)) \o Tail(b)
           t == a \o b
<1>3. /\ s \in Seq(S) /\ Len(s) = Len(a) + 1 + (Len(b) - 1)
      /\ \A i \in 1..Len(a) + 1 + (Len(b) - 1) :
            s[i] = IF i <= Len(a) + 1 THEN Append(a, Head(b))[i] ELSE Tail(b)[i - (Len(a) + 1)]
  BY <1>1, <1>2, ConcatProperties
<1>4. /\ t \in Seq(S) /\ Len(t) = Len(a) + Len(b)
      /\ \A i \in 1..Len(a) + Len(b) : t[i] = IF i <= Len(a) THEN a[i] ELSE b[i - Len(a)]
  BY ConcatProperties
<1> HIDE DEF s, t
<1>5. Len(s) = Len(t)
  BY <1>1, <1>3, <1>4, SMT
<1>6. ASSUME NEW i \in 1..Len(s) PROVE s[i] = t[i]
  <2>1. i \in 1..Len(a) + Len(b) /\ i \in 1..Len(a) + 1 + (Len(b) - 1)
    BY <1>1, <1>3
  <2>2. CASE i <= Len(a)
    BY <1>1, <1>2, <1>3, <1>4, <2>1, <2>2, SMT
  <2>3. CASE i = Len(a) + 1
    BY <1>1, <1>2, <1>3, <1>4, <2>1, <2>3, SMT
  <2>4. CASE i > Len(a) + 1
    <3>1. /\ i - (Len(a) + 1) \in 1..Len(Tail(b))
          /\ i - (Len(a) + 1) + 1 = i - Len(a) /\ ~(i <= Len(a)) /\ ~(i <= Len(a) + 1)
      BY <1>1, <2>1, <2>4, SMT
    <3> QED
      BY <1>1, <1>3, <1>4, <2>1, <3>1
  <2> QED
    BY <1>1, <2>1, <2>2, <2>3, <2>4, SMT
<1>7. s = t
  BY <1>3, <1>4, <1>5, <1>6, SeqEqual
<1> QED
  BY <1>1, <1>2, <1>7 DEF s, t

\* Joining texts is associative.
LEMMA Assoc ==
  ASSUME NEW S, NEW a \in Seq(S), NEW b \in Seq(S), NEW c \in Seq(S)
  PROVE  a \o (b \o c) = (a \o b) \o c
BY ConcatAssociative

\* A text ends with itself.
LEMMA EndsAll == ASSUME NEW S, NEW c \in Seq(S) PROVE Ends(c, c)
<1>1. Len(c) \in Nat
  BY LenProperties
<1> QED
  BY <1>1 DEF Ends

\* What is left of an end after its start is an end.
LEMMA EndsTail ==
  ASSUME NEW S, NEW c \in Seq(S), NEW a \in Seq(S), NEW b \in Seq(S), Ends(c, a \o b)
  PROVE  Ends(c, b)
<1>1. /\ Len(a \o b) = Len(a) + Len(b) /\ Len(a) \in Nat /\ Len(b) \in Nat /\ Len(c) \in Nat
      /\ \A i \in 1..Len(a) + Len(b) : (a \o b)[i] = IF i <= Len(a) THEN a[i] ELSE b[i - Len(a)]
  BY ConcatProperties, LenProperties
<1> DEFINE t == a \o b
<1> HIDE DEF t
<1>2. /\ Len(t) = Len(a) + Len(b) /\ Len(t) <= Len(c)
      /\ \A i \in 1..Len(t) : t[i] = c[Len(c) - Len(t) + i]
      /\ \A i \in 1..Len(a) + Len(b) : t[i] = IF i <= Len(a) THEN a[i] ELSE b[i - Len(a)]
  BY <1>1 DEF Ends, t
<1>3. ASSUME NEW i \in 1..Len(b) PROVE b[i] = c[Len(c) - Len(b) + i]
  <2>1. /\ Len(a) + i \in 1..Len(a) + Len(b) /\ ~(Len(a) + i <= Len(a))
        /\ Len(a) + i - Len(a) = i
        /\ Len(c) - (Len(a) + Len(b)) + (Len(a) + i) = Len(c) - Len(b) + i
    BY <1>1, SMT
  <2>2. t[Len(a) + i] = b[i]
    BY <1>2, <2>1
  <2>3. t[Len(a) + i] = c[Len(c) - (Len(a) + Len(b)) + (Len(a) + i)]
    BY <1>2, <2>1, Zenon
  <2> QED
    BY <2>1, <2>2, <2>3
<1>4. Len(b) <= Len(c)
  BY <1>1, <1>2, SMT
<1> QED
  BY <1>3, <1>4 DEF Ends

\* The start of an end is a part.
LEMMA EndsPart ==
  ASSUME NEW S, NEW c \in Seq(S), NEW a \in Seq(S), NEW b \in Seq(S), a # <<>>,
         Ends(c, a \o b)
  PROVE  a \in Parts(c)
<1>1. /\ Len(a \o b) = Len(a) + Len(b) /\ Len(a) \in Nat \ {0} /\ Len(b) \in Nat /\ Len(c) \in Nat
      /\ \A i \in 1..Len(a) + Len(b) : (a \o b)[i] = IF i <= Len(a) THEN a[i] ELSE b[i - Len(a)]
  BY ConcatProperties, LenProperties, EmptySeq
<1> DEFINE t == a \o b
           m == Len(c) - (Len(a) + Len(b)) + 1
           n == Len(c) - Len(b)
<1> HIDE DEF t
<1>2. /\ Len(t) = Len(a) + Len(b) /\ Len(t) <= Len(c)
      /\ \A i \in 1..Len(t) : t[i] = c[Len(c) - Len(t) + i]
      /\ \A i \in 1..Len(a) + Len(b) : t[i] = IF i <= Len(a) THEN a[i] ELSE b[i - Len(a)]
  BY <1>1 DEF Ends, t
<1>3. m \in 1..Len(c) /\ n \in 1..Len(c) /\ m <= n /\ n - m + 1 = Len(a)
  BY <1>1, <1>2, SMT
<1>4. /\ SubSeq(c, m, n) \in Seq(S) /\ Len(SubSeq(c, m, n)) = n - m + 1
      /\ \A i \in 1..n - m + 1 : SubSeq(c, m, n)[i] = c[m + i - 1]
  <2>1. \A i \in m..n : c[i] \in S
    BY <1>1, <1>3, ElementOfSeq, SMT
  <2>2. m \in Int /\ n \in Int
    BY <1>3
  <2> HIDE DEF m, n
  <2> QED
    BY <1>3, <2>1, <2>2, SubSeqProperties
<1>5. ASSUME NEW i \in 1..Len(a) PROVE a[i] = SubSeq(c, m, n)[i]
  <2>1. /\ i \in 1..Len(a) + Len(b) /\ i <= Len(a)
        /\ Len(c) - (Len(a) + Len(b)) + i = m + i - 1
    BY <1>1, SMT
  <2>2. t[i] = a[i] /\ t[i] = c[Len(c) - (Len(a) + Len(b)) + i]
    BY <1>2, <2>1, Zenon
  <2> QED
    BY <1>3, <1>4, <2>1, <2>2
<1>6. a = SubSeq(c, m, n)
  <2> HIDE DEF m, n
  <2> QED
    BY <1>3, <1>4, <1>5, SeqEqual
<1>7. m \in 1..Len(c) /\ n \in m..Len(c)
  BY <1>1, <1>3, SMT
<1> HIDE DEF m, n
<1> DEFINE F(i) == {SubSeq(c, i, j) : j \in i..Len(c)}
<1>8. a \in F(m)
  BY <1>6, <1>7
<1>9. Parts(c) = UNION {F(i) : i \in 1..Len(c)}
  BY DEF Parts
<1> HIDE DEF F
<1> QED
  BY <1>7, <1>8, <1>9

\* What a text starts with, it starts with when more is added.
LEMMA StartsConcat ==
  ASSUME NEW S, NEW t \in Seq(S), NEW u \in Seq(S), NEW line \in Seq(S), Starts(t, line)
  PROVE  Starts(t \o u, line)
<1>1. /\ Len(t \o u) = Len(t) + Len(u) /\ Len(t) \in Nat /\ Len(u) \in Nat /\ Len(line) \in Nat
      /\ \A i \in 1..Len(t) + Len(u) : (t \o u)[i] = IF i <= Len(t) THEN t[i] ELSE u[i - Len(t)]
  BY ConcatProperties, LenProperties
<1>2. Len(line) <= Len(t) /\ \A i \in 1..Len(line) : line[i] = t[i]
  BY DEF Starts
<1>3. \A i \in 1..Len(line) : i \in 1..Len(t) + Len(u) /\ i <= Len(t)
  BY <1>1, <1>2, SMT
<1> QED
  BY <1>1, <1>2, <1>3, SMT DEF Starts

-----------------------------------------------------------------------------
(***************************************************************************)
(* Lines and answers.                                                      *)
(***************************************************************************)
OneLine(line) ==
    /\ line \in Seq(Text) /\ Len(line) > 0
    /\ \A i \in 1..Len(line) : line[i] = Newline <=> i = Len(line)

\* A set of numbers has a least one.
LEMMA Least ==
  ASSUME NEW T, T \subseteq Nat, T # {}
  PROVE  \E x \in T : \A y \in T : x <= y
<1> DEFINE R == OpToRel(<, Nat)
<1>1. IsWellFoundedOn(R, Nat)
  BY NatLessThanWellFounded, Zenon
<1>2. \A x, y \in Nat : <<x, y>> \in R <=> x < y
  BY DEF OpToRel
<1> HIDE DEF R
<1>3. PICK x \in T : \A y \in T : ~(<<y, x>> \in R)
  BY <1>1, WFMin, Zenon
<1>4. ASSUME NEW y \in T PROVE x <= y
  <2>1. x \in Nat /\ y \in Nat
    OBVIOUS
  <2>2. ~(<<y, x>> \in R)
    BY <1>3
  <2>3. ~(y < x)
    BY <1>2, <2>1, <2>2, Zenon
  <2> QED
    BY <2>1, <2>3, SMT
<1> QED
  BY <1>4

\* receive_response: reading the next piece of a line completes it just when
\* the piece is the newline.
LEMMA NextPiece ==
  ASSUME NEW r \in Seq(Text), NEW h \in Seq(Text), h # <<>>, NEW line, OneLine(line),
         Starts(r \o h, line), NoNewline(r)
  PROVE  /\ Head(h) = Newline => Append(r, Head(h)) = line
         /\ Head(h) # Newline => NoNewline(Append(r, Head(h)))
<1> DEFINE s == Append(r, Head(h))
           t == r \o h
<1>1. /\ Head(h) \in Text /\ s \in Seq(Text) /\ Len(s) = Len(r) + 1
      /\ \A i \in 1..Len(r) : s[i] = r[i]
      /\ s[Len(r) + 1] = Head(h)
      /\ Len(h) \in Nat \ {0} /\ Len(r) \in Nat /\ Head(h) = h[1]
  <2>1. Head(h) \in Text /\ Len(h) \in Nat \ {0} /\ Len(r) \in Nat /\ Head(h) = h[1]
    BY HeadTailProperties, EmptySeq, LenProperties
  <2> QED
    BY <2>1, AppendProperties
<1>2. /\ Len(t) = Len(r) + Len(h)
      /\ \A i \in 1..Len(r) + Len(h) : t[i] = IF i <= Len(r) THEN r[i] ELSE h[i - Len(r)]
  BY ConcatProperties
<1>3. Len(line) <= Len(t) /\ \A i \in 1..Len(line) : line[i] = t[i]
  BY DEF Starts, t
<1>4. /\ line \in Seq(Text) /\ Len(line) \in Nat \ {0}
      /\ \A i \in 1..Len(line) : line[i] = Newline <=> i = Len(line)
  BY LenProperties DEF OneLine
<1>5. \A i \in 1..Len(r) : r[i] # Newline
  BY DEF NoNewline
<1> HIDE DEF s, t
<1>6. Len(r) + 1 <= Len(line)
  <2> SUFFICES ASSUME Len(line) <= Len(r) PROVE FALSE
    BY <1>1, <1>4, SMT
  <2>1. Len(line) \in 1..Len(line) /\ Len(line) \in 1..Len(r) /\ Len(line) \in 1..Len(r) + Len(h)
    BY <1>1, <1>4, SMT
  <2>2. line[Len(line)] = Newline
    BY <1>4, <2>1
  <2>3. line[Len(line)] = t[Len(line)]
    BY <1>3, <2>1, Zenon
  <2>4. t[Len(line)] = r[Len(line)]
    BY <1>2, <2>1
  <2> QED
    BY <1>5, <2>1, <2>2, <2>3, <2>4, Zenon
<1>7. ASSUME NEW i \in 1..Len(r) + 1 PROVE i \in 1..Len(line) /\ line[i] = s[i]
  <2>1. i \in 1..Len(line) /\ i \in 1..Len(r) + Len(h)
    BY <1>1, <1>4, <1>6, SMT
  <2>2. line[i] = t[i]
    BY <1>3, <2>1, Zenon
  <2>3. CASE i \in 1..Len(r)
    <3>1. t[i] = r[i]
      BY <1>2, <2>1, <2>3
    <3> QED
      BY <1>1, <2>1, <2>2, <2>3, <3>1, Zenon
  <2>4. CASE i = Len(r) + 1
    <3>1. t[Len(r) + 1] = h[1]
      BY <1>1, <1>2, <2>1, <2>4, SMT
    <3> QED
      BY <1>1, <2>1, <2>2, <2>4, <3>1, Zenon
  <2> QED
    BY <1>1, <2>3, <2>4, SMT
<1>8. Len(r) + 1 \in 1..Len(r) + 1
  BY <1>1, SMT
<1>9. ASSUME Head(h) = Newline PROVE s = line
  <2>1. Len(r) + 1 = Len(line)
    BY <1>1, <1>4, <1>7, <1>8, <1>9, Zenon
  <2>2. Len(s) = Len(line) /\ \A i \in 1..Len(s) : s[i] = line[i]
    BY <1>1, <1>7, <2>1, Zenon
  <2> QED
    BY <1>1, <1>4, <2>2, SeqEqual, Zenon
<1>10. ASSUME Head(h) # Newline PROVE NoNewline(s)
  <2> SUFFICES ASSUME NEW i \in 1..Len(r) + 1 PROVE s[i] # Newline
    BY <1>1, Zenon DEF NoNewline
  <2>1. i \in 1..Len(r) \/ i = Len(r) + 1
    BY <1>1, SMT
  <2> QED
    BY <1>1, <1>5, <1>10, <2>1, Zenon
<1> QED
  BY <1>9, <1>10 DEF s

\* substring, for every pair of indices.
LEMMA SubstringType ==
  ASSUME NEW text \in Seq(Pieces), NoNewline(text), NEW a \in Nat, NEW b \in Nat
  PROVE  Substring(text, a, b) \in Seq(Pieces) /\ NoNewline(Substring(text, a, b))
<1> DEFINE m == (IF a > b THEN b ELSE a) + 1
           r == IF a > b THEN a ELSE b
           n == IF r > Len(text) THEN Len(text) ELSE r
<1>1. Len(text) \in Nat
  BY LenProperties
<1>2. m \in Nat \ {0} /\ n \in Nat /\ n <= Len(text)
  BY <1>1, SMT
<1>3. Substring(text, a, b) = SubSeq(text, m, n)
  BY Zenon DEF Substring
<1> HIDE DEF m, n
<1>4. \A i \in m..n : i \in 1..Len(text)
  BY <1>1, <1>2, SMT
<1>5. \A i \in m..n : text[i] \in Pieces /\ text[i] # Newline
  BY <1>4, ElementOfSeq, Zenon DEF NoNewline
<1>6. /\ SubSeq(text, m, n) \in Seq(Pieces)
      /\ Len(SubSeq(text, m, n)) = IF m <= n THEN n - m + 1 ELSE 0
      /\ \A i \in 1..n - m + 1 : SubSeq(text, m, n)[i] = text[m + i - 1]
  <2>1. m \in Int /\ n \in Int
    BY <1>2
  <2> QED
    BY <1>5, <2>1, SubSeqProperties
<1>7. ASSUME NEW i \in 1..Len(SubSeq(text, m, n))
      PROVE  SubSeq(text, m, n)[i] # Newline
  <2>1. i \in 1..n - m + 1 /\ m + i - 1 \in m..n
    BY <1>2, <1>6, SMT
  <2> QED
    BY <1>5, <1>6, <2>1
<1> QED
  BY <1>3, <1>6, <1>7 DEF NoNewline

\* A text without a newline becomes one line by the newline at its end.
LEMMA Framed ==
  ASSUME NEW x \in Text, x # Newline, NEW mid \in Seq(Text), NoNewline(mid)
  PROVE  OneLine(<<x>> \o mid \o <<Newline>>)
<1> DEFINE e == <<Newline>>
           s == <<x>> \o mid
           t == s \o e
<1>1. /\ <<x>> \in Seq(Text) /\ Len(<<x>>) = 1 /\ <<x>>[1] = x
      /\ e \in Seq(Text) /\ Len(e) = 1 /\ e[1] = Newline /\ Len(mid) \in Nat
  <2>1. Newline \in Text
    BY Zenon DEF Text, Spoken
  <2> QED
    BY <2>1
<1>2. /\ s \in Seq(Text) /\ Len(s) = 1 + Len(mid)
      /\ \A i \in 1..1 + Len(mid) : s[i] = IF i <= 1 THEN <<x>>[i] ELSE mid[i - 1]
  BY <1>1, ConcatProperties
<1> HIDE DEF e, s
<1>3. /\ t \in Seq(Text) /\ Len(t) = Len(s) + 1
      /\ \A i \in 1..Len(s) + 1 : t[i] = IF i <= Len(s) THEN s[i] ELSE e[i - Len(s)]
  <2>1. /\ t \in Seq(Text) /\ Len(t) = Len(s) + Len(e)
        /\ \A i \in 1..Len(s) + Len(e) : t[i] = IF i <= Len(s) THEN s[i] ELSE e[i - Len(s)]
    BY <1>1, <1>2, ConcatProperties, Zenon
  <2> QED
    BY <1>1, <2>1, Zenon
<1> HIDE DEF t
<1>4. ASSUME NEW i \in 1..Len(s) PROVE s[i] # Newline
  <2>1. CASE i = 1
    BY <1>1, <1>2, <2>1
  <2>2. CASE i # 1
    <3>1. i - 1 \in 1..Len(mid) /\ ~(i <= 1) /\ i \in 1..1 + Len(mid)
      BY <1>1, <1>2, <2>2, SMT
    <3> QED
      BY <1>2, <3>1 DEF NoNewline
  <2> QED
    BY <2>1, <2>2
<1>5. ASSUME NEW i \in 1..Len(t) PROVE t[i] = Newline <=> i = Len(t)
  <2>1. CASE i \in 1..Len(s)
    <3>1. i # Len(t) /\ i <= Len(s) /\ i \in 1..Len(s) + 1
      BY <1>1, <1>2, <1>3, <2>1, SMT
    <3> QED
      BY <1>3, <1>4, <2>1, <3>1
  <2>2. CASE i = Len(s) + 1
    <3>1. ~(i <= Len(s)) /\ i - Len(s) = 1 /\ i \in 1..Len(s) + 1
      BY <1>1, <1>2, <2>2, SMT
    <3> QED
      BY <1>1, <1>3, <2>2, <3>1
  <2> QED
    BY <1>1, <1>2, <1>3, <2>1, <2>2, SMT
<1> QED
  BY <1>1, <1>2, <1>3, <1>5 DEF OneLine, t, s, e

\* indexOf gives the first place, counted from 0.
LEMMA IndexOfFirst ==
  ASSUME NEW text \in Seq(Pieces), NEW piece, \E i \in 1..Len(text) : text[i] = piece
  PROVE  \E k \in 1..Len(text) : /\ IndexOf(text, piece) = k - 1 /\ text[k] = piece
                                 /\ \A j \in 1..k - 1 : text[j] # piece
<1> DEFINE T == {i \in 1..Len(text) : text[i] = piece}
           P(i) == text[i] = piece /\ \A j \in 1..i - 1 : text[j] # piece
<1>1. Len(text) \in Nat
  BY LenProperties
<1>2. T \subseteq Nat /\ T # {}
  BY <1>1
<1>3. PICK k \in T : \A j \in T : k <= j
  <2> HIDE DEF T
  <2> QED
    BY <1>2, Least
<1>4. k \in 1..Len(text) /\ P(k)
  <2>1. ASSUME NEW j \in 1..k - 1, text[j] = piece PROVE FALSE
    <3>1. j \in 1..Len(text) /\ ~(k <= j)
      BY <1>1, <1>3, <2>1, SMT
    <3> QED
      BY <1>3, <2>1, <3>1
  <2> QED
    BY <1>3, <2>1
<1> DEFINE m == CHOOSE i \in 1..Len(text) : P(i)
<1> HIDE DEF T, P
<1>5. m \in 1..Len(text) /\ P(m)
  BY <1>4, Zenon
<1>6. IndexOf(text, piece) = m - 1
  BY Zenon DEF IndexOf, P
<1> HIDE DEF m
<1> QED
  BY <1>5, <1>6 DEF P

\* The index of a piece that does not occur.
LEMMA NoIndexOf ==
  ASSUME NEW text, NEW piece, ~\E i \in 1..Len(text) : text[i] = piece
  PROVE  IndexOf(text, piece) = NoIndex
BY Zenon DEF IndexOf

\* An index is a number.
LEMMA IndexType == ASSUME NEW text \in Seq(Pieces), NEW piece PROVE IndexOf(text, piece) \in Nat
<1>1. CASE \E i \in 1..Len(text) : text[i] = piece
  BY <1>1, IndexOfFirst, SMT
<1>2. CASE ~\E i \in 1..Len(text) : text[i] = piece
  BY <1>2, NoIndexOf DEF NoIndex
<1> QED
  BY <1>1, <1>2

\* The name of a command is a text.
LEMMA NameType ==
  ASSUME NEW text \in Seq(Pieces), NoNewline(text)
  PROVE  NameOf(text) \in Seq(Pieces)
<1>1. IndexOf(text, Blank) \in Nat /\ 0 \in Nat
  BY IndexType
<1>2. Substring(text, 0, IndexOf(text, Blank)) \in Seq(Pieces)
  BY <1>1, SubstringType
<1> QED
  BY <1>2, Zenon DEF NameOf

\* The pieces of the commands are different.
LEMMA WordsDistinct ==
  /\ "echo" # Blank /\ "read_" # Blank /\ "temperature" # Blank /\ "read_" # "echo"
BY Zenon DEF Blank

\* Nothing the board says is a newline.
LEMMA Distinct ==
  /\ "Temperature is " # Newline /\ Temperature # Newline /\ "I received a message" # Newline
  /\ "I received an invalid message: " # Newline
BY Zenon DEF Temperature, Newline

\* What the board says are pieces of text.
LEMMA SpokenText ==
  /\ "Temperature is " \in Text /\ Temperature \in Text /\ "I received a message" \in Text
  /\ "I received an invalid message: " \in Text /\ Newline \in Text
BY Zenon DEF Text, Spoken

\* Whatever loop answers is one line.
LEMMA AnswerLine ==
  ASSUME NEW text \in Seq(Pieces), NoNewline(text), NEW name, NEW a \in Nat, NEW b \in Nat
  PROVE  OneLine(Answer(text, name, a, b))
<1>1. \A s \in Seq(Pieces) : s \in Seq(Text)
  BY SeqMonotonic DEF Text
<1>2. OneLine(<<"Temperature is ", Temperature, Newline>>)
  <2> DEFINE x == "Temperature is "
             y == Temperature
             s == <<x, y, Newline>>
  <2>1. x \in Text /\ y \in Text /\ Newline \in Text /\ x # Newline /\ y # Newline
    BY Distinct, SpokenText, Zenon
  <2> HIDE DEF x, y
  <2>2. s \in Seq(Text) /\ Len(s) = 3
    BY <2>1
  <2>3. s[1] = x /\ s[2] = y /\ s[3] = Newline
    OBVIOUS
  <2> HIDE DEF s
  <2>4. \A i \in 1..3 : s[i] = Newline <=> i = 3
    BY <2>1, <2>3, SMT
  <2>5. OneLine(s)
    BY <2>2, <2>4 DEF OneLine
  <2> QED
    BY <2>5, Zenon DEF s, x, y
<1>3. OneLine(<<"I received a message">> \o Substring(text, a, b) \o <<Newline>>)
  BY <1>1, SubstringType, Framed, Distinct, SpokenText, Zenon
<1>4. OneLine(<<"I received an invalid message: ">> \o text \o <<Newline>>)
  BY <1>1, Framed, Distinct, SpokenText, Zenon
<1> QED
  BY <1>2, <1>3, <1>4, Zenon DEF Answer

\* A command is a text without a newline, shorter than NoIndex.
LEMMA CommandType ==
  ASSUME NEW c \in Commands
  PROVE  /\ c \in Seq(Pieces) /\ c # <<>> /\ NoNewline(c) /\ Len(c) \in Nat /\ Len(c) < NoIndex
<1>1. c \in Seq(STRING) /\ c # <<>> /\ Len(c) < NoIndex /\ NoNewline(c)
  BY SerialAssumption, SyntaxAssumption, Zenon DEF NoNewline
<1>2. Len(c) \in Nat /\ c \in [1..Len(c) -> STRING]
  BY <1>1, LenProperties, Zenon
<1> DEFINE F(d) == {d[i] : i \in 1..Len(d)}
<1>3. \A i \in 1..Len(c) : c[i] \in Pieces
  <2>1. \A i \in 1..Len(c) : c[i] \in F(c)
    OBVIOUS
  <2>2. Pieces = UNION {F(d) : d \in Commands}
    BY DEF Pieces
  <2> HIDE DEF F
  <2> QED
    BY <2>1, <2>2
<1>4. c \in Seq(Pieces)
  BY <1>2, <1>3, SeqDef
<1> QED
  BY <1>1, <1>2, <1>4

\* A whole command is answered as expected; the length that is kept from an
\* earlier message matters only after a blank, where it is a new one.
LEMMA ExpectedAnswer ==
  ASSUME NEW c \in Commands, NEW n \in Nat, IndexOf(c, Blank) # NoIndex => n = Len(c)
  PROVE  AnswerTo(c, n) = Expected(c)
<1> DEFINE blank == {i \in 1..Len(c) : c[i] = Blank}
           at == IndexOf(c, Blank)
<1>1. /\ c \in Seq(Pieces) /\ c # <<>> /\ NoNewline(c) /\ Len(c) \in Nat \ {0} /\ Len(c) < NoIndex
  BY CommandType, EmptySeq
<1>2. /\ NameOf(c) = ReadTemperature => c = ReadTemperature
      /\ c # <<"echo">>
  BY SyntaxAssumption
<1>3. /\ Len(ReadTemperature) = 2 /\ ReadTemperature[1] = "read_"
      /\ ReadTemperature[2] = "temperature" /\ ReadTemperature # <<"echo">>
  <2>1. Len(<<"echo">>) = 1
    OBVIOUS
  <2> QED
    BY <2>1 DEF ReadTemperature
<1>4. CASE \E i \in 1..Len(c) : c[i] = Blank
  <2>1. PICK k \in 1..Len(c) : /\ at = k - 1 /\ c[k] = Blank
                               /\ \A j \in 1..k - 1 : c[j] # Blank
    BY <1>1, <1>4, IndexOfFirst
  <2>2. at # NoIndex /\ n = Len(c)
    BY <1>1, <2>1 DEF NoIndex
  <2>3. NameOf(c) = SubSeq(c, 1, k - 1)
    <3>1. NameOf(c) = Substring(c, 0, k - 1)
      BY <2>1, <2>2 DEF NameOf
    <3>2. ~(0 > k - 1) /\ ~(k - 1 > Len(c)) /\ 0 + 1 = 1
      BY <1>1, SMT
    <3> QED
      BY <3>1, <3>2, Zenon DEF Substring
  <2>4. c # ReadTemperature
    <3> SUFFICES ASSUME c = ReadTemperature PROVE FALSE
      OBVIOUS
    <3>1. k = 1 \/ k = 2
      BY <1>3, SMT
    <3> QED
      BY <1>3, <2>1, <3>1, WordsDistinct, Zenon
  <2>5. NameOf(c) # ReadTemperature
    BY <1>2, <2>4
  <2>6. NameOf(c) = <<"echo">> <=> c[1] = "echo" /\ 2 \in blank
    <3>1. /\ SubSeq(c, 1, k - 1) \in Seq(Pieces)
          /\ Len(SubSeq(c, 1, k - 1)) = k - 1
          /\ \A i \in 1..k - 1 : SubSeq(c, 1, k - 1)[i] = c[i]
      <4> DEFINE q == k - 1
      <4>1. q \in Int /\ q \in Nat /\ q <= Len(c)
        BY <1>1, SMT
      <4> HIDE DEF q
      <4>2. \A i \in 1..q : i \in 1..Len(c)
        BY <1>1, <4>1, SMT
      <4>3. \A i \in 1..q : c[i] \in Pieces
        BY <1>1, <4>2, ElementOfSeq, Zenon
      <4>4. /\ SubSeq(c, 1, q) \in Seq(Pieces)
            /\ Len(SubSeq(c, 1, q)) = IF 1 <= q THEN q - 1 + 1 ELSE 0
            /\ \A i \in 1..q - 1 + 1 : SubSeq(c, 1, q)[i] = c[1 + i - 1]
        BY <4>1, <4>3, SubSeqProperties, SMT
      <4> QED
        BY <4>1, <4>4, SMT DEF q
    <3> DEFINE s == SubSeq(c, 1, k - 1)
    <3> HIDE DEF s
    <3>2. ASSUME c[1] = "echo", 2 \in blank PROVE s = <<"echo">>
      <4>1. k = 2
        BY <1>1, <2>1, <3>2, WordsDistinct, SMT
      <4>2. Len(s) = 1 /\ s[1] = "echo" /\ s \in Seq(Pieces)
        BY <3>1, <3>2, <4>1 DEF s
      <4> QED
        BY <4>2
    <3>3. ASSUME s = <<"echo">> PROVE c[1] = "echo" /\ 2 \in blank
      <4>1. Len(s) = 1 /\ s[1] = "echo"
        BY <3>3
      <4>2. k = 2
        BY <3>1, <4>1 DEF s
      <4> QED
        BY <2>1, <3>1, <4>1, <4>2 DEF s
    <3> QED
      BY <2>3, <3>2, <3>3, Zenon DEF s
  <2>7. CASE c[1] = "echo" /\ 2 \in blank
    <3>1. AnswerTo(c, n) = <<"I received a message">> \o Substring(c, at, n) \o <<Newline>>
      BY <1>3, <2>5, <2>6, <2>7, Zenon DEF AnswerTo, Answer
    <3>2. at = 1
      BY <1>1, <2>1, <2>7, WordsDistinct, SMT
    <3>3. Substring(c, at, n) = Tail(c)
      <4>1. ~(1 > Len(c)) /\ ~(Len(c) > Len(c)) /\ 1 + 1 = 2
        BY <1>1, SMT
      <4>2. Substring(c, at, n) = SubSeq(c, 2, Len(c))
        BY <2>2, <3>2, <4>1, Zenon DEF Substring
      <4> QED
        BY <1>1, <4>2, TailIsSubSeq
    <3>4. Expected(c) = <<"I received a message">> \o Tail(c) \o <<Newline>>
      BY <2>4, <2>7, Zenon DEF Expected
    <3> QED
      BY <3>1, <3>3, <3>4, Zenon
  <2>8. CASE ~(c[1] = "echo" /\ 2 \in blank)
    <3>1. AnswerTo(c, n) = <<"I received an invalid message: ">> \o c \o <<Newline>>
      BY <2>5, <2>6, <2>8, Zenon DEF AnswerTo, Answer
    <3>2. Expected(c) = <<"I received an invalid message: ">> \o c \o <<Newline>>
      BY <2>4, <2>8, Zenon DEF Expected
    <3> QED
      BY <3>1, <3>2, Zenon
  <2> QED
    BY <2>7, <2>8, Zenon
<1>5. CASE ~\E i \in 1..Len(c) : c[i] = Blank
  <2>1. NameOf(c) = c
    BY <1>5, NoIndexOf, Zenon DEF NameOf
  <2>2. 2 \notin blank
    BY <1>5
  <2>3. CASE c = ReadTemperature
    <3>1. AnswerTo(c, n) = <<"Temperature is ", Temperature, Newline>>
      BY <1>3, <2>1, <2>3, Zenon DEF AnswerTo, Answer
    <3>2. Expected(c) = <<"Temperature is ", Temperature, Newline>>
      BY <2>2, <2>3, Zenon DEF Expected
    <3> QED
      BY <3>1, <3>2, Zenon
  <2>4. CASE c # ReadTemperature
    <3>1. AnswerTo(c, n) = <<"I received an invalid message: ">> \o c \o <<Newline>>
      BY <1>2, <2>1, <2>4, Zenon DEF AnswerTo, Answer
    <3>2. Expected(c) = <<"I received an invalid message: ">> \o c \o <<Newline>>
      BY <2>2, <2>4, Zenon DEF Expected
    <3> QED
      BY <3>1, <3>2, Zenon
  <2> QED
    BY <2>3, <2>4, Zenon
<1> QED
  BY <1>4, <1>5, Zenon

\* No piece is a newline.
LEMMA PiecesNoNewline == ASSUME NEW text \in Seq(Pieces) PROVE NoNewline(text)
<1>1. \A p \in Pieces : p # Newline
  BY SyntaxAssumption, Zenon DEF Pieces
<1>2. \A i \in 1..Len(text) : text[i] \in Pieces
  BY ElementOfSeq
<1> QED
  BY <1>1, <1>2, Zenon DEF NoNewline

\* A part of a command is a text.
LEMMA PartsType ==
  ASSUME NEW c \in Seq(Pieces), NEW text \in Parts(c)
  PROVE  text \in Seq(Pieces)
<1>1. PICK i \in 1..Len(c) : text \in {SubSeq(c, i, j) : j \in i..Len(c)}
  BY Zenon DEF Parts
<1>2. PICK j \in i..Len(c) : text = SubSeq(c, i, j)
  BY <1>1
<1>3. Len(c) \in Nat
  BY LenProperties
<1>4. i \in Int /\ j \in Int /\ \A k \in i..j : k \in 1..Len(c)
  BY <1>3, SMT
<1>5. \A k \in i..j : c[k] \in Pieces
  BY <1>4, ElementOfSeq, Zenon
<1> QED
  BY <1>2, <1>4, <1>5, SubSeqProperties

\* The answer to a part of a command is one line.
LEMMA AnswerToLine ==
  ASSUME NEW text \in Seq(Pieces), NEW n \in Nat
  PROVE  OneLine(AnswerTo(text, n))
BY PiecesNoNewline, IndexType, AnswerLine, Zenon DEF AnswerTo

\* The answer expected to a command is one line.
LEMMA ExpectedLine == ASSUME NEW c \in Commands PROVE OneLine(Expected(c))
<1>1. c \in Seq(Pieces) /\ Len(c) \in Nat
  BY CommandType
<1> QED
  BY <1>1, ExpectedAnswer, AnswerToLine

\* A line starts with itself.
LEMMA LineStarts == ASSUME NEW line, OneLine(line) PROVE Starts(line, line)
<1>1. Len(line) \in Nat
  BY LenProperties DEF OneLine
<1> QED
  BY <1>1 DEF Starts

\* An empty buffer holds no newline.
LEMMA NothingRead == NoNewline(<<>>)
<1>1. \A i \in 1..Len(<<>>) : FALSE
  BY EmptySeq, SMT
<1> QED
  BY <1>1, Zenon DEF NoNewline

-----------------------------------------------------------------------------
(***************************************************************************)
(* The invariant, action by action.                                        *)
(***************************************************************************)
LEMMA InitSerial == SerialInit => SerialInv
<1> SUFFICES ASSUME SerialInit PROVE SerialInv
  OBVIOUS
<1>1. /\ host = "idle" /\ command = <<>> /\ sleep_left = 0 /\ result = <<>>
      /\ to_arduino = <<>> /\ to_host = <<>> /\ held = 0 /\ auto_reset \in BOOLEAN
      /\ board = "loop" /\ boot_left = 0
      /\ rx = <<>> /\ string = <<>> /\ silence = 0
      /\ msg = <<>> /\ cmd = <<>> /\ space_idx = 0 /\ length = 0
      /\ session = 0 /\ split = FALSE
  BY DEF SerialInit
<1>2. <<>> \in Seq(Pieces) /\ <<>> \in Seq(Text)
  BY EmptySeq
<1>3. 0 \in 0..MaxSessions /\ 0 \in 0..MaxGap /\ 0 \in 0..MaxBoot /\ 0 \in 0..4 /\ 0 \in 0..2
      /\ 0 \in Nat /\ FALSE \in BOOLEAN
  BY SerialAssumption, SMT DEF ARDUINO_SERIAL_STABILIZE_SEC
<1>5. HostOK
  BY <1>1, <1>2, <1>3, Zenon DEF HostOK, ARDUINO_SERIAL_STABILIZE_SEC
<1>6. PortOK
  BY <1>1, <1>2, <1>3, Zenon DEF PortOK
<1>7. BoardOK
  BY <1>1, <1>2, <1>3, Zenon DEF BoardOK, ReadTimeout
<1>8. SerialTypeOK
  BY <1>1, <1>5, <1>6, <1>7, SMT DEF SerialTypeOK
<1>4. PauseInv /\ ReadInv /\ WholeInv /\ OwnInv
  BY <1>1, SMT DEF PauseInv, ReadInv, WholeInv, Fresh, OwnInv
<1> QED
  BY <1>8, <1>4, Zenon DEF SerialInv

\* What the invariants look at besides the pause.
view == <<host, command, result, board, rx, string, msg, to_arduino, to_host, split,
          auto_reset, length>>

\* These invariants read nothing but view.
LEMMA SameView ==
  ASSUME ReadInv, WholeInv, OwnInv, UNCHANGED view
  PROVE  ReadInv' /\ WholeInv' /\ OwnInv'
<1>1. UNCHANGED <<host, command, result, board, rx, string, msg, to_arduino, to_host, split,
                  auto_reset, length>>
  BY DEF view
<1>2. Left' = Left /\ Fresh' = Fresh
  BY <1>1 DEF Left, Heard, Fresh
<1>3. Begun' = Begun
  BY <1>1 DEF Begun, Told
<1>4. Hearing' = Hearing /\ Telling' = Telling
  BY <1>1, <1>2 DEF Hearing, Telling, Told
<1>5. ReadInv' /\ WholeInv'
  BY <1>1, <1>2, <1>4 DEF ReadInv, WholeInv
<1>6. OwnInv'
  BY <1>1, <1>2, <1>3 DEF OwnInv, OwnAnswer
<1> QED
  BY <1>5, <1>6

\* Opening the port keeps the invariant.
LEMMA OpenInv == ASSUME SerialInv, Open PROVE SerialInv'
<1>1. /\ SerialTypeOK /\ HostOK /\ PortOK /\ BoardOK /\ PauseInv /\ ReadInv /\ WholeInv
      /\ boot_left > 0 => rx = <<>> /\ board = "boot"
  BY Zenon DEF SerialInv, SerialTypeOK
<1>2. PICK c \in Commands : Opened(c)
  BY DEF Open
<1>3. /\ host = "idle" /\ session < MaxSessions /\ session' = session + 1
      /\ command' = c /\ host' = "opened" /\ sleep_left' = 4
      /\ result' = <<>> /\ to_host' = <<>> /\ to_arduino' = to_arduino
      /\ split' = (split /\ ~auto_reset) /\ held' = held /\ auto_reset' = auto_reset
  BY <1>2 DEF Open, Opened, ARDUINO_SERIAL_STABILIZE_SEC
<1>4. \A S : <<>> \in Seq(S)
  BY EmptySeq
<1>5. HostOK' /\ PortOK'
  BY <1>1, <1>3, <1>4, SerialAssumption, SMT DEF HostOK, PortOK, ARDUINO_SERIAL_STABILIZE_SEC
<1>6. split' \in BOOLEAN
  BY <1>3
<1>7. CASE auto_reset
  <2>1. /\ board' = "boot" /\ boot_left' \in 1..MaxBoot /\ rx' = <<>> /\ string' = <<>>
        /\ silence' = 0 /\ msg' = <<>> /\ cmd' = <<>> /\ space_idx' = 0 /\ length' = 0
    BY <1>7 DEF Open, ResetBoard
  <2>2. BoardOK' /\ PauseInv'
    BY <1>1, <1>3, <1>4, <1>6, <2>1, SerialAssumption, SMT
       DEF BoardOK, ReadTimeout, PauseInv, ARDUINO_SERIAL_STABILIZE_SEC
  <2>3. ReadInv' /\ WholeInv' /\ OwnInv'
    BY <1>3, <2>1, SMT DEF ReadInv, WholeInv, OwnInv, Fresh
  <2> QED
    BY <1>5, <2>1, <2>2, <2>3, Zenon DEF SerialInv, SerialTypeOK
<1>8. CASE ~auto_reset
  <2>1. UNCHANGED <<board, boot_left, rx, string, silence, msg, cmd, space_idx, length>>
    BY <1>8 DEF Open, sketch
  <2>2. split' = split
    BY <1>1, <1>3, <1>8 DEF BoardOK
  <2>3. BoardOK'
    BY <1>1, <2>1, <2>2, Zenon DEF BoardOK
  <2>4. PauseInv'
    BY <1>1, <1>3, <2>1, SMT DEF PauseInv, BoardOK
  <2>5. ReadInv' /\ WholeInv' /\ OwnInv'
    BY <1>1, <1>3, <1>8, <2>1, <2>2, SMT DEF ReadInv, WholeInv, OwnInv, Fresh
  <2>6. boot_left' > 0 => rx' = <<>> /\ board' = "boot"
    BY <1>1, <2>1, Zenon
  <2> QED
    BY <1>5, <2>3, <2>4, <2>5, <2>6, Zenon DEF SerialInv, SerialTypeOK
<1> QED
  BY <1>7, <1>8, Zenon

\* So does a port that cannot be opened.
LEMMA OpenFailsInv == ASSUME SerialInv, OpenFails PROVE SerialInv'
<1>1. /\ HostOK /\ PortOK /\ BoardOK /\ PauseInv /\ ReadInv /\ WholeInv /\ OwnInv
      /\ boot_left > 0 => rx = <<>> /\ board = "boot"
  BY Zenon DEF SerialInv, SerialTypeOK
<1>2. /\ host = "idle" /\ session < MaxSessions /\ session' = session + 1 /\ result' = <<>>
      /\ UNCHANGED <<host, command, sleep_left, to_arduino, to_host, held, auto_reset, board,
                     boot_left, rx, string, silence, msg, cmd, space_idx, length, split>>
  BY DEF OpenFails, port_vars, sketch
<1>3. HostOK'
  BY <1>1, <1>2, EmptySeq, SerialAssumption, SMT DEF HostOK
<1>4. PortOK' /\ BoardOK' /\ (boot_left' > 0 => rx' = <<>> /\ board' = "boot")
  BY <1>1, <1>2, Zenon DEF PortOK, BoardOK
<1>5. PauseInv' /\ ReadInv'
  BY <1>1, <1>2, SMT DEF PauseInv, ReadInv
<1>6. WholeInv' /\ OwnInv'
  BY <1>1, <1>2, SMT DEF WholeInv, OwnInv, Fresh
<1> QED
  BY <1>3, <1>4, <1>5, <1>6, Zenon DEF SerialInv, SerialTypeOK

\* So does the command that is written.
LEMMA SerialPutsInv == ASSUME SerialInv, SerialPuts PROVE SerialInv'
<1>1. /\ HostOK /\ PortOK /\ BoardOK /\ PauseInv /\ ReadInv /\ WholeInv /\ OwnInv
      /\ boot_left > 0 => rx = <<>> /\ board = "boot"
  BY Zenon DEF SerialInv, SerialTypeOK
<1>2. /\ host = "opened" /\ sleep_left = 0 /\ to_arduino' = command /\ host' = "receiving"
      /\ UNCHANGED <<command, sleep_left, result, session, to_host, held, auto_reset, board,
                     boot_left, rx, string, silence, msg, cmd, space_idx, length, split>>
  BY DEF SerialPuts, sketch
<1>3. command \in Commands /\ command \in Seq(Pieces) /\ result = <<>> /\ Len(command) \in Nat
  BY <1>1, <1>2, CommandType DEF PauseInv
<1>4. HostOK' /\ PortOK' /\ BoardOK' /\ (boot_left' > 0 => rx' = <<>> /\ board' = "boot")
  <2>1. HostOK'
    BY <1>1, <1>2, SMT DEF HostOK
  <2> QED
    BY <1>1, <1>2, <1>3, <2>1, Zenon DEF PortOK, BoardOK
<1>5. PauseInv' /\ ReadInv'
  BY <1>1, <1>2, <1>3, SMT DEF PauseInv, ReadInv, BoardOK
<1>6. ASSUME Fresh PROVE Left' = command /\ Hearing'
  <2>1. board' \in {"boot", "loop"} /\ rx' = <<>> /\ to_host' = <<>>
    BY <1>2, <1>6 DEF Fresh
  <2>2. Heard' = <<>>
    BY <2>1 DEF Heard
  <2>3. <<>> \o (<<>> \o command) = command
    BY <1>3, ConcatEmptySeq
  <2>4. Left' = command
    BY <1>2, <2>1, <2>2, <2>3 DEF Left
  <2> QED
    BY <1>2, <1>3, <2>1, <2>4 DEF Hearing
<1>7. WholeInv'
  BY <1>1, <1>2, <1>6, SMT DEF WholeInv
<1>8. OwnInv'
  <2> SUFFICES ASSUME auto_reset PROVE OwnInv'
    BY <1>2 DEF OwnInv
  <2>1. Fresh /\ length = 0
    BY <1>1, <1>2 DEF OwnInv
  <2>2. Ends(command, Left')
    BY <1>3, <1>6, <2>1, EndsAll
  <2>3. (length \in 0..Len(command))'
    BY <1>2, <1>3, <2>1, SMT
  <2>4. result' = <<>> /\ to_host' = <<>>
    BY <1>2, <1>3, <2>1 DEF Fresh
  <2> QED
    BY <1>2, <2>2, <2>3, <2>4 DEF OwnInv
<1> QED
  BY <1>4, <1>5, <1>7, <1>8, Zenon DEF SerialInv, SerialTypeOK

\* So does the reading of the answer, whole or cut off.
LEMMA ReceiveInv == ASSUME SerialInv, ReceiveResponse PROVE SerialInv'
<1>1. /\ HostOK /\ PortOK /\ BoardOK /\ PauseInv /\ ReadInv /\ WholeInv /\ OwnInv
      /\ boot_left > 0 => rx = <<>> /\ board = "boot"
  BY Zenon DEF SerialInv, SerialTypeOK
<1>2. /\ host = "receiving" /\ to_host # <<>>
      /\ result' = Append(result, Head(to_host)) /\ to_host' = Tail(to_host)
      /\ host' = IF Head(to_host) = Newline THEN "closing" ELSE host
      /\ UNCHANGED <<command, sleep_left, session, to_arduino, held, auto_reset, board,
                     boot_left, rx, string, silence, msg, cmd, space_idx, length, split>>
  BY DEF ReceiveResponse, sketch
<1>3. result \in Seq(Text) /\ to_host \in Seq(Text) /\ command \in Commands
      /\ command \in Seq(Pieces)
  BY <1>1, <1>2, CommandType, Zenon DEF HostOK, PortOK, PauseInv
<1>4. /\ result' \in Seq(Text) /\ to_host' \in Seq(Text)
      /\ result' \o to_host' = result \o to_host
  BY <1>2, <1>3, Pass
<1>5. host' \in {"receiving", "closing"}
  BY <1>2
<1>6. HostOK' /\ PortOK' /\ BoardOK' /\ (boot_left' > 0 => rx' = <<>> /\ board' = "boot")
  <2>1. HostOK'
    BY <1>1, <1>2, <1>4, <1>5, Zenon DEF HostOK
  <2> QED
    BY <1>1, <1>2, <1>4, <2>1, Zenon DEF PortOK, BoardOK
<1>7. PauseInv' /\ ReadInv'
  <2>1. ~(boot_left > 0)
    BY <1>1, <1>2 DEF PauseInv
  <2> QED
    BY <1>1, <1>2, <1>3, <1>5, <2>1, Zenon DEF PauseInv, ReadInv
<1>8. ASSUME NEW line, OneLine(line), Told(line)
      PROVE  /\ host' = "closing" => result' = line
             /\ host' # "closing" => Starts(result' \o to_host', line) /\ NoNewline(result')
  <2>1. Starts(result \o to_host, line) /\ NoNewline(result)
    BY <1>8 DEF Told
  <2>2. /\ Head(to_host) = Newline => result' = line
        /\ Head(to_host) # Newline => NoNewline(result')
    BY <1>2, <1>3, <1>8, <2>1, NextPiece
  <2> QED
    BY <1>2, <1>4, <2>1, <2>2, Zenon
<1>9. WholeInv'
  <2> SUFFICES ASSUME ~split PROVE WholeInv'
    BY <1>2 DEF WholeInv
  <2>1. Telling
    BY <1>1, <1>2 DEF WholeInv, Hearing
  <2>2. /\ board = "loop" /\ rx = <<>> /\ to_arduino = <<>> /\ Told(Expected(command))
        /\ result \o to_host = Expected(command)
    BY <2>1 DEF Telling
  <2>3. OneLine(Expected(command))
    BY <1>3, ExpectedLine
  <2>4. CASE host' = "closing"
    <3>1. result' = Expected(command)
      BY <1>8, <2>2, <2>3, <2>4
    <3>2. to_host' = <<>>
      <4> DEFINE r == result'
                 h == to_host'
      <4>1. r \in Seq(Text) /\ h \in Seq(Text) /\ r \o h = r
        BY <1>4, <2>2, <3>1
      <4> HIDE DEF r, h
      <4>2. Len(r \o h) = Len(r) + Len(h) /\ Len(r) \in Nat /\ Len(h) \in Nat
        BY <4>1, ConcatProperties, LenProperties
      <4>3. Len(h) = 0
        BY <4>1, <4>2
      <4> QED
        BY <4>1, <4>3, EmptySeq DEF h
    <3> QED
      BY <1>2, <2>2, <2>4, <3>1, <3>2 DEF WholeInv, Fresh
  <2>5. CASE host' = "receiving"
    <3>1. Told(Expected(command))'
      BY <1>2, <1>8, <2>2, <2>3, <2>5 DEF Told
    <3>2. Telling'
      BY <1>2, <1>4, <2>2, <3>1 DEF Telling
    <3> QED
      BY <1>2, <2>5, <3>2 DEF WholeInv
  <2> QED
    BY <1>5, <2>4, <2>5
<1>10. OwnInv'
  <2> SUFFICES ASSUME auto_reset PROVE OwnInv'
    BY <1>2 DEF OwnInv
  <2>1. Ends(command, Left) /\ length \in 0..Len(command) /\ Begun
    BY <1>1, <1>2 DEF OwnInv
  <2>2. PICK text \in Parts(command), n \in 0..Len(command) : Told(AnswerTo(text, n))
    BY <2>1 DEF Begun
  <2>3. OneLine(AnswerTo(text, n))
    BY <1>3, PartsType, AnswerToLine
  <2>4. Left' = Left
    BY <1>2 DEF Left, Heard
  <2>5. CASE host' = "closing"
    <3>1. result' = AnswerTo(text, n)
      BY <1>8, <2>2, <2>3, <2>5
    <3>2. OwnAnswer(result)'
      BY <1>2, <3>1 DEF OwnAnswer
    <3> QED
      BY <2>5, <3>2 DEF OwnInv
  <2>6. CASE host' = "receiving"
    <3>1. Told(AnswerTo(text, n))'
      BY <1>8, <2>2, <2>3, <2>6 DEF Told
    <3>2. Begun'
      BY <1>2, <3>1 DEF Begun
    <3> QED
      BY <1>2, <2>1, <2>4, <2>6, <3>2 DEF OwnInv
  <2> QED
    BY <1>5, <2>5, <2>6
<1> QED
  BY <1>6, <1>7, <1>9, <1>10, Zenon DEF SerialInv, SerialTypeOK

\* So does closing the port.
LEMMA SerialCloseInv == ASSUME SerialInv, SerialClose PROVE SerialInv'
<1>1. /\ HostOK /\ PortOK /\ BoardOK /\ PauseInv /\ ReadInv /\ WholeInv /\ OwnInv
      /\ boot_left > 0 => rx = <<>> /\ board = "boot"
  BY Zenon DEF SerialInv, SerialTypeOK
<1>2. /\ host = "closing" /\ to_arduino = <<>> /\ host' = "idle"
      /\ UNCHANGED <<command, sleep_left, result, session, to_arduino, to_host, held,
                     auto_reset, board, boot_left, rx, string, silence, msg, cmd, space_idx,
                     length, split>>
  BY DEF SerialClose, sketch, port_vars
<1>3. HostOK' /\ PortOK' /\ BoardOK' /\ (boot_left' > 0 => rx' = <<>> /\ board' = "boot")
  <2>1. HostOK'
    BY <1>1, <1>2, Zenon DEF HostOK
  <2> QED
    BY <1>1, <1>2, <2>1, Zenon DEF PortOK, BoardOK
<1>4. PauseInv' /\ ReadInv'
  BY <1>1, <1>2, Zenon DEF PauseInv, ReadInv
<1>5. Fresh' = Fresh
  BY <1>2 DEF Fresh
<1>6. WholeInv'
  BY <1>1, <1>2, <1>5, SMT DEF WholeInv
<1>7. OwnInv'
  BY <1>1, <1>2, SMT DEF OwnInv, OwnAnswer
<1> QED
  BY <1>3, <1>4, <1>6, <1>7, Zenon DEF SerialInv, SerialTypeOK

\* So does a piece that arrives.
LEMMA DeliverInv == ASSUME SerialInv, Deliver PROVE SerialInv'
<1>1. /\ HostOK /\ PortOK /\ BoardOK /\ PauseInv /\ ReadInv /\ WholeInv /\ OwnInv
  BY Zenon DEF SerialInv, SerialTypeOK
<1>2. host \in {"receiving", "closing"} /\ ~(boot_left > 0)
  BY <1>1, Zenon DEF Deliver, PauseInv, HostOK
<1>3. /\ to_arduino # <<>> /\ to_arduino' = Tail(to_arduino) /\ held' = 0
      /\ rx' = Append(rx, Head(to_arduino))
      /\ UNCHANGED <<host, command, sleep_left, result, session, to_host, auto_reset, board,
                     boot_left, string, silence, msg, cmd, space_idx, length, split>>
  BY <1>2 DEF Deliver, host_vars, sketch
<1>4. /\ rx' \in Seq(Pieces) /\ to_arduino' \in Seq(Pieces)
      /\ rx' \o to_arduino' = rx \o to_arduino
  <2>1. rx \in Seq(Pieces) /\ to_arduino \in Seq(Pieces)
    BY <1>1, Zenon DEF PortOK, BoardOK
  <2> QED
    BY <1>3, <2>1, Pass
<1>5. HostOK' /\ PortOK' /\ BoardOK' /\ ~(boot_left' > 0)
  <2>1. 0 \in 0..MaxGap
    BY SerialAssumption
  <2> QED
    BY <1>1, <1>2, <1>3, <1>4, <2>1, Zenon DEF HostOK, PortOK, BoardOK
<1>6. PauseInv'
  BY <1>1, <1>2, <1>3, <1>5, SMT DEF PauseInv
<1>7. rx' # <<>>
  BY <1>3, <1>1, HeadTailProperties, AppendProperties DEF BoardOK, PortOK
<1>8. ReadInv'
  BY <1>1, <1>3, <1>7, Zenon DEF ReadInv
<1>9. Left' = Left
  <2>1. Heard' = Heard
    BY <1>3 DEF Heard
  <2> QED
    BY <1>4, <2>1 DEF Left
<1>10. WholeInv'
  <2> SUFFICES ASSUME ~split PROVE WholeInv'
    BY <1>3 DEF WholeInv
  <2>1. host = "receiving" /\ Hearing
    BY <1>1, <1>2, <1>3 DEF WholeInv, Telling
  <2>2. board = "again" => rx' \o to_arduino' = <<>>
    BY <1>4, <2>1 DEF Hearing
  <2>3. Hearing'
    BY <1>3, <1>9, <2>1, <2>2 DEF Hearing
  <2> QED
    BY <1>3, <2>1, <2>3 DEF WholeInv
<1>11. OwnInv'
  <2>1. Begun' = Begun
    BY <1>3 DEF Begun, Told
  <2> QED
    BY <1>1, <1>2, <1>3, <1>9, <2>1 DEF OwnInv, OwnAnswer
<1> QED
  BY <1>5, <1>6, <1>8, <1>10, <1>11, Zenon DEF SerialInv, SerialTypeOK

\* So does the passing of time.
LEMMA TickInv == ASSUME SerialInv, Tick PROVE SerialInv'
<1>1. /\ HostOK /\ PortOK /\ BoardOK /\ PauseInv /\ ReadInv /\ WholeInv /\ OwnInv
      /\ boot_left > 0 => rx = <<>> /\ board = "boot"
  BY Zenon DEF SerialInv, SerialTypeOK
<1>2. /\ to_arduino # <<>> => held < MaxGap
      /\ held' = (IF to_arduino # <<>> THEN held + 1 ELSE held)
      /\ sleep_left' = (IF sleep_left > 0 THEN sleep_left - 1 ELSE 0)
      /\ boot_left' = (IF boot_left > 0 THEN boot_left - 1 ELSE 0)
      /\ silence' = (IF board = "reading" /\ silence < 2 THEN silence + 1 ELSE silence)
      /\ UNCHANGED <<host, command, result, session, to_arduino, to_host, auto_reset, board,
                     rx, string, msg, cmd, space_idx, length, split>>
  BY DEF Tick, port_vars, sketch, ReadTimeout
<1>3. /\ held \in 0..MaxGap /\ sleep_left \in 0..4 /\ boot_left \in 0..MaxBoot
      /\ silence \in 0..2 /\ MaxGap \in Nat /\ MaxBoot \in Nat
  BY <1>1, SerialAssumption DEF HostOK, PortOK, BoardOK, ReadTimeout,
     ARDUINO_SERIAL_STABILIZE_SEC
<1>4. /\ held' \in 0..MaxGap /\ sleep_left' \in 0..4 /\ boot_left' \in 0..MaxBoot
      /\ silence' \in 0..2
  BY <1>2, <1>3, SMT
<1>5. HostOK' /\ PortOK' /\ BoardOK'
  BY <1>1, <1>2, <1>4, Zenon
     DEF HostOK, PortOK, BoardOK, ReadTimeout, ARDUINO_SERIAL_STABILIZE_SEC
<1>6. boot_left' > 0 => boot_left > 0
  BY <1>2, <1>3, SMT
<1>7. boot_left' > 0 => rx' = <<>> /\ board' = "boot"
  BY <1>1, <1>2, <1>6, Zenon
<1>8. PauseInv'
  <2>1. boot_left' > 0 => host' = "opened" /\ boot_left' <= sleep_left'
    BY <1>1, <1>2, <1>3, SMT DEF PauseInv
  <2> QED
    BY <1>1, <1>2, <2>1, Zenon DEF PauseInv
<1>9. ReadInv' /\ WholeInv' /\ OwnInv'
  BY <1>1, <1>2, SameView DEF view
<1> QED
  BY <1>5, <1>7, <1>8, <1>9, Zenon DEF SerialInv, SerialTypeOK

\* So does the end of the board's boot.
LEMMA BootedInv == ASSUME SerialInv, Booted PROVE SerialInv'
<1>1. /\ HostOK /\ PortOK /\ BoardOK /\ PauseInv /\ ReadInv /\ WholeInv /\ OwnInv
  BY Zenon DEF SerialInv, SerialTypeOK
<1>2. /\ board = "boot" /\ boot_left = 0 /\ board' = "loop"
      /\ UNCHANGED <<host, command, sleep_left, result, session, to_arduino, to_host, held,
                     auto_reset, boot_left, rx, string, silence, msg, cmd, space_idx, length,
                     split>>
  BY DEF Booted, BoardStep, host_vars, sketch
<1>3. HostOK' /\ PortOK' /\ BoardOK' /\ ~(boot_left' > 0)
  <2>1. ~(boot_left' > 0)
    BY <1>2, SMT
  <2> QED
    BY <1>1, <1>2, <2>1, Zenon DEF HostOK, PortOK, BoardOK
<1>4. PauseInv' /\ ReadInv'
  BY <1>1, <1>2, <1>3, Zenon DEF PauseInv, ReadInv
<1>5. Left' = Left
  BY <1>2 DEF Left, Heard
<1>6. Fresh => Fresh'
  BY <1>2 DEF Fresh
<1>7. Hearing => Hearing'
  BY <1>2, <1>5 DEF Hearing
<1>8. ~Telling
  BY <1>2 DEF Telling
<1>9. WholeInv'
  BY <1>1, <1>2, <1>6, <1>7, <1>8, SMT DEF WholeInv
<1>10. Begun' = Begun
  BY <1>2 DEF Begun, Told
<1>11. OwnInv'
  BY <1>1, <1>2, <1>5, <1>6, <1>10, SMT DEF OwnInv, OwnAnswer
<1> QED
  BY <1>3, <1>4, <1>9, <1>11, Zenon DEF SerialInv, SerialTypeOK

\* So does the board's look at its buffer.
LEMMA AvailableInv == ASSUME SerialInv, Available PROVE SerialInv'
<1>1. /\ HostOK /\ PortOK /\ BoardOK /\ PauseInv /\ ReadInv /\ WholeInv /\ OwnInv
      /\ boot_left > 0 => rx = <<>> /\ board = "boot"
  BY Zenon DEF SerialInv, SerialTypeOK
<1>2. /\ board \in {"loop", "again"} /\ rx # <<>> /\ board' = "reading"
      /\ string' = <<>> /\ silence' = 0
      /\ UNCHANGED <<host, command, sleep_left, result, session, to_arduino, to_host, held,
                     auto_reset, boot_left, rx, msg, cmd, space_idx, length, split>>
  BY DEF Available, BoardStep, host_vars, sketch
<1>3. /\ rx \in Seq(Pieces) /\ to_arduino \in Seq(Pieces) /\ string' \in Seq(Pieces)
      /\ msg \in Seq(Pieces)
  BY <1>1, <1>2, EmptySeq DEF PortOK, BoardOK
<1>4. HostOK' /\ PortOK' /\ BoardOK' /\ ~(boot_left' > 0)
  <2>1. silence' \in 0..2 /\ board' \in {"boot", "loop", "reading", "again"}
    BY <1>2
  <2> QED
    BY <1>1, <1>2, <1>3, <2>1, Zenon DEF HostOK, PortOK, BoardOK, ReadTimeout
<1>5. PauseInv' /\ ReadInv'
  BY <1>1, <1>2, <1>4, Zenon DEF PauseInv, ReadInv
<1>6. Left' = rx \o to_arduino /\ rx \o to_arduino \in Seq(Pieces)
  <2>1. /\ rx \o to_arduino \in Seq(Pieces)
        /\ <<>> \o (rx \o to_arduino) = rx \o to_arduino
    BY <1>3, ConcatProperties, ConcatEmptySeq
  <2>2. Heard' = <<>>
    BY <1>2 DEF Heard
  <2> QED
    BY <1>2, <2>1, <2>2 DEF Left
<1>7. ~Fresh /\ ~Telling
  BY <1>2 DEF Fresh, Telling
<1>8. rx \o to_arduino # <<>>
  BY <1>2, <1>3, ConcatEqualIffEmpty
<1>9. Hearing => Hearing'
  <2> SUFFICES ASSUME Hearing PROVE Hearing'
    OBVIOUS
  <2>1. board = "loop" /\ result = <<>> /\ to_host = <<>> /\ Left = command
    BY <1>2, <1>8 DEF Hearing
  <2>2. Left = rx \o to_arduino
    <3>1. Heard = <<>>
      BY <2>1 DEF Heard
    <3> QED
      BY <1>6, <3>1, ConcatEmptySeq DEF Left
  <2> QED
    BY <1>2, <1>6, <2>1, <2>2 DEF Hearing
<1>10. WholeInv'
  BY <1>1, <1>2, <1>7, <1>9, SMT DEF WholeInv
<1>11. Begun' = Begun
  BY <1>2 DEF Begun, Told
<1>12. OwnInv'
  <2>1. ASSUME host = "receiving", auto_reset PROVE Ends(command, Left')
    <3>1. command \in Seq(Pieces) /\ Ends(command, Left)
      BY <1>1, <2>1, CommandType DEF OwnInv, PauseInv
    <3>2. Heard \in Seq(Pieces)
      BY <1>2, <1>3, EmptySeq DEF Heard
    <3> QED
      BY <1>6, <3>1, <3>2, EndsTail DEF Left
  <2> QED
    BY <1>1, <1>2, <1>7, <1>11, <2>1, SMT DEF OwnInv, OwnAnswer
<1> QED
  BY <1>4, <1>5, <1>10, <1>12, Zenon DEF SerialInv, SerialTypeOK

\* So does a piece that the board reads.
LEMMA ReadPieceInv == ASSUME SerialInv, ReadPiece PROVE SerialInv'
<1>1. /\ HostOK /\ PortOK /\ BoardOK /\ PauseInv /\ ReadInv /\ WholeInv /\ OwnInv
      /\ boot_left > 0 => rx = <<>> /\ board = "boot"
  BY Zenon DEF SerialInv, SerialTypeOK
<1>2. /\ board = "reading" /\ rx # <<>> /\ string' = Append(string, Head(rx))
      /\ rx' = Tail(rx) /\ silence' = 0
      /\ UNCHANGED <<board, host, command, sleep_left, result, session, to_arduino, to_host,
                     held, auto_reset, boot_left, msg, cmd, space_idx, length, split>>
  BY DEF ReadPiece, BoardStep, host_vars, sketch
<1>3. rx \in Seq(Pieces) /\ to_arduino \in Seq(Pieces) /\ string \in Seq(Pieces)
  BY <1>1 DEF PortOK, BoardOK
<1>4. /\ rx' \in Seq(Pieces) /\ string' \in Seq(Pieces) /\ string' \o rx' = string \o rx
  BY <1>2, <1>3, Pass
<1>5. string' # <<>>
  BY <1>2, <1>3, HeadTailProperties, AppendProperties
<1>6. HostOK' /\ PortOK' /\ BoardOK' /\ ~(boot_left' > 0)
  <2>1. silence' \in 0..2
    BY <1>2
  <2> QED
    BY <1>1, <1>2, <1>4, <2>1, Zenon DEF HostOK, PortOK, BoardOK, ReadTimeout
<1>7. PauseInv' /\ ReadInv'
  BY <1>1, <1>2, <1>5, <1>6, Zenon DEF PauseInv, ReadInv
<1>8. Left' = Left
  <2>1. Left = string \o (rx \o to_arduino) /\ Left' = string' \o (rx' \o to_arduino)
    BY <1>2 DEF Left, Heard
  <2>2. string \o (rx \o to_arduino) = (string \o rx) \o to_arduino
    BY <1>3, ConcatAssociative
  <2>3. string' \o (rx' \o to_arduino) = (string' \o rx') \o to_arduino
    <3> DEFINE s == string'
               r == rx'
    <3>1. s \in Seq(Pieces) /\ r \in Seq(Pieces)
      BY <1>4
    <3> HIDE DEF s, r
    <3>2. s \o (r \o to_arduino) = (s \o r) \o to_arduino
      BY <1>3, <3>1, Assoc
    <3> QED
      BY <3>2 DEF s, r
  <2> QED
    BY <1>4, <2>1, <2>2, <2>3
<1>9. ~Fresh /\ ~Telling
  BY <1>2 DEF Fresh, Telling
<1>10. Hearing => Hearing'
  BY <1>2, <1>8 DEF Hearing
<1>11. WholeInv'
  BY <1>1, <1>2, <1>9, <1>10, SMT DEF WholeInv
<1>12. Begun' = Begun
  BY <1>2 DEF Begun, Told
<1>13. OwnInv'
  BY <1>1, <1>2, <1>8, <1>9, <1>12, SMT DEF OwnInv, OwnAnswer
<1> QED
  BY <1>6, <1>7, <1>11, <1>13, Zenon DEF SerialInv, SerialTypeOK

\* So does the end of its reading.
LEMMA ReadEndsInv == ASSUME SerialInv, ReadEnds PROVE SerialInv'
<1>1. /\ HostOK /\ PortOK /\ BoardOK /\ PauseInv /\ ReadInv /\ WholeInv /\ OwnInv
      /\ boot_left > 0 => rx = <<>> /\ board = "boot"
  BY Zenon DEF SerialInv, SerialTypeOK
<1>2. /\ board = "reading" /\ rx = <<>> /\ msg' = string /\ board' = "again"
      /\ split' = (split \/ to_arduino # <<>>)
      /\ UNCHANGED <<host, command, sleep_left, result, session, to_arduino, to_host, held,
                     auto_reset, boot_left, rx, string, silence, cmd, space_idx, length>>
  BY DEF ReadEnds, BoardStep, host_vars
<1>3. ~(boot_left > 0) /\ split' \in BOOLEAN
  BY <1>1, <1>2 DEF BoardOK
<1>4. HostOK' /\ PortOK' /\ BoardOK' /\ ~(boot_left' > 0)
  <2>1. msg' \in Seq(Pieces) /\ board' \in {"boot", "loop", "reading", "again"}
    BY <1>1, <1>2 DEF BoardOK
  <2> QED
    BY <1>1, <1>2, <1>3, <2>1, Zenon DEF HostOK, PortOK, BoardOK
<1>5. PauseInv' /\ ReadInv'
  BY <1>1, <1>2, <1>3, Zenon DEF PauseInv, ReadInv
<1>6. Left' = Left
  BY <1>2 DEF Left, Heard
<1>7. ~Fresh /\ ~Telling
  BY <1>2 DEF Fresh, Telling
<1>8. Hearing /\ ~split' => Hearing' /\ ~split
  <2> SUFFICES ASSUME Hearing, ~split' PROVE Hearing' /\ ~split
    OBVIOUS
  <2>1. to_arduino = <<>> /\ ~split
    BY <1>2
  <2>2. rx' \o to_arduino' = <<>>
    <3>1. <<>> \o <<>> = <<>>
      BY ConcatEmptySeq, EmptySeq
    <3> QED
      BY <1>2, <2>1, <3>1
  <2> QED
    BY <1>2, <1>6, <2>1, <2>2 DEF Hearing
<1>9. WholeInv'
  <2>1. ~split' => ~split
    BY <1>2
  <2> QED
    BY <1>1, <1>2, <1>7, <1>8, <2>1, SMT DEF WholeInv
<1>10. Begun' = Begun
  BY <1>2 DEF Begun, Told
<1>11. OwnInv'
  BY <1>1, <1>2, <1>6, <1>7, <1>10, SMT DEF OwnInv, OwnAnswer
<1> QED
  BY <1>4, <1>5, <1>9, <1>11, Zenon DEF SerialInv, SerialTypeOK

\* The sketch answers with AnswerTo, whatever it kept of an earlier message.
LEMMA RespondAnswer ==
  ASSUME SerialTypeOK, Respond
  PROVE  /\ to_host' = to_host \o AnswerTo(msg, length')
         /\ length' = IF IndexOf(msg, Blank) = NoIndex THEN length ELSE Len(msg)
         /\ cmd' = NameOf(msg) /\ space_idx' = IndexOf(msg, Blank)
         /\ cmd' \in Seq(Pieces) /\ space_idx' \in Nat /\ length' \in Nat
<1>1. msg \in Seq(Pieces) /\ length \in Nat /\ Len(msg) \in Nat /\ NoNewline(msg)
  BY PiecesNoNewline, LenProperties DEF SerialTypeOK, BoardOK
<1>2. space_idx' = IndexOf(msg, Blank) /\ space_idx' \in Nat
  BY <1>1, IndexType DEF Respond, SplitUp
<1>3. /\ length' = IF IndexOf(msg, Blank) = NoIndex THEN length ELSE Len(msg)
      /\ cmd' = NameOf(msg)
  BY <1>2, Zenon DEF Respond, SplitUp, NameOf
<1>4. to_host' = to_host \o AnswerTo(msg, length')
  BY <1>2, <1>3, Zenon DEF Respond, AnswerTo
<1>5. length' \in Nat /\ cmd' \in Seq(Pieces)
  BY <1>1, <1>3, NameType
<1> QED
  BY <1>2, <1>3, <1>4, <1>5

\* So does its answer.
LEMMA RespondInv == ASSUME SerialInv, Respond PROVE SerialInv'
<1>1. /\ HostOK /\ PortOK /\ BoardOK /\ PauseInv /\ ReadInv /\ WholeInv /\ OwnInv
      /\ SerialTypeOK
      /\ boot_left > 0 => rx = <<>> /\ board = "boot"
  BY Zenon DEF SerialInv, SerialTypeOK
<1>2. /\ board = "again" /\ rx = <<>> /\ board' = "loop"
      /\ UNCHANGED <<host, command, sleep_left, result, session, to_arduino, held,
                     auto_reset, boot_left, rx, string, silence, msg, split>>
  BY DEF Respond, BoardStep, host_vars
<1>3. /\ to_host' = to_host \o AnswerTo(msg, length')
      /\ length' = IF IndexOf(msg, Blank) = NoIndex THEN length ELSE Len(msg)
      /\ cmd' \in Seq(Pieces) /\ space_idx' \in Nat /\ length' \in Nat
  BY <1>1, RespondAnswer
<1>4. /\ msg \in Seq(Pieces) /\ msg # <<>> /\ Len(msg) \in Nat /\ to_arduino \in Seq(Pieces)
      /\ result \in Seq(Text) /\ to_host \in Seq(Text)
  BY <1>1, <1>2, LenProperties DEF HostOK, PortOK, BoardOK, ReadInv
<1>5. AnswerTo(msg, length') \in Seq(Text) /\ OneLine(AnswerTo(msg, length'))
  BY <1>3, <1>4, AnswerToLine DEF OneLine
<1>6. to_host' \in Seq(Text)
  BY <1>3, <1>4, <1>5, ConcatProperties
<1>7. HostOK' /\ PortOK' /\ BoardOK' /\ ~(boot_left' > 0)
  <2>1. board' \in {"boot", "loop", "reading", "again"} /\ ~(boot_left' > 0)
    BY <1>1, <1>2
  <2> QED
    BY <1>1, <1>2, <1>3, <1>6, <2>1, Zenon DEF HostOK, PortOK, BoardOK
<1>8. PauseInv' /\ ReadInv'
  BY <1>1, <1>2, <1>7, Zenon DEF PauseInv, ReadInv
<1>9. ~Fresh /\ ~Telling
  BY <1>2 DEF Fresh, Telling
<1>10. Left = msg \o to_arduino /\ Left' = to_arduino
  <2>1. <<>> \o to_arduino = to_arduino
    BY <1>4, ConcatEmptySeq
  <2> QED
    BY <1>2, <2>1 DEF Left, Heard
<1> DEFINE answer == AnswerTo(msg, length')
<1>11. WholeInv'
  <2>1. ASSUME ~split, host = "receiving" PROVE Telling'
    <3>1. Hearing
      BY <1>1, <1>9, <2>1 DEF WholeInv
    <3>2. to_arduino = <<>>
      BY <1>2, <1>4, <3>1, ConcatEmptySeq DEF Hearing
    <3>3. msg = command
      BY <1>4, <1>10, <3>1, <3>2, ConcatEmptySeq DEF Hearing
    <3>4. command \in Commands
      BY <1>1, <2>1 DEF PauseInv
    <3>5. answer = Expected(command)
      BY <1>3, <3>3, <3>4, ExpectedAnswer
    <3>6. result = <<>> /\ to_host = <<>>
      BY <3>1 DEF Hearing
    <3>7. to_host' = Expected(command) /\ <<>> \o Expected(command) = Expected(command)
      BY <1>3, <1>5, <3>5, <3>6, ConcatEmptySeq
    <3>8. Told(Expected(command))'
      BY <1>2, <1>5, <3>5, <3>6, <3>7, LineStarts, NothingRead DEF Told
    <3> QED
      BY <1>2, <3>2, <3>6, <3>7, <3>8 DEF Telling
  <2> QED
    BY <1>1, <1>2, <1>9, <2>1, SMT DEF WholeInv
<1>12. OwnInv'
  <2>1. ASSUME host = "receiving", auto_reset
        PROVE  Ends(command, to_arduino) /\ length' \in 0..Len(command) /\ Begun'
    <3>1. command \in Seq(Pieces) /\ Len(command) \in Nat
      BY <1>1, <2>1, CommandType DEF PauseInv
    <3>2. /\ Ends(command, msg \o to_arduino) /\ length \in 0..Len(command)
          /\ (result = <<>> /\ to_host = <<>>) \/ Begun
      BY <1>1, <1>10, <2>1 DEF OwnInv
    <3>3. Ends(command, to_arduino)
      BY <1>4, <3>1, <3>2, EndsTail
    <3>4. msg \in Parts(command)
      BY <1>4, <3>1, <3>2, EndsPart
    <3>5. Len(msg) <= Len(command)
      <4>1. Len(msg \o to_arduino) = Len(msg) + Len(to_arduino) /\ Len(to_arduino) \in Nat
        BY <1>4, ConcatProperties, LenProperties
      <4>2. Len(msg \o to_arduino) <= Len(command)
        BY <3>2 DEF Ends
      <4> QED
        BY <1>4, <3>1, <4>1, <4>2
    <3>6. length' \in 0..Len(command)
      BY <1>3, <1>4, <3>1, <3>2, <3>5
    <3>7. Begun'
      <4>1. CASE result = <<>> /\ to_host = <<>>
        <5>1. to_host' = answer /\ <<>> \o answer = answer
          BY <1>3, <1>5, <4>1, ConcatEmptySeq
        <5>2. Told(AnswerTo(msg, length))'
          BY <1>2, <1>5, <4>1, <5>1, LineStarts, NothingRead DEF Told
        <5> QED
          BY <1>2, <3>4, <3>6, <5>2 DEF Begun
      <4>2. CASE Begun
        <5>1. PICK text \in Parts(command), n \in 0..Len(command) : Told(AnswerTo(text, n))
          BY <4>2 DEF Begun
        <5>2. AnswerTo(text, n) \in Seq(Text)
          BY <3>1, PartsType, AnswerToLine DEF OneLine
        <5>3. result \o to_host \in Seq(Text) /\ Starts(result \o to_host, AnswerTo(text, n))
          BY <1>4, <5>1, ConcatProperties DEF Told
        <5>4. Starts((result \o to_host) \o answer, AnswerTo(text, n))
          BY <1>5, <5>2, <5>3, StartsConcat
        <5>5. (result \o to_host) \o answer = result \o to_host'
          <6>1. result \o (to_host \o answer) = (result \o to_host) \o answer
            <7> HIDE DEF answer
            <7> QED
              BY <1>4, <1>5, Assoc
          <6> QED
            BY <1>3, <6>1
        <5>6. Told(AnswerTo(text, n))'
          BY <1>2, <5>1, <5>4, <5>5 DEF Told
        <5> QED
          BY <1>2, <5>6 DEF Begun
      <4> QED
        BY <3>2, <4>1, <4>2
    <3> QED
      BY <3>3, <3>6, <3>7
  <2> QED
    BY <1>1, <1>2, <1>9, <1>10, <2>1, SMT DEF OwnInv, OwnAnswer
<1> QED
  BY <1>7, <1>8, <1>11, <1>12, Zenon DEF SerialInv, SerialTypeOK

\* Every step keeps the invariant.
LEMMA SerialStep == SerialInv /\ [SerialNext]_serial_vars => SerialInv'
<1> SUFFICES ASSUME SerialInv, [SerialNext]_serial_vars PROVE SerialInv'
  OBVIOUS
<1>1. CASE Host
  BY <1>1, OpenInv, OpenFailsInv, SerialPutsInv, ReceiveInv, SerialCloseInv DEF Host
<1>2. CASE Deliver
  BY <1>2, DeliverInv
<1>3. CASE Tick
  BY <1>3, TickInv
<1>4. CASE Sketch
  BY <1>4, BootedInv, AvailableInv, ReadPieceInv, ReadEndsInv, RespondInv DEF Sketch
<1>5. CASE UNCHANGED serial_vars
  <2>1. UNCHANGED <<host, command, sleep_left, result, session, to_arduino, to_host, held,
                    auto_reset, board, boot_left, rx, string, silence, msg, cmd, space_idx,
                    length, split>>
    BY <1>5 DEF serial_vars, host_vars, port_vars, sketch
  <2>2. HostOK' /\ PortOK' /\ BoardOK' /\ PauseInv'
    BY <2>1, Zenon DEF SerialInv, SerialTypeOK, HostOK, PortOK, BoardOK, PauseInv
  <2>3. (boot_left > 0 => rx = <<>> /\ board = "boot")'
    BY <2>1, Zenon DEF SerialInv, SerialTypeOK
  <2>4. ReadInv' /\ WholeInv' /\ OwnInv'
    BY <2>1, SameView DEF SerialInv, view
  <2> QED
    BY <2>2, <2>3, <2>4, Zenon DEF SerialInv, SerialTypeOK
<1> QED
  BY <1>1, <1>2, <1>3, <1>4, <1>5 DEF SerialNext

\* The invariant of the link: the pause after the opening outlasts the boot, the
\* board holds an end of the command that was sent, and what the host reads is
\* the answer to it.
THEOREM SerialCorrect == SerialSpec => []SerialInv
<1> QED
  BY InitSerial, SerialStep, PTL DEF SerialSpec

\* The variables keep their types, whatever the commands and the delays: all
\* that the board reads are pieces of commands, and while it boots it has none.
THEOREM SerialTypes == SerialSpec => []SerialTypeOK
<1>1. SerialInv => SerialTypeOK
  BY DEF SerialInv
<1> QED
  BY <1>1, SerialCorrect, PTL

\* send_command_to_arduino returns the whole answer to the command it sent, if
\* no pause within the command was as long as the timeout of readString.
THEOREM AnswersWhole == SerialSpec => []WholeAnswer
<1>1. SerialInv => WholeAnswer
  BY DEF SerialInv, WholeInv, WholeAnswer, Ended
<1> QED
  BY <1>1, SerialCorrect, PTL

\* With the board reset by every opening, and whatever was split, it returns one
\* line, and the sketch said it of a part of this very command.
THEOREM AnswersOwn == SerialSpec => []AnswersOwnCommand
<1>1. SerialInv => AnswersOwnCommand
  BY DEF SerialInv, OwnInv, AnswersOwnCommand
<1> QED
  BY <1>1, SerialCorrect, PTL
=============================================================================
