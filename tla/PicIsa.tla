------------------------------- MODULE PicIsa -------------------------------
(***************************************************************************)
(* The instruction set as a program sees it: each instruction is one step  *)
(* on W, the memory and the skip flag, and reading instructions answer     *)
(* with one value.  TMR0 counts instructions, or mirrors the count of      *)
(* external edges when bit 5 of OPTION is set.                             *)
(***************************************************************************)
EXTENDS AluFunctions, Sequences

CONSTANTS IsaRamSize, Instructions, None

VARIABLES w, ram, acc,   \* W, the memory, and the ALU's last output
          last,          \* the last computed result, which DECFSZ/INCFSZ flag
          carried,       \* the flags the ALU carries on itself
          skip,          \* the next instruction is to be skipped
          strobe,        \* a direct write of EECON is being shown to the I2C master
          external_count,
          following,     \* TMR0 follows external_count: OPTION's bit 5, one clock late
          todo,                 \* the instructions sent and not yet executed
          answer, shown,        \* an answer not yet printed, and what was printed last
          running               \* the board is not held in reset

isa_vars == <<w, ram, acc, last, carried, skip, strobe, external_count, following,
              todo, answer, shown, running>>

IsaInit ==
    /\ w = 0 /\ acc = 0 /\ last = 0 /\ carried = 0 /\ skip = FALSE /\ strobe = FALSE
    /\ ram = [a \in 0..IsaRamSize - 1 |-> 0]
    /\ external_count = 0 /\ following = FALSE
    /\ todo = <<>> /\ answer = None
    /\ shown = <<>>
    /\ running = TRUE

\* While following, TMR0 takes over the count at any moment.
Settled(r, count) ==
    {r} \cup (IF following THEN {[r EXCEPT ![TMR0_ADDRESS] = count]} ELSE {})

Cell(a) == IF a = INDF_ADDRESS THEN ram[FSR_ADDRESS] % 128 ELSE a

\* What instruction i operates on.  A cell outside the memory has no value of
\* its own.
Operands(i) == CASE ~i.from_ram                               -> {i.literal}
                 [] i.from_ram /\ Cell(i.address) \in DOMAIN ram -> {ram[Cell(i.address)]}
                 [] OTHER                                     -> Byte

\* The memory after storing v through address a: the status flags cannot be
\* written directly, and cell 0 only ever holds zero.
Store(a, v) ==
    [ram EXCEPT ![Cell(a)] = CASE Cell(a) = INDF_ADDRESS -> 0
                               [] a = STATUS_ADDRESS     -> 32 * (v \div 32) + (@ % 32)
                               [] OTHER                  -> v]

WithStatus(r, flags) == [r EXCEPT ![STATUS_ADDRESS] = 8 * (@ \div 8) + (flags % 8)]

\* Every instruction, NOP and dumps included, is one tick of TMR0; the tick
\* wins over the instruction's own write of TMR0.
Ticked(r) ==
    [r EXCEPT ![TMR0_ADDRESS] = IF following THEN external_count
                                ELSE (ram[TMR0_ADDRESS] + 1) % 256]

\* The flags go from `carried` to STATUS with every instruction that stores, and
\* a read that is skipped clears `carried` alone: what it cleared is gone from
\* STATUS after the next instruction that keeps it.
Execute ==
    /\ running /\ todo # <<>>
    /\ \E m \in Operands(Head(todo)) :
       LET i     == Head(todo)
           op    == IF skip THEN NOP ELSE i.opcode
           s     == ram[STATUS_ADDRESS]
           out   == Output(op, w, m, s, i.bit_idx, acc)
           flags == Flags(op, w, m, s, i.bit_idx, carried, last)
           toAlu == i.type \notin {DumpRam, DumpEeprom}
       IN
       /\ acc' = IF toAlu THEN out ELSE acc
       /\ last' = IF toAlu THEN LastResult(op, w, m, s, i.bit_idx, last) ELSE last
       /\ carried' = IF toAlu THEN flags ELSE carried
       /\ skip' = IF toAlu THEN Skips(op, m) ELSE skip
       /\ w' = IF i.type \in {Literal, ToWreg} THEN out ELSE w
       /\ ram' = Ticked(CASE i.type \in {Literal, ToWreg} -> WithStatus(ram, flags)
                          [] i.type = ToRam -> WithStatus(Store(i.address, out), flags)
                          [] OTHER          -> ram)
       /\ strobe' = (i.type = ToRam /\ i.address = EECON_ADDRESS)
       /\ answer' = CASE i.type \in {ReadReg, ReadMem} -> <<out>>
                      [] i.type = DumpRam -> [n \in 1..IsaRamSize |-> ram[n - 1]]
                      [] OTHER            -> None
       /\ todo' = Tail(todo)
       /\ UNCHANGED <<external_count, following, shown, running>>

\* The host sends the next instruction while the last may still be running.
Send(i) ==
    /\ running /\ Len(todo) < 2 /\ answer = None
    /\ todo' = Append(todo, i)
    /\ UNCHANGED <<w, ram, acc, last, carried, skip, strobe, external_count, following, answer,
                   shown, running>>

Show ==
    /\ answer # None
    /\ shown' = answer
    /\ answer' = None
    /\ ram' \in Settled(ram, external_count)
    /\ UNCHANGED <<w, acc, last, carried, skip, strobe, external_count, following, todo,
                   running>>

\* The control bits of EECON fall back after a direct write.
EndStrobe ==
    /\ strobe /\ ~strobe'
    /\ ram' \in Settled([ram EXCEPT ![EECON_ADDRESS] = 4 * (@ \div 4)], external_count)
    /\ UNCHANGED <<w, acc, last, carried, skip, external_count, following, todo, answer, shown,
                   running>>

Mirror ==
    /\ ram' \in Settled(ram, external_count)
    /\ UNCHANGED <<w, acc, last, carried, skip, strobe, external_count, following, todo, answer,
                   shown, running>>

SetMode ==
    /\ following' = (Bit(ram[OPTION_ADDRESS], 5) = 1)
    /\ UNCHANGED <<w, ram, acc, last, carried, skip, strobe, external_count, todo, answer, shown,
                   running>>

ExternalEdge ==
    /\ external_count' = (external_count + 1) % 256
    /\ ram' \in Settled(ram, external_count')
    /\ UNCHANGED <<w, acc, last, carried, skip, strobe, following, todo, answer, shown, running>>

\* A reset forgets everything but what the host has printed.
IsaReset ==
    /\ running /\ ~running'
    /\ answer = None
    /\ w' = 0 /\ acc' = 0 /\ last' = 0 /\ carried' = 0 /\ skip' = FALSE /\ strobe' = FALSE
    /\ ram' = [a \in 0..IsaRamSize - 1 |-> 0]
    /\ external_count' = 0 /\ following' = FALSE
    /\ todo' = <<>>
    /\ UNCHANGED <<answer, shown>>

IsaRestart ==
    /\ ~running /\ running'
    /\ UNCHANGED <<w, ram, acc, last, carried, skip, strobe, external_count, following, todo,
                   answer, shown>>

IsaNext ==
    \/ Execute
    \/ \E i \in Instructions : Send(i)
    \/ Show \/ EndStrobe \/ Mirror \/ SetMode \/ ExternalEdge
    \/ IsaReset \/ IsaRestart

IsaSpec == IsaInit /\ [][IsaNext]_isa_vars
=============================================================================
