---------------------------- MODULE Adder_proofs ----------------------------
(***************************************************************************)
(* For any number of programs, operands, widths and insertions: the kernel *)
(* holds all of the module or nothing, a callback finds its registers      *)
(* except while the module is being loaded, and every program prints the   *)
(* sum of its own operands.                                                *)
(***************************************************************************)
EXTENDS AdderPrograms, TLAPS

\* What the module holds depends on how far adder_init or adder_exit is.
HeldInv ==
    /\ registered <=> module \notin {"absent", "register", "release_region", "unmap"}
    /\ file <=> module \in {"request_region", "remap", "loaded", "undo_remap", "undo_region",
                            "remove_file"}
    /\ region <=> module \in {"remap", "loaded", "undo_remap", "remove_file", "unregister",
                              "release_region"}
    /\ adder_mem => module \in {"loaded", "remove_file", "unregister", "release_region", "unmap"}
    /\ module \in {"loaded", "remove_file", "unmap"} => adder_mem

\* A descriptor of this insertion was opened when the file was there, and a
\* callback is only under way until the file is removed.
OpenedInv ==
    /\ loads \in Nat /\ fd \in [Programs -> Nat]
    /\ module # "absent" => loads # 0
    /\ \A p \in Programs :
           /\ fd[p] <= loads
           /\ fd[p] = loads => module \notin {"register", "create_file"}
           /\ p \in DirectUsers => fd[p] = Closed
    /\ in_callback # {} => file

DriverInv == HeldInv /\ OpenedInv

\* Nothing is held or open at first.
LEMMA InitDriver == AdderInitAll => DriverInv
BY ProgramsAssumption DEF AdderInitAll, DriverInit, DriverInv, HeldInv, OpenedInv, Closed

\* adder_init and adder_exit, step by step.
LEMMA ModuleKeeps ==
  ASSUME DriverInv, ModuleStep
  PROVE  DriverInv'
<1> USE DEF DriverInv, HeldInv, OpenedInv, Closed, program_vars, Resources
<1>0. ModuleNext /\ UNCHANGED <<in_callback, fd>>
  BY DEF ModuleStep
<1>1. CASE Insert BY <1>0, <1>1, SMTT(30) DEF Insert
<1>2. CASE DriverRegister BY <1>0, <1>2, SMTT(30) DEF DriverRegister
<1>3. CASE DriverCreateFile BY <1>0, <1>3, SMTT(30) DEF DriverCreateFile
<1>4. CASE RequestMemRegion BY <1>0, <1>4, SMTT(30) DEF RequestMemRegion
<1>5. CASE Ioremap BY <1>0, <1>5, SMTT(30) DEF Ioremap
<1>6. CASE Remove BY <1>0, <1>6, SMTT(30) DEF Remove
<1>7. CASE RemoveFile BY <1>0, <1>7, SMTT(30) DEF RemoveFile
<1>8. CASE DriverUnregister BY <1>0, <1>8, SMTT(30) DEF DriverUnregister
<1>9. CASE ReleaseMemRegion BY <1>0, <1>9, SMTT(30) DEF ReleaseMemRegion
<1>10. CASE Iounmap BY <1>0, <1>10, SMTT(30) DEF Iounmap
<1>11. QED
  BY <1>0, <1>1, <1>2, <1>3, <1>4, <1>5, <1>6, <1>7, <1>8, <1>9, <1>10 DEF ModuleNext

\* A program opens the file and goes in and out of the callbacks.
LEMMA ProgramKeeps ==
  ASSUME DriverInv, NEW p \in Programs, ProgramStep(p)
  PROVE  DriverInv'
<1>1. CASE Open(p)
  <2>1. UNCHANGED <<driver_vars, in_callback>>
    BY <1>1 DEF Open
  <2>2. /\ p \notin DirectUsers
        /\ fd' = [fd EXCEPT ![p] = IF file THEN loads ELSE Closed]
    BY <1>1 DEF Open
  <2>3. QED
    BY <2>1, <2>2, SMTT(30) DEF DriverInv, HeldInv, OpenedInv, driver_vars, Closed
<1>2. CASE UNCHANGED <<driver_vars, fd>> /\ in_callback' \subseteq in_callback
  BY <1>2 DEF DriverInv, HeldInv, OpenedInv, driver_vars
<1>3. CASE UNCHANGED <<driver_vars, fd>> /\ Alive(p)
  BY <1>3 DEF Alive, DriverInv, HeldInv, OpenedInv, driver_vars
<1>4. MapMemory(p) \/ Store1(p) \/ Store2(p) \/ Load(p) \/ PollResult(p) \/ Fault(p)
        => UNCHANGED <<driver_vars, fd>> /\ in_callback' \subseteq in_callback
  BY DEF MapMemory, Store1, Store2, Load, PollResult, Fault
<1>5. Write(p) \/ Read(p)
        => UNCHANGED <<driver_vars, fd>> /\ (in_callback' \subseteq in_callback \/ Alive(p))
  BY DEF Write, Read
<1>6. QED
  BY <1>1, <1>2, <1>3, <1>4, <1>5 DEF ProgramStep

\* Every step keeps what the module holds and what is opened in agreement.
LEMMA DriverKept ==
  ASSUME DriverInv, [AdderNext]_vars
  PROVE  DriverInv'
<1>1. CASE UNCHANGED vars
  BY <1>1 DEF vars, driver_vars, program_vars, DriverInv, HeldInv, OpenedInv
<1>2. QED
  BY <1>1, ModuleKeeps, ProgramKeeps DEF AdderNext

\* The flags are never anything but flags.
HeldType == registered \in BOOLEAN /\ file \in BOOLEAN /\ region \in BOOLEAN /\ adder_mem \in BOOLEAN

\* The flags of what the module holds are Booleans throughout.
LEMMA HeldTypeAlways == AdderSpec => []HeldType
<1>1. AdderInitAll => HeldType
  BY DEF AdderInitAll, DriverInit, HeldType
<1>2. HeldType /\ [AdderNext]_vars => HeldType'
  <2> SUFFICES ASSUME HeldType, [AdderNext]_vars PROVE HeldType'
    OBVIOUS
  <2>1. CASE ModuleStep
    BY <2>1, Zenon DEF HeldType, ModuleStep, ModuleNext, Insert, DriverRegister, DriverCreateFile,
       RequestMemRegion, Ioremap, Remove, RemoveFile, DriverUnregister, ReleaseMemRegion, Iounmap,
       Resources
  <2>2. ASSUME NEW p \in Programs, ProgramStep(p) PROVE UNCHANGED driver_vars
    BY <2>2 DEF ProgramStep, Open, MapMemory, Write, Store1, Store2, Read, Load, PollResult, Fault
  <2>3. QED
    BY <2>1, <2>2 DEF HeldType, AdderNext, vars, driver_vars
<1>3. QED
  BY <1>1, <1>2, PTL DEF AdderSpec

\* The driver's invariant holds throughout.
LEMMA DriverAlways == AdderSpec => []DriverInv
BY InitDriver, DriverKept, PTL DEF AdderSpec

\* A failed insmod and an rmmod leave nothing of the module behind, wherever
\* adder_init failed (adder_driver.c).
THEOREM NothingLeftBehind == AdderSpec => []AllOrNothing
<1>1. DriverInv /\ HeldType => AllOrNothing
  <2> SUFFICES ASSUME DriverInv, HeldType PROVE AllOrNothing
    OBVIOUS
  <2>1. module = "absent" => ~registered /\ ~file /\ ~region /\ ~adder_mem
    BY DEF DriverInv, HeldInv
  <2>2. module = "loaded" => registered /\ file /\ region /\ adder_mem
    BY DEF DriverInv, HeldInv
  <2>3. QED
    BY <2>1, <2>2, Zenon DEF HeldType, AllOrNothing, Resources
<1>2. QED
  BY <1>1, DriverAlways, HeldTypeAlways, PTL

\* However many programs are in adder_read and adder_write when adder_exit
\* begins, the registers stay mapped until the last has returned; only during
\* adder_init may a callback come before the mapping.
THEOREM CallbacksMapped == AdderSpec => []CallbackFindsRegisters
<1>1. DriverInv => CallbackFindsRegisters
  BY DEF DriverInv, HeldInv, OpenedInv, CallbackFindsRegisters
<1>2. QED
  BY <1>1, DriverAlways, PTL

-----------------------------------------------------------------------------
\* What a register keeps of a number, and the sum of two such numbers.
Kept(n) == n % (2 * Valid)
Added(p) == (Operands[p][1] + Operands[p][2]) % Valid

\* The remainder is unique.
LEMMA Remainder ==
  ASSUME NEW n \in Nat \ {0}, NEW q \in Nat, NEW r \in 0..n - 1
  PROVE  (q * n + r) % n = r
<1> DEFINE x == q * n + r
           d == x \div n
           m == x % n
<1>1. x \in Nat
  OBVIOUS
<1>2. d \in Nat /\ m \in 0..n - 1 /\ x = n * d + m
  BY <1>1
<1>3. q * n + r = n * d + m
  BY <1>2
<1> HIDE DEF d, m
<1>4. q = d
  BY <1>2, <1>3
<1>5. QED
  BY <1>2, <1>3, <1>4 DEF m

\* Multiples of n do not change it.
LEMMA MultiplesVanish ==
  ASSUME NEW n \in Nat \ {0}, NEW q \in Nat, NEW s \in Nat
  PROVE  (q * n + s) % n = s % n
<1> DEFINE d == s \div n
           m == s % n
<1>1. d \in Nat /\ m \in 0..n - 1 /\ s = n * d + m
  OBVIOUS
<1> HIDE DEF d, m
<1>2. q * n + s = (q + d) * n + m /\ q + d \in Nat
  BY <1>1
<1>3. QED
  BY <1>1, <1>2, Remainder DEF m

\* Both moduli are powers of two in the code; here the one is twice the other.
LEMMA KeptSum ==
  ASSUME NEW a \in Nat, NEW b \in Nat
  PROVE  /\ Kept(a) \in Data /\ Kept(b) \in Data
         /\ (Kept(a) + Kept(b)) % Valid = (a + b) % Valid
<1> DEFINE n == 2 * Valid
           qa == a \div n
           qb == b \div n
<1>1. Valid \in Nat \ {0} /\ n \in Nat \ {0}
  BY ValidAssumption
<1>2. qa \in Nat /\ Kept(a) \in 0..n - 1 /\ a = n * qa + Kept(a)
  BY <1>1 DEF Kept
<1>3. qb \in Nat /\ Kept(b) \in 0..n - 1 /\ b = n * qb + Kept(b)
  BY <1>1 DEF Kept
<1>4. Data = 0..n - 1
  BY DEF Data
<1> HIDE DEF qa, qb
<1>5. a + b = (2 * qa + 2 * qb) * Valid + (Kept(a) + Kept(b))
  BY <1>1, <1>2, <1>3
<1>6. 2 * qa + 2 * qb \in Nat /\ Kept(a) + Kept(b) \in Nat
  BY <1>1, <1>2, <1>3
<1> DEFINE q == 2 * qa + 2 * qb
           sum == Kept(a) + Kept(b)
<1>7. (q * Valid + sum) % Valid = sum % Valid
  <2> HIDE DEF q, sum
  <2>1. QED
    BY <1>1, <1>6, MultiplesVanish DEF q, sum
<1>8. (Kept(a) + Kept(b)) % Valid = (a + b) % Valid
  BY <1>5, <1>7
<1>9. QED
  BY <1>2, <1>3, <1>4, <1>8

\* The valid bit is put on the sum and taken off again.
LEMMA SumRead ==
  ASSUME NEW a \in Nat, NEW b \in Nat, operand_1 = a, operand_2 = b
  PROVE  /\ BusRead(RESULT) >= Valid
         /\ Sum(BusRead(RESULT)) = (a + b) % Valid
         /\ (a + b) % Valid \in 0..Valid - 1
BY ValidAssumption, SMTT(30) DEF BusRead, Sum, RESULT, OPERAND_1, OPERAND_2

-----------------------------------------------------------------------------
\* The programs' own variables.
UsersType ==
    /\ operand_1 \in Nat /\ operand_2 \in Nat
    /\ pc \in [Programs -> Steps] /\ position \in [Programs -> Nat]
    /\ value \in [Programs -> Nat] /\ alone \in [Programs -> BOOLEAN]

\* As long as nobody else wrote, the registers hold what the program stored.
StoredInv(p) ==
    alone[p] =>
        /\ pc[p] \in {"store_2", "read", "load", "poll", "done", "killed"}
        /\ operand_1 = Kept(Operands[p][1])
        /\ pc[p] # "store_2" => operand_2 = Kept(Operands[p][2])

\* A number is printed once, at the end; a program that ended without one has
\* no open file.
PrintedInv(p) ==
    /\ value[p] # Nothing => pc[p] = "done"
    /\ (value[p] # Nothing /\ alone[p]) => value[p] = Added(p)
    /\ position[p] # 0 => pc[p] = "done"
    /\ (pc[p] = "done" /\ value[p] = Nothing) => ~Alive(p)
    /\ pc[p] = "poll" => p \in DirectUsers

UsersInv == UsersType /\ \A p \in Programs : StoredInv(p) /\ PrintedInv(p)

\* No program has stored or printed anything at first.
LEMMA InitUsers == AdderInitAll => UsersInv
<1> SUFFICES ASSUME AdderInitAll PROVE UsersInv
  OBVIOUS
<1>1. UsersType
  BY ValidAssumption DEF AdderInitAll, AdderInit, UsersType, Steps, Nothing
<1>2. \A p \in Programs : StoredInv(p) /\ PrintedInv(p)
  BY DEF AdderInitAll, StoredInv, PrintedInv
<1>3. QED
  BY <1>1, <1>2 DEF UsersInv

\* A descriptor that is dead stays dead: the file comes back only with another
\* insertion.
LEMMA DeadStays ==
  ASSUME DriverInv, ModuleStep, NEW p \in Programs, ~Alive(p)
  PROVE  ~Alive(p)'
<1>1. ModuleNext /\ UNCHANGED fd
  BY DEF ModuleStep, program_vars
<1>2. CASE Insert
  BY <1>1, <1>2, SMTT(30) DEF Insert, DriverInv, HeldInv, OpenedInv, Alive
<1>3. CASE DriverCreateFile
  BY <1>1, <1>3, SMTT(30) DEF DriverCreateFile, DriverInv, HeldInv, OpenedInv, Alive
<1>4. CASE UNCHANGED loads /\ (file' => file)
  BY <1>1, <1>4 DEF Alive
<1>5. QED
  BY <1>1, <1>2, <1>3, <1>4 DEF ModuleNext, DriverRegister, RequestMemRegion, Ioremap, Remove,
     RemoveFile, DriverUnregister, ReleaseMemRegion, Iounmap, Resources

\* Loading and unloading the module leaves the programs' results true.
LEMMA ModuleKeepsUsers ==
  ASSUME DriverInv, UsersInv, ModuleStep
  PROVE  UsersInv'
<1>1. UNCHANGED <<adder_registers, program_vars>>
  BY DEF ModuleStep
<1>2. UsersType'
  BY <1>1 DEF UsersInv, UsersType, adder_registers, program_vars
<1>3. ASSUME NEW p \in Programs PROVE StoredInv(p)' /\ PrintedInv(p)'
  <2>1. ~Alive(p) => ~Alive(p)'
    BY DeadStays
  <2>2. StoredInv(p)'
    BY <1>1 DEF UsersInv, StoredInv, adder_registers, program_vars
  <2>3. PrintedInv(p)'
    BY <1>1, <2>1 DEF UsersInv, PrintedInv, program_vars, Nothing, Added
  <2>4. QED
    BY <2>2, <2>3
<1>4. QED
  BY <1>2, <1>3 DEF UsersInv

\* A step of one program leaves the others theirs, or tells that it wrote.
LEMMA OthersKeep ==
  ASSUME DriverInv, UsersInv, NEW p \in Programs, NEW q \in Programs, p # q, ProgramStep(q)
  PROVE  StoredInv(p)' /\ PrintedInv(p)'
<1>1. /\ pc'[p] = pc[p] /\ value'[p] = value[p] /\ position'[p] = position[p]
      /\ fd'[p] = fd[p]
  <2>1. /\ pc \in [Programs -> Steps] /\ value \in [Programs -> Nat]
        /\ position \in [Programs -> Nat] /\ fd \in [Programs -> Nat]
    BY DEF DriverInv, OpenedInv, UsersInv, UsersType
  <2>2. CASE Open(q) \/ MapMemory(q) \/ Write(q)
    BY <2>1, <2>2 DEF Open, MapMemory, Write, Goto
  <2>3. CASE Store1(q) \/ Store2(q) \/ Read(q)
    BY <2>1, <2>3 DEF Store1, Store2, Read, Goto
  <2>4. CASE Load(q) \/ PollResult(q) \/ Fault(q)
    BY <2>1, <2>4 DEF Load, PollResult, Fault, Goto
  <2>5. QED
    BY <2>2, <2>3, <2>4 DEF ProgramStep
<1>2. UNCHANGED driver_vars
  BY DEF ProgramStep, Open, MapMemory, Write, Store1, Store2, Read, Load, PollResult, Fault
<1>3. ~alone'[p] \/ UNCHANGED <<adder_registers, alone>>
  BY Zenon DEF ProgramStep, Open, MapMemory, Write, Store1, Store2, Read, Load, PollResult, Fault
<1>4. StoredInv(p)'
  BY <1>1, <1>3 DEF UsersInv, StoredInv, adder_registers
<1>5. PrintedInv(p)'
  BY <1>1, <1>2, <1>3 DEF UsersInv, PrintedInv, Alive, driver_vars, Nothing, Added
<1>6. QED
  BY <1>4, <1>5

\* What a step of the program itself does to its type and its invariant.
LEMMA TypeKept ==
  ASSUME UsersInv, NEW p \in Programs, ProgramStep(p)
  PROVE  UsersType'
<1>1. UsersType /\ Operands[p][1] \in Nat /\ Operands[p][2] \in Nat
  BY ProgramsAssumption DEF UsersInv
<1>2. Kept(Operands[p][1]) \in Nat /\ Kept(Operands[p][2]) \in Nat
  <2>1. \A n \in Nat : Kept(n) \in Data
    BY KeptSum
  <2>2. Data \subseteq Nat
    BY ValidAssumption DEF Data
  <2>3. QED
    BY <1>1, <2>1, <2>2
<1>3. Sum(BusRead(RESULT)) \in Nat
  BY <1>1, SumRead, ValidAssumption DEF UsersType
<1>4. CASE Store1(p)
  BY <1>1, <1>2, <1>4 DEF Store1, Goto, BusWrite, OPERAND_1, OPERAND_2, UsersType, Steps, Kept
<1>5. CASE Store2(p)
  BY <1>1, <1>2, <1>5 DEF Store2, Goto, BusWrite, OPERAND_1, OPERAND_2, UsersType, Steps, Kept
<1>6. CASE Open(p) \/ MapMemory(p) \/ Write(p) \/ Read(p)
  BY <1>1, <1>6 DEF Open, MapMemory, Write, Read, Goto, UsersType, Steps, adder_registers
<1>7. CASE Load(p) \/ PollResult(p) \/ Fault(p)
  BY <1>1, <1>3, <1>7 DEF Load, PollResult, Fault, Goto, UsersType, Steps, adder_registers
<1>8. QED
  BY <1>4, <1>5, <1>6, <1>7 DEF ProgramStep

\* What was stored by the program alone is what it reads.
LEMMA OwnSum ==
  ASSUME UsersInv, NEW p \in Programs, pc[p] \in {"load", "poll"}
  PROVE  /\ BusRead(RESULT) >= Valid
         /\ Sum(BusRead(RESULT)) # Nothing
         /\ alone[p] => Sum(BusRead(RESULT)) = Added(p)
<1>1. operand_1 \in Nat /\ operand_2 \in Nat /\ Operands[p][1] \in Nat /\ Operands[p][2] \in Nat
  BY ProgramsAssumption DEF UsersInv, UsersType
<1>2. /\ BusRead(RESULT) >= Valid
      /\ Sum(BusRead(RESULT)) = (operand_1 + operand_2) % Valid
      /\ (operand_1 + operand_2) % Valid \in 0..Valid - 1
  BY <1>1, SumRead
<1>3. Sum(BusRead(RESULT)) # Nothing
  BY <1>2, ValidAssumption DEF Nothing
<1>4. alone[p] => operand_1 = Kept(Operands[p][1]) /\ operand_2 = Kept(Operands[p][2])
  BY DEF UsersInv, StoredInv
<1>5. QED
  BY <1>1, <1>2, <1>3, <1>4, KeptSum DEF Added

\* A program's own step keeps what it has stored and printed true.
LEMMA OwnKeeps ==
  ASSUME DriverInv, UsersInv, NEW p \in Programs, ProgramStep(p)
  PROVE  StoredInv(p)' /\ PrintedInv(p)'
<1>1. /\ UsersType /\ StoredInv(p) /\ PrintedInv(p)
      /\ fd \in [Programs -> Nat] /\ (p \in DirectUsers => ~Alive(p))
  BY DEF UsersInv, DriverInv, HeldInv, OpenedInv, Alive, Closed
<1>2. CASE Open(p) \/ MapMemory(p) \/ Write(p)
  <2>1. pc[p] \in {"open", "write"} /\ UNCHANGED <<adder_registers, value, position, alone>>
    BY <1>2 DEF Open, MapMemory, Write
  <2>2. /\ pc'[p] \in {"write", "store_1", "read", "done"}
        /\ pc'[p] = "done" => UNCHANGED <<driver_vars, fd>> /\ p \in DirectUsers
    BY <1>1, <1>2 DEF Open, MapMemory, Write, Goto, UsersType
  <2>3. QED
    BY <1>1, <2>1, <2>2 DEF StoredInv, PrintedInv, adder_registers, driver_vars, Alive
<1>3. CASE Store1(p)
  <2>1. /\ operand_1' = Kept(Operands[p][1]) /\ pc'[p] = "store_2"
        /\ pc[p] = "store_1" /\ UNCHANGED <<value, position>>
    BY <1>1, <1>3 DEF Store1, Goto, BusWrite, OPERAND_1, OPERAND_2, UsersType, Kept
  <2>2. QED
    BY <1>1, <2>1 DEF StoredInv, PrintedInv
<1>4. CASE Store2(p)
  <2>1. /\ operand_1' = operand_1 /\ operand_2' = Kept(Operands[p][2])
        /\ alone'[p] = alone[p] /\ pc[p] = "store_2" /\ UNCHANGED <<value, position>>
    BY <1>1, <1>4 DEF Store2, BusWrite, OPERAND_1, OPERAND_2, UsersType, Kept
  <2>2. pc'[p] = IF p \in DirectUsers THEN "poll" ELSE "read"
    BY <1>1, <1>4 DEF Store2, Goto, UsersType
  <2>3. QED
    BY <1>1, <2>1, <2>2 DEF StoredInv, PrintedInv
<1>5. CASE Read(p)
  <2>1. /\ UNCHANGED <<adder_registers, value, position, alone, driver_vars, fd>>
        /\ pc[p] = "read" /\ position[p] = 0
        /\ pc'[p] = IF Alive(p) THEN "load" ELSE "done"
    BY <1>1, <1>5 DEF Read, Goto, UsersType, PrintedInv
  <2>2. QED
    BY <1>1, <2>1 DEF StoredInv, PrintedInv, adder_registers, driver_vars, Alive
<1>6. CASE Load(p)
  <2>1. /\ UNCHANGED <<adder_registers, alone>> /\ pc[p] = "load" /\ pc'[p] = "done"
        /\ value'[p] = Sum(BusRead(RESULT))
    BY <1>1, <1>6 DEF Load, Goto, UsersType
  <2>2. QED
    BY <1>1, <2>1, OwnSum DEF StoredInv, PrintedInv, adder_registers, Nothing, Added
<1>7. CASE PollResult(p)
  <2>1. UNCHANGED <<adder_registers, alone, position, driver_vars, fd>> /\ pc[p] = "poll"
    BY <1>7 DEF PollResult
  <2>2. \/ pc'[p] = "done" /\ value'[p] = Sum(BusRead(RESULT))
        \/ pc'[p] \in {"done", "poll"} /\ value' = value
    BY <1>1, <1>7 DEF PollResult, Goto, UsersType
  <2>3. ~Alive(p)'
    BY <1>1, <2>1 DEF PrintedInv, Alive, driver_vars
  <2>4. QED
    BY <1>1, <2>1, <2>2, <2>3, OwnSum DEF StoredInv, PrintedInv, adder_registers, Nothing, Added
<1>8. CASE Fault(p)
  <2>1. /\ UNCHANGED <<adder_registers, alone, position, value>>
        /\ pc[p] \in {"store_1", "load"} /\ pc'[p] = "killed"
    BY <1>1, <1>8 DEF Fault, Goto, UsersType
  <2>2. QED
    BY <1>1, <2>1 DEF StoredInv, PrintedInv, adder_registers
<1>9. QED
  BY <1>2, <1>3, <1>4, <1>5, <1>6, <1>7, <1>8 DEF ProgramStep

\* Every step keeps the programs' results true.
LEMMA UsersKept ==
  ASSUME DriverInv, UsersInv, [AdderNext]_vars
  PROVE  UsersInv'
<1>1. CASE UNCHANGED vars
  <2>1. UNCHANGED <<adder_registers, driver_vars, program_vars>>
    BY <1>1 DEF vars
  <2>2. QED
    BY <2>1 DEF UsersInv, UsersType, StoredInv, PrintedInv, Alive, Added, Nothing,
                 adder_registers, driver_vars, program_vars
<1>2. ASSUME NEW q \in Programs, ProgramStep(q) PROVE UsersInv'
  BY <1>2, TypeKept, OthersKeep, OwnKeeps DEF UsersInv
<1>3. QED
  BY <1>1, <1>2, ModuleKeepsUsers DEF AdderNext

\* Every program, through the driver or not, prints the sum of its own
\* operands modulo 2^15, unless another one wrote in between; and it prints
\* nothing only if the driver was not there (adder_driver.c, first_test).
THEOREM OwnSumPrinted == AdderSpec => []SumOfOwnOperands
<1>1. DriverInv /\ UsersInv => SumOfOwnOperands
  BY DEF UsersInv, PrintedInv, SumOfOwnOperands, Added
<1>2. AdderSpec => []UsersInv
  BY InitUsers, UsersKept, DriverAlways, PTL DEF AdderSpec
<1>3. QED
  BY <1>1, <1>2, DriverAlways, PTL
-----------------------------------------------------------------------------
\* Types: adder_init and adder_exit, the programs, and both together.
LEMMA ModuleKeepsType ==
  ASSUME AdderTypeOK, ModuleStep
  PROVE  AdderTypeOK'
<1>1. ModuleNext /\ UNCHANGED <<adder_registers, in_callback, program_vars>>
  BY DEF ModuleStep
<1>2. module' \in ModuleSteps
  BY <1>1 DEF AdderTypeOK, DriverType, ModuleSteps, ModuleNext, Insert, DriverRegister,
     DriverCreateFile, RequestMemRegion, Ioremap, Remove, RemoveFile, DriverUnregister,
     ReleaseMemRegion, Iounmap
<1>3. loads' \in Nat
  BY <1>1 DEF AdderTypeOK, DriverType, ModuleNext, Insert, DriverRegister, DriverCreateFile,
     RequestMemRegion, Ioremap, Remove, RemoveFile, DriverUnregister, ReleaseMemRegion, Iounmap
<1>4. {registered, file, region, adder_mem}' \subseteq BOOLEAN
  BY <1>1, Zenon DEF AdderTypeOK, DriverType, ModuleNext, Insert, DriverRegister,
     DriverCreateFile, RequestMemRegion, Ioremap, Remove, RemoveFile, DriverUnregister,
     ReleaseMemRegion, Iounmap, Resources
<1>5. QED
  BY <1>1, <1>2, <1>3, <1>4 DEF AdderTypeOK, AdderRegistersType, DriverType, adder_registers,
     program_vars

\* A program's step stays within the types.
LEMMA ProgramKeepsType ==
  ASSUME AdderTypeOK, NEW p \in Programs, ProgramStep(p)
  PROVE  AdderTypeOK'
<1>1. /\ operand_1 \in Data /\ operand_2 \in Data /\ Data \subseteq Nat
      /\ Operands[p][1] \in Nat /\ Operands[p][2] \in Nat
  BY ProgramsAssumption, ValidAssumption DEF AdderTypeOK, AdderRegistersType, Data
<1>2. AdderRegistersType'
  <2>1. Operands[p][1] % (2 * Valid) \in Data /\ Operands[p][2] % (2 * Valid) \in Data
    BY <1>1, KeptSum DEF Kept
  <2>2. CASE Store1(p)
    BY <1>1, <2>1, <2>2 DEF Store1, BusWrite, OPERAND_1, OPERAND_2, AdderRegistersType
  <2>3. CASE Store2(p)
    BY <1>1, <2>1, <2>3 DEF Store2, BusWrite, OPERAND_1, OPERAND_2, AdderRegistersType
  <2>4. QED
    BY <1>1, <2>2, <2>3 DEF ProgramStep, Open, MapMemory, Write, Read, Load, PollResult, Fault,
       AdderRegistersType, adder_registers
<1>3. DriverType'
  <2>1. UNCHANGED driver_vars
    BY DEF ProgramStep, Open, MapMemory, Write, Store1, Store2, Read, Load, PollResult, Fault
  <2>2. in_callback' \subseteq in_callback \cup {p}
    BY DEF ProgramStep, Open, MapMemory, Write, Store1, Store2, Read, Load, PollResult, Fault
  <2>3. QED
    BY <2>1, <2>2, Zenon DEF AdderTypeOK, DriverType, driver_vars
<1>4. pc' \in [Programs -> Steps]
  BY DEF AdderTypeOK, Steps, Goto, ProgramStep, Open, MapMemory, Write, Store1, Store2, Read,
     Load, PollResult, Fault
<1>5. fd' \in [Programs -> Nat]
  BY DEF AdderTypeOK, DriverType, Closed, ProgramStep, Open, MapMemory, Write, Store1, Store2,
     Read, Load, PollResult, Fault
<1>6. position' \in [Programs -> {0, 10}]
  BY DEF AdderTypeOK, ProgramStep, Open, MapMemory, Write, Store1, Store2, Read, Load,
     PollResult, Fault
<1>7. timeout' \in [Programs -> 0..MAX_DELAY + 1]
  BY ProgramsAssumption DEF AdderTypeOK, ProgramStep, Open, MapMemory, Write, Store1, Store2,
     Read, Load, PollResult, Fault
<1>8. value' \in [Programs -> 0..Valid - 1 \cup {Nothing}]
  <2>1. Sum(BusRead(RESULT)) \in 0..Valid - 1
    BY <1>1, SumRead
  <2>2. \/ UNCHANGED value
        \/ value' = [value EXCEPT ![p] = Sum(BusRead(RESULT))]
    BY DEF ProgramStep, Open, MapMemory, Write, Store1, Store2, Read, Load, PollResult, Fault
  <2>3. QED
    BY <2>1, <2>2 DEF AdderTypeOK
<1>9. alone' \in [Programs -> BOOLEAN]
  BY DEF AdderTypeOK, ProgramStep, Open, MapMemory, Write, Store1, Store2, Read, Load,
     PollResult, Fault
<1>10. QED
  BY <1>2, <1>3, <1>4, <1>5, <1>6, <1>7, <1>8, <1>9 DEF AdderTypeOK

\* The registers stay 16 bits wide, what is printed stays below the valid bit,
\* and the loop of first_test ends by itself, for every program and operand.
THEOREM AdderTypes == AdderSpec => []AdderTypeOK
<1>1. AdderInitAll => AdderTypeOK
  <2> SUFFICES ASSUME AdderInitAll PROVE AdderTypeOK
    OBVIOUS
  <2>1. AdderRegistersType
    BY ValidAssumption DEF AdderInitAll, AdderInit, AdderRegistersType, Data
  <2>2. DriverType
    BY Zenon DEF AdderInitAll, DriverInit, DriverType, ModuleSteps
  <2>3. /\ pc \in [Programs -> Steps] /\ fd \in [Programs -> Nat]
        /\ position \in [Programs -> {0, 10}] /\ timeout \in [Programs -> 0..MAX_DELAY + 1]
    BY ProgramsAssumption DEF AdderInitAll, Steps, Closed
  <2>4. value \in [Programs -> 0..Valid - 1 \cup {Nothing}] /\ alone \in [Programs -> BOOLEAN]
    BY DEF AdderInitAll
  <2>5. QED
    BY <2>1, <2>2, <2>3, <2>4 DEF AdderTypeOK
<1>2. AdderTypeOK /\ [AdderNext]_vars => AdderTypeOK'
  <2> SUFFICES ASSUME AdderTypeOK, [AdderNext]_vars PROVE AdderTypeOK'
    OBVIOUS
  <2>1. CASE UNCHANGED vars
    BY <2>1, Zenon DEF vars, adder_registers, driver_vars, program_vars, AdderTypeOK,
       AdderRegistersType, DriverType
  <2>2. QED
    BY <2>1, ModuleKeepsType, ProgramKeepsType DEF AdderNext
<1>3. QED
  BY <1>1, <1>2, PTL DEF AdderSpec
=============================================================================
