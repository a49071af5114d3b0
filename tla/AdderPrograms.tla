--------------------------- MODULE AdderPrograms ---------------------------
(***************************************************************************)
(* The users of the adder: adder/main.c, which goes through the driver's   *)
(* file, and first_test/main.c, which maps the registers itself.  Several  *)
(* of them may run, and nothing makes the two writes and the read of one   *)
(* of them a unit.  They may be started while adder_init or adder_exit is  *)
(* under way: a callback that finds no mapping faults.  At the end, what   *)
(* the driver and the programs must guarantee.                             *)
(***************************************************************************)
EXTENDS AdderDriver, Sequences

CONSTANTS Operands,      \* the two arguments of each program
          DirectUsers,   \* the programs that are first_test
          MAX_DELAY      \* 1000 in the code

ASSUME ProgramsAssumption == /\ Operands \in [Programs -> Nat \X Nat]
                             /\ DirectUsers \subseteq Programs
                             /\ MAX_DELAY \in Nat

VARIABLES pc,            \* the next step of each program
          fd,            \* the insertion whose file it has open, or Closed
          position,      \* of that file
          timeout,       \* of first_test
          value,         \* what it prints, or Nothing
          alone          \* history: nobody else wrote since its first write

program_vars == <<pc, fd, position, timeout, value, alone>>
vars == <<adder_registers, driver_vars, in_callback, program_vars>>

Closed == 0
Nothing == 2 * Valid

Steps == {"open", "write", "store_1", "store_2", "read", "load", "poll", "done",
          "killed"}

AdderInitAll ==
    /\ AdderInit /\ DriverInit
    /\ pc = [p \in Programs |-> "open"]
    /\ fd = [p \in Programs |-> Closed]
    /\ position = [p \in Programs |-> 0]
    /\ timeout = [p \in Programs |-> 0]
    /\ value = [p \in Programs |-> Nothing]
    /\ alone = [p \in Programs |-> FALSE]

Goto(p, step) == pc' = [pc EXCEPT ![p] = step]

ModuleStep == ModuleNext /\ UNCHANGED <<adder_registers, in_callback, program_vars>>

\* The file that the program opened is still there.
Alive(p) == file /\ fd[p] = loads

\* Without its file there is nothing to open, and main goes on with a bad descriptor.
Open(p) ==
    /\ pc[p] = "open" /\ p \notin DirectUsers
    /\ fd' = [fd EXCEPT ![p] = IF file THEN loads ELSE Closed]
    /\ Goto(p, "write")
    /\ UNCHANGED <<adder_registers, driver_vars, in_callback, position, timeout, value, alone>>

\* setup_memory_access, which may fail.
MapMemory(p) ==
    /\ pc[p] = "open" /\ p \in DirectUsers
    /\ \/ Goto(p, "store_1")
       \/ Goto(p, "done")
    /\ UNCHANGED <<adder_registers, driver_vars, in_callback, fd, position, timeout, value, alone>>

\* adder_write up to the registers: a number of more than 16 bits is refused.
Write(p) ==
    /\ pc[p] = "write"
    /\ IF Alive(p) /\ {Operands[p][1], Operands[p][2]} \subseteq Data
       THEN Goto(p, "store_1") /\ in_callback' = in_callback \cup {p}
       ELSE Goto(p, "read") /\ UNCHANGED in_callback
    /\ UNCHANGED <<adder_registers, driver_vars, fd, position, timeout, value, alone>>

\* The callbacks use the pointer of the module.
Mapped(p) == adder_mem \/ p \in DirectUsers

\* The kernel kills a program whose callback uses the pointer too early; the
\* callback never returns.
Fault(p) ==
    /\ pc[p] \in {"store_1", "load"} /\ ~Mapped(p)
    /\ Goto(p, "killed")
    /\ UNCHANGED <<adder_registers, driver_vars, in_callback, fd, position, timeout, value, alone>>

Store1(p) ==
    /\ pc[p] = "store_1" /\ Mapped(p)
    /\ BusWrite(OPERAND_1, Operands[p][1] % (2 * Valid))
    /\ alone' = [q \in Programs |-> q = p]
    /\ Goto(p, "store_2")
    /\ UNCHANGED <<driver_vars, in_callback, fd, position, timeout, value>>

\* Mutant: adder_write returns what it was given, as a store function should.
Store2Counts(p) ==
    /\ pc[p] = "store_2"
    /\ BusWrite(OPERAND_2, Operands[p][2] % (2 * Valid))
    /\ alone' = [q \in Programs |-> q = p /\ alone[p]]
    /\ in_callback' = in_callback \ {p}
    /\ position' = [position EXCEPT ![p] = 10]
    /\ Goto(p, IF p \in DirectUsers THEN "poll" ELSE "read")
    /\ UNCHANGED <<driver_vars, fd, timeout, value>>

\* adder_write returns 0 bytes, so the position of the file stays.
Store2(p) ==
    /\ pc[p] = "store_2"
    /\ BusWrite(OPERAND_2, Operands[p][2] % (2 * Valid))
    /\ alone' = [q \in Programs |-> q = p /\ alone[p]]
    /\ in_callback' = in_callback \ {p}
    /\ Goto(p, IF p \in DirectUsers THEN "poll" ELSE "read")
    /\ UNCHANGED <<driver_vars, fd, position, timeout, value>>

\* There is something to read only at the start of the file.
Read(p) ==
    /\ pc[p] = "read"
    /\ IF Alive(p) /\ position[p] = 0
       THEN Goto(p, "load") /\ in_callback' = in_callback \cup {p}
       ELSE Goto(p, "done") /\ UNCHANGED in_callback
    /\ UNCHANGED <<adder_registers, driver_vars, fd, position, timeout, value, alone>>

\* Mutant: the valid bit stays in the number.
RawSum(data) == data

\* The value without its valid bit.
Sum(data) == IF data >= Valid THEN data - Valid ELSE data

\* adder_read: the valid bit is taken off but not waited for.
Load(p) ==
    /\ pc[p] = "load" /\ Mapped(p)
    /\ value' = [value EXCEPT ![p] = Sum(BusRead(RESULT))]
    /\ position' = [position EXCEPT ![p] = 10]
    /\ in_callback' = in_callback \ {p}
    /\ Goto(p, "done")
    /\ UNCHANGED <<adder_registers, driver_vars, fd, timeout, alone>>

\* One turn of the loop of first_test.
PollResult(p) ==
    /\ pc[p] = "poll"
    /\ IF timeout[p] > MAX_DELAY
       THEN Goto(p, "done") /\ UNCHANGED <<timeout, value>>
       ELSE IF BusRead(RESULT) >= Valid
       THEN /\ value' = [value EXCEPT ![p] = Sum(BusRead(RESULT))]
            /\ Goto(p, "done")
            /\ UNCHANGED timeout
       ELSE timeout' = [timeout EXCEPT ![p] = @ + 1] /\ UNCHANGED <<pc, value>>
    /\ UNCHANGED <<adder_registers, driver_vars, in_callback, fd, position, alone>>

ProgramStep(p) ==
    \/ Open(p) \/ MapMemory(p) \/ Write(p) \/ Store1(p) \/ Store2(p)
    \/ Read(p) \/ Load(p) \/ PollResult(p) \/ Fault(p)

AdderNext == ModuleStep \/ \E p \in Programs : ProgramStep(p)

AdderSpec == AdderInitAll /\ [][AdderNext]_vars

-----------------------------------------------------------------------------
\* The variables keep their types.
AdderTypeOK ==
    /\ AdderRegistersType /\ DriverType
    /\ pc \in [Programs -> Steps]
    /\ fd \in [Programs -> Nat] /\ position \in [Programs -> {0, 10}]
    /\ timeout \in [Programs -> 0..MAX_DELAY + 1]
    /\ value \in [Programs -> 0..Valid - 1 \cup {Nothing}]
    /\ alone \in [Programs -> BOOLEAN]

\* After rmmod, and after an insmod that failed at any of its steps, the
\* kernel holds nothing of the module any more (adder_init and adder_exit of
\* adder_driver.c); while it is loaded it holds all of it.
AllOrNothing ==
    /\ module = "absent" => Resources = <<FALSE, FALSE, FALSE, FALSE>>
    /\ module = "loaded" => Resources = <<TRUE, TRUE, TRUE, TRUE>>

\* A callback that runs finds the module there and the registers mapped, also
\* while adder_exit is under way: it removes the file, and so waits for the
\* callbacks, before it takes the mapping away.  The only time that a callback
\* comes too early is while adder_init is between creating the file and having
\* mapped the registers, or undoes this (adder_driver.c).
CallbackFindsRegisters ==
    in_callback # {} =>
        /\ registered
        /\ adder_mem \/ module \in {"request_region", "remap", "undo_region", "undo_remap"}

\* What a program prints is the sum of its own operands, modulo 2^15, unless
\* another program wrote in between or it has printed no number at all; and
\* it comes to its end without a number only if the driver was not there or
\* the operands do not fit.
SumOfOwnOperands ==
    \A p \in Programs :
        /\ (pc[p] = "done" /\ alone[p] /\ value[p] # Nothing) =>
               value[p] = (Operands[p][1] + Operands[p][2]) % Valid
        /\ (pc[p] = "done" /\ value[p] = Nothing) =>
               \/ ~Alive(p)
               \/ ~({Operands[p][1], Operands[p][2]} \subseteq Data)
=============================================================================
