----------------------------- MODULE SerialLink -----------------------------
(***************************************************************************)
(* send_command_to_arduino of hw_if.c and the sketch arduino.ino, joined   *)
(* by a serial port.  Opening the port resets the board, unless its reset  *)
(* is not wired to the port; what reaches it while it boots is lost.       *)
(* serialClose waits until what was written has been sent, and what comes  *)
(* in after that is lost.                                                  *)
(*                                                                         *)
(* A text is a sequence of pieces: a blank, a tab, or a part of a word.    *)
(* Time passes in ticks of half a second.                                  *)
(***************************************************************************)
EXTENDS Naturals, Sequences

CONSTANTS Commands,      \* the lines that verify_command_syntax accepts for the Arduino
          MaxBoot,       \* ticks the board may need to boot
          MaxGap,        \* ticks the port may hold back the next piece
          MaxSessions

ARDUINO_SERIAL_STABILIZE_SEC == 4       \* in ticks
ReadTimeout == 2                        \* of Serial.readString
NoIndex == 65535                        \* -1 as an unsigned int of the board

Blank == " "
Newline == "\n"

ASSUME SerialAssumption ==
    /\ \A c \in Commands : c \in Seq(STRING) /\ c # <<>> /\ Len(c) < NoIndex
    /\ MaxBoot \in 1..ARDUINO_SERIAL_STABILIZE_SEC
    /\ {MaxGap, MaxSessions} \subseteq Nat

VARIABLES host, command, sleep_left, result,         \* send_command_to_arduino
          to_arduino, to_host, held,                 \* the port
          auto_reset,                                \* its reset line is wired
          board, boot_left,                          \* where the sketch is
          rx, string, silence,                       \* Serial and readString
          msg, cmd, space_idx, length,               \* the globals of the sketch
          session, split                             \* history: calls; a command was split

host_vars == <<host, command, sleep_left, result, session>>
port_vars == <<to_arduino, to_host>>
sketch == <<msg, cmd, space_idx, length>>
serial_vars == <<host_vars, port_vars, held, auto_reset, board, boot_left, rx, string,
                 silence, sketch, split>>

SerialInit ==
    /\ host = "idle" /\ command = <<>> /\ sleep_left = 0 /\ result = <<>>
    /\ to_arduino = <<>> /\ to_host = <<>> /\ held = 0
    /\ auto_reset \in BOOLEAN
    /\ board = "loop" /\ boot_left = 0
    /\ rx = <<>> /\ string = <<>> /\ silence = 0
    /\ msg = <<>> /\ cmd = <<>> /\ space_idx = 0 /\ length = 0
    /\ session = 0 /\ split = FALSE

-----------------------------------------------------------------------------
\* Mutant: the host writes without a pause.
NoPause(c) ==
    /\ command' = c
    /\ host' = "opened" /\ sleep_left' = 0

\* open_serial_connection with the port opened, up to its sleep.
Opened(c) ==
    /\ command' = c
    /\ host' = "opened" /\ sleep_left' = ARDUINO_SERIAL_STABILIZE_SEC

\* Mutant: the receive buffer outlives the reset.
ResetKeepsBuffer ==
    /\ board' = "boot" /\ boot_left' \in 1..MaxBoot
    /\ string' = <<>> /\ silence' = 0
    /\ msg' = <<>> /\ cmd' = <<>> /\ space_idx' = 0 /\ length' = 0
    /\ UNCHANGED rx

\* setup of the sketch, with its globals as initialised.
ResetBoard ==
    /\ board' = "boot" /\ boot_left' \in 1..MaxBoot
    /\ rx' = <<>> /\ string' = <<>> /\ silence' = 0
    /\ msg' = <<>> /\ cmd' = <<>> /\ space_idx' = 0 /\ length' = 0

Open ==
    /\ host = "idle" /\ session < MaxSessions
    /\ \E c \in Commands : Opened(c)
    /\ session' = session + 1
    /\ result' = <<>> /\ to_host' = <<>>
    /\ IF auto_reset THEN ResetBoard
       ELSE UNCHANGED <<board, boot_left, rx, string, silence, sketch>>
    /\ split' = (split /\ ~auto_reset)
    /\ UNCHANGED <<to_arduino, held, auto_reset>>

\* The port cannot be opened.
OpenFails ==
    /\ host = "idle" /\ session < MaxSessions
    /\ session' = session + 1
    /\ result' = <<>>
    /\ UNCHANGED <<host, command, sleep_left, port_vars, held, auto_reset, board, boot_left,
                   rx, string, silence, sketch, split>>

SerialPuts ==
    /\ host = "opened" /\ sleep_left = 0
    /\ to_arduino' = command
    /\ host' = "receiving"
    /\ UNCHANGED <<command, sleep_left, result, session, to_host, held, auto_reset, board,
                   boot_left, rx, string, silence, sketch, split>>

\* Mutant: the answer is over as soon as nothing is there to read.
LeaveWhenEmpty ==
    /\ host = "receiving"
    /\ IF to_host = <<>> THEN host' = "closing" /\ UNCHANGED <<result, to_host>>
       ELSE /\ result' = Append(result, Head(to_host))
            /\ to_host' = Tail(to_host)
            /\ UNCHANGED host
    /\ UNCHANGED <<command, sleep_left, session, to_arduino, held, auto_reset, board,
                   boot_left, rx, string, silence, sketch, split>>

\* receive_response takes what there is, up to the newline.
ReceiveResponse ==
    /\ host = "receiving" /\ to_host # <<>>
    /\ result' = Append(result, Head(to_host))
    /\ to_host' = Tail(to_host)
    /\ host' = IF Head(to_host) = Newline THEN "closing" ELSE host
    /\ UNCHANGED <<command, sleep_left, session, to_arduino, held, auto_reset, board,
                   boot_left, rx, string, silence, sketch, split>>

SerialClose ==
    /\ host = "closing" /\ to_arduino = <<>>
    /\ host' = "idle"
    /\ UNCHANGED <<command, sleep_left, result, session, port_vars, held, auto_reset, board,
                   boot_left, rx, string, silence, sketch, split>>

-----------------------------------------------------------------------------
\* The port hands the board the next piece.
Deliver ==
    /\ to_arduino # <<>>
    /\ to_arduino' = Tail(to_arduino)
    /\ held' = 0
    /\ rx' = IF boot_left > 0 THEN rx ELSE Append(rx, Head(to_arduino))
    /\ UNCHANGED <<host_vars, to_host, auto_reset, board, boot_left, string, silence, sketch,
                   split>>

\* Half a second: the port holds back nothing longer than MaxGap.
Tick ==
    /\ to_arduino # <<>> => held < MaxGap
    /\ held' = IF to_arduino # <<>> THEN held + 1 ELSE held
    /\ sleep_left' = IF sleep_left > 0 THEN sleep_left - 1 ELSE 0
    /\ boot_left' = IF boot_left > 0 THEN boot_left - 1 ELSE 0
    /\ silence' = IF board = "reading" /\ silence < ReadTimeout THEN silence + 1 ELSE silence
    /\ UNCHANGED <<host, command, result, session, port_vars, auto_reset, board, rx, string,
                   sketch, split>>

-----------------------------------------------------------------------------
BoardStep == UNCHANGED <<host_vars, to_arduino, held, auto_reset, boot_left>>

Booted ==
    /\ board = "boot" /\ boot_left = 0
    /\ board' = "loop"
    /\ BoardStep
    /\ UNCHANGED <<to_host, rx, string, silence, sketch, split>>

\* loop, and the condition of its while: each starts a readString.
Available ==
    /\ board \in {"loop", "again"} /\ rx # <<>>
    /\ board' = "reading"
    /\ string' = <<>> /\ silence' = 0
    /\ BoardStep
    /\ UNCHANGED <<to_host, rx, sketch, split>>

ReadPiece ==
    /\ board = "reading" /\ rx # <<>>
    /\ string' = Append(string, Head(rx))
    /\ rx' = Tail(rx)
    /\ silence' = 0
    /\ BoardStep
    /\ UNCHANGED <<board, to_host, sketch, split>>

\* A second without a character ends readString; msg is overwritten.
ReadEnds ==
    /\ board = "reading" /\ rx = <<>> /\ silence = ReadTimeout
    /\ msg' = string
    /\ board' = "again"
    /\ split' = (split \/ to_arduino # <<>>)
    /\ BoardStep
    /\ UNCHANGED <<to_host, rx, string, silence, cmd, space_idx, length>>

\* Strings of the board count from 0; substring exchanges its arguments when
\* the first is the larger one.
IndexOf(text, piece) ==
    IF \E i \in 1..Len(text) : text[i] = piece
    THEN (CHOOSE i \in 1..Len(text) : text[i] = piece /\ \A j \in 1..i - 1 : text[j] # piece) - 1
    ELSE NoIndex

Substring(text, a, b) ==
    LET left  == IF a > b THEN b ELSE a
        right == IF a > b THEN a ELSE b
    IN  SubSeq(text, left + 1, IF right > Len(text) THEN Len(text) ELSE right)

\* Mutant: the length is kept from the message before.
SplitUpLate ==
    /\ space_idx' = IndexOf(msg, Blank)
    /\ IF space_idx' = NoIndex THEN cmd' = msg /\ length' = Len(msg)
       ELSE cmd' = Substring(msg, 0, space_idx') /\ UNCHANGED length

SplitUp ==
    /\ space_idx' = IndexOf(msg, Blank)
    /\ IF space_idx' = NoIndex THEN cmd' = msg /\ UNCHANGED length
       ELSE cmd' = Substring(msg, 0, space_idx') /\ length' = Len(msg)

Temperature == "25.00"
ReadTemperature == <<"read_", "temperature">>

NameOf(text) == IF IndexOf(text, Blank) = NoIndex THEN text
                ELSE Substring(text, 0, IndexOf(text, Blank))

\* What the expressions ^(read_temperature)$ and ^(echo)\s+(.*)$ ask of a line,
\* which has lost its newline.
ASSUME SyntaxAssumption ==
    \A c \in Commands : /\ NameOf(c) = ReadTemperature => c = ReadTemperature
                       /\ c # <<"echo">>
                       /\ \A i \in 1..Len(c) : c[i] # Newline

Spoken == {"Temperature is ", Temperature, "I received a message",
           "I received an invalid message: ", Newline}

\* The line that loop prints; the reading itself is one number.
Answer(text, name, from, to) ==
    CASE name = ReadTemperature -> <<"Temperature is ", Temperature, Newline>>
      [] name = <<"echo">>      -> <<"I received a message">> \o Substring(text, from, to)
                                       \o <<Newline>>
      [] OTHER                  -> <<"I received an invalid message: ">> \o text \o <<Newline>>

\* The rest of loop, when nothing more is available.
Respond ==
    /\ board = "again" /\ rx = <<>>
    /\ board' = "loop"
    /\ SplitUp
    /\ to_host' = to_host \o Answer(msg, cmd', space_idx', length')
    /\ BoardStep
    /\ UNCHANGED <<rx, string, silence, msg, split>>

Host == Open \/ OpenFails \/ SerialPuts \/ ReceiveResponse \/ SerialClose
Sketch == Booted \/ Available \/ ReadPiece \/ ReadEnds \/ Respond

SerialNext == Host \/ Deliver \/ Tick \/ Sketch

SerialSpec == SerialInit /\ [][SerialNext]_serial_vars

\* Time passes, the port delivers, the sketch loops, and the host goes on
\* with the command it has begun.
SerialFairness ==
    /\ WF_serial_vars(Tick) /\ WF_serial_vars(Deliver) /\ WF_serial_vars(Sketch)
    /\ WF_serial_vars(SerialPuts) /\ WF_serial_vars(ReceiveResponse)
    /\ WF_serial_vars(SerialClose)

FairSerialSpec == SerialSpec /\ SerialFairness

-----------------------------------------------------------------------------
Pieces == UNION {{c[i] : i \in 1..Len(c)} : c \in Commands}
Text == Pieces \cup Spoken

HostOK == /\ host \in {"idle", "opened", "receiving", "closing"}
          /\ command \in Commands \cup {<<>>} /\ session \in 0..MaxSessions
          /\ sleep_left \in 0..ARDUINO_SERIAL_STABILIZE_SEC
          /\ result \in Seq(Text)
PortOK == /\ to_arduino \in Seq(Pieces) /\ to_host \in Seq(Text)
          /\ held \in 0..MaxGap /\ auto_reset \in BOOLEAN
BoardOK == /\ board \in {"boot", "loop", "reading", "again"} /\ boot_left \in 0..MaxBoot
           /\ rx \in Seq(Pieces) /\ string \in Seq(Pieces) /\ silence \in 0..ReadTimeout
           /\ msg \in Seq(Pieces) /\ cmd \in Seq(Pieces)
           /\ space_idx \in Nat /\ length \in Nat /\ split \in BOOLEAN

\* The variables keep their types; a piece that has left the host is one of a
\* command, and a booting board holds nothing.
SerialTypeOK == /\ HostOK /\ PortOK /\ BoardOK
                /\ boot_left > 0 => rx = <<>> /\ board = "boot"

Ended == host \in {"closing", "idle"} /\ result # <<>>

\* The name of a command is what stands before its first blank; only the name
\* before a tab is part of the echo's name for the sketch.
Expected(c) ==
    LET blank == {i \in 1..Len(c) : c[i] = Blank} IN
    CASE c = ReadTemperature                -> <<"Temperature is ", Temperature, Newline>>
      [] c[1] = "echo" /\ 2 \in blank       -> <<"I received a message">> \o Tail(c) \o <<Newline>>
      [] OTHER                              -> <<"I received an invalid message: ">> \o c
                                                   \o <<Newline>>

\* Unless a pause within a command was as long as the timeout of readString,
\* what the host has read when send_command_to_arduino ends is the whole answer
\* to its own command, whatever the sketch's globals kept of earlier ones.
WholeAnswer == (Ended /\ ~split) => result = Expected(command)

\* What the sketch may answer to a part of a command, when the length it kept
\* is n.
Parts(c) == UNION {{SubSeq(c, i, j) : j \in i..Len(c)} : i \in 1..Len(c)}
AnswerTo(text, n) == Answer(text, NameOf(text), IndexOf(text, Blank), n)
OwnAnswer(line) ==
    \E text \in Parts(command), n \in 0..Len(command) : line = AnswerTo(text, n)

\* Even if a command was split, with the board reset by every opening the host
\* ends with one line, and it answers a part of this very command: neither the
\* rest of an earlier answer nor an answer cut short.
AnswersOwnCommand ==
    (host = "idle" /\ command # <<>> /\ auto_reset /\ result # <<>>) => OwnAnswer(result)

\* A command that reached the port is answered and receive_response, which has
\* no timeout, ends: the pause after the opening outlasts the boot.
AnswerComes == host = "receiving" ~> host = "idle"
=============================================================================
