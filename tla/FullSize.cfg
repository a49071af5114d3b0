CONSTANTS
    RamSize = 127
    EepromSize = 256
    EepromDumpWait = 1792
    MinIdle = 5
    DumpBytes <- Dumps
    ResultTimeout = 1000
    DumpTimeout = 12000
    Commands <- DumpProgram
    MaxCommands = 1
    MaxResets = 0
    MaxTimerEdges = 0
    None = None
SPECIFICATION Spec
INVARIANTS AnswerInTime
