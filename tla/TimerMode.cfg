CONSTANTS
    RamSize = 10
    EepromSize = 1
    EepromDumpWait = 7
    MinIdle = 5
    DumpBytes <- Dumps
    ResultTimeout = 1000
    DumpTimeout = 12000
    Commands <- TimerProgram
    MaxCommands = 2
    MaxResets = 1
    MaxTimerEdges = 3
    None = None
SPECIFICATION Spec
INVARIANTS DataInv
PROPERTIES ImplementsIsa
