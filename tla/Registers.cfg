CONSTANTS
    RamSize = 12
    EepromSize = 1
    EepromDumpWait = 7
    MinIdle = 5
    DumpBytes <- Dumps
    ResultTimeout = 1000
    DumpTimeout = 12000
    Commands <- RegisterProgram
    MaxCommands = 3
    MaxResets = 1
    MaxTimerEdges = 0
    None = None
SPECIFICATION Spec
INVARIANTS DataInv
PROPERTIES ImplementsIsa
