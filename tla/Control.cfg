CONSTANTS
    RamSize = 10
    EepromSize = 1
    EepromDumpWait = 7
    MinIdle = 5
    DumpBytes <- Dumps
    ResultTimeout = 200
    DumpTimeout = 300
    Commands <- ControlProgram
    MaxCommands = 2
    MaxResets = 1
    MaxTimerEdges = 0
    None = None
SPECIFICATION FairSpec
INVARIANTS ControlInv TypeOK NoTriggerWhileShifting
PROPERTIES ExactlyOnce EveryWordCompletes
