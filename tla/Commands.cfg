CONSTANTS
    Scripts <- AllScripts
    Files <- TestFiles
    ReadEdges = {10, 17}
SPECIFICATION FairSpec
INVARIANTS
    CommandTypeOK
    DeliveredAsWritten
    FileInOrder
    ClocksLeftLow
PROPERTIES
    SettingsFixedWhileBusy
    TestsStopAtFailure
    TransferEnds
    FileEnds
    ProgramEnds
CHECK_DEADLOCK FALSE
