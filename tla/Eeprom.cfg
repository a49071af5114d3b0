CONSTANTS
    RamSize = 10
    EepromSize = 2
    RamWait = 200
    Periods <- TwoPeriods
    DumpPeriods <- SlowPeriods
    Addresses <- TwoAddresses
    DataBytes <- TwoBytes
    Controls <- ThreeControls
    MinPause = 1000
    MaxRequests = 2
    MaxDumps = 1
    MaxResets = 1
SPECIFICATION LinkSpec
INVARIANTS EepromTypeOK OverBeforeNextCommand TimingInv DumpReadsMemory
PROPERTIES ImplementsPort OnlyStartAndStopWhileHigh
