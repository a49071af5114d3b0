CONSTANTS
    FunctionsBefore <- ThreeFunctions
    OtherPins <- OneOther
    LinkWords <- TwoWords
    MinGap = 6
    MaxTransfers = 3
    MaxTimeouts = 2
    MaxLate = 1
SPECIFICATION HostLinkSpec
INVARIANTS HostLinkTypeOK PinsConfigured OneWordPerTransfer WordsAsSent
CHECK_DEADLOCK FALSE
