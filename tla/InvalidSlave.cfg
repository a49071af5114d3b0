CONSTANTS
    Scripts <- Sessions
    Files <- TestFiles
    ReadEdges = {10}
SPECIFICATION FairSpec
PROPERTY InvalidSlaveSelectsFpga
CHECK_DEADLOCK FALSE
