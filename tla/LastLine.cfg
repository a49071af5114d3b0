CONSTANTS
    Scripts <- Sessions
    Files <- TestFiles
    ReadEdges = {10}
SPECIFICATION FairSpec
INVARIANT LinesAsInFile
CHECK_DEADLOCK FALSE
