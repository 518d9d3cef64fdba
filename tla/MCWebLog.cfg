\* Small channels: full and empty are one or two steps away.
SPECIFICATION FairSpec
CONSTANTS
    OutCap = 1
    InCap = 1
    LogCap = 1
    MaxLine = 4
    MaxMsg = 2
INVARIANT TypeOK
INVARIANT LinesInOrder
INVARIANT ClosedOnce
PROPERTY CloseReachesAll
PROPERTY GoneIsNoticed
CHECK_DEADLOCK FALSE
