SPECIFICATION CommandFairSpec
CONSTANTS
    Cap = 1
    MaxLine = 2
INVARIANT CommandTypeOK
INVARIANT StreamsInOrder
INVARIANT ErrReadAfterWait
PROPERTY ExitEndsCall
CHECK_DEADLOCK FALSE
