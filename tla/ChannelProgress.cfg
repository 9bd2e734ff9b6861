SPECIFICATION FairSpec
CONSTANTS
    NumCommands = 1
    Window = 4
    Buf = 1
    MinAdjust = 1
    MaxPacket = 2
    IdModulus = 8
    OutSizes = {0, 4}
    ErrSizes = {0, 3}
    StatusFirst = TRUE
    MaxNoise = 1
    MayLose = FALSE
INVARIANT WindowAccounting
INVARIANT WindowSuffices
INVARIANT ExitCodeOwn
INVARIANT NeverStuck
PROPERTY CommandsFinish
CHECK_DEADLOCK FALSE
