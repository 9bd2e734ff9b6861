SPECIFICATION Spec
CONSTANTS
    NumCommands = 1
    Window = 4
    Buf = 1
    MinAdjust = 1
    MaxPacket = 2
    IdModulus = 8
    OutSizes = {0, 2}
    ErrSizes = {4}
    StatusFirst = FALSE
    MaxNoise = 0
    MayLose = FALSE
INVARIANT ReadHasWindow
CHECK_DEADLOCK FALSE
