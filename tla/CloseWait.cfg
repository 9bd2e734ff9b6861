SPECIFICATION Spec
CONSTANTS
    NumCommands = 1
    Window = 4
    Buf = 1
    MinAdjust = 1
    MaxPacket = 2
    IdModulus = 8
    OutSizes = {0, 2}
    ErrSizes = {0, 2}
    StatusFirst = FALSE
    MaxNoise = 1
    MayLose = FALSE
INVARIANT CloseWaitsForClose
CHECK_DEADLOCK FALSE
