SPECIFICATION Spec
CONSTANTS
    NumCommands = 2
    Window = 4
    Buf = 1
    MinAdjust = 1
    MaxPacket = 2
    IdModulus = 2
    OutSizes = {0, 2}
    ErrSizes = {0, 1}
    StatusFirst = FALSE
    MaxNoise = 1
    MayLose = TRUE
INVARIANT TypeOK
INVARIANT OutputComplete
INVARIANT ExitCodeOwn
CHECK_DEADLOCK FALSE
