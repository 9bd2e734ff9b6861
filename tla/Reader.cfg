SPECIFICATION FairSpec
CONSTANTS
    Header = 2
    Block = 3
    Mac = 4
    BufSize = 10
    MaxPayload = 9
    Sizes = {3, 6, 9}
    NumPackets = 3
    NumPlain = 1
    Junk = Junk
INVARIANT TypeOK
INVARIANT PacketsWhole
INVARIANT FailureCauses
INVARIANT NothingLeftBehind
PROPERTY AllRead
CHECK_DEADLOCK FALSE
