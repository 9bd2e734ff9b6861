SPECIFICATION Spec
CONSTANTS
    NoThread = NoThread
    NonString = NonString
    Unset = Unset
    Garbage = Garbage
    Default = Default
    Threads = {t1, t2}
    Commands = {c1, c2}
    Elements = {c1, c2, NonString}
    MaxLen = 2
    IndexModulus = 2
    MaxFds = 1
    MaxCalls = 2
    Pinned = {c1}
    ArgKinds = {"list", "other"}
    ListOps = {"pop", "set"}
    Faults = {"resolve", "connect", "handshake", "authlist", "auth", "open", "exec", "read"}
    SharedHostent = FALSE
INVARIANT TypeOK
INVARIANT RepeatsOnlyPastModulus
INVARIANT RunsArePrefix
INVARIANT OneChannel
INVARIANT ForeignExceptions
PROPERTY KeepsPromise
SYMMETRY ThreadSymmetry
CHECK_DEADLOCK FALSE
