SPECIFICATION Spec
CONSTANTS
    NoThread = NoThread
    NonString = NonString
    Unset = Unset
    Garbage = Garbage
    Default = Default
    Threads = {t1, t2}
    Commands = {c1, c2}
    Elements = {c1, c2}
    MaxLen = 2
    IndexModulus = 3
    MaxFds = 2
    MaxCalls = 2
    Pinned = {}
    ArgKinds = {"list"}
    ListOps = {}
    Faults = {"connect"}
    SharedHostent = FALSE
SYMMETRY ThreadSymmetry
INVARIANT FailureRaisedInCaller
CHECK_DEADLOCK FALSE
