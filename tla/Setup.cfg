SPECIFICATION FairSpec
CONSTANTS
    NullList = NullList
    HaveZlib = TRUE
    Servers <- AllServers
    MayLose = TRUE
    MayBeLate = TRUE
INVARIANT TypeOK
INVARIANT LoggedIn
INVARIANT OneCredential
INVARIANT CrashCauses
PROPERTY SetupEnds
CHECK_DEADLOCK FALSE
