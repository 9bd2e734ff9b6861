SPECIFICATION FairSpec
CONSTANTS
    KexPrefs <- ClientKex
    CryptPrefs <- ClientCrypt
    Offers <- AllOffers
    MaxRounds = 3
    MaxQueue = 3
    None = None
INVARIANT SealsMatch
INVARIANT OnlyKexPackets
INVARIANT OnlyAnswersInTheWay
INVARIANT NoMutualWait
PROPERTY ExchangeEnds
CHECK_DEADLOCK FALSE
