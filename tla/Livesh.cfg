SPECIFICATION FairSpec
CONSTANTS
    Terminals = {t1}
    Sessions = {s1, s2}
    Nobody = nobody
    Other = other
    NoSession = nosession
    Table = 5
    Peak = 2
    MaxFaults = 2
    Loaded = TRUE
INVARIANTS
    TypeOK
    OneLiveSession
    FallsBackOrFailsLoudly
PROPERTIES
    KillsByConsent
    InvocationSettles
CHECK_DEADLOCK FALSE
