SPECIFICATION FairSpec
CONSTANTS
    Clients = {c1}
    NoClient = none
    OverCap = TRUE
    MaxSeq = 1
    MaxAttach = 2
PROPERTIES
    OutputReachesClient
    TeardownEnds
CHECK_DEADLOCK FALSE
