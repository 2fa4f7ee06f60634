SPECIFICATION FairSpec
CONSTANTS
    Clients = {c1, c2}
    Daemons = {d1, d2}
    Nobody = nobody
    Stale = stale
    Polls = 1
    MaxUpgrades = 2
    MayCrash = TRUE
INVARIANTS
    OneDaemonServes
PROPERTIES
    ListenerKeepsPath
    SpawnYieldsDaemon
    OnlyDaemonsBlock
CHECK_DEADLOCK FALSE
