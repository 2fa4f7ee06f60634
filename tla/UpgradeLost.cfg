SPECIFICATION FairSpec
CONSTANTS
    Clients = {c1, c2}
    Daemons = {d1, d2}
    Nobody = nobody
    Stale = stale
    Polls = 1
    MaxUpgrades = 1
    MayCrash = FALSE
PROPERTIES
    UpgradeKeepsSessions
CHECK_DEADLOCK FALSE
