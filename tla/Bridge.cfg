SPECIFICATION FairSpec
CONSTANTS
    Attempts = 2
    MaxUpgrades = 1
    MaxKeys = 1
    MaxResizes = 1
    MaxOutputs = 1
    MaxRivals = 1
    Rival = rival
    Nobody = nobody
INVARIANTS
    EndsForAReason
PROPERTIES
    TypedKeyArrives
    ReconnectSettles
    AbandonedLetGo
CHECK_DEADLOCK FALSE
