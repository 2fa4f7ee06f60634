SPECIFICATION FairSpec
CONSTANTS
    InputPieces <- ReleasePieces
    OutputPieces <- ResetPieces
    MaxPieces = 3
    MaxPrefix = 5
    MaxNumber = 99
INVARIANTS
    TypeOK
    OnlyReleasesDropped
    CutsDoNotMatter
    ResetDetected
PROPERTIES
    PendingLetGo
CHECK_DEADLOCK FALSE
