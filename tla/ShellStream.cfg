SPECIFICATION Spec
CONSTANTS
    Clients = {c1, c2}
    NoClient = none
    OverCap = FALSE
    MaxSeq = 2
    MaxAttach = 2
SYMMETRY ClientSymmetry
INVARIANTS
    NoChunkLost
    StreamContinuesSnapshot
    ExitNeverHidden
    ClosedClientHoldsNothing
PROPERTIES
    EvictedClientIsSilent
    NeverEvictedSilently
    ViewingOfShell
CHECK_DEADLOCK FALSE
