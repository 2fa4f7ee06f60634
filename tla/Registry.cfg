SPECIFICATION FairSpec
CONSTANTS
    Shells = {s1}
    Handlers = {h1, h2}
    NoShell = noshell
    NoHandler = nohandler
    MaxShells = 1
    Stubborn = {}
    Failures = TRUE
    Requests = {"create", "open", "rename", "kill", "idle", "gc", "sweep"}
INVARIANTS
    TypeOK
    CapacityBound
    RegisteredIsTended
PROPERTIES
    TableOfSessions
    ExitCleansUp
CHECK_DEADLOCK FALSE
