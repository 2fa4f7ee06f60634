SPECIFICATION FairSpec
CONSTANTS
    Shells = {s1}
    Handlers = {h1, h2}
    NoShell = noshell
    NoHandler = nohandler
    MaxShells = 1
    Stubborn = {s1}
    Failures = FALSE
    Requests = {"create", "kill"}
PROPERTIES
    KilledShellDies
CHECK_DEADLOCK FALSE
