SPECIFICATION FairSpec
CONSTANTS
    Shells = {s1, s2}
    Fds = {0, 1, 2, 3, 4}
    Busy = {0}
    NoFd = nofd
    Talkers = {s1}
    Mortal = {s2}
    MaxChunks = 1
    MaxUpgrades = 1
    Collects = TRUE
    Killed = {s2}
INVARIANTS
    SessionsSurvive
    DescriptorsAreOwn
    ScreenSurvivesFlush
PROPERTIES
    ExitNoticed
CHECK_DEADLOCK FALSE
