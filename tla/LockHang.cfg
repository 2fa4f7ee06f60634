SPECIFICATION FairSpec
CONSTANTS
    Handlers = {h1, h2, h3, h4}
    h1 = h1
    h2 = h2
    h3 = h3
    h4 = h4
    Nobody = nobody
    Jobs <- OneEach
    MsgLen = 2
    InputCap = 1
    OutputCap = 1
    Program = "copies"
PROPERTIES
    KillAnswered
CHECK_DEADLOCK FALSE
