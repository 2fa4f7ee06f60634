SPECIFICATION FairSpec
CONSTANTS
    Handlers = {h1, h2, h3}
    h1 = h1
    h2 = h2
    h3 = h3
    h4 = h4
    Nobody = nobody
    Jobs <- ClientsAndKill
    MsgLen = 2
    InputCap = 1
    OutputCap = 1
    Program = "reads"
INVARIANTS
    MessagesWhole
    WritesToOpenMaster
    SizesAgree
PROPERTIES
    RequestsAnswered
CHECK_DEADLOCK FALSE
