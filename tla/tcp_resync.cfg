SPECIFICATION FairSpec
CONSTANTS
    Requests <- OneRead
    Units = {1, 2}
    MaxCalls = 2
    MaxConns = 1
    MaxLen = 22
    IdMod = 256
    SplitAt = {8}
    Late = TRUE
    PeerFails = FALSE
    IoErrors = FALSE
    Aliens = FALSE
CHECK_DEADLOCK FALSE
PROPERTIES
    CallReturns
