SPECIFICATION BusesSpec
CONSTANTS
    Requests <- OneRead
    Units = {1, 2}
    MaxCalls = 3
    MaxConns = 2
    MaxLen = 16
    IdMod = 256
    SplitAt = {8}
    Late = TRUE
    PeerFails = TRUE
    IoErrors = TRUE
    Aliens = TRUE
    SerialRequests <- TwoUnits
    SerialSplitAt = {4}
    SerialMaxLen = 9
    Slaves = {1, 2}
    MaxNoise = 0
    Gaps = TRUE
CHECK_DEADLOCK FALSE
INVARIANTS
    OwnAnswer
    FreshLinkNoLag
    LagPersists
    AnswersInOrder
PROPERTIES
    KeepsPromise
