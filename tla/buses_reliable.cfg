SPECIFICATION BusesFairSpec
CONSTANTS
    Requests <- EveryTarget
    Units = {1, 2}
    MaxCalls = 3
    MaxConns = 1
    MaxLen = 22
    IdMod = 256
    SplitAt = {1, 7}
    Late = FALSE
    PeerFails = FALSE
    IoErrors = FALSE
    Aliens = FALSE
    SerialRequests <- EveryTarget
    SerialSplitAt = {4}
    SerialMaxLen = 9
    Slaves = {1, 2}
    MaxNoise = 1
    Gaps = FALSE
CHECK_DEADLOCK FALSE
PROPERTIES
    SerialKeepsPromise
    SerialHeardIsAnswered
    CallReturns
    HeardIsAnswered
