SPECIFICATION FairSpec
CONSTANTS
    Requests <- SomeRequests
    Slaves = {1, 2}
    MaxCalls = 2
    MaxLen = 9
    MaxNoise = 1
    SplitAt = {4}
    Late = TRUE
    Gaps = TRUE
    IoErrors = TRUE
CHECK_DEADLOCK FALSE
INVARIANTS
    TypeOK
    AnswerFromTarget
    ReadOfThatShape
PROPERTIES
    CallReturns
