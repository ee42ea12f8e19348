SPECIFICATION FairSpec
CONSTANTS
    Text <- Texts
    Answer <- Answers
    Uses = {"volt", "meas"}
    MaxCalls = 7
CHECK_DEADLOCK FALSE
INVARIANTS
    OwnAnswer
    ClosedIsOff
PROPERTIES
    HandshakeIsRight
    OperationEnds
