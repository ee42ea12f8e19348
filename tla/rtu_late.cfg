SPECIFICATION Spec
CONSTANTS
    Requests <- ReadAndWrite
    Slaves = {1, 2}
    MaxCalls = 2
    MaxLen = 9
    MaxNoise = 0
    SplitAt = {}
    Late = TRUE
    Gaps = FALSE
    IoErrors = FALSE
CHECK_DEADLOCK FALSE
INVARIANTS OwnAnswer
