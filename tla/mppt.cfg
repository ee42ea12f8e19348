SPECIFICATION FairSpec
CONSTANTS
    Epoch = 9
    Period = 1
    Durations = {1, 3}
    MaxAlarms = 3
CHECK_DEADLOCK FALSE
INVARIANTS
    OffAtTheEnd
    CloseUndisturbed
    NoOverload
    OneAtATime
PROPERTIES
    RunEnds
