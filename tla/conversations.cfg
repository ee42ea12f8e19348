SPECIFICATION TalkSpec
CONSTANTS
    Requests <- AllRequests
    Bytes <- SomeBytes
    Lengths <- SomeLengths
    Errors <- SomeErrors
    Width = 3
    Names = {"a", "TIMED_OUT"}
    MaxOpen = 2
    MaxQueries = 2
    Late = TRUE
    Devices <- SomeDevices
    Numbers = {0, 5}
    Rates = {300, 14400}
    Foreign <- SomeForeign
    MaxChildren = 2
    MaxFd = 8
    Closed = {0}
CHECK_DEADLOCK FALSE
INVARIANTS
    ReadsTheAnswer
    AnswersAreRight
    LineFollowsSettings
    StreamsAreWired
PROPERTIES
    FailureLeavesNothing
    ChildrenEnd
