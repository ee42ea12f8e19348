SPECIFICATION ObjectsSpec
CONSTANTS
    b1 = b1
    b2 = b2
    h1 = h1
    h2 = h2
    h3 = h3
    Buses <- TwoBuses
    Handles <- ThreeHandles
    Addrs = {0, 1}
    Width = 8
    Start = {0}
    Calls <- SomeCalls
    Files <- SomeFiles
    Loaders <- SomeLoaders
    MaxKeys = 3
    MaxTasks = 5
    Names = {1, 2}
    Contents <- SomeContents
    Exprs <- SomeExprs
    MaxBlocks = 4
    MaxSteps = 3
CHECK_DEADLOCK FALSE
INVARIANTS
    ClearEmpties
