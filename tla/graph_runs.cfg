SPECIFICATION FairSpec
CONSTANTS
    i1 = i1
    i2 = i2
    k1 = k1
    k2 = k2
    Node <- Nodes
    StartNode = 1
    Graphs <- AllGraphs
    Handle = {"a", "b"}
    Item = {i1, i2}
    ItemLists <- SomeItems
    ScopeKey <- DistinctKeys
    Widths = {1, 2}
    MaxParallel = 2
    MaxAttempts = 2
    MaxFaults = 2
INVARIANTS TypeOK JoinWaits QuietWhenOver ErrorsSurface LoopServed
PROPERTY Terminates
CHECK_DEADLOCK FALSE
