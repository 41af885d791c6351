SPECIFICATION Spec
CONSTANTS
    i1 = i1
    i2 = i2
    k1 = k1
    k2 = k2
    Node <- Nodes
    StartNode = 1
    Graphs <- LoopGraphs
    Handle = {"a", "b"}
    Item = {i1, i2}
    ItemLists <- TwoItems
    ScopeKey <- DistinctKeys
    Widths = {1}
    MaxParallel = 1
    MaxAttempts = 2
    MaxFaults = 0
INVARIANT ScopesApart
CHECK_DEADLOCK FALSE
