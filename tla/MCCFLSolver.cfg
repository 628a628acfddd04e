SPECIFICATION FairSpec
CONSTANTS
    Nodes = {1, 2, 3}
    GNodes = {1, 2, 3}
    MaxEdges = 2
    Symbols <- FlowSymbols
    EpsilonProds = {"A"}
    SingleProds <- FlowSingle
    PairProds <- FlowPair
    Graphs <- FlowGraphs
    Calls <- OneCall
    Targets <- FunctionOne
    StartKind = "A"
    Copy = "copy"
    Copybar = "copybar"
INVARIANT Covered
PROPERTIES Implements Terminates
CHECK_DEADLOCK FALSE
