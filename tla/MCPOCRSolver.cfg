SPECIFICATION POCRFairSpec
CONSTANTS
    Nodes = {1, 2, 3}
    GNodes = {1, 2, 3}
    MaxEdges = 2
    Symbols <- FlowSymbols
    EpsilonProds = {"A"}
    SingleProds <- FlowSingle
    PairProds <- FlowPair
    Graphs <- FlowGraphs
    Calls <- TwoArguments
    Targets <- FunctionTwo
    StartKind = "A"
    Copy = "copy"
    Copybar = "copybar"
INVARIANTS POCRTypeOK ProductionsApplied
PROPERTIES OnlyDerivable Terminates
CHECK_DEADLOCK FALSE
