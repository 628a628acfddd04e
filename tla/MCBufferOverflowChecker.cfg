CONSTANTS
    Programs <- MCPrograms
    Vars <- MCVars
    Inputs <- MCInputs
    Sizes = {2, 4}
    Bits = 6
    MaxDepth = 40
    Slack = 10
    MAX_CALL_DEPTH = 4
    MAX_SEED_CONTEXTS = 4
    MaxVal = 7
    MaxFrames = 5
SPECIFICATION Spec
INVARIANTS OverflowsReported MustIsCertain
CHECK_DEADLOCK FALSE
