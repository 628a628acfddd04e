CONSTANTS
    Programs <- InitialisedPrograms
    Regs <- MCRegs
    Objs <- MCObjs
    Bits = 8
    IntBits = 7
    Args <- MCArgs
    Inputs <- MCInputs
    MaxVal = 9
    Inits = {0, 4}
    Limits = {0, 4, 5}
    Steps <- MCSteps
    Preds = {"EQ", "NE", "GT", "GE", "LT", "LE"}
    Delays = {1, 2, 3}
SPECIFICATION Spec
INVARIANTS Sound FixpointReached IterationsBounded
CHECK_DEADLOCK FALSE
