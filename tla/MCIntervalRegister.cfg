CONSTANTS
    Bits = 4
    IntBits = 3
    Operands <- MCOperands
    RangeOperands <- MCRangeOperands
SPECIFICATION Spec
INVARIANT ValueContained
CHECK_DEADLOCK FALSE
