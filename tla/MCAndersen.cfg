SPECIFICATION FairSpec
CONSTANTS
    Vars <- ConstVars
    Objs <- ConstObjects
    Offsets = {1, 2}
    BaseOf <- SmallBaseOf
    FieldOf <- SmallFieldOf
    ConstObjs = {"k"}
    BlkObjs = {}
    NonPtrs = {"n"}
    InitFI = {}
    MaxStatements = 5
    MaxFieldStatements = 5
    Programs <- AllKindsPrograms
    CallLimit = 10
INVARIANTS PropagatedReached NoStaleField
PROPERTIES Implements Terminates
CHECK_DEADLOCK FALSE
