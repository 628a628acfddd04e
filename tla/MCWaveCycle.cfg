SPECIFICATION WaveSpec
CONSTANTS
    Vars <- CycleVars
    Objs <- CycleObjs
    Offsets = {0}
    BaseOf <- SelfBaseOf
    FieldOf <- SelfFieldOf
    ConstObjs = {}
    BlkObjs = {}
    NonPtrs = {}
    InitFI = {}
    MaxStatements = 0
    MaxFieldStatements = 0
    Programs <- CyclePrograms
    CallLimit = 10
INVARIANTS LoadsAndStoresApplied
CHECK_DEADLOCK FALSE
