SPECIFICATION WaveFairSpec
CONSTANTS
    Vars <- SmallVars
    Objs <- OneField
    Offsets = {1}
    BaseOf <- SmallBaseOf
    FieldOf <- SmallFieldOf
    ConstObjs = {}
    BlkObjs = {}
    NonPtrs = {}
    InitFI = {}
    MaxStatements = 4
    MaxFieldStatements = 3
    Programs <- PtrFieldPrograms
    CallLimit = 10
INVARIANTS PropagatedReached WaveNoStaleField CopiesApplied NothingInvented
PROPERTIES Terminates
CHECK_DEADLOCK FALSE
