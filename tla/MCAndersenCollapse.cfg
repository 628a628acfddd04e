SPECIFICATION Spec
CONSTANTS
    Vars <- CollapseVars
    Objs <- CollapseObjs
    Offsets = {1}
    BaseOf <- CollapseBaseOf
    FieldOf <- CollapseFieldOf
    ConstObjs = {}
    BlkObjs = {}
    NonPtrs = {}
    InitFI = {}
    MaxStatements = 0
    MaxFieldStatements = 0
    Programs <- CollapsePrograms
    CallLimit = 10
INVARIANTS CopiesApplied
CHECK_DEADLOCK FALSE
