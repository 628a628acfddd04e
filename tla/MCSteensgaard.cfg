SPECIFICATION FairSpec
CONSTANTS
    Vars <- SmallVars
    Objs <- OneField
    Offsets = {1}
    BaseOf <- SmallBaseOf
    FieldOf <- SmallFieldOf
    ConstObjs = {}
    BlkObjs = {}
    NonPtrs = {}
    InitFI = {}
    MaxStatements = 5
    MaxFieldStatements = 0
    Programs <- SteensPrograms
    CallLimit = 10
INVARIANTS OnlyAsked
PROPERTIES Terminates
CHECK_DEADLOCK FALSE
