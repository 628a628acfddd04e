SPECIFICATION Spec
CONSTANTS
    Vars <- MemberVars
    Objs <- MemberObjs
    Offsets = {0}
    BaseOf <- SelfBaseOf
    FieldOf <- SelfFieldOf
    ConstObjs = {}
    BlkObjs = {}
    NonPtrs = {}
    InitFI = {}
    MaxStatements = 0
    MaxFieldStatements = 0
    Programs <- MemberPrograms
    CallLimit = 10
INVARIANTS CopiesUnified
CHECK_DEADLOCK FALSE
