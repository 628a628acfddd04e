SPECIFICATION Spec
CONSTANTS
    SVFGNodes <- MCNodes
    Vars <- MCVars
    Objs <- MCObjs
    Kind <- MCKind
    Lhs <- MCLhs
    Def <- MCDef
    ObjAt <- MCObjAt
    FieldAt <- MCFieldAt
    PtrAt <- MCPtrAt
    SrcAt <- MCSrcAt
    FunPtrsAt <- MCFunPtrsAt
    Scalars = {}
    ConstObjs = {}
    Singletons = {"o"}
    IndCalls <- MCIndCalls
    MaxPhi = 1
    PhiMenu <- OptMenu
    Graphs <- MCGraphs
    Candidates = {"x", "r"}
    Budgets = {5, 100}
CHECK_DEADLOCK FALSE
INVARIANTS AnswerSound AnswerExact NeverWorse ClearFindsMark
PROPERTY Terminates
