CONSTANTS
    a = a
    b = b
    c = c
    d = d
    Var <- MCVar
    Obj <- MCObj
    Loc <- MCLoc
    Programs <- LoopPrograms
    Plain = 0
    FormalRet <- MCFormalRet
    Inter <- MCInter
SPECIFICATION BothSpec
INVARIANT
    Precise
