CONSTANTS
    a = a
    b = b
    c = c
    d = d
    Var <- MCVar
    Obj <- MCObj
    Loc <- MCLoc
    Programs <- MCPrograms
    Plain = 0
    FormalRet <- MCFormalRet
    Inter <- MCInter
SPECIFICATION BothSpec
INVARIANTS
    TypeOK
    NoNewsLost
    StrongUpdateKills
    Exact
    SolvedUnlessEmptied
    AgreesWithSparse
PROPERTY
    BothEnd
