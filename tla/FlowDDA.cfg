CONSTANTS
    a = a
    b = b
    c = c
    h = h
    Var <- MCVar
    Obj <- MCObj
    Loc <- MCLoc
    Programs <- MCPrograms
SPECIFICATION Spec
INVARIANTS
    TypeOK
    AnswersRight
    NothingInvented
PROPERTY
    Termination
