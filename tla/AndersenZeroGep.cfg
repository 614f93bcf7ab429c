CONSTANTS
    p = p
    q = q
    s = s
    f0 = f0
    Var <- MCVar
    Obj <- MCObj
    Offset <- MCOffset
    baseOf <- MCBaseOf
    fieldOf <- MCFieldOf
    Programs <- MCPrograms
    constObj = {}
    blkObj = {}
    formal <- MCFormal
    funRet <- MCFormal
SPECIFICATION Spec
INVARIANT
    GepClosed
