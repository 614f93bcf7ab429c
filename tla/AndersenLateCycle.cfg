CONSTANTS
    p = p
    q = q
    w = w
    x = x
    z = z
    a = a
    b = b
    o = o
    Var <- MCVar
    Obj <- MCObj
    Offset <- MCOffset
    baseOf <- MCBaseOf
    fieldOf <- MCFieldOf
    Programs <- MCPrograms
    constObj = {}
    blkObj = {}
    formal <- MCFormal
    funRet <- MCFormal
SPECIFICATION Spec
INVARIANT
    LoadStoreClosed
