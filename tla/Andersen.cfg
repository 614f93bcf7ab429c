CONSTANTS
    p = p
    q = q
    r = r
    g = g
    s = s
    f0 = f0
    f1 = f1
    blk = blk
    Var <- MCVar
    Obj <- MCObj
    Offset <- MCOffset
    baseOf <- MCBaseOf
    fieldOf <- MCFieldOf
    Programs <- MCPrograms
    constObj = {}
    blkObj <- MCBlk
    formal <- MCFormal
    funRet <- MCFunRet
SPECIFICATION Spec
INVARIANTS
    GraphWellFormed
    PropagatedArrived
    LoadStoreClosedUnmerged
    Precise
    WaveComplete
    NoStaleField
    GepClosed
    FlowClosed
PROPERTY
    Termination
