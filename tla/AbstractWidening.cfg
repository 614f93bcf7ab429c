CONSTANTS
    x = x
    y = y
    None = None
    Undef = Undef
    Node <- MCNode
    Cell = {x, y}
    Function = {"f", "g"}
    Programs <- StoredInLoop
    UINT_MAX = 100
    Inf = 20
    WidenDelay = 1
    Window = 3
    Depth = 2
SPECIFICATION RunSpec
CHECK_DEADLOCK FALSE
INVARIANT
    Covered
