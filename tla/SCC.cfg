SPECIFICATION FairSpec
CONSTANTS
    a = a
    b = b
    c = c
    d = d
    NoNode = NoNode
    Node = {a, b, c, d}
    Pairs <- NestedPairs
INVARIANTS
    TypeOK
    NothingPending
    QueriesExact
    SubNodesExact
PROPERTIES
    RepFinal
    Refines
    Termination
