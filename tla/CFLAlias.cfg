CONSTANTS
    copy = "copy"
    copybar = "copybar"
    NoEdge = NoEdge
    Node <- MCNode
    Symbol <- MCSymbol
    Epsilon <- MCEpsilon
    Unary <- MCUnary
    Binary <- MCBinary
    Graphs <- MCGraphs
    Rank <- MCRank
    Calls <- MCCalls
    Setups <- MCSetups
SPECIFICATION AliasSpec
INVARIANTS
    TypeOK
    NoPairMissed
    MapsAgree
PROPERTIES
    Termination
    Promise
