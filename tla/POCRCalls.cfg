CONSTANTS
    copy = "copy"
    copybar = "copybar"
    NoEdge = NoEdge
    Node <- MCNode
    Symbol <- MCSymbol
    Epsilon <- MCEpsilon
    Unary <- MCUnary
    Binary <- MCBinaryLinear
    Graphs <- MCGraphs
    Rank <- MCRank
    Calls <- MCLateCalls
    Setups <- MCPOCRSetups
SPECIFICATION AliasSpec
INVARIANT
    JoinsAdded
