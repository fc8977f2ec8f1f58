CONSTANTS
    p = p
    q = q
    f = f
    g = g
    T = T
    x = x
    y = y
    Worker = {p, q}
    Id <- MCOwnId
    Node = {f, g, T, x, y}
    Fcn = {f, g}
    Type = {T}
    Foreign = {}
    Signature <- MCPairSignature
    Bodies <- MCPairBody
    Evals <- MCPairEvals
    Faults <- MCPairFaults
    Roots <- MCPairRoots
SPECIFICATION FairSpec
INVARIANTS
    OneWorker
PROPERTIES
    UnitsEnd
CHECK_DEADLOCK FALSE
