CONSTANTS
    a = a
    b = b
    w1 = w1
    w2 = w2
    Worker = {w1, w2}
    Setups <- MCSetups
SPECIFICATION FairSpec
INVARIANTS
    QueriesAreSafe
    SomethingToQuery
PROPERTIES
    NobodyWaitsForEver
CHECK_DEADLOCK FALSE
