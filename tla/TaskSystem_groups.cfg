CONSTANTS
    WorkerCount = 3
    MaskBits = 64
    a = a
    b = b
    c = c
    d = d
    e = e
    u = u
    v = v
    NoTask = NoTask
    Task = {a, b, c, d, e}
    Parse = {a, b, c, d, e}
    Imports <- MCTree
    Groups <- MCOneGroup
SPECIFICATION FairSpec
INVARIANTS
    TypeOK
    StackExclusive
    ListedIsIdle
    AllAccountedFor
PROPERTIES
    WaitTerminates
    ImplementsTaskGroup
