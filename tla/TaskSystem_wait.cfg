CONSTANTS
    WorkerCount = 2
    MaskBits = 64
    a = a
    b = b
    c = c
    d = d
    e = e
    u = u
    v = v
    NoTask = NoTask
    Task = {a, b, c}
    Parse = {}
    Imports <- MCFlat
    Groups <- MCBackends
SPECIFICATION Spec
INVARIANTS
    WaitCoversGroup
CHECK_DEADLOCK FALSE
