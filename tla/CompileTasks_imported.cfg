CONSTANTS
    f = f
    g = g
    h = h
    w1 = w1
    w2 = w2
    Worker = {w1}
    Fcn = {f, g, h}
    Bodies <- MCOneCall
    Breakable = {}
    JobLists <- MCImported
SPECIFICATION FairSpec
PROPERTIES
    LocalTasksComplete
CHECK_DEADLOCK FALSE
