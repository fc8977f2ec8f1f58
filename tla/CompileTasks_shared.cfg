CONSTANTS
    f = f
    g = g
    h = h
    w1 = w1
    w2 = w2
    Worker = {w1, w2}
    Fcn = {f, g, h}
    Bodies <- MCBodies
    Breakable = {g}
    JobLists <- MCJobs
SPECIFICATION FairSpec
INVARIANTS
    OneCompiler
    RunsWhatIsThere
PROPERTIES
    BuiltOnce
    EveryJobEnds
CHECK_DEADLOCK FALSE
