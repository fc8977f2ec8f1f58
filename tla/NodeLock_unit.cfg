CONSTANTS
    p = p
    q = q
    f = f
    g = g
    T = T
    x = x
    y = y
    Worker = {p}
    Id <- MCSameId
    Node = {f, g, T, x, y}
    Fcn = {f, g}
    Type = {T}
    Foreign = {g}
    Signature <- MCAnySignature
    Bodies <- MCAnyProgram
    Evals <- MCAnyEvals
    Faults <- MCAnyFaults
    Roots <- MCAnyRoots
SPECIFICATION Spec
INVARIANTS
    LockedIsHeld
    RestsOnValidated
    SuccessIsReal
PROPERTIES
    CircularIsReal
CHECK_DEADLOCK FALSE
