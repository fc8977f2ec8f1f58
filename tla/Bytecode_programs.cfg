\* Loops in loops, everything that leaves them early, functions that do.
CONSTANTS
    NullList = 65535
    Images <- AllImages
SPECIFICATION Spec
INVARIANTS
    Sound
PROPERTIES
    RunsAsMeant
CHECK_DEADLOCK FALSE
