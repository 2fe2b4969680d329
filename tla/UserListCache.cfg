CONSTANTS
    Reader = {r1, r2}
    Writer = {w1, w2}
    SilentWriter = {}
    Faults = FALSE
    MaxWrites = 3
    MaxGen = 3
SPECIFICATION Spec
SYMMETRY Symmetry
CHECK_DEADLOCK FALSE
PROPERTY ImplementsPromise
