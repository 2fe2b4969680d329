CONSTANTS
    Reader = {r1, r2}
    Writer = {w1, w2}
    SilentWriter = {w2}
    Faults = TRUE
    MaxWrites = 2
    MaxGen = 2
SPECIFICATION FairSpec
CHECK_DEADLOCK FALSE
PROPERTY StaleOnlyForATime
