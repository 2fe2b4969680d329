CONSTANTS
    Users = 2
    InitialUsers = 1
    Role = {r1, r2}
    Picked = {r1}
    PageSize = 1
    Removal = {d1}
    MaxPage = 2
    MaxWrites = 2
    MaxFaults = 1
    MaxMoves = 2
    None = None
SPECIFICATION FairSpec
CHECK_DEADLOCK FALSE
INVARIANTS
    ScreenInv
    ReadYourWrites
    PagesExist
PROPERTY JobsSettle
