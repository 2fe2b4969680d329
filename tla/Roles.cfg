CONSTANTS
    Role = {A, x, y}
    Name = {A, n1, n2}
    WellKnown = {A}
    User = {u1}
    Request = {r1, r2}
    None = None
SPECIFICATION FairSpec
CHECK_DEADLOCK FALSE
INVARIANTS
    RolesInv
    HoldersAreAsked
PROPERTIES
    ImplementsCatalog
    RequestsSettle
