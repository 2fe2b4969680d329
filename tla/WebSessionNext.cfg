CONSTANTS
    Tab = {a}
    NextTab = {a}
    Slot = {s1, s2}
    Token = {t1, t2, t3, t4}
    Family = {k1, k2, k3}
    MaxMoves = 1
    None = None
SPECIFICATION FairSpec
CHECK_DEADLOCK FALSE
INVARIANT WebInv
PROPERTIES
    TransparentRefresh
    SignedInStaysSignedIn
    CallsSettle
    GuardsSettle
