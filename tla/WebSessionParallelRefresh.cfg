CONSTANTS
    Tab = {a}
    NextTab = {}
    Slot = {s1, s2}
    Token = {t1, t2, t3, t4}
    Family = {k1, k2, k3}
    MaxMoves = 0
    None = None
SPECIFICATION Spec
SYMMETRY Symmetry
CHECK_DEADLOCK FALSE
PROPERTY TransparentRefresh
