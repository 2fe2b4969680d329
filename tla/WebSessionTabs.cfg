CONSTANTS
    Tab = {a, b}
    NextTab = {a}
    Slot = {s1}
    Token = {t1, t2, t3, t4}
    Family = {k1, k2, k3, k4}
    MaxMoves = 0
    None = None
SPECIFICATION Spec
SYMMETRY Symmetry
CHECK_DEADLOCK FALSE
PROPERTY CallsSucceedWhileCalm
