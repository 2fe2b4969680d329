CONSTANTS
    User = {u1}
    Token = {t1, t2}
    ResetToken = {p1}
    Request = {r1, r2}
    MaxPassword = 1
    None = None
SPECIFICATION MCSpec
SYMMETRY Symmetry
CHECK_DEADLOCK FALSE
INVARIANTS
    IInv
    QuietWipeIsFinal
    QuietResetIsFinal
    OneLiveTokenAlone
PROPERTIES
    SpentStaysSpent
