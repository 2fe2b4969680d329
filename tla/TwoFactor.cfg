CONSTANTS
    Challenge = {c1}
    Request = {r1, r2}
    Secret = {s1, s2}
    MaxAttempts = 2
    Place = {p1, p2}
    MaxMints = 2
    MaxLapses = 1
    None = None
SPECIFICATION Spec
SYMMETRY Symmetry
CHECK_DEADLOCK FALSE
INVARIANTS
    RetiredCodesStayRetired
    ClosedChallengesStayClosed
    ExpiredChallengesStayGone
    AttemptsBounded
    ShownCodesWork
PROPERTY EnabledSecretKept
