CONSTANTS
    Passkey = {p, q}
    Synced = {q}
    Challenge = {c1}
    Setup = {s1}
    Request = {r1, r2, r3}
    MaxCount = 2
    None = None
SPECIFICATION PasskeysSpec
SYMMETRY Symmetry
CHECK_DEADLOCK FALSE
INVARIANT PasskeysInv
PROPERTIES
    ReplaysRefused
    CountersAdvance
