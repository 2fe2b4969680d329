CONSTANTS
    Notes = 3
    InitialNotes = 2
    Limit = 2
    Fetch = {f1, f2}
    Tap = {t1, t2}
    MaxMoves = 3
    MaxFaults = 1
    MaxOthers = 1
    All = All
    None = None
SPECIFICATION FairSpec
CHECK_DEADLOCK FALSE
INVARIANTS
    NotesInv
    BadgeCounts
    OwnMarksShow
PROPERTY ReadInTheEnd
