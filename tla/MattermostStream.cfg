CONSTANTS
    MaxQueue = 2
    MaxWrites = 5
SPECIFICATION FairSpec
CHECK_DEADLOCK FALSE
INVARIANTS
    QueueBounded
    NoLostWakeup
    InOrder
    NothingVanishes
    LossesAccounted
PROPERTY Quiesces
