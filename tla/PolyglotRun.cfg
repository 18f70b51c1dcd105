SPECIFICATION FairSpec
CONSTANTS
    Sources = {"s1", "s2"}
    Cases = 2
    Attempts = 2
    MaxRuns = 3
CHECK_DEADLOCK FALSE
INVARIANTS
    TypeOK
    ReceiptNeedsEveryCase
    PassedMeansItsOwn
    NoBrokerLeft
PROPERTIES
    ReadinessEnds
