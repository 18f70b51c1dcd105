SPECIFICATION FairSpec
CONSTANTS
    Members = 3
    Keys <- MCKeys
    Holders <- MCHolders
    Nobody = Nobody
    MaxToken = 5
    Honest = FALSE
    MaxDelayed = 0
CHECK_DEADLOCK FALSE
INVARIANTS
    PassedMeansFenced
PROPERTY
    RunEnds
