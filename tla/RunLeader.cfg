SPECIFICATION Spec
CONSTANTS
    Members = 3
    Keys <- MCKeys
    Holders <- MCHolders
    Nobody = Nobody
    MaxToken = 7
    Honest = TRUE
    MaxDelayed = 0
CHECK_DEADLOCK FALSE
PROPERTY CrashesTheLeader
