SPECIFICATION FairSpec
CONSTANTS
    Members = {m1, m2}
    Ports = {p1, p2}
    Nobody = Nobody
    Harness = Harness
    Stranger = Stranger
    MaxStarts = 3
CHECK_DEADLOCK FALSE
INVARIANTS
    TypeOK
    NoProcessLeft
PROPERTIES
    OneProcessPerMember
    StartEnds
    StopEnds
