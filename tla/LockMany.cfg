SPECIFICATION FairSpec
CONSTANTS
    None = None
    Clients = {a, b}
    Callers = {a, b, stranger}
    Locks = {l1, l2}
    Values <- MCValues
    Payloads <- MCPayloads
    MaxTime = 4
    MaxFence = 3
    TTL = 2
INVARIANTS
    TypeOK
    GroupAtomic
    FenceHasOneHolder
PROPERTIES
    PartitionRetainsGrant
    CommitCarriesNewestFence
    OneValuePerFence
    RefusalChangesNothing
    AuthorityIsCurrent
    StaleMeansSuperseded
    AssertionsHold
    ImplementsFencedLease
    PartitionEnds
