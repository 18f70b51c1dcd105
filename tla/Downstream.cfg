SPECIFICATION FairSpec
CONSTANTS
    Writers = {w1, w2}
    MaxToken = 3
    MaxCalls = 3
CHECK_DEADLOCK FALSE
INVARIANTS
    TypeOK
    AcceptedInTokenOrder
    HistoryExplains
    RejectionIsDeserved
    AnswerMatchesHistory
PROPERTY
    CallsEnd
