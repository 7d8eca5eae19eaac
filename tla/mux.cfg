\* Every call of the client, connections that break, a server that restarts.
SPECIFICATION FairSpec
CONSTANTS
    Blocks = {1, 2}
    Contents = {c1, c2}
    Batches <- PairBatch
    MaxConn = 2
    MaxChannel = 5
    MaxLater = 3
    None = None
INVARIANTS
    AnswersItsRequest
    AcknowledgedIsApplied
    CacheIsHonest
PROPERTY EveryCallReturns
CHECK_DEADLOCK FALSE
