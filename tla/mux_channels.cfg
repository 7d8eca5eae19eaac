\* A batch that is given up, and the calls after it.
SPECIFICATION Spec
CONSTANTS
    Blocks = {1, 2}
    Contents = {c1, c2}
    Batches <- PairBatch
    MaxConn = 1
    MaxChannel = 4
    MaxLater = 4
    None = None
INVARIANT AnsweredByChannel
CHECK_DEADLOCK FALSE
