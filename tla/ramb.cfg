\* Both transports over one store, connections that break, a server that restarts.
SPECIFICATION Spec
CONSTANTS
    b1 = b1  c1 = c1  c2 = c2
    t1 = t1  q1 = q1  q2 = q2
    TcpCalls = {t1}
    QuicCalls = {q1, q2}
    Batches <- PairBatch
    Blocks = {b1}
    Contents = {c1, c2}
    Oversized = {c2}
    TcpRequests <- OverTcp
    QuicRequests <- OverQuic
    MaxConn = 2
    MaxFaults = 2
    None = None
    Garbage = Garbage
INVARIANTS
    BatchIsWhole
    CacheIsHarmless
    NothingCorrupted
PROPERTIES
    ImplementsService
CHECK_DEADLOCK FALSE
