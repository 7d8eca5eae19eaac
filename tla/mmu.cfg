CONSTANTS
    Data = {}
    TopLevel = 1
    MaxEntries = 1
    MaxSeals = 1
    NoSession = NoSession
    Garbage = Garbage
    Threads = {t1, t2}
    Pages = 3
    SealedPages = 2
    Absent = Absent
    Zero = Zero
    Nobody = Nobody
SPECIFICATION ArenaSpec
CHECK_DEADLOCK FALSE
INVARIANTS
    PagesAreTheirOwn
PROPERTIES
    EveryReadReturns
    HandlerEnds
