\* Every method of the controller, called by its owner before production mode
\* and by another thread beside the fault thread; RAM B over a network that fails.
SPECIFICATION FairSpec
CONSTANTS
    N = 2
    MaxResident = 1
    Transport = "mux"
    Pages = {p1}
    Batches <- DistinctBatches
    Shared = TRUE
    MaxAccess = 2
    MaxRefused = 1
    NoPage = NoPage
INVARIANTS
    TypeOK
    CountIsExact
    RamBHasLastWrites
    RemoteIsFetchable
PROPERTY FaultIsServed
CHECK_DEADLOCK FALSE
