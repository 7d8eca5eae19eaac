CONSTANTS
    d1 = d1
    d2 = d2
    d3 = d3
    Data = {d1, d2, d3}
    TopLevel = 1
    MaxEntries = 2
    MaxSeals = 2
    NoSession = NoSession
    Garbage = Garbage
    MaxBlocks = 3
    MaxBatch = 2
    MaxReads = 2
    MaxFaults = 1
SYMMETRY DataSymmetry
SPECIFICATION Spec
CHECK_DEADLOCK FALSE
INVARIANTS
    SealedStaysReadable
    ReadsWhatWasSealed
    LimitsHold
    AuditIsComplete
