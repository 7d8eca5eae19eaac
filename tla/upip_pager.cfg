\* Every call of the pager, a bulk that finds room for some of its pieces only,
\* tokens altered outside the pager.
SPECIFICATION Spec
CONSTANTS
    Tasks = {t1, t2}
    Kernels = {kB}
    ChunkSize = 2
    MaxPagedChunks = 2
    Single = {0, 2}
    Bulk = {2, 3, 5}
    Regions <- AroundThresholds
    MaxAccess = 2
    MaxFaults = 1
INVARIANTS
    Accounting
PROPERTIES
    TokenLifecycle
    BulkIsWhole
SYMMETRY TaskSymmetry
