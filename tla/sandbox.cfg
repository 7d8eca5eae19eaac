CONSTANTS
    t1 = t1
    t2 = t2
    code = code
    code_py = code_py
    Threads = {t1, t2}
    Sizes = {2}
    WorkRegion = 3
    MaxAllocations = 1
    Intents = {code, code_py}
    Prefix <- MCPrefix
    AutoPush = TRUE
    None = None
    MaxScans = 2
    MaxSnapshots = 3
    MaxTime = 1
    MaxRecoveries = 1
    RegionIntent = code
SYMMETRY ThreadSymmetry
SPECIFICATION Spec
CHECK_DEADLOCK FALSE
INVARIANTS
    AllocationsAreDisjoint
    CleanBootIsLastResort
    CheckpointIsClosest
