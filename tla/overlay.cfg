\* Sends and migrations that overlap, of two identities.
SPECIFICATION Spec
CONSTANTS
    pixel = pixel  jispixel = jispixel  hub = hub  e1 = e1  e2 = e2
    Names = {pixel, jispixel, hub}
    Bare = {pixel}
    Norm <- Completed
    Endpoints = {e1, e2}
    Api <- ApiKnows
    Calls = {c1, c2}
    MaxConn = 2
    MaxEvents = 1
    None = None
INVARIANTS
    NoForeignEndpoint
PROPERTIES
    MigrationTakesHold
    CallsReturn
CHECK_DEADLOCK FALSE
