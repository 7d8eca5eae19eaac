\* Three tasks on the shared bus and watchdog, without an operator; one kind of
\* frame is too large for the bus.
SPECIFICATION Spec
CONSTANTS
    Tasks = {t1, t2, t3}
    Frames <- CoreFrames
    Profiles = {"balanced"}
    Timeout = 1
    MaxMissed = 2
    MaxPayload = 1
    Operator = FALSE
    NoFrame = NoFrame
SYMMETRY Symmetry
INVARIANTS
    TypeOK
    NoGapNoLoss
    DeliveredOnce
    KillReachesBus
CHECK_DEADLOCK FALSE
