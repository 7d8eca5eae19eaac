\* Two tasks that keep running, every kind of frame, both kinds of profile, and
\* an operator who resets, pauses and resumes the watchdog and reopens the bus.
SPECIFICATION FairSpec
CONSTANTS
    Tasks = {t1, t2}
    Frames <- GateFrames
    Profiles = {"balanced", "fast"}
    Timeout = 1
    MaxMissed = 1
    MaxPayload = 1
    Operator = TRUE
    NoFrame = NoFrame
PROPERTIES
    ImplementsGate
    EveryFrameAnswered
CHECK_DEADLOCK FALSE
