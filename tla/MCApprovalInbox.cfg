CONSTANTS
    Ids = {a1, a2}
    Convs = {c1}
    None = None
    MaxRetries = 1
    MaxPanics = 1
SPECIFICATION Spec
INVARIANTS OneResumeAttempt ParkedIsWatched
CHECK_DEADLOCK FALSE
PROPERTIES ParkEnds
