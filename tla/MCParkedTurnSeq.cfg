CONSTANTS
    Turns = {t1, t2, t3}
    Legacy = Legacy
    None = None
    MaxAttempts = 2
    MaxTries = 2
    MaxMishaps = 1
    MaxCrashes = 0
SPECIFICATION Spec
INVARIANTS SeqNeverRepeats
