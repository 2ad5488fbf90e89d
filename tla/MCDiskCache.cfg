CONSTANTS
    Threads = {t1, t2}
    Blobs = {b1, b2}
    Damaged = Damaged
    None = None
    MaxFaults = 1
SPECIFICATION Spec
INVARIANTS ReadsOnlyWritten
PROPERTIES EntryHeals
