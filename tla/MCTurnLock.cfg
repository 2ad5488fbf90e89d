CONSTANTS
    Tasks = {t1, t2, t3}
    Keys = {ka, kb}
    Slots = {s1, s2, s3}
    None = None
    MaxDepth = 1
SPECIFICATION Spec
INVARIANTS TurnExclusion NoLeak
PROPERTIES WaiterServed ImplementsKeyedLock
