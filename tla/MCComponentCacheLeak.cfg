CONSTANTS
    Tasks = {t1, t2}
    Keys = {ka, kb}
    Slots = {s1, s2, s3}
    None = None
    WasmLen <- TwoBytes
    SerializedLen <- ThreeBytes
    MaxBytes = 4
    ProtectHits = 1
    HitCap = 1
    Configs <- TierSets
    MaxMishaps = 1
SPECIFICATION Spec
SYMMETRY TaskKeySlotSymmetry
INVARIANT NoTrackedKeyLeft
