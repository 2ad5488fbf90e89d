CONSTANTS
    Turns = {t1, t2, t3}
    Legacy = Legacy
    None = None
    MaxAttempts = 2
    MaxTries = 2
    MaxMishaps = 2
    MaxCrashes = 1
SPECIFICATION Spec
SYMMETRY TurnSymmetry
INVARIANTS TurnEffectsOnce RepeatsOnlyIfUnsettled SeqFollowsTurns OneEventPerTurn RunFollowsWait
