CONSTANTS
    None = None
    Calls = {c1, c2}
    Runs = {1, 2}
    Graphs <- AllGraphs
    Labels <- LeftRight
    Decisions = {"approved", "denied"}
    MaxNodeVisits = 5
    MaxMishaps = 1
    SlowGraphs <- Slow
SPECIFICATION Spec
INVARIANTS
    LogMatchesLedger
    OutcomesAgree
    EffectsOnce
    ValidatedGraphRuns
    OneOpenRun
PROPERTIES
    NoLostSlot
    TerminalSticks
    CallEnds
CHECK_DEADLOCK FALSE
