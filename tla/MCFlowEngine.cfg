CONSTANTS
    None = None
    Graphs <- Packs
    Main = "main"
    Actions = {"go"}
    MaxSteps = 6
    MaxDepth = 2
    MaxRedirects = 2
    MaxParkTurns = 3
    MaxCreated = 1
    MaxAttempts = 2
    MaxTurns = 6
SPECIFICATION Spec
INVARIANTS
    EffectsGuarded
    OneRoutePerSubmit
    TurnsStayApart
    GateDecidedByOwnAnswer
    AwaitHasRequest
PROPERTY TurnEnds
