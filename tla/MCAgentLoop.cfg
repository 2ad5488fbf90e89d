CONSTANTS
    None = None
    Turns = {1, 2, 3}
    Batches <- SomeBatches
    Flows = {"form"}
    Denied = {"bad"}
    Modes <- SomeModes
    MaxIter = 2
    MaxHistory = 4
    MaxSideTurns = 1
    MaxToolTurns = 2
SPECIFICATION Spec
INVARIANTS
    HistoryValid
    ParkAnswerable
    ResultsBelong
    AwaitIffParked
PROPERTIES
    NoLostUpdate
