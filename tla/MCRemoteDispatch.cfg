CONSTANTS
    Replicas = {r1, r2}
    MaxDispatches = 2
SPECIFICATION Spec
INVARIANTS DeadlineKeptAcross WatchdogsExact
PROPERTIES WaitEnds
