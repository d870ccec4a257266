SPECIFICATION Spec
CONSTANTS
    Calls = {c1, c2}
    MaxToolRounds = 2
    MaxBatch = 1
    MaxTurns = 2
    StorageFails = FALSE
INVARIANT EveryRunIsAudited
CHECK_DEADLOCK FALSE
