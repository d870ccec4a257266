SPECIFICATION Spec
CONSTANTS
    Calls = {c1, c2}
    MaxToolRounds = 2
    MaxBatch = 1
    MaxTurns = 2
    StorageFails = FALSE
INVARIANT ProviderSeesResults
CHECK_DEADLOCK FALSE
