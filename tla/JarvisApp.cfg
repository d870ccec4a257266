SPECIFICATION FairAppSpec
CONSTANTS
    Calls = {c1}
    MaxToolRounds = 1
    MaxBatch = 1
    MaxTurns = 2
    StorageFails = FALSE
    Requests = {r1, r2}
    NoRequest = NoRequest
    MaxEvents = 2
    SpawnMayFail = FALSE
    NoQuestion = NoQuestion
INVARIANTS
    BusyIsTheTask
    StreamIsItsTurn
    CardIsOfThisTurn
    GatedRunWasClicked
PROPERTIES
    BusyEnds
    LockIsFreed
CHECK_DEADLOCK FALSE
