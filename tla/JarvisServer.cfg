SPECIFICATION Spec
CONSTANTS
    Calls = {c1, c2}
    MaxToolRounds = 1
    MaxBatch = 1
    MaxTurns = 2
    StorageFails = FALSE
    Requests = {r1, r2}
    NoRequest = NoRequest
    MaxEvents = 2
    SpawnMayFail = FALSE
SYMMETRY Symmetry
INVARIANTS
    GatedRunWasAllowed
    QuestionIsBeingAsked
    NoAnswerAfterDelete
CHECK_DEADLOCK FALSE
