SPECIFICATION Spec
CONSTANTS
    Requests = {r1, r2, r3}
    NoRequest = NoRequest
    MaxEvents = 1
    SpawnMayFail = TRUE
SYMMETRY Symmetry
INVARIANTS
    TypeOK
    OneTurnAtATime
    QueueIsOneTurn
