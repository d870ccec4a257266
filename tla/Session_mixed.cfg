SPECIFICATION Spec
CONSTANTS
    Requests = {r1, r2}
    NoRequest = NoRequest
    MaxEvents = 1
    SpawnMayFail = FALSE
INVARIANT StreamSendsOwnTurn
