SPECIFICATION FairSpec
CONSTANTS
    Calls = {c1, c2}
    MaxToolRounds = 2
    MaxBatch = 2
    MaxTurns = 2
    StorageFails = TRUE
INVARIANTS
    TypeOK
    RanOnlyIfAllowed
    AuditIsTrue
    ModelIsToldTheLog
    ResultsFollowTheirReply
PROPERTY TurnEnds
CHECK_DEADLOCK FALSE
