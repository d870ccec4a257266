SPECIFICATION FairSpec
CONSTANTS
    text = text
    last = last
    Files <- MCFiles
    NextDue <- MCNextDue
    Notifying = {"brief"}
    Triggers = {"post"}
    MaxTime = 2
    MaxCrashes = 1
    MaxEdits = 1
    StorageFails = TRUE
    NotifierFails = TRUE
INVARIANTS
    TypeOK
    HistoryIsTrue
PROPERTIES
    ScheduledRunsAreOnTime
    DueWorkflowsRun
CHECK_DEADLOCK FALSE
