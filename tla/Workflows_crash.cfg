SPECIFICATION Spec
CONSTANTS
    text = text
    last = last
    Files <- MCFiles
    NextDue <- MCNextDue
    Notifying = {"brief"}
    Triggers = {"post"}
    MaxTime = 2
    MaxCrashes = 0
    MaxEdits = 0
    StorageFails = FALSE
    NotifierFails = TRUE
INVARIANT RunsNeverCrashTheScheduler
