SPECIFICATION FairSpec
CONSTANTS
    Agents = {"repl", "brief"}
    Attended = {"repl"}
    Repl = "repl"
    Listed = {"write_file", "edit_file"}
    Calls <- MCCalls
    MaxBlocks = 1
INVARIANTS
    TypeOK
    GatedRunsAreGranted
    FileIsWhatWasReported
    RecordingIsComplete
    SummaryFollowsRecording
    UtteranceIsRemoved
PROPERTIES
    OverwritesWereAllowed
    StopReturns
