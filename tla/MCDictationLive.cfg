SPECIFICATION FairSpec
CONSTANTS
    transcribe = transcribe
    rewrite = rewrite
    Bindings <- MCBindings
    Rewriting <- MCRewriting
    Probing <- MCBindings
    Inputs <- MCPushToTalk
    Cancellers = {c1}
    MaxInputs = 4
    MaxRuns = 2
    Panics = TRUE
PROPERTIES
    BusyEnds
    SessionSpec
CHECK_DEADLOCK FALSE
