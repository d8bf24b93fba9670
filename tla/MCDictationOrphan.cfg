SPECIFICATION Spec
CONSTANTS
    transcribe = transcribe
    rewrite = rewrite
    Bindings <- MCBindings
    Rewriting <- MCRewriting
    Probing <- MCBindings
    Inputs <- MCToggle
    Cancellers = {c1}
    MaxInputs = 2
    MaxRuns = 1
    Panics = FALSE
INVARIANTS
    RecorderTracksStage
CHECK_DEADLOCK FALSE
