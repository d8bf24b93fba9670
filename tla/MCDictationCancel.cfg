SPECIFICATION Spec
CONSTANTS
    transcribe = transcribe
    rewrite = rewrite
    Bindings <- MCBindings
    Rewriting <- MCRewriting
    Probing <- MCBindings
    Inputs <- MCToggle
    Cancellers = {c1}
    MaxInputs = 4
    MaxRuns = 2
    Panics = FALSE
INVARIANTS
    OnePipeline
    PasteUndisturbed
    StageTracksRecorder
    RewriteOwnsSelection
    RecorderTracksKeys
    UiRests
    FailClosed
PROPERTIES
    CancelHonoured
CHECK_DEADLOCK FALSE
