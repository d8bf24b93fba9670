\* A recording and one call from outside it, no failures. The calls are bounded, so the system stops.
SPECIFICATION Spec
CONSTANTS
    Dict = Dict
    Http = Http
    Setter = Setter
    Tray = Tray
    L1 = L1
    L2 = L2
    A = A
    B = B
    Loaders <- TwoLoaders
    Models <- TwoModels
    Realtime <- OneRealtime
    NoModel = NoModel
    Free = Free
    MaxRecordings = 1
    MaxCalls = 1
    Immediately = FALSE
    LoadFails = FALSE
    Panics = FALSE
    Quits = FALSE
CHECK_DEADLOCK FALSE
PROPERTIES RightModel
