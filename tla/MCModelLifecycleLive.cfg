\* A recording and one call from outside it, failing loads, the immediate policy. The calls are bounded, so the system stops.
SPECIFICATION FairSpec
CONSTANTS
    Dict = Dict
    Http = Http
    Setter = Setter
    Tray = Tray
    L1 = L1
    L2 = L2
    A = A
    B = B
    Loaders <- TwoLoaders
    Models <- TwoModels
    Realtime <- OneRealtime
    NoModel = NoModel
    Free = Free
    MaxRecordings = 1
    MaxCalls = 1
    Immediately = TRUE
    LoadFails = TRUE
    Panics = FALSE
    Quits = FALSE
CHECK_DEADLOCK FALSE
PROPERTIES PendingServed CallsReturn
