\* A recording and one call from outside it, every failure, the immediate policy. The calls are bounded, so the system stops.
SPECIFICATION Spec
CONSTANTS
    Dict = Dict
    Http = Http
    Setter = Setter
    Tray = Tray
    L1 = L1
    L2 = L2
    A = A
    B = B
    Loaders <- TwoLoaders
    Models <- TwoModels
    Realtime <- OneRealtime
    NoModel = NoModel
    Free = Free
    MaxRecordings = 1
    MaxCalls = 1
    Immediately = TRUE
    LoadFails = TRUE
    Panics = TRUE
    Quits = TRUE
CHECK_DEADLOCK FALSE
INVARIANTS OneResident SlotMatchesCurrent StreamStable
