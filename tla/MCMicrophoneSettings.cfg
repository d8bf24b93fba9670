SPECIFICATION FairSpec
CONSTANTS
    Dict = Dict
    Cancel = Cancel
    Main = Main
    Profile = Profile
    Linger = Linger
    Free = Free
    NoClose = NoClose
    f1 = f1
    Failers <- MCFailers
    Commands <- AllCommands
    StartModes <- BothModes
    OpenFails = TRUE
    MaxEpoch = 2
    MaxCalls = 1
    MaxFailures = 1
INVARIANTS
    TypeOK
    ProfileAlone
PROPERTIES
    LingerSpares
    CallsReturn
CHECK_DEADLOCK FALSE
