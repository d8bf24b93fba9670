SPECIFICATION FairSpec
CONSTANTS
    Dict = Dict
    Cancel = Cancel
    Main = Main
    Profile = Profile
    Linger = Linger
    Free = Free
    NoClose = NoClose
    f1 = f1
    Failers <- NoFailers
    Commands = {"mode"}
    StartModes <- AlwaysOnOnly
    OpenFails = FALSE
    MaxEpoch = 1
    MaxCalls = 1
    MaxFailures = 0
PROPERTIES
    DictationReturns
CHECK_DEADLOCK FALSE
