SPECIFICATION CaptureSpec
CONSTANTS
    Dict = Dict
    Cancel = Cancel
    Main = Main
    Profile = Profile
    Linger = Linger
    Free = Free
    NoClose = NoClose
    Failers = {}
    Commands = {}
    StartModes = {"OnDemand"}
    OpenFails = TRUE
    MaxEpoch = 4
    MaxCalls = 0
    MaxFailures = 0
    Kinds = {"speech", "thud", "silence", "broken", "error"}
    ChunkSize = 3
    FrameSize = 2
    Profiles <- BothProfiles
    MinActive = 2
    Keep = 2
    Compact = 3
    Drops = TRUE
    MaxRare = 1
    MaxChunks = 3
    MaxRequests = 4
INVARIANTS Recorded OwnAudio
PROPERTIES MicrophoneClears SpeechHandedOver Responsive
CHECK_DEADLOCK FALSE
