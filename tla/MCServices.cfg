SPECIFICATION ServicesSpec
CONSTANTS
    MaxJobs = 3
    MaxTickets = 2
    MaxEvents = 1
    MaxMeetings = 1
    Callers = {c1, c2}
    MaxCommands = 2
    MaxFrames = 1
    MaxCrashes = 1
    NoSession = NoSession
    Size = 2
    MaxCalls = 2
    Overlap = FALSE
    DeleteBeside = FALSE
    Updaters = {u1}
    MaxUpdates = 2
    MaxQuits = 1
INVARIANTS TypesOK OneVoice OverlayFollows OneWorker NoneStuck InstalledWhole StatusRests
PROPERTIES CancelHolds RendersEnd AudioKept EditKept
CHECK_DEADLOCK FALSE
