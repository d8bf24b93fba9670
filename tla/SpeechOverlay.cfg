SPECIFICATION Spec
CONSTANTS
    MaxTickets = 1
    MaxEvents = 1
INVARIANT RecordingVisible
CHECK_DEADLOCK FALSE
