\* Three requests, each a probe or an OCR for either model: one served, one
\* behind it, one newer; and two cancels or shutdowns.  Requests end and the
\* cancels are bounded: the system stops.
CONSTANTS
    A = A
    B = B
    NoModel = NoModel
    Models <- TwoModels
    MaxRequests = 3
    MaxCancels = 2
SPECIFICATION Spec
CHECK_DEADLOCK FALSE
INVARIANTS OneChild WarmMatches
PROPERTIES SuccessorUnharmed KeepsPromise RequestsReturn
