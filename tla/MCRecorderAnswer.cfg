\* Three overlapping requests for one attempt, a failed append, an edited file and a crash.
SPECIFICATION FairSpec
CONSTANTS
    Attempts = {a1}
    Handlers = {h1, h2}
    None = None
    Reconciles = TRUE
    MaxRequests = 3
    MaxCrashes = 1
    MaxFailures = 1
    MaxEdits = 1
INVARIANTS
    InvokedAtMostOnce
    ExecutionAbsentNeverWrote
PROPERTY
    RequestIsAnswered
CHECK_DEADLOCK FALSE
