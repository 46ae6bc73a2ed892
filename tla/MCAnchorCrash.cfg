\* Appends by two tasks, crashes anywhere, a failed write, a lost key and a second gateway that starts beside the first.
SPECIFICATION FairSpec
CONSTANTS
    Events = {e1, e2}
    Tasks = {t1, t2}
    Starters = {s1}
    None = None
    MaxCrashes = 2
    MaxFailures = 1
    MaxKeyLoss = 1
    MaxRequests = 2
    MaxOverlaps = 1
INVARIANTS
    PublishedIsCommitted
    OneReceiptPerEvent
    AnchorsFollowJournal
    NoFalseQuarantine
PROPERTY
    InterruptedAppendIsResolved
CHECK_DEADLOCK FALSE
