\* Repeated requests for two attempts, reconciliations, crashes during appends; every failed append ends the process.
SPECIFICATION Spec
CONSTANTS
    Attempts = {a1, a2}
    Handlers = {h1, h2}
    None = None
    Reconciles = TRUE
    MaxRequests = 3
    MaxCrashes = 2
    MaxFailures = 0
    MaxEdits = 0
SYMMETRY Symmetry
INVARIANTS
    EvidenceIsDurable
    JournalReopens
PROPERTY
    ImplementsExecuteOnce
CHECK_DEADLOCK FALSE
