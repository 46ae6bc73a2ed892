\* Two effects of one delegation compete for a quota of one.
SPECIFICATION Spec
CONSTANTS
    d1 = d1
    d2 = d2
    c1 = c1
    c2 = c2
    w1 = w1
    w2 = w2
    None = None
    Delegations = {d1}
    Conts = {c1, c2}
    DelegationOf <- SharedDelegation
    EffectConts = {c1, c2}
    Workers = {w1}
    RecorderWorkers = {w1}
    QuotaLimit = 1
    LeaseMs = 1
    Overlap = FALSE
    ReceiptContention = FALSE
    MaxTime = 4
    MaxRevision = 4
    MaxGlobalEpoch = 0
    MaxGeneration = 2
INVARIANTS
    TypeOK
    StoppedIsQuiet
    QuotaNeverExceeded
