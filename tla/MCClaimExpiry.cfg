\* One claim whose worker may crash or stall: it is expired in time.
SPECIFICATION FairSpec
CONSTANTS
    d1 = d1
    d2 = d2
    c1 = c1
    c2 = c2
    w1 = w1
    w2 = w2
    None = None
    Delegations = {d1}
    Conts = {c1}
    DelegationOf <- OneContinuation
    EffectConts = {c1}
    Workers = {w1}
    RecorderWorkers = {w1}
    QuotaLimit = 1
    LeaseMs = 2
    Overlap = FALSE
    ReceiptContention = FALSE
    MaxTime = 7
    MaxRevision = 2
    MaxGlobalEpoch = 0
    MaxGeneration = 3
INVARIANTS
    ClaimKeepsItsJobLease
PROPERTIES
    UndispatchedClaimIsResolved
