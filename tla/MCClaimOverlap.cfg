\* Two gateway processes at the same time, one without a recorder, contention on the receipt chain, stops and a global stop.
SPECIFICATION Spec
CONSTANTS
    d1 = d1
    d2 = d2
    c1 = c1
    c2 = c2
    w1 = w1
    w2 = w2
    None = None
    Delegations = {d1}
    Conts = {c1}
    DelegationOf <- OneContinuation
    EffectConts = {c1}
    Workers = {w1, w2}
    RecorderWorkers = {w1}
    QuotaLimit = 2
    LeaseMs = 1
    Overlap = TRUE
    ReceiptContention = TRUE
    MaxTime = 5
    MaxRevision = 2
    MaxGlobalEpoch = 1
    MaxGeneration = 2
INVARIANTS
    OneHolderPerClaim
    RowInvariant
PROPERTIES
    StopIsAFence
    ClaimedOnce
