\* A claim is settled because no recorder is installed.
SPECIFICATION FairSpec
CONSTANTS
    d1 = d1
    d2 = d2
    c1 = c1
    c2 = c2
    w1 = w1
    w2 = w2
    None = None
    Delegations = {d1}
    Conts = {c1}
    DelegationOf <- OneContinuation
    EffectConts = {c1}
    Workers = {w1}
    RecorderWorkers = {}
    QuotaLimit = 1
    LeaseMs = 1
    Overlap = FALSE
    ReceiptContention = FALSE
    MaxTime = 5
    MaxRevision = 1
    MaxGlobalEpoch = 0
    MaxGeneration = 1
PROPERTIES
    PreInvocationFailureIsEvaluated
