\* Exact, combined and saved-routine questions of two delegations; a change or three ingress rows race with the answers.
SPECIFICATION Spec
CONSTANTS
    Delegations = {d1, d2}
    Actions = {a1, a2}
    Variants = {v1, v2}
    None = None
    Local = Local
    Owners = {o1, o2}
    MaxChallenges = 2
    MaxRaces = 3
    MaxSigned = 2
    SavedRoutines = TRUE
SYMMETRY Symmetry
INVARIANTS
    GrantIsTheAnswer
    GrantByCurrentOwner
    ActiveGrantFitsPlan
    AdmittedOnce
    InvalidatedOnlyByDrift
CHECK_DEADLOCK FALSE
