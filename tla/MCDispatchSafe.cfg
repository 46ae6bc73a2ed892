\* Two claims of one delegation against stops, lapses, crashes and an amendment.
SPECIFICATION Spec
CONSTANT Attempts = {a1, a2}
INVARIANTS
    BegunIsInvoked
    LedgerAgreesWithRecorder
PROPERTIES
    NoEffectAfterStop
CHECK_DEADLOCK FALSE
