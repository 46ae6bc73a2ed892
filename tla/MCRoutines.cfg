\* Three local days in zones with a gap and an overlap; an amendment, a pause, a stop or new policy, a clock set back.
SPECIFICATION Spec
CONSTANTS
    Workers = {w1, w2}
    None = None
    Schedules <- Choices
    DayLen = 2
    LeaseMs = 1
    Interval = 1
    MaxTime = 5
    MaxChanges = 2
SYMMETRY Symmetry
INVARIANTS
    JudgedOnce
    OneRunPerInstant
PROPERTIES
    CatchUpIsExact
CHECK_DEADLOCK FALSE
