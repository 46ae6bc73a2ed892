SPECIFICATION Spec
CONSTANTS
  s1 = s1
  s2 = s2
  Sessions = {s1, s2}
  Tasks = {t1, t2}
  Inputs <- MCInputs
  Gated = {"mail"}
  AutoApprove = FALSE
  Worker <- MCWorker
  MaxRuns = 2
  MaxMessages = 2
  MaxResumes = 1
  MaxFaults = 1
SYMMETRY TaskSymmetry
INVARIANTS
  OneExecutionPerSession
  RunningIsExecuted
  NoLaneIsLeft
  SentIsOwnOrLater
  NoHoldAndWait
  UnheardHasARun
CHECK_DEADLOCK FALSE
