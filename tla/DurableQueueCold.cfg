CONSTANTS
  Jobs <- MCJobs
  Workers = {w1, w2}
  Limit <- MCLimit
  NoJob = NoJob
  HotRecovery = FALSE
SPECIFICATION Spec
SYMMETRY Symmetry
CHECK_DEADLOCK FALSE
INVARIANTS
  AttemptLimit
  LeaseExclusive
  FailedIsExhausted
PROPERTY FinalStays
