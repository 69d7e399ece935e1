CONSTANTS
  Threads = {t1, t2, t3}
  Requests = {r1}
  NoRequest = NoRequest
  MaxAttempts = 2
  MaxFaults = 1
  MaxRestarts = 1
SPECIFICATION FairSpec
CHECK_DEADLOCK FALSE
INVARIANTS
  OneAttemptAtATime
  JobsTellTheTruth
PROPERTIES
  ImplementsHistory
  RequestsFinish
