CONSTANTS
  Threads = {t1, t2}
  Requests = {r1}
  NoRequest = NoRequest
  MaxAttempts = 2
  MaxFaults = 1
  MaxRestarts = 0
SPECIFICATION FairSpec
CHECK_DEADLOCK FALSE
PROPERTY EveryAttemptEnds
