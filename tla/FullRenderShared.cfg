CONSTANTS
  Attempts = {a1, a2}
  Owners = {o1}
  Contents = {c1, c2}
  NoContent = NoContent
  NoRow = NoRow
  Free = Free
  MaxInFlight = 2
  MaxFaults = 1
  MaxCrashes = 1
  FaultSites = {"rename", "append", "unlink"}
  FaultOutcomes = {"lost", "landed"}
SPECIFICATION FairSpec
CHECK_DEADLOCK FALSE
INVARIANTS
  TypeOK
  ChainLinear
  LockExclusive
  JournalIsTrue
PROPERTIES
  ImplementsOutputTarget
  AttemptsEnd
