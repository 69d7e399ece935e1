CONSTANTS
  Attempts = {a1, a2, a3}
  Owners = {o1}
  Contents = {c1, c2}
  NoContent = NoContent
  NoRow = NoRow
  Free = Free
  MaxInFlight = 1
  MaxFaults = 2
  MaxCrashes = 1
  FaultSites = {"rename", "append", "unlink"}
  FaultOutcomes = {"lost"}
SPECIFICATION Spec
CHECK_DEADLOCK FALSE
INVARIANTS
  OutputMatchesJournal
  CommittedBytesKept
