CONSTANTS
  Jobs = {j1}
  Slots = {s1, s2}
  Holders = {h1, r1}
  MaxAttempts = 2
  AttemptCap = 2
  MaxQueue = 2
  MaxCrashes = 0
  MaxErrors = 0
  MaxWait = 2
  MaxTimer = 2
  BackoffBase = 1
  BackoffMax = 2
  Rearmers = {r1}
  PageSize = 2
SPECIFICATION ESpec
INVARIANTS NoDuplicateExecution
