CONSTANTS
  Jobs = {j1}
  Slots = {s1}
  Holders = {h1, h2, r1}
  MaxAttempts = 2
  AttemptCap = 2
  MaxQueue = 2
  MaxCrashes = 1
  MaxErrors = 1
  MaxWait = 2
  MaxTimer = 1
  BackoffBase = 1
  BackoffMax = 2
  Rearmers = {r1}
  PageSize = 2
SPECIFICATION ESpec
SYMMETRY Alike
CONSTRAINT Few
INVARIANTS NobodyForgotten
PROPERTIES Spec
