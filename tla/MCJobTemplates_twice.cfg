CONSTANTS
  Templates = {t1}
  Calls = {c1, c2}
  Inputs <- AllInputs
  MaxWait = 2
  MaxTimer = 2
  MaxLate = 1
  MaxOcc = 2
  MaxCrashes = 0
  MaxErrors = 0
  MaxEdits = 1
SPECIFICATION Spec
INVARIANTS NoDuplicateInstances
CHECK_DEADLOCK FALSE
