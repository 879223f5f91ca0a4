CONSTANTS
  Templates = {t1}
  Calls = {c1, c2}
  Inputs <- AllInputs
  MaxWait = 2
  MaxTimer = 1
  MaxLate = 1
  MaxOcc = 3
  MaxCrashes = 1
  MaxErrors = 1
  MaxEdits = 1
SPECIFICATION FairSpec
INVARIANTS TypeOK AtMostOneInstance ClaimedIsAccounted
PROPERTIES DueIsClaimed
CHECK_DEADLOCK FALSE
