CONSTANTS
  Calls = {c1, c2}
  Subjects = {u1}
  Overrides <- MCOverrides
  Configs <- MCConfigs
  EnvMax = 2
  EnvWindow = 2
  MaxEdits = 2
  MaxTime = 2
  MaxCount = 3
  MaxFaults = 1
SPECIFICATION Spec
INVARIANTS TypeOK MemoryAgrees BlockedIsSeen
PROPERTIES CountsWindows
SYMMETRY Symmetry
CHECK_DEADLOCK FALSE
