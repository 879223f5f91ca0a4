CONSTANTS
  Calls = {c1, c2}
  Hashes = {h1, h2}
  AttIds = {a1, a2, a3}
  MaxRows = 2
  MaxCalls = 3
  MaxFaults = 1
SPECIFICATION Spec
INVARIANTS TypeOK HasFile OnlyLatecomersGo UnusedIsRemoved
SYMMETRY Symmetry
CHECK_DEADLOCK FALSE
