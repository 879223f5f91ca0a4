CONSTANTS
  Calls = {c1, c2}
  MaxCalls = 3
  Users = {u1, u2}
  Keys = {k1, k2}
  Challenges = {x1, x2}
  NoOne = NoOne
  MaxCounter = 2
SPECIFICATION Spec
INVARIANTS TypeOK ChallengeOnce CounterIsHighest
PROPERTIES KeepsAMethod
SYMMETRY Symmetry
CHECK_DEADLOCK FALSE
