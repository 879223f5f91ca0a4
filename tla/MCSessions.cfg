CONSTANTS
  Calls = {c1, c2}
  SessionIds = {s1, s2}
  Apps = {"admin"}
  Life = 2
  RefreshAfter = 1
  MaxReplaced = 1
SPECIFICATION Spec
INVARIANTS TypeOK OldPasswordIsOut SignedOutIsClosed RolesOrNoUser
PROPERTIES OnlyDeadDeleted VerifiedGetsSession
SYMMETRY Symmetry
