CONSTANTS
  Calls = {c1, c2}
  MaxCalls = 3
  Members = {m1}
  Owners = {}
  DepartmentIds = {d1, d2, d3}
  PositionIds = {p1, p2}
  RoleIds = {r1, r2, r3}
  Codes = {k1, k2}
  None = None
SPECIFICATION MCSpec
INVARIANTS TypeOK LostOnlyIfLate TreeUnlessKnotted RolesHaveOwners CodesAgree GrantsFollow
SYMMETRY Symmetry
CHECK_DEADLOCK FALSE
