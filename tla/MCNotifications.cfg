CONSTANTS
  Calls = {c1}
  Users = {u1, u2}
  Runs = {r1, r2}
  Editors = {e1}
  NewProviders = {"in-app"}
  MaxAttempts = 2
  MaxQueue = 2
  MaxEvents = 2
SPECIFICATION Spec
INVARIANTS TypeOK OnceUnlessDisturbed StatusIsHonest PendingHasJob GivenUpOnlyByTrouble StaleOnlyWhenOvertaken
CHECK_DEADLOCK FALSE
SYMMETRY Symmetry
CONSTRAINT Few
