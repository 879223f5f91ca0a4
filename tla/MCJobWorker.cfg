CONSTANTS
  Jobs = {j1}
  Slots = {s1, s2}
  Holders = {h1}
  MaxAttempts = 2
  AttemptCap = 3
  MaxQueue = 3
  MaxCrashes = 1
  MaxErrors = 1
SPECIFICATION FairSpec
INVARIANTS TypeOK NeverGivenUpEarly ProcessingIsOwned
PROPERTIES QueueMoves
