SPECIFICATION Spec
CONSTANTS
  Workers = {w1, w2}
  Requests = {r1}
  MaxJobs = 2
  Unreadable = {2}
  MaxAttempts = 2
  StaleAfter = 2
  BaseBackoff = 1
  MaxExponent = 1
  MinDowntime = 0
  MaxStops = 1
  MaxFaults = 1
  MaxCancels = 1
  MaxLag = 2
INVARIANTS
  WorkersNeverShareAJob
  AttemptsWithinReclaims
SYMMETRY ActorSymmetry
