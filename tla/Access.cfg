SPECIFICATION Spec
CHECK_DEADLOCK FALSE
CONSTANTS
  Callers <- MCCallers
  Keys = {"k1", "k2"}
  Scopes <- MCScopes
  Configurations <- MCConfigurations
  Watched <- MCWatched
  Requests = {r1, r2}
  PerToken = 2
  Second = 4
  Burst = 1
  IdleExpiry = 2
  MaxTracked = 1
  Ttl = 2
  MaxEntries = 1
  MaxTime = 4
  MaxBatch = 2
  Measure <- MCMeasure
  ServerFloor = 15
  Handles = {"alex", "sam"}
  Drawn <- MCDrawn
  MaxCommands = 4
INVARIANTS
  OnlyTheSecretOpens
  RevocationIsImmediate
  EveryoneIsWhoTheyAre
  LimitIsKept
  ClientsHearTheTruth
SYMMETRY RequestSymmetry
