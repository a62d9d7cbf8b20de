SPECIFICATION Spec
CHECK_DEADLOCK FALSE
CONSTANTS
  Requests = {r1, r2}
  Sessions = {s1}
  Depth = 3
  Chunk = 2
  Modes = {"on", "shadow"}
  Timeouts = {TRUE, FALSE}
  MaxFaults = 2
INVARIANTS
  ScoresAreTheirOwn
  SessionsAreConserved
PROPERTIES
  RecallsAnswer
