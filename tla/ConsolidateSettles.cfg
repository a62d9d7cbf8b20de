SPECIFICATION FairSpec
CHECK_DEADLOCK FALSE
CONSTANTS
  Users = {1, 2}
  Labels = {a}
  Topics = {s}
  Runners = {r}
  MaxGroup = 4
  MaxCalls = 0
  MaxRetired = 0
  Timed = FALSE
  Expiries = {TRUE}
  MaxStamps = 3
  MaxPending = 1
  MaxFaults = 1
  KnownCategories <- MCKnownCategories
  Vectors <- MCVectors
  Threshold = 90
  Shown = 2
  MaxLinks = 3
PROPERTIES
  PassesCatchUp
  CallsStop
