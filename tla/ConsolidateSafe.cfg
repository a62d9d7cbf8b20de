SPECIFICATION Spec
CHECK_DEADLOCK FALSE
CONSTANTS
  Users = {1}
  Labels = {a, b}
  Topics = {s}
  Runners = {r}
  MaxGroup = 3
  MaxCalls = 2
  MaxRetired = 2
  Timed = TRUE
  Expiries = {FALSE}
  MaxStamps = 4
  MaxPending = 1
  MaxFaults = 1
  KnownCategories <- MCKnownCategories
  Vectors <- MCVectors
  Threshold = 90
  Shown = 2
  MaxLinks = 3
INVARIANTS
  SkippedGroupsAreDone
  ClustersAreWhole
  NothingIsLostOvernight
SYMMETRY DataSymmetry
