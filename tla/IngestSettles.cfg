SPECIFICATION FairSpec
CONSTANTS
  Workers = {w1, w2}
  Requests = {}
  MaxJobs = 2
  Unreadable = {2}
  MaxAttempts = 2
  StaleAfter = 2
  BaseBackoff = 1
  MaxExponent = 1
  MinDowntime = 0
  MaxStops = 2
  MaxFaults = 1
  MaxCancels = 0
  MaxLag = 2
PROPERTIES
  EveryJobSettles
  ShutdownTerminates
  ImplementsLedger
