SPECIFICATION Spec
CHECK_DEADLOCK FALSE
CONSTANTS
  Savers = {s}
  Editors = {e}
  Forgetters = {f}
  Pipelines = {}
  Mergers = {}
  MaxMemories = 2
  MaxFacts = 2
  MaxFaults = 2
  MaxCrashes = 1
  Saved = 0
  Neighbours = 2
  Known = {"decision", "fact.project"}
  Extra = {"custom"}
  MaxTagCount = 1
  MaxOps = 3
  Vocabulary = {"pnpm", "the", "longword"}
  StopWords = {"the"}
  LongWords = {"longword"}
  MaxQueryLimit = 3
INVARIANTS
  IndexesAgreeWhenQuiet
  RowsKeepWhatIsTheirs
  WhatIsStoredIsFound
