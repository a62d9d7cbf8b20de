SPECIFICATION Spec
CHECK_DEADLOCK FALSE
CONSTANTS
  Savers = {}
  Editors = {}
  Forgetters = {}
  Pipelines = {p}
  Mergers = {g}
  MaxMemories = 4
  MaxFacts = 3
  MaxFaults = 1
  MaxCrashes = 1
  Saved = 2
  Neighbours = 2
  Known = {"decision", "fact.project"}
  Extra = {"custom"}
  MaxTagCount = 1
  MaxOps = 3
  Vocabulary = {"pnpm", "the", "longword"}
  StopWords = {"the"}
  LongWords = {"longword"}
  MaxQueryLimit = 3
INVARIANTS
  ReplacementsAreNewer
  NothingIsHalfDone
