SPECIFICATION FairProfileSpec
CHECK_DEADLOCK FALSE
CONSTANTS
  CategoryOrder <- MCCategoryOrder
  MaxPerCategory = 1
  CharBudget = 4
  MaxShown = 1
  DigestSizes = {0, 2}
  DefaultCategories <- MCDefaultCategories
  Extras <- MCExtras
  MaxContent = 5
  MaxRelations = 1
  ChatAttempts = 3
  InitialBackoff = 1
  Refreshers = {r}
  Night = n
  Payloads <- MCPayloads
  Answers <- MCAnswers
  Verdicts <- MCVerdicts
  SavedCategories <- MCSaved
  ModelReplies <- MCReplies
  MaxStamps = 2
  MaxPending = 2
  MaxFailures = 2
INVARIANTS
  CoversIsExact
  OmissionsAreTold
  RequestsAreAnswered
PROPERTIES
  DigestsCatchUp
