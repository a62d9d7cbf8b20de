SPECIFICATION Spec
CHECK_DEADLOCK FALSE
CONSTANTS
  Memories = {1, 2, 3, 4}
  About <- MCAbout
  Similarity <- MCSimilarity
  Weight <- MCWeight
  Mentions <- MCMentions
  Edges <- MCEdges
  Keys = {1, 2, 3, 4}
  KeyOf <- MCKeyOf
  Predicates = {"on", "in"}
  Words <- MCWords
  KeyOfRun <- MCKeyOfRun
  Queries <- MCQueries
  Rankers <- MCRankers
  MaxHops = 3
  HopLimit = 10
  SlotCounts = {0, 1}
  Depth = 3
  Chunk = 1
  Modes = {"off", "shadow", "on"}
  Opinions <- MCOpinions
  Changing = {1}
  MaxFaults = 1
  HashedAge <- MCHashedAge
  EvalSets <- MCEvalSets
  GridOptions <- MCGridOptions
  Floors = {30, 50}
INVARIANTS
  NothingGoneIsServed
  NothingIsWithheld
  TraceTellsTheTruth
  OrderIsAsPromised
  HopsAreShortestPaths
  MeasurementsAreTrue
