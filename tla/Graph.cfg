SPECIFICATION Spec
CHECK_DEADLOCK FALSE
CONSTANTS
  Memories = {1, 2}
  Users = {1}
  Names = {"service", "fly", "hetzner", "blank"}
  Keys = {1, 2, 3}
  KeyOf <- MCKeyOf
  Predicates = {"on"}
  Pipelines = {p1, p2}
  Runs = {r1}
  Candidates <- MCCandidates
  MaxCalls = 1
  Timed = FALSE
  MaxFaults = 1
INVARIANTS
  FactsReadTrue
  EachIsReadOnce
PROPERTIES
  ClosedEdgesAreHistory
SYMMETRY PipelineSymmetry
