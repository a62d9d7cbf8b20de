SPECIFICATION Spec
CONSTANTS
  Users = {1, 2}
  Memories = {1, 2, 3}
  Owner <- MCOwner
  ChunkSize = 1
  Models = {1, 2}
  Dimensions <- MCDimensions
  MaxUpgrades = 1
  MaxFaults = 1
  PinNamed <- MCPinNamed
  Overrides <- MCOverrides
  Edits <- Singles
  Files <- MCFiles
  Hosts <- MCHosts
  Commands <- MCCommands
  Batch = 2
  MaxBatch = 2
INVARIANTS
  KeywordLegIsWhole
  VectorsAreWhole
  ConfigurationIsHonoured
  EveryTextGetsItsVector
