\* Two commands at once on a file of any version, each in its own process.
SPECIFICATION CliFairSpec
CONSTANTS
  p = p
  q = q
  Nobody = Nobody
  Programs <- TwoPrograms
  MayRun <- AnyBesideScanOrConfig
  Latest = 2
  ProfilesSince = 2
  MaxScans = 2
INVARIANTS
  SchemaFitsItsUsers
  ExitCodeTellsTheTruth
PROPERTIES
  NothingSavedIsLost
  OnlyOverlappingSavesAreLost
  CommandsEnd
\* Commands end.
CHECK_DEADLOCK FALSE
