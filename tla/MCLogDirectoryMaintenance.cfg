CONSTANTS
  Actors = {"maintainer", "tracer"}
  MaxOf <- OneOfEach
  PlaceholderMax = 1
  Margin = 1
  StartTime = 3
  Starts <- MCStartsMaintenance
  MaxTraces = 2
  MaxSerial = 20
SPECIFICATION FairSpecDir
INVARIANTS
  Maintained
  DirectoryBounded
PROPERTIES
  MaintenanceEnds
CHECK_DEADLOCK FALSE
