CONSTANTS
  Actors = {"maintainer", "tracer", "native", "java"}
  MaxOf <- OneOfEach
  PlaceholderMax = 1
  Margin = 1
  StartTime = 3
  Starts <- MCStarts
  MaxTraces = 1
  MaxSerial = 20
SPECIFICATION SpecDir
INVARIANTS
  LogsIntact
PROPERTIES
  ImplementsLogStore
CHECK_DEADLOCK FALSE
