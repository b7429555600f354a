CONSTANTS
  Actors = {"maintainer", "tracer"}
  MaxOf <- OneOfEach
  PlaceholderMax = 1
  Margin = 1
  StartTime = 3
  Starts <- MCStartsSound
  MaxTraces = 1
  MaxSerial = 20
SPECIFICATION SpecDir
INVARIANT
  AnrReported
CHECK_DEADLOCK FALSE
