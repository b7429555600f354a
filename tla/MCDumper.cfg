CONSTANTS
  Tids = {1, 2, 3}
  CrashTid = 2
  Newcomers = {3}
  Options <- MCOptions
  CanFail = {"signal", "kill", "args", "open", "create", "attach", "waitpid", "regs", "write", "crash", "unregister"}
  Limit = 3
  MaxPlaceholders = 1
SPECIFICATION SpecStops
INVARIANTS
  ResumedUnlessCut
  LogTrue
  ReserveServes
PROPERTIES
  DumperEnds
