CONSTANTS
  Throwers = {t1, t2}
  Nobody = nobody
  MostPlaceholders = 2
  LogSize = 2
  Activities = {a1, a2, a3}
  MaxActivities = 2
  Screens = {s1, s2, s3}
  Procs = {1, 2, 3}
  Setups <- MCSetups
SPECIFICATION Spec
INVARIANTS
  JavaReportOnce
  FirstCrashReported
  MonitorTrue
  SingletonServes
  VerdictTrue
PROPERTIES
  JavaThreadsEnd
CHECK_DEADLOCK FALSE
