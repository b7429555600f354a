CONSTANTS
  t1 = t1
  t2 = t2
  NoThread = NoThread
  Threads = {t1, t2}
  JavaThreads = {t1}
  Rethrow = TRUE
  CanFail = {"sigaction", "open", "prctl", "fork", "dumper", "seek", "read", "write", "libart", "jni", "queue"}
SPECIFICATION FairSpecCrash
INVARIANTS
  ReportNotLost
  DeliveredOnce
  LogHandedOver
PROPERTIES
  PrivilegesRestored
  DumpNotOverwritten
  CrashEnds
  ImplementsCrashReport
