CONSTANTS
  t1 = t1
  td = td
  NoThread = NoThread
  Threads = {t1, td}
  JavaThreads = {t1, td}
  TraceThread = td
  Rethrow = TRUE
  TraceRethrow = TRUE
  CanFail = {}
  MaxSigquits = 1
SPECIFICATION Spec
PROPERTY JumpOnlyFromArt
