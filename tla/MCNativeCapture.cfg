CONSTANTS
  t1 = t1
  td = td
  NoThread = NoThread
  Threads = {t1, td}
  JavaThreads = {td}
  TraceThread = td
  Rethrow = TRUE
  TraceRethrow = TRUE
  CanFail = {"fork"}
  MaxSigquits = 1
SPECIFICATION FairSpec
INVARIANTS
  OnlyOnce
  NotSentAfterArtCrash
PROPERTY ArtCrashSkipsDump
