CONSTANTS
  TraceRethrow = TRUE
  CanFail = {"write", "libart", "jni", "logdir", "catcher"}
  MaxSigquits = 3
SPECIFICATION FairSpecTrace
INVARIANTS
  SigquitForwarded
  OneTrace
  StderrRestored
PROPERTY SigquitServed
CHECK_DEADLOCK FALSE
