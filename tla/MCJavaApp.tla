------------------------------ MODULE MCJavaApp ------------------------------
(* The parts of the Java code with a state of their own, one at a time: the *)
(* handler of uncaught exceptions, the monitor of the activities, the       *)
(* singleton, and a run of the compatibility test.                          *)
EXTENDS JavaCrash, ActivityMonitor, SingletonPlus, LockTest

VARIABLE side

MCSetups ==
  {<<{1}>>, <<{1, 2}>>, <<{1, 2, 3}>>, <<{1, 2}, {3}>>, <<{1, 3}, {2, 3}>>}

vars == <<side, javaVars, monitorVars, singletonVars, testVars>>

JavaRests ==
  defaultHandler = "none" /\ rethrow /\ room = 0 /\ size = [t \in Throwers |-> 1]
SingletonRests == ~releases /\ ~modern /\ ~overlap
TestRests == threadName = <<{1}>> /\ group = {} /\ prompt

Init ==
  /\ InitJava /\ InitMonitor /\ InitSingleton /\ InitTest
  /\ \/ side = "handler" /\ SingletonRests /\ TestRests
     \/ side = "monitor" /\ JavaRests /\ SingletonRests /\ TestRests
     \/ side = "singleton" /\ JavaRests /\ TestRests
     \/ side = "test" /\ JavaRests /\ SingletonRests

InHandler(step) ==
  side = "handler" /\ step /\ UNCHANGED <<side, monitorVars, singletonVars, testVars>>
InTest(step) ==
  side = "test" /\ step /\ UNCHANGED <<side, javaVars, monitorVars, singletonVars>>

Next ==
  \/ InHandler(NextJava)
  \/ side = "monitor" /\ NextMonitor /\ UNCHANGED <<side, javaVars, singletonVars, testVars>>
  \/ side = "singleton" /\ NextSingleton /\ UNCHANGED <<side, javaVars, monitorVars, testVars>>
  \/ InTest(NextTest)

\* The scheduler runs every thread that can run; a wait with a timeout ends.
Spec ==
  /\ Init /\ [][Next]_vars
  /\ \A t \in Throwers : WF_vars(InHandler(Handles(t)))
  /\ \A t \in Procs : WF_vars(InTest(Runs(t)))

\* The test ends, although the locks form cycles.
TestEnds == side = "test" ~> Joined

\* No thread of the two that may wait or loop goes on for ever.
JavaThreadsEnd == JavaCrashEnds /\ TestEnds
=============================================================================
