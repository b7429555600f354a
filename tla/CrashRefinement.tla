--------------------------- MODULE CrashRefinement ---------------------------
(***************************************************************************)
(* CrashHandler implements CrashReport.  The phase is read off where the   *)
(* threads are in the handler: there is at most one in the capture, and    *)
(* when there is none after a crash the process is about to _exit.         *)
(***************************************************************************)
EXTENDS CrashHandler

Somewhere(places) == \E t \in Threads : pc[t] \in places

phaseBar ==
  IF proc # "alive" THEN "down"
  ELSE IF ~xc_common_native_crashed THEN "up"
  ELSE IF Somewhere({"restore"}) THEN "entered"
  ELSE IF Somewhere({"queue", "returned"}) THEN "reported"
  ELSE IF Somewhere(Capturing \ {"restore", "queue"}) THEN "capturing"
  ELSE "ending"

recordedBar == log_dump = "valid" \/ log_emergency \/ emergency

Abstract == INSTANCE CrashReport WITH phase <- phaseBar, recorded <- recordedBar

\* Every behaviour of the crash handler is one the application was promised: the capture is
\* given up at its very start or reports, whatever fails in it; nothing it has recorded is lost
\* again; and the process goes down.
ImplementsCrashReport == Abstract!FairSpecReport
=============================================================================
