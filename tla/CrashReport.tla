----------------------------- MODULE CrashReport -----------------------------
(***************************************************************************)
(* What an application is promised when it crashes natively, with nothing  *)
(* of how: one capture, which is given up at its very start or ends with a *)
(* report, and then the process goes down.  Another crash may take the     *)
(* process down earlier; the dumper, a process of its own, may still       *)
(* complete the report afterwards.                                         *)
(***************************************************************************)
VARIABLES
  phase,    \* "up", "entered", "capturing", "reported", "ending", "down"
  recorded  \* a valid dump or the emergency text exists

reportVars == <<phase, recorded>>

InitReport == phase = "up" /\ recorded = FALSE

Goes(from, to) == phase = from /\ phase' = to

Crash == Goes("up", "entered") /\ UNCHANGED recorded

GiveUp == Goes("entered", "ending") /\ UNCHANGED recorded

Begin == Goes("entered", "capturing") /\ UNCHANGED recorded

Record == phase \in {"capturing", "down"} /\ ~recorded /\ recorded' = TRUE /\ UNCHANGED phase

\* The capture ends, and never without a report.
Report == recorded /\ Goes("capturing", "reported") /\ UNCHANGED recorded

\* The signal could not be queued again: _exit(1) instead.
FailToRethrow == Goes("reported", "ending") /\ UNCHANGED recorded

GoDown == phase \notin {"up", "down"} /\ phase' = "down" /\ UNCHANGED recorded

NextReport == Crash \/ GiveUp \/ Begin \/ Record \/ Report \/ FailToRethrow \/ GoDown

SpecReport == InitReport /\ [][NextReport]_reportVars

FairSpecReport == SpecReport /\ WF_reportVars(GoDown)
=============================================================================
