------------------------------ MODULE MCDumper ------------------------------
(* The two processes of a capture, one at a time: the handler's log         *)
(* descriptors (both handlers and the application over a table of three     *)
(* descriptors, room for the two in reserve and one to fight for), and the  *)
(* dumper with the crashed thread and two others, of which one is new.      *)
EXTENDS DumperProcess, LogFds

VARIABLE side

MCOptions ==
  {[all |-> TRUE, max |-> 1, whitelist |-> {}],
   [all |-> TRUE, max |-> 0, whitelist |-> {1}],
   [all |-> FALSE, max |-> 1, whitelist |-> {}]}

vars == <<side, dumperVars, fdsVars>>

Init ==
  /\ InitDumper /\ InitFds
  /\ \/ side = "dumper" /\ free = Limit /\ placeholders = 0
     \/ side = "handler" /\ opt = CHOOSE o \in Options : TRUE

InDumper(step) == side = "dumper" /\ step /\ UNCHANGED <<side, fdsVars>>

Next ==
  \/ InDumper(NextDumper)
  \/ side = "handler" /\ NextFds /\ UNCHANGED <<side, dumperVars>>

\* The kernel schedules the dumper and lets the alarm expire.
Spec ==
  /\ Init /\ [][Next]_vars
  /\ WF_vars(InDumper(DumperRuns)) /\ WF_vars(InDumper(AlarmExpires))

\* In addition no thread is in an uninterruptible sleep for ever.
SpecStops == Spec /\ \A t \in Tids : WF_vars(InDumper(Stops(t)))

\* The dumper ends, whatever fails, if threads stop when they are attached to.
DumperEnds == side = "dumper" ~> dpc = "ended"

\* The alarm ends a dumper that waits for a thread that does not stop: "don't leave a
\* zombie process".
NoZombie == side = "dumper" ~> dpc = "ended"
=============================================================================
