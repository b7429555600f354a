---------------------------- MODULE NativeCapture ----------------------------
(***************************************************************************)
(* The crash handler and the ANR trace dumper in one process.  They meet   *)
(* in the globals of NativeCommon: the dumper stops once a crash has been  *)
(* seen, both redirect STDERR_FILENO to their own log, and a crash that    *)
(* finds xc_trace_dump_status on-going is taken for a crash of ART inside  *)
(* the dumper thread and left with siglongjmp.                             *)
(***************************************************************************)
EXTENDS CrashHandler, TraceDumper

CONSTANT TraceThread  \* the dumper thread: it may crash like any other

ASSUME TraceThreadAssumption == TraceThread \in JavaThreads

vars == <<crashVars, traceOwnVars>>

Init == InitCrash /\ InitTrace

\* The dumper thread crashes: it exists until it has returned.
TraceThreadRuns == pc[TraceThread] = "run"

\* The handler's jump into the frame of sigsetjmp, with xc_crash_mutex still locked.
\* On the dumper thread, still in the dump, it continues after the dump.
Longjmp(t) ==
  /\ proc = "alive"
  /\ pc[t] = "trace"
  /\ xc_trace_dump_status = "ON_GOING"
  /\ xc_trace_dump_status' = "ART_CRASH"
  /\ IF t = TraceThread
       THEN pc' = [pc EXCEPT ![t] = "run"] /\ tpc' = "longjmped"
       ELSE pc' = [pc EXCEPT ![t] = "jumped"] /\ UNCHANGED tpc
  /\ UNCHANGED <<kind, proc, onceVars, fdVars, logVars, privVars, repVars, cbVars, dumper, stderr,
                 xc_common_java_crashed, wakeVars, sigquits, trace_fd, trace_files>>

\* Undefined behaviour: a thread that jumped onto another thread's stack faults under
\* the restored disposition, or never comes back from there.
JumpedThreadFaults(t) ==
  /\ proc = "alive"
  /\ pc[t] = "jumped"
  /\ proc' = "killed"
  /\ UNCHANGED <<pc, kind, onceVars, fdVars, logVars, privVars, repVars, cbVars, dumper, stderr,
                 traceVars, traceOwnVars>>

CrashPart ==
  /\ \/ \E t \in Threads, k \in {"fault", "user"} :
          (t = TraceThread => tpc # "dead") /\ Signal(t, k)
     \/ \E t \in Threads : HandlerStep(t)
     \/ DumperStep \/ CallbackStep
  /\ UNCHANGED traceOwnVars

TracePart ==
  /\ Sigquit \/ NotifyJavaCrashed \/ (TraceThreadRuns /\ DumperThread)
  /\ UNCHANGED <<pc, kind, xc_crash_mutex, handlers, fdVars, logVars, privVars, repVars, cbVars,
                 dumper>>

Next ==
  \/ CrashPart
  \/ TracePart
  \/ \E t \in Threads : Longjmp(t) \/ JumpedThreadFaults(t)
  \/ proc # "alive" /\ dumper # "running" /\ UNCHANGED vars

Spec == Init /\ [][Next]_vars

FairSpec ==
  /\ Spec
  /\ \A t \in Threads : WF_vars((HandlerStep(t) /\ UNCHANGED traceOwnVars) \/ Longjmp(t))
  /\ WF_vars(CallbackStep /\ UNCHANGED traceOwnVars)
  /\ WF_vars(DumperStep /\ UNCHANGED traceOwnVars)
  /\ WF_vars(TracePart /\ tpc' # tpc)

-----------------------------------------------------------------------------
(* What the two promise together.                                          *)

\* A crash of ART inside the dump gives the dump up, not the trace: the thread
\* comes back to its loop and the file is closed and handed to traceCallback.
ArtCrashSkipsDump ==
  (tpc = "longjmped") ~> (tpc = "read" \/ proc # "alive" \/ pc[TraceThread] # "run")

\* ART is not sent the signal whose dump it has just crashed in: right before tgkill the status
\* is ART_CRASH only if another thread crashed behind the look at it, in the rest of the time the
\* status is on-going.  On the dumper thread the jump always ends in front of that look.
NotSentAfterArtCrash ==
  tpc = "send" /\ xc_trace_dump_status = "ART_CRASH" =>
    \E t \in Threads \ {TraceThread} : pc[t] = "jumped"

\* The handler jumps out of a crash only when ART crashed: "meet error sig(%d) while
\* calling ART dump trace".
JumpOnlyFromArt ==
  [][xc_trace_dump_status # "ART_CRASH" /\ xc_trace_dump_status' = "ART_CRASH"
       => tpc = "art" /\ pc[TraceThread] = "trace"]_vars
=============================================================================
