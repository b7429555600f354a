------------------------- MODULE NativeCapture_proofs -------------------------
(***************************************************************************)
(* The trace dumper by itself keeps its promises for any number of         *)
(* SIGQUITs and any set of failing calls.  And what CrashHandler_proofs    *)
(* shows of the crash handler survives the company of the trace dumper:    *)
(* its steps leave the state of the capture alone, and the jump of the     *)
(* handler into the dump only takes a thread out of the capture.           *)
(***************************************************************************)
EXTENDS NativeCapture, CrashHandler_proofs

-----------------------------------------------------------------------------
(* The trace dumper by itself.                                             *)

\* The steps that have a trace log, and those that have it open.
WithFile == {"header", "symbols", "dump", "callback"} \cup OnGoing
WithFd == WithFile \ {"callback", "rethrow", "send", "end"}

\* The file of the dump is the only one in the directory from its creation to the
\* callback, and STDERR refers to it only between the two calls of dup2.
TraceInv ==
  /\ TraceTypeOK
  /\ OneTrace
  /\ tpc = "open" => trace_files = 0
  /\ tpc \in WithFile => trace_files = 1
  /\ tpc \in WithFd => trace_fd
  /\ stderr = "trace" => tpc \in {"dump", "art", "longjmped", "artdone"}

LEMMA TraceInvInit ==
  ASSUME InitTrace
  PROVE  TraceInv
<1>1. CommonTypeOK /\ FlagTypeOK
  BY DEF InitCommon, InitTrace, CommonTypeOK, FlagTypeOK
<1>2. CountTypeOK
  BY TraceAssumption DEF InitTrace, CountTypeOK
<1>3. QED
  BY <1>1, <1>2 DEF TraceTypeOK, InitCommon, InitTrace, TraceInv, OneTrace, OnGoing, WithFile, WithFd

LEMMA TStepMoves ==
  ASSUME NEW from, NEW to, TStep(from, to)
  PROVE  tpc = from /\ tpc' = to /\ UNCHANGED <<sigquits, proc, xc_common_native_crashed, xc_common_java_crashed>>
BY DEF TStep

\* What is owed is paid, or there is nobody to pay it to.
LEMMA SendEffect ==
  ASSUME SendSigquit, FlagTypeOK
  PROVE  /\ tpc = "send" /\ tpc' = "end"
         /\ UNCHANGED <<sigquits, proc, xc_common_native_crashed, xc_common_java_crashed,
                        xc_trace_notifier, quit_event, given_up, trace_fd, trace_files,
                        xc_trace_dump_status, stderr>>
         /\ owed' \in BOOLEAN
         /\ xc_trace_signal_catcher_tid' \in {"found", "UNKNOWN"}
         /\ ~owed' \/ xc_trace_signal_catcher_tid' = "UNKNOWN"
<1>1. PICK found \in BOOLEAN : /\ xc_trace_signal_catcher_tid' = LoadedTid(found)
                              /\ owed' = (owed /\ ~Sent(LoadedTid(found)))
  BY DEF SendSigquit
<1>2. LoadedTid(found) \in {"found", "UNKNOWN"}
  BY DEF LoadedTid, FlagTypeOK
<1>3. owed' \in BOOLEAN
  BY <1>1, Zenon
<1>4. ~owed' \/ xc_trace_signal_catcher_tid' = "UNKNOWN"
  <2>1. CASE LoadedTid(found) = "found"
    <3>1. Sent(LoadedTid(found))
      BY <2>1 DEF Sent
    <3>2. QED
      BY <1>1, <3>1, Zenon
  <2>2. QED
    BY <1>1, <1>2, <2>1
<1>5. QED
  BY <1>1, <1>2, <1>3, <1>4, TStepMoves DEF SendSigquit

LEMMA TraceInvDumper ==
  ASSUME TraceInv, DumperThread
  PROVE  TraceInv'
<1> USE TStepMoves, SendEffect DEF TraceInv, OnGoing, WithFile, WithFd, wakeVars, catcherVars
<1>1. CommonTypeOK'
  BY DEF TraceTypeOK, CommonTypeOK, DumperThread, Attach, ReadNotifier, CheckCrashed, LogsClean,
         OpenTraceLog, WriteHeader, PrepareDump, BeginDump, EndDump, RestoreStderr,
         StderrAfterDump, WriteInfo, CloseTraceLog, CheckRethrow, EndStatus,
         TraceCallback, ExitDumper
<1>2. FlagTypeOK'
  <2>1. CASE SendSigquit
    BY <2>1 DEF TraceTypeOK, FlagTypeOK
  <2>2. CASE Attach \/ ReadNotifier \/ CheckCrashed \/ LogsClean \/ OpenTraceLog
    BY <2>2 DEF TraceTypeOK, FlagTypeOK, TStep, Attach, ReadNotifier, CheckCrashed, LogsClean,
       AfterCleanError, OpenTraceLog, AfterOpenError
  <2>3. CASE WriteHeader \/ PrepareDump \/ BeginDump \/ EndDump \/ RestoreStderr \/ WriteInfo
    BY <2>3 DEF TraceTypeOK, FlagTypeOK, TStep, WriteHeader, LabelEnd, PrepareDump, BeginDump, EndDump,
       RestoreStderr, WriteInfo
  <2>4. CASE CloseTraceLog \/ CheckRethrow \/ EndStatus \/ TraceCallback \/ ExitDumper
    BY <2>4 DEF TraceTypeOK, FlagTypeOK, TStep, CloseTraceLog, CheckRethrow, EndStatus, TraceCallback,
       ExitDumper
  <2>5. QED
    BY <2>1, <2>2, <2>3, <2>4 DEF DumperThread
<1>3. CountTypeOK'
  BY DEF TraceTypeOK, CountTypeOK, DumperThread, Attach, ReadNotifier, CheckCrashed, LogsClean,
         OpenTraceLog, WriteHeader, PrepareDump, BeginDump, EndDump, RestoreStderr, WriteInfo,
         CloseTraceLog, CheckRethrow, EndStatus, TraceCallback, ExitDumper
<1>4. TraceTypeOK'
  BY <1>1, <1>2, <1>3 DEF TraceTypeOK
<1>5. CASE Attach \/ ReadNotifier \/ CheckCrashed
  BY <1>4, <1>5 DEF OneTrace, Attach, ReadNotifier, CheckCrashed
<1>6. CASE LogsClean
  BY <1>4, <1>6 DEF OneTrace, LogsClean, AfterCleanError
<1>7. CASE OpenTraceLog
  BY <1>4, <1>7 DEF OneTrace, OpenTraceLog, AfterOpenError
<1>8. CASE WriteHeader
  BY <1>4, <1>8 DEF OneTrace, WriteHeader, LabelEnd
<1>9. CASE PrepareDump
  BY <1>4, <1>9 DEF OneTrace, PrepareDump, LabelEnd
<1>10. CASE BeginDump \/ EndDump
  BY <1>4, <1>10 DEF OneTrace, BeginDump, EndDump
<1>11. CASE RestoreStderr
  BY <1>4, <1>11 DEF OneTrace, RestoreStderr, StderrAfterDump
<1>12. CASE WriteInfo \/ CloseTraceLog
  BY <1>4, <1>12 DEF OneTrace, WriteInfo, CloseTraceLog
<1>13. CASE CheckRethrow \/ SendSigquit \/ EndStatus
  BY <1>4, <1>13 DEF TraceTypeOK, OneTrace, CheckRethrow, EndStatus
<1>14. CASE TraceCallback
  BY <1>4, <1>14 DEF OneTrace, TraceCallback
<1>15. CASE ExitDumper
  BY <1>4, <1>15 DEF OneTrace, ExitDumper
<1>16. QED
  BY <1>5, <1>6, <1>7, <1>8, <1>9, <1>10, <1>11, <1>12, <1>13, <1>14, <1>15 DEF DumperThread

LEMMA TraceInvOther ==
  ASSUME TraceInv, Sigquit \/ NotifyJavaCrashed \/ UNCHANGED traceAllVars
  PROVE  TraceInv'
<1> USE DEF TraceInv, OneTrace, Sigquit, NotifyJavaCrashed, traceAllVars, traceOwnVars, wakeVars,
        catcherVars
<1>1. CommonTypeOK'
  BY DEF TraceTypeOK, CommonTypeOK
<1>2. FlagTypeOK'
  BY DEF TraceTypeOK, FlagTypeOK
<1>3. CountTypeOK'
  BY TraceAssumption DEF TraceTypeOK, CountTypeOK
<1>4. QED
  BY <1>1, <1>2, <1>3 DEF TraceTypeOK, OnGoing, WithFile, WithFd

LEMMA TraceInvariant == SpecTrace => []TraceInv
<1>1. TraceInv /\ [NextTrace]_traceAllVars => TraceInv'
  BY TraceInvDumper, TraceInvOther DEF NextTrace
<1>2. QED
  BY <1>1, TraceInvInit, PTL DEF SpecTrace

\* Every variable of the trace dumper keeps its type; above all the callback, which may
\* remove the trace log, always finds one.
THEOREM TraceTypeCorrect == SpecTrace => []TraceTypeOK
<1>1. TraceInv => TraceTypeOK
  BY DEF TraceInv
<1>2. QED
  BY <1>1, TraceInvariant, PTL

\* There is never a second trace log, whatever clean-ups, opens and callbacks fail.
THEOREM OneTraceHolds == SpecTrace => []OneTrace
<1>1. TraceInv => OneTrace
  BY DEF TraceInv
<1>2. QED
  BY <1>1, TraceInvariant, PTL

\* STDERR never refers to a trace log that is closed, on any path through a dump.
THEOREM StderrRestoredHolds == SpecTrace => []StderrRestored
<1>1. TraceInv => StderrRestored
  BY DEF TraceInv, StderrRestored, OnGoing, WithFile, WithFd
<1>2. QED
  BY <1>1, TraceInvariant, PTL

-----------------------------------------------------------------------------
(* Forwarding of SIGQUIT.                                                  *)

\* A SIGQUIT that is owed is in the eventfd or in the dump that is on its way, unless that dump
\* was given up, there is nobody to pass it on to, or the dumper thread is leaving.  Alone, the
\* dumper never sees a crash of ART.
OwedInv ==
  /\ owed /\ TraceRethrow =>
       \/ quit_event
       \/ tpc \in {"check", "clean", "open", "header", "symbols", "dump", "exit", "dead"}
                    \cup (OnGoing \ {"end"})
       \/ given_up
       \/ xc_trace_signal_catcher_tid = "UNKNOWN"
  /\ xc_trace_notifier \/ tpc = "dead"
  /\ xc_trace_dump_status # "ART_CRASH"

\* With rethrow, no SIGQUIT stays owed while the dumper waits for the next one, whatever fails and
\* however many come, but after a dump that was given up for want of a log and in a process whose
\* Signal Catcher was not found.
THEOREM SigquitForwardedHolds == SpecTrace => []SigquitForwarded
<1>1. InitTrace => OwedInv
  BY DEF InitCommon, InitTrace, OwedInv
<1>2. TraceTypeOK /\ OwedInv /\ [NextTrace]_traceAllVars => OwedInv'
  <2> SUFFICES ASSUME TraceTypeOK, OwedInv, [NextTrace]_traceAllVars
               PROVE  OwedInv'
    OBVIOUS
  <2> USE TStepMoves DEF OwedInv, OnGoing, wakeVars, catcherVars
  <2>1. CASE SendSigquit
    BY <2>1, SendEffect DEF TraceTypeOK
  <2>2. CASE LogsClean \/ OpenTraceLog
    BY <2>2 DEF LogsClean, AfterCleanError, OpenTraceLog, AfterOpenError
  <2>3. CASE Attach \/ ReadNotifier \/ CheckCrashed \/ WriteHeader \/ PrepareDump \/ TraceCallback
    BY <2>3 DEF Attach, ReadNotifier, CheckCrashed, WriteHeader, PrepareDump, LabelEnd,
           TraceCallback
  <2>4. CASE BeginDump \/ EndDump \/ RestoreStderr \/ WriteInfo \/ CloseTraceLog \/ ExitDumper
    BY <2>4 DEF BeginDump, EndDump, RestoreStderr, WriteInfo, CloseTraceLog, ExitDumper
  <2>5. CASE Sigquit
    <3>1. quit_event' = (quit_event \/ xc_trace_notifier)
      BY <2>5 DEF Sigquit
    <3>2. quit_event' \/ tpc = "dead"
      BY <3>1, Zenon
    <3>3. UNCHANGED <<tpc, xc_trace_notifier, catcherVars, xc_trace_dump_status>>
      BY <2>5 DEF Sigquit
    <3>4. QED
      BY <3>2, <3>3
  <2>6. CASE NotifyJavaCrashed \/ UNCHANGED traceAllVars
    BY <2>6 DEF NotifyJavaCrashed, traceAllVars, traceOwnVars
  <2>7. CASE CheckRethrow \/ EndStatus
    BY <2>7 DEF CheckRethrow, EndStatus, ArtCrashed
  <2>8. QED
    BY <2>1, <2>2, <2>3, <2>4, <2>5, <2>6, <2>7 DEF NextTrace, DumperThread
<1>3. OwedInv => SigquitForwarded
  BY DEF OwedInv, SigquitForwarded, OnGoing
<1>4. QED
  BY <1>1, <1>2, <1>3, TraceTypeCorrect, PTL DEF SpecTrace

-----------------------------------------------------------------------------
(* The crash handler in the company of the trace dumper.                   *)

\* The dumper thread's steps, as the crash handler sees them.
LEMMA TracePartEffect ==
  ASSUME CommonTypeOK, TracePart
  PROVE  /\ CommonTypeOK'
         /\ UNCHANGED <<captureVars, kind, xc_crash_mutex, handlers, proc>>
<1> USE DEF TracePart, TStep, DumperThread, Sigquit, NotifyJavaCrashed, Attach, ReadNotifier,
        CheckCrashed, LogsClean, OpenTraceLog, WriteHeader, PrepareDump, BeginDump, EndDump,
        RestoreStderr, StderrAfterDump, WriteInfo, CloseTraceLog, CheckRethrow, SendSigquit, EndStatus,
        TraceCallback, ExitDumper
<1>1. CommonTypeOK'
  BY DEF CommonTypeOK
<1>2. UNCHANGED <<captureVars, kind, xc_crash_mutex, handlers, proc>>
  BY DEF captureVars
<1>3. QED
  BY <1>1, <1>2

LEMMA TypeNative ==
  ASSUME CrashTypeOK, [Next]_vars
  PROVE  CrashTypeOK'
<1> USE DEF CrashTypeOK
<1>1. CASE CrashPart
  BY <1>1, TypeHandler, TypeSignal, TypeDumper, TypeCallback DEF CrashPart
<1>2. CASE TracePart
  BY <1>2, TracePartEffect DEF captureVars, SigTypeOK, OnceTypeOK, LogTypeOK, PrivTypeOK,
         ReportTypeOK, fdVars, logVars, privVars, repVars, cbVars
<1>3. ASSUME NEW t \in Threads, Longjmp(t)
      PROVE  CrashTypeOK'
  BY <1>3 DEF Longjmp, CommonTypeOK, SigTypeOK, OnceTypeOK, LogTypeOK, PrivTypeOK, ReportTypeOK,
         Handling, onceVars, fdVars, logVars, privVars, repVars, cbVars
<1>4. ASSUME NEW t \in Threads, JumpedThreadFaults(t)
      PROVE  CrashTypeOK'
  BY <1>4 DEF JumpedThreadFaults, CommonTypeOK, SigTypeOK, OnceTypeOK, LogTypeOK, PrivTypeOK,
         ReportTypeOK, onceVars, fdVars, logVars, privVars, repVars, cbVars, traceVars
<1>5. CASE UNCHANGED vars
  BY <1>5 DEF vars, crashVars, CommonTypeOK, SigTypeOK, OnceTypeOK, LogTypeOK, PrivTypeOK,
         ReportTypeOK, sigVars, onceVars, fdVars, logVars, privVars, repVars, cbVars, traceVars
<1>6. QED
  BY <1>1, <1>2, <1>3, <1>4, <1>5 DEF Next

\* The jump leaves the capture, or stays inside it on a stack that is not the thread's.
LEMMA LongjmpCapture ==
  ASSUME CrashTypeOK, CaptureInv, NEW t \in Threads, Longjmp(t)
  PROVE  CaptureInv'
<1> USE DEF Longjmp, CrashTypeOK, SigTypeOK, onceVars, fdVars, logVars, privVars, repVars, cbVars
<1>1. /\ pc'[t] \in {"run", "jumped"}
      /\ \A s \in Threads : s # t => pc'[s] = pc[s]
      /\ pc[t] = "trace"
  OBVIOUS
<1>2. OnceInv'
  BY <1>1 DEF CaptureInv, OnceInv, OnlyOnce, Captured, Capturing, Handling
<1>3. HandoverInv'
  BY <1>1 DEF CaptureInv, HandoverInv, EmergencyOnce, BeforeRecord, BeforeNotify, BeforeDumper,
         AfterClose, Notified
<1>4. DumpInv'
  BY <1>1 DEF CaptureInv, DumpInv, BeforeDumper
<1>5. ReportInv' /\ JavaInv'
  BY <1>1 DEF CaptureInv, ReportInv, JavaInv, BeforeRecord, BeforeDumper, AfterClose
<1>6. QED
  BY <1>2, <1>3, <1>4, <1>5 DEF CaptureInv

LEMMA NativeInvariant == Spec => [](CrashTypeOK /\ CaptureInv)
<1>1. Init => CrashTypeOK /\ CaptureInv
  BY CaptureInit DEF Init
<1>2. CrashTypeOK /\ CaptureInv /\ [Next]_vars => CrashTypeOK' /\ CaptureInv'
  <2> SUFFICES ASSUME CrashTypeOK, CaptureInv, [Next]_vars
               PROVE  CaptureInv'
    BY TypeNative
  <2>1. CASE CrashPart
    BY <2>1, CaptureHandler, CaptureOther DEF CrashPart
  <2>2. CASE TracePart
    BY <2>2, TracePartEffect, CaptureOther DEF CrashTypeOK
  <2>3. ASSUME NEW t \in Threads, Longjmp(t)
        PROVE  CaptureInv'
    BY <2>3, LongjmpCapture
  <2>4. CASE (\E t \in Threads : JumpedThreadFaults(t)) \/ UNCHANGED vars
    <3>1. UNCHANGED <<captureVars, xc_crash_mutex>> /\ (proc' = proc \/ proc' # "alive")
      BY <2>4 DEF JumpedThreadFaults, vars, crashVars, captureVars, sigVars, onceVars
    <3>2. QED
      BY <3>1, CaptureOther
  <2>5. QED
    BY <2>1, <2>2, <2>3, <2>4 DEF Next
<1>3. QED
  BY <1>1, <1>2, PTL DEF Spec

\* Also with crashes of the dumper thread, and with handlers that are left by a jump while
\* the mutex stays locked, no two threads are ever in or past the capture.
THEOREM OnlyOnceInCapture == Spec => []OnlyOnce
<1>1. CaptureInv => OnlyOnce
  BY DEF CaptureInv, OnceInv
<1>2. QED
  BY <1>1, NativeInvariant, PTL

\* A capture that is not jumped out of still ends with a report, whatever the trace dumper
\* does to STDERR and to the process at the same time.
THEOREM ReportNotLostInCapture == Spec => []ReportNotLost
<1>1. CrashTypeOK /\ CaptureInv => ReportNotLost
  BY CaptureReports
<1>2. QED
  BY <1>1, NativeInvariant, PTL

\* A thread that jumped onto the dumper thread's stack is never seen in its own code again.
LEMMA JumpedStays ==
  ASSUME CrashTypeOK, [Next]_vars, NEW t \in Threads, pc[t] = "jumped"
  PROVE  pc'[t] = "jumped"
<1>1. CASE CrashPart
  <2>1. ASSUME NEW u \in Threads, HandlerStep(u) PROVE pc'[t] = "jumped"
    BY <2>1 DEF CrashTypeOK, SigTypeOK, Step, HandlerStep, Lock, RestoreHandlers, CheckTrace, OpenLog,
       SetDumpable, SetPtracer, Fork, WaitDumper, SeekToContentEnd, CheckDump, RestorePrivileges,
       GetEmergency, RecordFallback, RecordJava, DumpJavaStack, CloseLog, NotifyCallback, JoinCallback,
       QueueAndReturn, ExitProcess, Redelivered
  <2>2. CASE \E u \in Threads, k \in {"fault", "user"} : Signal(u, k)
    BY <2>2 DEF Signal, CrashTypeOK, SigTypeOK
  <2>3. CASE DumperStep \/ CallbackStep
    BY <2>3 DEF DumperStep, DumperWrites, DumperEnds, CallbackStep, CbStep, CbAttach, CbRead, CbParams,
       CbJava, sigVars
  <2>4. QED
    BY <1>1, <2>1, <2>2, <2>3 DEF CrashPart
<1>2. CASE TracePart
  BY <1>2 DEF TracePart
<1>3. ASSUME NEW u \in Threads, Longjmp(u) \/ JumpedThreadFaults(u) PROVE pc'[t] = "jumped"
  BY <1>3 DEF Longjmp, JumpedThreadFaults, CrashTypeOK, SigTypeOK
<1>4. CASE UNCHANGED vars
  BY <1>4 DEF vars, crashVars, sigVars
<1>5. QED
  BY <1>1, <1>2, <1>3, <1>4 DEF Next

\* The crash handler alone neither moves the dumper thread nor makes the status ART_CRASH.
LEMMA StatusOfCrashPart ==
  ASSUME CrashPart
  PROVE  UNCHANGED <<tpc, xc_trace_dump_status>>
<1>1. UNCHANGED traceVars
  <2>1. ASSUME NEW t \in Threads, HandlerStep(t) PROVE UNCHANGED traceVars
    BY <2>1 DEF HandlerStep, Lock, RestoreHandlers, CheckTrace, OpenLog, SetDumpable, SetPtracer, Fork,
       WaitDumper, SeekToContentEnd, CheckDump, RestorePrivileges, GetEmergency, RecordFallback,
       RecordJava, DumpJavaStack, CloseLog, NotifyCallback, JoinCallback, QueueAndReturn, ExitProcess,
       Redelivered
  <2>2. ASSUME NEW t \in Threads, NEW k \in {"fault", "user"}, Signal(t, k) PROVE UNCHANGED traceVars
    BY <2>2 DEF Signal
  <2>3. CASE DumperStep \/ CallbackStep
    BY <2>3 DEF DumperStep, DumperWrites, DumperEnds, CallbackStep, CbStep, CbAttach, CbRead, CbParams,
       CbJava
  <2>4. QED
    BY <2>1, <2>2, <2>3 DEF CrashPart
<1>2. QED
  BY <1>1 DEF CrashPart, traceOwnVars, traceVars

\* In the composite, whatever fails and whoever crashes: SIGQUIT is not sent to an ART that has
\* crashed in the dump, and only a thread that jumped behind the look at the status, with which
\* the process is lost, can make it look so right before tgkill (xc_trace.c:382).
THEOREM NotSentHolds == Spec => []NotSentAfterArtCrash
<1>1. Init => NotSentAfterArtCrash
  BY DEF Init, InitTrace, NotSentAfterArtCrash
<1>2. CrashTypeOK /\ NotSentAfterArtCrash /\ [Next]_vars => NotSentAfterArtCrash'
  <2> SUFFICES ASSUME CrashTypeOK, NotSentAfterArtCrash, [Next]_vars,
                      tpc' = "send", xc_trace_dump_status' = "ART_CRASH"
               PROVE  \E t \in Threads \ {TraceThread} : pc'[t] = "jumped"
    BY DEF NotSentAfterArtCrash
  <2>1. CASE tpc = "send" /\ xc_trace_dump_status = "ART_CRASH"
    BY <2>1, JumpedStays DEF NotSentAfterArtCrash
  <2>2. ASSUME NEW t \in Threads, Longjmp(t)
        PROVE  t # TraceThread /\ pc'[t] = "jumped"
    BY <2>2 DEF Longjmp, CrashTypeOK, SigTypeOK
  <2>3. CASE DumperThread
    <3>1. CASE CheckRethrow
      BY <3>1 DEF CheckRethrow, TStep, ArtCrashed
    <3>2. CASE ~CheckRethrow
      <4>1. tpc' # "send"
        BY <2>3, <3>2 DEF DumperThread, TStep, Attach, ReadNotifier, CheckCrashed, LogsClean,
           AfterCleanError, OpenTraceLog, AfterOpenError, WriteHeader, LabelEnd, PrepareDump, BeginDump,
           EndDump, RestoreStderr, WriteInfo, CloseTraceLog, SendSigquit, EndStatus, TraceCallback,
           ExitDumper
      <4>2. QED
        BY <4>1
    <3>3. QED
      BY <3>1, <3>2
  <2>4. CASE \/ CrashPart \/ Sigquit \/ NotifyJavaCrashed \/ UNCHANGED vars
             \/ \E t \in Threads : JumpedThreadFaults(t)
    <3>1. UNCHANGED <<tpc, xc_trace_dump_status>>
      BY <2>4, StatusOfCrashPart DEF Sigquit, NotifyJavaCrashed, JumpedThreadFaults, vars, crashVars,
         traceOwnVars, traceVars
    <3>2. QED
      BY <2>1, <3>1
  <2>5. QED
    BY <2>2, <2>3, <2>4 DEF Next, TracePart
<1>3. QED
  BY <1>1, <1>2, NativeInvariant, PTL DEF Spec
=============================================================================
