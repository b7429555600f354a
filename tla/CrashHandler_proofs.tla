------------------------- MODULE CrashHandler_proofs -------------------------
(***************************************************************************)
(* Proofs about CrashHandler, for any set of threads, any set of failing   *)
(* calls and both values of Rethrow.  The lemmas are about the actions     *)
(* and not about NextCrash, so that the proofs about the composition in    *)
(* NativeCapture can use them.                                             *)
(***************************************************************************)
EXTENDS CrashHandler, TLAPS

-----------------------------------------------------------------------------
(* Type correctness.                                                       *)

\* A handler step moves one thread within the values of pc.
LEMMA StepType ==
  ASSUME CommonTypeOK, SigTypeOK, NEW t \in Threads, NEW from,
         NEW to \in {"run", "returned"} \cup Handling, Step(t, from, to)
  PROVE  SigTypeOK' /\ proc' \in {"alive", "exited", "killed"}
BY DEF CommonTypeOK, SigTypeOK, Step

\* Every part of CrashTypeOK is kept by every step of the handler.
LEMMA TypeHandler ==
  ASSUME CrashTypeOK, NEW t \in Threads, HandlerStep(t)
  PROVE  CrashTypeOK'
<1> USE DEF CrashTypeOK
<1>1. SigTypeOK'
  BY StepType DEF
     SigTypeOK, Handling, HandlerStep, Lock, RestoreHandlers, CheckTrace, OpenLog, SetDumpable,
     SetPtracer, Fork, WaitDumper, SeekToContentEnd, CheckDump, RestorePrivileges, GetEmergency,
     RecordFallback, RecordJava, DumpJavaStack, CloseLog, NotifyCallback, JoinCallback,
     QueueAndReturn, ExitProcess, Redelivered
<1>2. OnceTypeOK'
  BY ThreadsAssumption DEF
     OnceTypeOK, onceVars, RestoredHandlers, HandlerStep, Lock, RestoreHandlers, CheckTrace,
     OpenLog, SetDumpable, SetPtracer, Fork, WaitDumper, SeekToContentEnd, CheckDump,
     RestorePrivileges, GetEmergency, RecordFallback, RecordJava, DumpJavaStack, CloseLog,
     NotifyCallback, JoinCallback, QueueAndReturn, ExitProcess, Redelivered
<1>3. PrivTypeOK'
  BY DEF
     PrivTypeOK, privVars, DumpableRead, HandlerStep, Lock, RestoreHandlers, CheckTrace,
     OpenLog, SetDumpable, SetPtracer, Fork, WaitDumper, SeekToContentEnd, CheckDump,
     RestorePrivileges, GetEmergency, RecordFallback, RecordJava, DumpJavaStack, CloseLog,
     NotifyCallback, JoinCallback, QueueAndReturn, ExitProcess, Redelivered
<1>4. ReportTypeOK'
  BY DEF
     ReportTypeOK, repVars, cbVars, JavaLayerDumps, BufferAfterWrite, HandlerStep, Lock,
     RestoreHandlers, CheckTrace, OpenLog, SetDumpable, SetPtracer, Fork, WaitDumper,
     SeekToContentEnd, CheckDump, RestorePrivileges, GetEmergency, RecordFallback, RecordJava,
     DumpJavaStack, CloseLog, NotifyCallback, JoinCallback, QueueAndReturn, ExitProcess,
     Redelivered
<1>5. CommonTypeOK'
  BY DEF
     CommonTypeOK, SigTypeOK, Step, onceVars, traceVars, HandlerStep, Lock, RestoreHandlers,
     CheckTrace, OpenLog, SetDumpable, SetPtracer, Fork, WaitDumper, SeekToContentEnd,
     CheckDump, RestorePrivileges, GetEmergency, RecordFallback, RecordJava, DumpJavaStack,
     CloseLog, NotifyCallback, JoinCallback, QueueAndReturn, ExitProcess, Redelivered
<1>6. LogTypeOK'
  <2> USE DEF LogTypeOK, logVars, fdVars
  <2>1. CASE OpenLog(t)
    BY <2>1 DEF OpenLog
  <2>2. CASE SeekToContentEnd(t)
    BY <2>2 DEF SeekToContentEnd, OffsetAfterSeek
  <2>3. CASE RecordFallback(t)
    BY <2>3 DEF RecordFallback, BufferAfterWrite, DumpAfterWrite
  <2>4. CASE RecordJava(t)
    BY <2>4 DEF RecordJava, JavaLayerDumps, DumpAfterWrite
  <2>5. CASE DumpJavaStack(t)
    BY <2>5 DEF DumpJavaStack
  <2>6. CASE CloseLog(t)
    BY <2>6 DEF CloseLog
  <2>7. CASE \/ Lock(t) \/ RestoreHandlers(t) \/ CheckTrace(t) \/ SetDumpable(t)
             \/ SetPtracer(t) \/ Fork(t) \/ WaitDumper(t) \/ CheckDump(t)
             \/ RestorePrivileges(t) \/ GetEmergency(t) \/ NotifyCallback(t) \/ JoinCallback(t)
             \/ QueueAndReturn(t) \/ ExitProcess(t) \/ Redelivered(t)
    BY <2>7 DEF
       Lock, RestoreHandlers, CheckTrace, SetDumpable, SetPtracer, Fork, WaitDumper, CheckDump,
       RestorePrivileges, GetEmergency, NotifyCallback, JoinCallback, QueueAndReturn,
       ExitProcess, Redelivered
  <2>8. QED
    BY <2>1, <2>2, <2>3, <2>4, <2>5, <2>6, <2>7 DEF HandlerStep
<1>7. QED
  BY <1>1, <1>2, <1>3, <1>4, <1>5, <1>6

LEMMA TypeInit ==
  ASSUME InitCrash
  PROVE  CrashTypeOK
<1>1. CommonTypeOK /\ SigTypeOK /\ OnceTypeOK
  BY DEF InitCrash, InitCommon, CommonTypeOK, SigTypeOK, OnceTypeOK
<1>2. LogTypeOK /\ PrivTypeOK /\ ReportTypeOK
  BY DEF InitCrash, LogTypeOK, PrivTypeOK, ReportTypeOK
<1>3. QED
  BY <1>1, <1>2 DEF CrashTypeOK

LEMMA TypeSignal ==
  ASSUME CrashTypeOK, NEW t \in Threads, NEW k \in {"fault", "user"}, Signal(t, k)
  PROVE  CrashTypeOK'
BY DEF CrashTypeOK, CommonTypeOK, SigTypeOK, OnceTypeOK, LogTypeOK, PrivTypeOK, ReportTypeOK,
       Handling, Signal, onceVars, fdVars, logVars, privVars, repVars, cbVars, traceVars

LEMMA TypeDumper ==
  ASSUME CrashTypeOK, DumperStep
  PROVE  CrashTypeOK'
BY DEF CrashTypeOK, CommonTypeOK, SigTypeOK, OnceTypeOK, LogTypeOK, PrivTypeOK, ReportTypeOK,
       DumperStep, DumperWrites, DumperEnds, sigVars, onceVars, fdVars, logVars, privVars,
       repVars, cbVars, traceVars

LEMMA TypeCallback ==
  ASSUME CrashTypeOK, CallbackStep
  PROVE  CrashTypeOK'
<1> USE DEF CrashTypeOK, CbStep, CbAttach, CbRead, CbParams, CbJava
<1>1. CommonTypeOK' /\ SigTypeOK' /\ OnceTypeOK' /\ PrivTypeOK'
  BY DEF CallbackStep, CommonTypeOK, SigTypeOK, OnceTypeOK, PrivTypeOK, sigVars, onceVars,
         privVars, traceVars
<1>2. LogTypeOK'
  BY DEF CallbackStep, LogTypeOK, logVars, fdVars
<1>3. ReportTypeOK'
  BY DEF CallbackStep, ReportTypeOK, repVars
<1>4. QED
  BY <1>1, <1>2, <1>3

\* Every variable of the handler, of the log and of the callback thread keeps its type
\* through every step of every thread.
THEOREM TypeCorrect == SpecCrash => []CrashTypeOK
<1>1. InitCrash => CrashTypeOK
  BY TypeInit
<1>2. CrashTypeOK /\ [NextCrash]_crashVars => CrashTypeOK'
  <2> SUFFICES ASSUME CrashTypeOK, [NextCrash]_crashVars
               PROVE  CrashTypeOK'
    OBVIOUS
  <2>1. CASE UNCHANGED crashVars
    BY <2>1 DEF CrashTypeOK, CommonTypeOK, SigTypeOK, OnceTypeOK, LogTypeOK, PrivTypeOK,
           ReportTypeOK, crashVars, sigVars, onceVars, fdVars, logVars, privVars, repVars,
           cbVars, traceVars
  <2>2. QED
    BY <2>1, TypeHandler, TypeSignal, TypeDumper, TypeCallback DEF NextCrash, Ended
<1>3. QED
  BY <1>1, <1>2, PTL DEF SpecCrash

-----------------------------------------------------------------------------
(* Mutual exclusion.                                                       *)

\* In the capture or past it.
Captured == Capturing \cup {"returned"}

\* What makes OnlyOnce inductive: the thread in the capture, and a thread about to
\* _exit, hold the mutex; and once a thread is in or past the capture the flag is set.
OnceInv ==
  /\ \A t \in Threads : pc[t] \in Capturing => xc_crash_mutex = t
  /\ \A t \in Threads : pc[t] = "exit" /\ proc = "alive" => xc_crash_mutex = t
  /\ \A t \in Threads : pc[t] \in Captured => xc_common_native_crashed
  /\ OnlyOnce

LEMMA StepPc ==
  ASSUME SigTypeOK, NEW t \in Threads, NEW from, NEW to, Step(t, from, to)
  PROVE  /\ pc[t] = from /\ pc'[t] = to
         /\ \A s \in Threads : s # t => pc'[s] = pc[s]
         /\ proc = "alive" /\ proc' = "alive"
BY DEF SigTypeOK, Step

\* A step of a thread in the capture: no other thread is in it or past it.
LEMMA Alone ==
  ASSUME SigTypeOK, OnceInv, NEW t \in Threads, NEW from \in Capturing, NEW to,
         Step(t, from, to)
  PROVE  /\ pc[t] = from /\ pc'[t] = to
         /\ \A s \in Threads : s # t => pc[s] \notin Captured /\ pc'[s] \notin Captured
         /\ xc_common_native_crashed
BY StepPc DEF OnceInv, OnlyOnce, Captured

\* A step from one point of the capture to another.
LEMMA OnceInside ==
  ASSUME SigTypeOK, OnceInv, NEW t \in Threads, NEW from \in Capturing, NEW to \in Capturing,
         Step(t, from, to), UNCHANGED onceVars
  PROVE  OnceInv'
BY StepPc DEF OnceInv, OnlyOnce, onceVars, Captured, Capturing, Handling

LEMMA OnceHandler ==
  ASSUME SigTypeOK, OnceInv, NEW t \in Threads, HandlerStep(t)
  PROVE  OnceInv'
<1> USE DEF OnceInv, OnlyOnce, Captured, Capturing, Handling
<1>1. CASE Lock(t)
  <2>1. \A s \in Threads : pc[s] \notin Capturing \cup {"exit"}
    BY <1>1, ThreadsAssumption DEF Lock, Step
  <2>2. CASE AlreadyCrashed
    <3>1. Step(t, "lock", "exit") /\ xc_crash_mutex' = t /\ xc_common_native_crashed'
      BY <1>1, <2>2 DEF Lock
    <3>2. pc'[t] = "exit" /\ \A s \in Threads : s # t => pc'[s] = pc[s]
      BY <3>1, StepPc
    <3>3. QED
      BY <2>1, <2>2, <3>1, <3>2 DEF AlreadyCrashed
  <2>3. CASE ~AlreadyCrashed
    <3>1. Step(t, "lock", "restore") /\ xc_crash_mutex' = t /\ xc_common_native_crashed'
      BY <1>1, <2>3 DEF Lock
    <3>2. pc'[t] = "restore" /\ \A s \in Threads : s # t => pc'[s] = pc[s]
      BY <3>1, StepPc
    <3>3. QED
      BY <2>1, <2>3, <3>1, <3>2 DEF AlreadyCrashed
  <2>4. QED
    BY <2>2, <2>3
<1>2. CASE RestoreHandlers(t)
  BY <1>2, StepPc DEF RestoreHandlers
<1>3. CASE QueueAndReturn(t)
  <2>1. CASE Step(t, "queue", "returned") /\ xc_crash_mutex' = NoThread
    BY <1>3, <2>1, StepPc DEF QueueAndReturn
  <2>2. CASE Step(t, "queue", "exit") /\ UNCHANGED xc_crash_mutex
    BY <1>3, <2>2, StepPc DEF QueueAndReturn
  <2>3. QED
    BY <1>3, <2>1, <2>2 DEF QueueAndReturn, QueuedAgain, SigTypeOK
<1>4. CASE ExitProcess(t)
  BY <1>4 DEF ExitProcess
<1>5. CASE Redelivered(t)
  BY <1>5 DEF Redelivered, SigTypeOK, onceVars
<1>6. CASE \/ CheckTrace(t) \/ OpenLog(t) \/ SetDumpable(t) \/ SetPtracer(t) \/ Fork(t)
           \/ WaitDumper(t) \/ SeekToContentEnd(t) \/ CheckDump(t) \/ RestorePrivileges(t)
           \/ GetEmergency(t) \/ RecordFallback(t) \/ RecordJava(t) \/ DumpJavaStack(t)
           \/ CloseLog(t) \/ NotifyCallback(t) \/ JoinCallback(t)
  <2>1. PICK from \in Capturing, to \in Capturing : Step(t, from, to)
    BY <1>6 DEF
       CheckTrace, OpenLog, SetDumpable, SetPtracer, Fork, WaitDumper, SeekToContentEnd,
       CheckDump, RestorePrivileges, GetEmergency, RecordFallback, RecordJava, DumpJavaStack,
       CloseLog, NotifyCallback, JoinCallback
  <2>2. UNCHANGED onceVars
    BY <1>6 DEF
       CheckTrace, OpenLog, SetDumpable, SetPtracer, Fork, WaitDumper, SeekToContentEnd,
       CheckDump, RestorePrivileges, GetEmergency, RecordFallback, RecordJava, DumpJavaStack,
       CloseLog, NotifyCallback, JoinCallback
  <2>3. QED
    BY <2>1, <2>2, OnceInside
<1>7. QED
  BY <1>1, <1>2, <1>3, <1>4, <1>5, <1>6 DEF HandlerStep

LEMMA OnceOther ==
  ASSUME SigTypeOK, OnceInv,
         \/ \E t \in Threads, k \in {"fault", "user"} : Signal(t, k)
         \/ DumperStep \/ CallbackStep
         \/ /\ UNCHANGED <<pc, xc_crash_mutex, xc_common_native_crashed>>
            /\ proc' = proc \/ proc' # "alive"
  PROVE  OnceInv'
BY DEF OnceInv, OnlyOnce, Captured, Capturing, Handling, SigTypeOK, Signal, DumperStep,
       DumperWrites, DumperEnds, CallbackStep, CbStep, CbAttach, CbRead, CbParams, CbJava,
       sigVars, onceVars

\* No two threads are ever in or past the capture, however many crash.
THEOREM OnlyOnceHolds == SpecCrash => []OnlyOnce
<1>1. InitCrash => OnceInv
  BY DEF InitCrash, InitCommon, OnceInv, OnlyOnce, Captured, Capturing, Handling
<1>2. CrashTypeOK /\ OnceInv /\ [NextCrash]_crashVars => OnceInv'
  BY OnceHandler, OnceOther DEF NextCrash, Ended, crashVars, CrashTypeOK, sigVars, onceVars
<1>3. OnceInv => OnlyOnce
  BY DEF OnceInv
<1>4. QED
  BY <1>1, <1>2, <1>3, TypeCorrect, PTL DEF SpecCrash

-----------------------------------------------------------------------------
(* The path of one capture.                                                *)

\* Everything the invariants are about.
captureVars == <<pc, xc_common_native_crashed, fdVars, logVars, privVars, repVars, cbVars, dumper>>

\* Segments of the handler, in the order of the code.
BeforeDumper == {"restore", "trace", "open", "dumpable", "ptracer", "fork"}
BeforeRecord == BeforeDumper \cup {"wait", "seek", "check", "end", "fallback", "record"}
BeforeNotify == BeforeRecord \cup {"java", "javadump", "close", "callback"}
AfterClose == {"callback", "join", "queue", "returned"}

\* The callback thread has been woken up.
Notified == cb_event \/ cb \in {"params", "java"} \/ cb_report # "none"

\* Who holds the report when: until the handler notifies the callback thread that thread
\* does nothing, and by then the log is closed and a text that was written is forgotten.
HandoverInv ==
  /\ ~xc_common_native_crashed => ~Notified /\ ~log_emergency
  /\ \A t \in Threads : pc[t] \in BeforeRecord => ~log_emergency
  /\ \A t \in Threads : pc[t] \in BeforeNotify => ~Notified
  /\ log_emergency => ~emergency
  /\ EmergencyOnce
  /\ log_fd <=> fd_open
  /\ \A t \in Threads : pc[t] \in AfterClose => ~fd_open
  /\ Notified => ~fd_open

\* The dump in the log: the dumper runs only while the handler waits for it, the handler's
\* own writes start at the end of the content, and dump_ok says that the dump is valid.
DumpInv ==
  /\ dumper = "running" => \E t \in Threads : pc[t] = "wait"
  /\ ~from_placeholder => offset = "end"
  /\ ~xc_common_native_crashed => offset = "end" /\ ~dump_ok
  /\ \A t \in Threads : pc[t] \in BeforeDumper \cup {"check", "record", "java"} => offset = "end"
  /\ \A t \in Threads : pc[t] \in {"end", "fallback"} /\ fd_open => offset = "end"
  /\ dump_ok => dumper = "exit0" /\ log_dump = "valid" /\ offset = "end"
  /\ \A t \in Threads : pc[t] \in BeforeDumper \cup {"wait", "seek", "check"} => ~dump_ok

\* From the fallback on there is a report: in the log, or in the buffer until the callback
\* has taken it.
ReportInv ==
  /\ \A t \in Threads : pc[t] \in {"java", "javadump", "close"} => dump_ok \/ log_emergency
  /\ \A t \in Threads : pc[t] = "record" => emergency
  /\ \A t \in Threads :
       pc[t] \in AfterClose => dump_ok \/ log_emergency \/ (emergency /\ cb_report # "path")

\* At most one layer records the java stack: libart's record clears the flag the callback
\* looks at, and the callback runs once.
JavaInv ==
  /\ ~xc_common_native_crashed => log_java = 0 /\ ~dump_java
  /\ \A t \in Threads : pc[t] \in BeforeRecord \cup {"java", "javadump"} => log_java = 0
  /\ \A t \in Threads : pc[t] = "javadump" => ~dump_java
  /\ log_java > 0 /\ dump_java => cb = "done"
  /\ log_java <= 1

\* What is known of the privileges on the way, d being the initial dumpable: they are as at
\* first, or the handler remembers what to restore.
PrivInv(d) ==
  /\ ~xc_common_native_crashed =>
       dumpable = d /\ ~ptracer /\ ~restore_orig_dumpable /\ ~restore_orig_ptracer
  /\ \A t \in Threads : pc[t] \in {"restore", "trace", "open", "dumpable"} =>
       dumpable = d /\ ~ptracer /\ ~restore_orig_dumpable /\ ~restore_orig_ptracer
  /\ \A t \in Threads : pc[t] = "ptracer" =>
       orig_dumpable = d /\ restore_orig_dumpable /\ ~ptracer /\ ~restore_orig_ptracer
  /\ \A t \in Threads : pc[t] \in {"fork", "wait", "seek", "check"} =>
       orig_dumpable = d /\ restore_orig_dumpable /\ (ptracer => restore_orig_ptracer)
  /\ \A t \in Threads : pc[t] = "end" =>
       /\ IF restore_orig_dumpable THEN orig_dumpable = d ELSE dumpable = d
       /\ ptracer => restore_orig_ptracer
  /\ \A t \in Threads : pc[t] \in Reporting => dumpable = d /\ ~ptracer

LEMMA HandoverHandler ==
  ASSUME CrashTypeOK, OnceInv, HandoverInv, NEW t \in Threads, HandlerStep(t)
  PROVE  HandoverInv'
<1> USE DEF HandoverInv, EmergencyOnce, OnceInv, Captured, Capturing, Handling, BeforeDumper,
        BeforeRecord, BeforeNotify, AfterClose, Notified, CrashTypeOK, SigTypeOK, LogTypeOK,
        ReportTypeOK, onceVars, fdVars, logVars, privVars, repVars, cbVars
<1>1. CASE Lock(t)
  BY <1>1, Alone, StepPc DEF Lock, AlreadyCrashed
<1>2. CASE OpenLog(t)
  BY <1>2, Alone, StepPc DEF OpenLog
<1>3. CASE SetPtracer(t)
  BY <1>3, Alone, StepPc DEF SetPtracer
<1>4. CASE SeekToContentEnd(t)
  BY <1>4, Alone, StepPc DEF SeekToContentEnd, OffsetAfterSeek
<1>5. CASE RestorePrivileges(t)
  BY <1>5, Alone, StepPc DEF RestorePrivileges
<1>6. CASE GetEmergency(t)
  BY <1>6, Alone, StepPc DEF GetEmergency
<1>7. CASE RecordFallback(t)
  BY <1>7, Alone, StepPc DEF RecordFallback, BufferAfterWrite, DumpAfterWrite
<1>8. CASE RecordJava(t)
  BY <1>8, Alone, StepPc DEF RecordJava, JavaLayerDumps, DumpAfterWrite
<1>9. CASE CloseLog(t)
  BY <1>9, Alone, StepPc DEF CloseLog
<1>10. CASE NotifyCallback(t)
  BY <1>10, Alone, StepPc DEF NotifyCallback
<1>11. CASE \/ RestoreHandlers(t) \/ QueueAndReturn(t) \/ ExitProcess(t) \/ Redelivered(t)
  BY <1>11, Alone, StepPc DEF
     RestoreHandlers, RestoredHandlers, QueueAndReturn, QueuedAgain, ExitProcess, Step,
     Redelivered
<1>12. CASE \/ CheckTrace(t) \/ SetDumpable(t) \/ Fork(t) \/ WaitDumper(t) \/ CheckDump(t)
           \/ DumpJavaStack(t) \/ JoinCallback(t)
  BY <1>12, Alone, StepPc DEF
     CheckTrace, SetDumpable, DumpableRead, Fork, WaitDumper, CheckDump, DumpJavaStack,
     JoinCallback
<1>13. QED
  BY <1>1, <1>2, <1>3, <1>4, <1>5, <1>6, <1>7, <1>8, <1>9, <1>10, <1>11, <1>12 DEF HandlerStep

LEMMA HandoverOther ==
  ASSUME CrashTypeOK, OnceInv, HandoverInv,
         \/ \E t \in Threads, k \in {"fault", "user"} : Signal(t, k)
         \/ DumperStep \/ CallbackStep
         \/ UNCHANGED captureVars
  PROVE  HandoverInv'
<1> USE DEF HandoverInv, EmergencyOnce, OnceInv, Captured, Capturing, Handling, BeforeDumper,
        BeforeRecord, BeforeNotify, AfterClose, Notified, CrashTypeOK, SigTypeOK, LogTypeOK,
        ReportTypeOK, onceVars, fdVars, logVars, privVars, repVars, cbVars
<1>1. ASSUME NEW t \in Threads, NEW k \in {"fault", "user"}, Signal(t, k)
      PROVE  HandoverInv'
  BY <1>1 DEF Signal
<1>2. CASE DumperStep
  BY <1>2 DEF DumperStep, DumperWrites, DumperEnds, OnlyOnce, sigVars
<1>3. CASE CallbackStep
  BY <1>3 DEF CallbackStep, CbStep, CbAttach, CbRead, CbParams, CbJava, sigVars
<1>4. CASE UNCHANGED captureVars
  BY <1>4 DEF captureVars
<1>5. QED
  BY <1>1, <1>2, <1>3, <1>4

LEMMA DumpHandler ==
  ASSUME CrashTypeOK, OnceInv, HandoverInv, DumpInv, NEW t \in Threads, HandlerStep(t)
  PROVE  DumpInv'
<1> USE DEF DumpInv, HandoverInv, OnceInv, Captured, Capturing, Handling, BeforeDumper,
        BeforeRecord, BeforeNotify, AfterClose, Notified, CrashTypeOK, SigTypeOK, LogTypeOK,
        ReportTypeOK, onceVars, fdVars, logVars, privVars, repVars, cbVars
<1>1. CASE Lock(t)
  BY <1>1, Alone, StepPc DEF Lock, AlreadyCrashed
<1>2. CASE OpenLog(t)
  BY <1>2, Alone, StepPc DEF OpenLog
<1>3. CASE Fork(t)
  BY <1>3, Alone, StepPc DEF Fork
<1>4. CASE SeekToContentEnd(t)
  BY <1>4, Alone, StepPc DEF SeekToContentEnd, OffsetAfterSeek
<1>5. CASE CheckDump(t)
  BY <1>5, Alone, StepPc DEF CheckDump
<1>6. CASE RestorePrivileges(t)
  BY <1>6, Alone, StepPc DEF RestorePrivileges
<1>7. CASE RecordFallback(t)
  BY <1>7, Alone, StepPc DEF RecordFallback, BufferAfterWrite, DumpAfterWrite
<1>8. CASE \/ RestoreHandlers(t) \/ QueueAndReturn(t) \/ ExitProcess(t) \/ Redelivered(t)
  BY <1>8, Alone, StepPc DEF
     RestoreHandlers, RestoredHandlers, QueueAndReturn, QueuedAgain, ExitProcess, Step,
     Redelivered
<1>9. CASE \/ CheckTrace(t) \/ SetDumpable(t) \/ SetPtracer(t) \/ WaitDumper(t)
           \/ GetEmergency(t) \/ RecordJava(t) \/ DumpJavaStack(t) \/ CloseLog(t)
           \/ NotifyCallback(t) \/ JoinCallback(t)
  BY <1>9, Alone, StepPc DEF
     CheckTrace, SetDumpable, DumpableRead, SetPtracer, WaitDumper, GetEmergency, RecordJava,
     JavaLayerDumps, DumpAfterWrite, DumpJavaStack, CloseLog, NotifyCallback, JoinCallback
<1>10. QED
  BY <1>1, <1>2, <1>3, <1>4, <1>5, <1>6, <1>7, <1>8, <1>9 DEF HandlerStep

LEMMA DumpOther ==
  ASSUME CrashTypeOK, OnceInv, HandoverInv, DumpInv,
         \/ \E t \in Threads, k \in {"fault", "user"} : Signal(t, k)
         \/ DumperStep \/ CallbackStep
         \/ UNCHANGED captureVars
  PROVE  DumpInv'
<1> USE DEF DumpInv, HandoverInv, OnceInv, Captured, Capturing, Handling, BeforeDumper,
        BeforeRecord, BeforeNotify, AfterClose, Notified, CrashTypeOK, SigTypeOK, LogTypeOK,
        ReportTypeOK, onceVars, fdVars, logVars, privVars, repVars, cbVars
<1>1. ASSUME NEW t \in Threads, NEW k \in {"fault", "user"}, Signal(t, k)
      PROVE  DumpInv'
  BY <1>1 DEF Signal
<1>2. CASE DumperStep
  BY <1>2 DEF DumperStep, DumperWrites, DumperEnds, OnlyOnce, sigVars
<1>3. CASE CallbackStep
  BY <1>3 DEF CallbackStep, CbStep, CbAttach, CbRead, CbParams, CbJava, sigVars
<1>4. CASE UNCHANGED captureVars
  BY <1>4 DEF captureVars
<1>5. QED
  BY <1>1, <1>2, <1>3, <1>4

LEMMA ReportHandler ==
  ASSUME CrashTypeOK, OnceInv, HandoverInv, DumpInv, ReportInv, NEW t \in Threads, HandlerStep(t)
  PROVE  ReportInv'
<1> USE DEF ReportInv, HandoverInv, DumpInv, OnceInv, Captured, Capturing, Handling,
        BeforeDumper, BeforeRecord, BeforeNotify, AfterClose, Notified, CrashTypeOK, SigTypeOK,
        LogTypeOK, ReportTypeOK, onceVars, fdVars, logVars, privVars, repVars, cbVars
<1>1. CASE RestorePrivileges(t)
  BY <1>1, Alone, StepPc DEF RestorePrivileges
<1>2. CASE GetEmergency(t)
  BY <1>2, Alone, StepPc DEF GetEmergency
<1>3. CASE RecordFallback(t)
  BY <1>3, Alone, StepPc DEF RecordFallback, BufferAfterWrite, DumpAfterWrite
<1>4. CASE CloseLog(t)
  BY <1>4, Alone, StepPc DEF CloseLog
<1>5. CASE \/ RestoreHandlers(t) \/ QueueAndReturn(t) \/ ExitProcess(t) \/ Redelivered(t)
  BY <1>5, Alone, StepPc DEF
     RestoreHandlers, RestoredHandlers, QueueAndReturn, QueuedAgain, ExitProcess, Step,
     Redelivered
<1>6. CASE \/ Lock(t) \/ CheckTrace(t) \/ OpenLog(t) \/ SetDumpable(t) \/ SetPtracer(t)
           \/ Fork(t) \/ WaitDumper(t) \/ SeekToContentEnd(t) \/ CheckDump(t) \/ RecordJava(t)
           \/ DumpJavaStack(t) \/ NotifyCallback(t) \/ JoinCallback(t)
  BY <1>6, Alone, StepPc DEF
     Lock, AlreadyCrashed, CheckTrace, OpenLog, SetDumpable, DumpableRead, SetPtracer, Fork,
     WaitDumper, SeekToContentEnd, OffsetAfterSeek, CheckDump, RecordJava, JavaLayerDumps,
     DumpAfterWrite, DumpJavaStack, NotifyCallback, JoinCallback
<1>7. QED
  BY <1>1, <1>2, <1>3, <1>4, <1>5, <1>6 DEF HandlerStep

LEMMA ReportOther ==
  ASSUME CrashTypeOK, OnceInv, HandoverInv, DumpInv, ReportInv,
         \/ \E t \in Threads, k \in {"fault", "user"} : Signal(t, k)
         \/ DumperStep \/ CallbackStep
         \/ UNCHANGED captureVars
  PROVE  ReportInv'
<1> USE DEF ReportInv, HandoverInv, DumpInv, OnceInv, Captured, Capturing, Handling,
        BeforeDumper, BeforeRecord, BeforeNotify, AfterClose, Notified, CrashTypeOK, SigTypeOK,
        LogTypeOK, ReportTypeOK, onceVars, fdVars, logVars, privVars, repVars, cbVars
<1>1. ASSUME NEW t \in Threads, NEW k \in {"fault", "user"}, Signal(t, k)
      PROVE  ReportInv'
  BY <1>1 DEF Signal
<1>2. CASE DumperStep
  BY <1>2 DEF DumperStep, DumperWrites, DumperEnds, OnlyOnce, sigVars
<1>3. CASE CallbackStep
  BY <1>3 DEF CallbackStep, CbStep, CbAttach, CbRead, CbParams, CbJava, sigVars
<1>4. CASE UNCHANGED captureVars
  BY <1>4 DEF captureVars
<1>5. QED
  BY <1>1, <1>2, <1>3, <1>4

LEMMA JavaHandler ==
  ASSUME CrashTypeOK, OnceInv, HandoverInv, JavaInv, NEW t \in Threads, HandlerStep(t)
  PROVE  JavaInv'
<1> USE DEF JavaInv, OnceInv, Captured, Capturing, Handling, BeforeDumper, BeforeRecord,
        CrashTypeOK, SigTypeOK, LogTypeOK, ReportTypeOK, onceVars, fdVars, logVars, privVars,
        repVars, cbVars
<1>1. CASE Lock(t)
  BY <1>1, Alone, StepPc DEF Lock, AlreadyCrashed
<1>2. CASE CheckDump(t)
  BY <1>2, Alone, StepPc DEF CheckDump
<1>3. CASE RestorePrivileges(t)
  BY <1>3, Alone, StepPc DEF RestorePrivileges
<1>4. CASE RecordFallback(t)
  BY <1>4, Alone, StepPc DEF RecordFallback, BufferAfterWrite, DumpAfterWrite
<1>5. CASE RecordJava(t)
  BY <1>5, Alone, StepPc DEF RecordJava, JavaLayerDumps, DumpAfterWrite
<1>6. CASE DumpJavaStack(t)
  BY <1>6, Alone, StepPc DEF DumpJavaStack
<1>7. CASE \/ RestoreHandlers(t) \/ QueueAndReturn(t) \/ ExitProcess(t) \/ Redelivered(t)
  BY <1>7, Alone, StepPc DEF
     RestoreHandlers, RestoredHandlers, QueueAndReturn, QueuedAgain, ExitProcess, Step,
     Redelivered
<1>8. CASE \/ CheckTrace(t) \/ OpenLog(t) \/ SetDumpable(t) \/ SetPtracer(t) \/ Fork(t)
           \/ WaitDumper(t) \/ SeekToContentEnd(t) \/ GetEmergency(t) \/ CloseLog(t)
           \/ NotifyCallback(t) \/ JoinCallback(t)
  BY <1>8, Alone, StepPc DEF
     CheckTrace, OpenLog, SetDumpable, DumpableRead, SetPtracer, Fork, WaitDumper,
     SeekToContentEnd, OffsetAfterSeek, GetEmergency, CloseLog, NotifyCallback, JoinCallback
<1>9. QED
  BY <1>1, <1>2, <1>3, <1>4, <1>5, <1>6, <1>7, <1>8 DEF HandlerStep

LEMMA JavaOther ==
  ASSUME CrashTypeOK, OnceInv, HandoverInv, JavaInv,
         \/ \E t \in Threads, k \in {"fault", "user"} : Signal(t, k)
         \/ DumperStep \/ CallbackStep
         \/ UNCHANGED captureVars
  PROVE  JavaInv'
<1> USE DEF JavaInv, OnceInv, Captured, Capturing, Handling, BeforeDumper, BeforeRecord,
        CrashTypeOK, SigTypeOK, LogTypeOK, ReportTypeOK, onceVars, fdVars, logVars, privVars,
        repVars, cbVars, HandoverInv, Notified, BeforeNotify
<1>1. ASSUME NEW t \in Threads, NEW k \in {"fault", "user"}, Signal(t, k)
      PROVE  JavaInv'
  BY <1>1 DEF Signal
<1>2. CASE DumperStep
  BY <1>2 DEF DumperStep, DumperWrites, DumperEnds, OnlyOnce, sigVars
<1>3. CASE CallbackStep
  BY <1>3 DEF CallbackStep, CbStep, CbAttach, CbRead, CbParams, CbJava, sigVars
<1>4. CASE UNCHANGED captureVars
  BY <1>4 DEF captureVars
<1>5. QED
  BY <1>1, <1>2, <1>3, <1>4

LEMMA PrivHandler ==
  ASSUME NEW d \in {0, 1}, CrashTypeOK, OnceInv, PrivInv(d), NEW t \in Threads, HandlerStep(t)
  PROVE  PrivInv(d)'
<1> USE DEF PrivInv, Reporting, OnceInv, Captured, Capturing, Handling, BeforeDumper,
        BeforeRecord, BeforeNotify, AfterClose, Notified, CrashTypeOK, SigTypeOK, PrivTypeOK,
        onceVars, fdVars, logVars, privVars, repVars, cbVars
<1>1. CASE Lock(t)
  BY <1>1, Alone, StepPc DEF Lock, AlreadyCrashed
<1>2. CASE SetDumpable(t)
  BY <1>2, Alone, StepPc DEF SetDumpable, DumpableRead
<1>3. CASE SetPtracer(t)
  BY <1>3, Alone, StepPc DEF SetPtracer
<1>4. CASE RestorePrivileges(t)
  BY <1>4, Alone, StepPc DEF RestorePrivileges
<1>5. CASE \/ RestoreHandlers(t) \/ QueueAndReturn(t) \/ ExitProcess(t) \/ Redelivered(t)
  BY <1>5, Alone, StepPc DEF
     RestoreHandlers, RestoredHandlers, QueueAndReturn, QueuedAgain, ExitProcess, Step,
     Redelivered
<1>6. CASE \/ CheckTrace(t) \/ OpenLog(t) \/ Fork(t) \/ WaitDumper(t) \/ SeekToContentEnd(t)
           \/ CheckDump(t) \/ GetEmergency(t) \/ RecordFallback(t) \/ RecordJava(t)
           \/ DumpJavaStack(t) \/ CloseLog(t) \/ NotifyCallback(t) \/ JoinCallback(t)
  BY <1>6, Alone, StepPc DEF
     CheckTrace, OpenLog, Fork, WaitDumper, SeekToContentEnd, OffsetAfterSeek, CheckDump,
     GetEmergency, RecordFallback, BufferAfterWrite, DumpAfterWrite, RecordJava, JavaLayerDumps,
     DumpJavaStack, CloseLog, NotifyCallback, JoinCallback
<1>7. QED
  BY <1>1, <1>2, <1>3, <1>4, <1>5, <1>6 DEF HandlerStep

LEMMA PrivOther ==
  ASSUME NEW d \in {0, 1}, CrashTypeOK, OnceInv, PrivInv(d),
         \/ \E t \in Threads, k \in {"fault", "user"} : Signal(t, k)
         \/ DumperStep \/ CallbackStep
         \/ UNCHANGED captureVars
  PROVE  PrivInv(d)'
<1> USE DEF PrivInv, Reporting, OnceInv, Captured, Capturing, Handling, BeforeDumper,
        BeforeRecord, BeforeNotify, AfterClose, Notified, CrashTypeOK, SigTypeOK, PrivTypeOK,
        onceVars, fdVars, logVars, privVars, repVars, cbVars
<1>1. ASSUME NEW t \in Threads, NEW k \in {"fault", "user"}, Signal(t, k)
      PROVE  PrivInv(d)'
  BY <1>1 DEF Signal
<1>2. CASE DumperStep
  BY <1>2 DEF DumperStep, DumperWrites, DumperEnds, OnlyOnce, sigVars
<1>3. CASE CallbackStep
  BY <1>3 DEF CallbackStep, CbStep, CbAttach, CbRead, CbParams, CbJava, sigVars
<1>4. CASE UNCHANGED captureVars
  BY <1>4 DEF captureVars
<1>5. QED
  BY <1>1, <1>2, <1>3, <1>4

-----------------------------------------------------------------------------
(* The theorems.                                                           *)

CaptureInv == OnceInv /\ HandoverInv /\ DumpInv /\ ReportInv /\ JavaInv

LEMMA CaptureInit ==
  ASSUME InitCrash
  PROVE  CrashTypeOK /\ CaptureInv
<1> USE DEF InitCrash, InitCommon
<1>1. OnceInv
  BY DEF OnceInv, OnlyOnce, Captured, Capturing, Handling
<1>2. HandoverInv
  BY DEF HandoverInv, EmergencyOnce, BeforeRecord, BeforeNotify, BeforeDumper, AfterClose,
         Notified
<1>3. DumpInv
  BY DEF DumpInv, BeforeDumper
<1>4. ReportInv /\ JavaInv
  BY DEF ReportInv, JavaInv, BeforeRecord, BeforeDumper, AfterClose
<1>5. QED
  BY <1>1, <1>2, <1>3, <1>4, TypeInit DEF CaptureInv

LEMMA CaptureHandler ==
  ASSUME CrashTypeOK, CaptureInv, NEW t \in Threads, HandlerStep(t)
  PROVE  CaptureInv'
BY OnceHandler, HandoverHandler, DumpHandler, ReportHandler, JavaHandler
   DEF CrashTypeOK, CaptureInv

\* The steps of the others, and any that leave the capture alone.
LEMMA CaptureOther ==
  ASSUME CrashTypeOK, CaptureInv,
         \/ \E t \in Threads, k \in {"fault", "user"} : Signal(t, k)
         \/ DumperStep \/ CallbackStep
         \/ UNCHANGED <<captureVars, xc_crash_mutex>> /\ (proc' = proc \/ proc' # "alive")
  PROVE  CaptureInv'
BY OnceOther, HandoverOther, DumpOther, ReportOther, JavaOther
   DEF CrashTypeOK, CaptureInv, captureVars

LEMMA CaptureInvariant == SpecCrash => []CaptureInv
<1>1. InitCrash => CaptureInv
  BY CaptureInit
<1>2. CrashTypeOK /\ CaptureInv /\ [NextCrash]_crashVars => CaptureInv'
  <2> SUFFICES ASSUME CrashTypeOK, CaptureInv, [NextCrash]_crashVars
               PROVE  CaptureInv'
    OBVIOUS
  <2>1. CASE UNCHANGED crashVars
    <3>1. UNCHANGED <<captureVars, xc_crash_mutex>> /\ proc' = proc
      BY <2>1 DEF crashVars, captureVars, sigVars, onceVars
    <3>2. QED
      BY <3>1, CaptureOther
  <2>2. QED
    BY <2>1, CaptureHandler, CaptureOther DEF NextCrash, Ended
<1>3. QED
  BY <1>1, <1>2, TypeCorrect, PTL DEF SpecCrash

LEMMA CaptureReports == CrashTypeOK /\ CaptureInv => ReportNotLost
BY DEF CrashTypeOK, ReportTypeOK, CaptureInv, ReportInv, DumpInv, ReportNotLost, AfterClose

\* Whatever fails on the way, the handler never gets to the rethrow without a report in
\* the log, with the callback, or, if no callback could be made, in its buffer.
THEOREM ReportNotLostHolds == SpecCrash => []ReportNotLost
BY CaptureReports, TypeCorrect, CaptureInvariant, PTL

\* The callback is never given an emergency text that the log file already holds.
THEOREM EmergencyOnceHolds == SpecCrash => []EmergencyOnce
<1>1. CaptureInv => EmergencyOnce
  BY DEF CaptureInv, HandoverInv
<1>2. QED
  BY <1>1, CaptureInvariant, PTL

\* The log gets one java stacktrace section at most from libart and crashCallback together.
THEOREM JavaStackOnceHolds == SpecCrash => []JavaStackOnce
<1>1. CaptureInv => JavaStackOnce
  BY DEF CaptureInv, JavaInv, JavaStackOnce
<1>2. QED
  BY <1>1, CaptureInvariant, PTL

\* Of what a crash leaves, log and callback together give the application nothing twice.
THEOREM DeliveredOnceHolds == SpecCrash => []DeliveredOnce
<1>1. EmergencyOnce /\ JavaStackOnce => DeliveredOnce
  BY DEF DeliveredOnce
<1>2. QED
  BY <1>1, EmergencyOnceHolds, JavaStackOnceHolds, PTL

\* The handler's descriptor is closed before the application's callback opens the log, and
\* its number is forgotten with it.
THEOREM LogHandedOverHolds == SpecCrash => []LogHandedOver
<1>1. CrashTypeOK /\ CaptureInv => LogHandedOver
  BY DEF CrashTypeOK, LogTypeOK, CaptureInv, HandoverInv, LogHandedOver, Notified
<1>2. QED
  BY <1>1, TypeCorrect, CaptureInvariant, PTL

\* No write of the handler goes over a dump that the dumper process has completed.
THEOREM DumpNotOverwrittenHolds == SpecCrash => DumpNotOverwritten
<1>1. CaptureInv /\ [NextCrash]_crashVars => [log_dump = "valid" => log_dump' = "valid"]_crashVars
  <2> SUFFICES ASSUME CaptureInv, NextCrash, log_dump = "valid"
               PROVE  log_dump' = "valid"
    OBVIOUS
  <2> USE DEF logVars
  <2>1. ASSUME NEW t \in Threads, RecordFallback(t) \/ RecordJava(t)
        PROVE  log_dump' = "valid"
    <3>1. offset = "end"
      BY <2>1 DEF RecordFallback, RecordJava, Step, CaptureInv, DumpInv
    <3>2. QED
      BY <2>1, <3>1 DEF RecordFallback, RecordJava, DumpAfterWrite
  <2>2. ASSUME NEW t \in Threads,
               \/ Lock(t) \/ RestoreHandlers(t) \/ CheckTrace(t) \/ OpenLog(t) \/ SetDumpable(t)
               \/ SetPtracer(t) \/ Fork(t) \/ WaitDumper(t) \/ SeekToContentEnd(t)
               \/ CheckDump(t) \/ RestorePrivileges(t) \/ GetEmergency(t) \/ DumpJavaStack(t)
               \/ CloseLog(t) \/ NotifyCallback(t) \/ JoinCallback(t) \/ QueueAndReturn(t)
               \/ ExitProcess(t) \/ Redelivered(t)
        PROVE  log_dump' = "valid"
    BY <2>2 DEF
       Lock, RestoreHandlers, CheckTrace, OpenLog, SetDumpable, SetPtracer, Fork, WaitDumper,
       SeekToContentEnd, CheckDump, RestorePrivileges, GetEmergency, DumpJavaStack, CloseLog,
       NotifyCallback, JoinCallback, QueueAndReturn, ExitProcess, Redelivered
  <2>3. ASSUME \/ \E t \in Threads, k \in {"fault", "user"} : Signal(t, k)
               \/ DumperStep \/ CallbackStep \/ Ended
        PROVE  log_dump' = "valid"
    BY <2>3 DEF Signal, DumperStep, DumperWrites, DumperEnds, CallbackStep, CbStep, CbAttach,
           CbRead, CbParams, CbJava, Ended, crashVars
  <2>4. QED
    BY <2>1, <2>2, <2>3 DEF NextCrash, HandlerStep
<1>2. QED
  BY <1>1, CaptureInvariant, PTL DEF SpecCrash, DumpNotOverwritten

\* From the fallback on, the process is as dumpable as it was before the crash and can be
\* traced by nobody, on every path that leads there.
THEOREM PrivilegesRestoredHolds == SpecCrash => PrivilegesRestored
<1> SUFFICES ASSUME NEW d \in {0, 1}
             PROVE  SpecCrash /\ dumpable = d =>
                      [](\A t \in Threads : pc[t] \in Reporting => dumpable = d /\ ~ptracer)
  BY DEF PrivilegesRestored
<1>1. InitCrash /\ dumpable = d => PrivInv(d)
  BY DEF InitCrash, InitCommon, PrivInv, Reporting
<1>2. CrashTypeOK /\ CaptureInv /\ PrivInv(d) /\ [NextCrash]_crashVars => PrivInv(d)'
  BY PrivHandler, PrivOther
     DEF NextCrash, Ended, CaptureInv, crashVars, captureVars, sigVars, onceVars
<1>3. PrivInv(d) => \A t \in Threads : pc[t] \in Reporting => dumpable = d /\ ~ptracer
  BY DEF PrivInv
<1>4. QED
  BY <1>1, <1>2, <1>3, TypeCorrect, CaptureInvariant, PTL DEF SpecCrash
=============================================================================
