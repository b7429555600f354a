---------------------------- MODULE CrashHandler ----------------------------
(***************************************************************************)
(* The native crash handler of CrashCapturer: xc_crash_signal_handler of   *)
(* xc_crash.c run by the threads of the application, the callback thread   *)
(* that xc_crash_init_callback started, and the dumper process the handler *)
(* spawns.  Every thread may crash at any moment; the handler runs on the  *)
(* crashed thread with all signals blocked, so only other threads, the     *)
(* callback thread and the dumper interleave with it.                      *)
(*                                                                         *)
(* A failure of a system call is a disjunct of the action that makes it,   *)
(* open to the calls in CanFail.                                           *)
(* The content of the log file is what the properties tell apart: how much *)
(* of the dump it holds, whether the emergency text was written, and how   *)
(* many "java stacktrace" sections it has.                                 *)
(***************************************************************************)
EXTENDS Naturals, NativeCommon

CONSTANTS
  Threads,       \* the threads of the application that may crash
  JavaThreads,   \* those of them that are attached to the Java VM
  NoThread,      \* the mutex is free
  Rethrow        \* xc_crash_rethrow

ASSUME ThreadsAssumption == JavaThreads \subseteq Threads /\ NoThread \notin Threads
ASSUME RethrowAssumption == Rethrow \in BOOLEAN

VARIABLES
  pc,                    \* where each thread is in the handler; "run" outside it
  kind,                  \* who raised the thread's signal: the kernel ("fault") or a user ("user")
  xc_crash_mutex,        \* the thread that holds the mutex
  handlers,              \* disposition of the crash signals: "xcrash", "old", "default"
  log_fd,                \* xc_crash_log_fd >= 0
  fd_open,               \* the descriptor opened for the log is open in the kernel
  from_placeholder,      \* xc_crash_log_from_placeholder
  offset,                \* where the handler's next write goes: "end" of the content or "stale"
  log_dump,              \* the dump in the log file: "none", "partial", "valid"
  log_emergency,         \* the emergency text is in the log file
  log_java,              \* number of java stacktrace sections in the log file
  dumpable,              \* PR_GET_DUMPABLE of the process
  ptracer,               \* any process may ptrace this one (PR_SET_PTRACER_ANY)
  orig_dumpable, restore_orig_dumpable, restore_orig_ptracer,
  dumper,                \* the dumper process
  dump_ok,
  emergency,             \* xc_crash_emergency[0] # '\0'
  dump_java,             \* xc_crash_dump_java_stacktrace
  cb,                    \* where the callback thread is
  cb_event,              \* the eventfd xc_crash_cb_notifier is readable
  cb_report              \* what crashCallback was called with: "none" (not called), "path", "emergency"

sigVars  == <<pc, kind, proc>>
onceVars == <<xc_crash_mutex, xc_common_native_crashed, handlers>>
fdVars   == <<log_fd, fd_open, from_placeholder, offset>>
logVars  == <<log_dump, log_emergency, log_java>>
privVars == <<dumpable, ptracer, orig_dumpable, restore_orig_dumpable, restore_orig_ptracer>>
repVars  == <<dump_ok, emergency, dump_java>>
cbVars   == <<cb, cb_event, cb_report>>
traceVars == <<xc_trace_dump_status, xc_common_java_crashed>>

crashVars == <<sigVars, onceVars, fdVars, logVars, privVars, repVars, cbVars,
               dumper, stderr, traceVars>>

Handling == {"lock", "restore", "trace", "open", "dumpable", "ptracer", "fork", "wait",
             "seek", "check", "end", "fallback", "record", "java", "javadump", "close",
             "callback", "join", "queue", "exit", "jumped"}

\* The steps after the "only once" check let a thread through.
Capturing == Handling \ {"lock", "exit"}

SigTypeOK ==
  /\ pc \in [Threads -> {"run", "returned"} \cup Handling]
  /\ kind \in [Threads -> {"fault", "user"}]

OnceTypeOK ==
  /\ xc_crash_mutex \in Threads \cup {NoThread}
  /\ handlers \in {"xcrash", "old", "default"}

LogTypeOK ==
  /\ log_fd \in BOOLEAN /\ fd_open \in BOOLEAN /\ from_placeholder \in BOOLEAN
  /\ offset \in {"end", "stale"}
  /\ log_dump \in {"none", "partial", "valid"}
  /\ log_emergency \in BOOLEAN /\ log_java \in Nat

PrivTypeOK ==
  /\ dumpable \in {0, 1} /\ orig_dumpable \in {0, 1} /\ ptracer \in BOOLEAN
  /\ restore_orig_dumpable \in BOOLEAN /\ restore_orig_ptracer \in BOOLEAN

ReportTypeOK ==
  /\ dumper \in {"none", "running", "exit0", "exitN", "signaled"}
  /\ dump_ok \in BOOLEAN /\ emergency \in BOOLEAN /\ dump_java \in BOOLEAN
  /\ cb \in {"absent", "attach", "read", "params", "java", "done"}
  /\ cb_event \in BOOLEAN
  /\ cb_report \in {"none", "path", "emergency"}

CrashTypeOK ==
  CommonTypeOK /\ SigTypeOK /\ OnceTypeOK /\ LogTypeOK /\ PrivTypeOK /\ ReportTypeOK

(***************************************************************************)
(* After xc_crash_init: the handler is registered.  The callback thread    *)
(* exists unless xc_crash_init_callback failed, and has not run yet.       *)
(***************************************************************************)
InitCrash ==
  /\ InitCommon
  /\ pc = [t \in Threads |-> "run"]
  /\ kind = [t \in Threads |-> "fault"]
  /\ xc_crash_mutex = NoThread
  /\ handlers = "xcrash"
  /\ log_fd = FALSE /\ fd_open = FALSE /\ from_placeholder = FALSE /\ offset = "end"
  /\ log_dump = "none" /\ log_emergency = FALSE /\ log_java = 0
  /\ dumpable \in {0, 1} /\ orig_dumpable = 0 /\ ptracer = FALSE
  /\ restore_orig_dumpable = FALSE /\ restore_orig_ptracer = FALSE
  /\ dumper = "none"
  /\ dump_ok = FALSE /\ emergency = FALSE /\ dump_java = FALSE
  /\ cb = "attach" \/ (Fails("jni") /\ cb = "absent")
  /\ cb_event = FALSE
  /\ cb_report = "none"

-----------------------------------------------------------------------------
(* Signals and the entry of the handler.                                   *)

\* A handler step of thread t: the process is alive and t moves on.
Step(t, from, to) ==
  /\ proc = "alive"
  /\ pc[t] = from
  /\ pc' = [pc EXCEPT ![t] = to]
  /\ UNCHANGED <<kind, proc>>

\* A running thread gets a crash signal.  With the handlers already restored
\* the old or default disposition ends the process.
Signal(t, k) ==
  /\ proc = "alive"
  /\ pc[t] = "run"
  /\ kind' = [kind EXCEPT ![t] = k]
  /\ IF handlers = "xcrash"
       THEN pc' = [pc EXCEPT ![t] = "lock"] /\ UNCHANGED proc
       ELSE proc' = "killed" /\ UNCHANGED pc
  /\ UNCHANGED <<onceVars, fdVars, logVars, privVars, repVars, cbVars, dumper, stderr, traceVars>>

\* Mutant: the check is missing.
NeverCrashed == FALSE

\* "only once".
AlreadyCrashed == xc_common_native_crashed

\* pthread_mutex_lock and the check, which the mutex makes one step.
Lock(t) ==
  /\ xc_crash_mutex = NoThread
  /\ xc_crash_mutex' = t
  /\ Step(t, "lock", IF AlreadyCrashed THEN "exit" ELSE "restore")
  /\ xc_common_native_crashed' = TRUE
  /\ UNCHANGED <<handlers, fdVars, logVars, privVars, repVars, cbVars, dumper, stderr, traceVars>>

\* xcc_signal_crash_unregister or xcc_signal_crash_ignore.
RestoredHandlers == IF Rethrow THEN "old" ELSE "default"

\* When a sigaction fails the others are still tried: either disposition may be left.
RestoreHandlers(t) ==
  /\ \/ Step(t, "restore", "trace") /\ handlers' = RestoredHandlers
     \/ /\ Fails("sigaction")
        /\ Step(t, "restore", "exit") /\ handlers' \in {"xcrash", RestoredHandlers}
  /\ UNCHANGED <<xc_crash_mutex, xc_common_native_crashed, fdVars, logVars, privVars,
                 repVars, cbVars, dumper, stderr, traceVars>>

\* The trace dumper is not in a dump: go on.  (The jump is in NativeCapture.)
CheckTrace(t) ==
  /\ xc_trace_dump_status # "ON_GOING"
  /\ Step(t, "trace", "open")
  /\ UNCHANGED <<onceVars, fdVars, logVars, privVars, repVars, cbVars, dumper, stderr, traceVars>>

-----------------------------------------------------------------------------
(* The log file, the privileges and the dumper process.                    *)

\* xc_common_open_crash_log: a renamed placeholder is opened at offset 0, a new
\* file in append mode.  On failure no descriptor is left.
OpenLog(t) ==
  /\ from_placeholder' \in BOOLEAN
  /\ \/ /\ Step(t, "open", "dumpable")
        /\ log_fd' = TRUE /\ fd_open' = TRUE
     \/ /\ Fails("open") /\ Step(t, "open", "end")
        /\ UNCHANGED <<log_fd, fd_open>>
  /\ UNCHANGED <<offset, onceVars, logVars, privVars, repVars, cbVars, dumper, stderr, traceVars>>

\* Mutant: read after it was set.
DumpableReadLate == 1

\* orig_dumpable = prctl(PR_GET_DUMPABLE).
DumpableRead == dumpable

SetDumpable(t) ==
  /\ orig_dumpable' = DumpableRead
  /\ \/ /\ Step(t, "dumpable", "ptracer")
        /\ dumpable' = 1 /\ restore_orig_dumpable' = TRUE
     \/ /\ Fails("prctl") /\ Step(t, "dumpable", "end")
        /\ UNCHANGED <<dumpable, restore_orig_dumpable>>
  /\ UNCHANGED <<ptracer, restore_orig_ptracer, onceVars, fdVars, logVars, repVars, cbVars,
                 dumper, stderr, traceVars>>

\* PR_SET_PTRACER_ANY; EINVAL (no Yama) is not an error, any other errno is.
SetPtracer(t) ==
  /\ \/ /\ Step(t, "ptracer", "fork")
        /\ ptracer' = TRUE /\ restore_orig_ptracer' = TRUE
     \/ /\ \/ Step(t, "ptracer", "fork")
           \/ Fails("prctl") /\ Step(t, "ptracer", "end")
        /\ UNCHANGED <<ptracer, restore_orig_ptracer>>
  /\ UNCHANGED <<dumpable, orig_dumpable, restore_orig_dumpable, onceVars, fdVars, logVars,
                 repVars, cbVars, dumper, stderr, traceVars>>

Fork(t) ==
  /\ \/ Step(t, "fork", "wait") /\ dumper' = "running"
     \/ Fails("fork") /\ Step(t, "fork", "end") /\ UNCHANGED dumper
  /\ UNCHANGED <<onceVars, fdVars, logVars, privVars, repVars, cbVars, stderr, traceVars>>

\* The dumper writes through its own descriptor, so the handler's offset into a
\* file opened without O_APPEND falls behind the content.
DumperWrites ==
  /\ dumper = "running"
  /\ \/ log_dump = "none" /\ log_dump' = "partial"
     \/ log_dump = "partial" /\ log_dump' = "valid"
  /\ offset' = IF from_placeholder THEN "stale" ELSE "end"
  /\ UNCHANGED <<sigVars, log_fd, fd_open, from_placeholder, log_emergency, log_java, onceVars,
                 privVars, repVars, cbVars, dumper, stderr, traceVars>>

\* The dumper returns from main, exits with an error code of xc_crash_exec_dumper
\* or main, or dies of a signal: its own crash, or one sent to it (the alarm it sets is blocked).
DumperEnds ==
  /\ dumper = "running"
  /\ \/ log_dump # "none" /\ dumper' = "exit0"
     \/ Fails("dumper") /\ dumper' \in {"exitN", "signaled"}
  /\ UNCHANGED <<sigVars, onceVars, fdVars, logVars, privVars, repVars, cbVars, stderr, traceVars>>

\* waitpid returns once the dumper has ended, with -1 if it was reaped elsewhere.
WaitDumper(t) ==
  /\ dumper \in {"exit0", "exitN", "signaled"}
  /\ Step(t, "wait", "seek")
  /\ UNCHANGED <<onceVars, fdVars, logVars, privVars, repVars, cbVars, dumper, stderr, traceVars>>

\* Mutant: the content is looked for but the offset not moved.
OffsetNotMoved == offset

\* Where xc_common_seek_to_content_end leaves the offset.
OffsetAfterSeek == "end"

\* xc_common_seek_to_content_end, which closes the descriptor when it fails.
SeekToContentEnd(t) ==
  /\ \/ /\ ~from_placeholder
        /\ Step(t, "seek", "check")
        /\ UNCHANGED fdVars
     \/ /\ from_placeholder
        /\ Step(t, "seek", "check")
        /\ offset' = OffsetAfterSeek
        /\ UNCHANGED <<log_fd, fd_open, from_placeholder>>
     \/ /\ from_placeholder
        /\ Fails("seek") /\ Step(t, "seek", "end")
        /\ log_fd' = FALSE /\ fd_open' = FALSE
        /\ UNCHANGED <<offset, from_placeholder>>
  /\ UNCHANGED <<onceVars, logVars, privVars, repVars, cbVars, dumper, stderr, traceVars>>

\* The result of waitpid, the exit status and xc_crash_check_backtrace_valid:
\* only a clean exit and a backtrace that can be read back count.
CheckDump(t) ==
  /\ Step(t, "check", "end")
  /\ \/ dumper = "exit0" /\ log_dump = "valid" /\ dump_ok' = TRUE
     \/ /\ dumper # "exit0" \/ log_dump # "valid" \/ Fails("read")
        /\ UNCHANGED dump_ok
  /\ UNCHANGED <<emergency, dump_java, onceVars, fdVars, logVars, privVars, cbVars, dumper,
                 stderr, traceVars>>

-----------------------------------------------------------------------------
(* The end of the handler: privileges, fallback, java stack, callback.     *)

\* A write of the handler at a stale offset overwrites the head of the dump.
DumpAfterWrite == IF offset = "stale" /\ log_dump = "valid" THEN "partial" ELSE log_dump

RestorePrivileges(t) ==
  /\ Step(t, "end", IF dump_ok THEN "java" ELSE "fallback")
  /\ dumpable' = IF restore_orig_dumpable THEN orig_dumpable ELSE dumpable
  /\ ptracer' = IF restore_orig_ptracer THEN FALSE ELSE ptracer
  /\ UNCHANGED <<orig_dumpable, restore_orig_dumpable, restore_orig_ptracer, onceVars, fdVars,
                 logVars, repVars, cbVars, dumper, stderr, traceVars>>

\* Mutant: the buffer is filled only for a log to be written.
GetEmergencyForLog(t) ==
  /\ Step(t, "fallback", IF log_fd THEN "record" ELSE "callback")
  /\ emergency' = log_fd
  /\ UNCHANGED <<dump_ok, dump_java, onceVars, fdVars, logVars, privVars, cbVars, dumper,
                 stderr, traceVars>>

\* xc_fallback_get_emergency fills the buffer.
GetEmergency(t) ==
  /\ Step(t, "fallback", IF log_fd THEN "record" ELSE "callback")
  /\ emergency' = TRUE
  /\ UNCHANGED <<dump_ok, dump_java, onceVars, fdVars, logVars, privVars, cbVars, dumper,
                 stderr, traceVars>>

\* Mutant: the buffer keeps what was written.
BufferKept == emergency

\* emergency[0] = '\0' once the text has been written.
BufferAfterWrite == FALSE

\* xc_fallback_record: the text is written and the buffer cleared, or the write
\* fails and the buffer kept.  Any failure closes the log.
RecordFallback(t) ==
  /\ \/ /\ log_emergency' = TRUE /\ emergency' = BufferAfterWrite
        /\ log_dump' = DumpAfterWrite
        /\ \/ Step(t, "record", "java") /\ UNCHANGED <<log_fd, fd_open>>
           \/ /\ Fails("write") /\ Step(t, "record", "callback")
              /\ log_fd' = FALSE /\ fd_open' = FALSE
     \/ /\ Fails("write") /\ Step(t, "record", "callback")
        /\ log_fd' = FALSE /\ fd_open' = FALSE
        /\ UNCHANGED <<log_emergency, emergency, log_dump>>
  /\ UNCHANGED <<from_placeholder, offset, log_java, dump_ok, dump_java, onceVars, privVars,
                 cbVars, dumper, stderr, traceVars>>

\* "everything seems OK, do not dump java stacktrace again on the java layer".
JavaLayerDumps == FALSE

\* xc_xcrash_record_java_stacktrace up to its first dup2.  A thread the VM knows
\* leaves the dump to the Java layer unless every symbol of libart was found.
RecordJava(t) ==
  /\ \/ /\ t \notin JavaThreads
        /\ Step(t, "java", "close")
        /\ UNCHANGED <<dump_java, stderr, log_dump>>
     \/ /\ t \in JavaThreads /\ Fails("libart")
        /\ Step(t, "java", "close")
        /\ dump_java' \in BOOLEAN
        /\ log_dump' \in {log_dump, DumpAfterWrite}
        /\ UNCHANGED stderr
     \/ /\ t \in JavaThreads
        /\ Step(t, "java", "javadump")
        /\ dump_java' = JavaLayerDumps
        /\ log_dump' = DumpAfterWrite
        /\ stderr' = "crash"
  /\ UNCHANGED <<log_emergency, log_java, dump_ok, emergency, onceVars, fdVars, privVars,
                 cbVars, dumper, traceVars>>

\* ART dumps the thread to std::cerr, whatever STDERR_FILENO refers to by now.
DumpJavaStack(t) ==
  /\ Step(t, "javadump", "close")
  /\ log_java' = IF stderr = "crash" THEN log_java + 1 ELSE log_java
  /\ stderr' = "null"
  /\ UNCHANGED <<log_dump, log_emergency, onceVars, fdVars, privVars, repVars, cbVars, dumper, traceVars>>

\* Mutant: the number of the closed descriptor is kept.
CloseLogOnly(t) ==
  /\ Step(t, "close", "callback")
  /\ fd_open' = FALSE
  /\ UNCHANGED <<log_fd, from_placeholder, offset, onceVars, logVars, privVars, repVars, cbVars,
                 dumper, stderr, traceVars>>

CloseLog(t) ==
  /\ Step(t, "close", "callback")
  /\ log_fd' = FALSE /\ fd_open' = FALSE
  /\ UNCHANGED <<from_placeholder, offset, onceVars, logVars, privVars, repVars, cbVars, dumper,
                 stderr, traceVars>>

\* xc_crash_callback: wake the callback thread up and join it, if it exists and
\* the write to its eventfd succeeds.
NotifyCallback(t) ==
  /\ \/ cb # "absent" /\ Step(t, "callback", "join") /\ cb_event' = TRUE
     \/ /\ cb = "absent" \/ Fails("write")
        /\ Step(t, "callback", "queue") /\ UNCHANGED cb_event
  /\ UNCHANGED <<cb, cb_report, onceVars, fdVars, logVars, privVars, repVars, dumper, stderr, traceVars>>

JoinCallback(t) ==
  /\ cb = "done"
  /\ Step(t, "join", "queue")
  /\ UNCHANGED <<onceVars, fdVars, logVars, privVars, repVars, cbVars, dumper, stderr, traceVars>>

\* Mutant: a signal another thread or process sent is not queued again.
NotQueuedAgain(t) == FALSE

\* The condition of xcc_signal_crash_queue: SIGABRT or SI_FROMUSER.
QueuedAgain(t) == kind[t] = "user"

\* xcc_signal_crash_queue, unlock and return to the interrupted code, where a queued
\* signal is pending and a faulting instruction faults again.
QueueAndReturn(t) ==
  /\ \/ /\ Step(t, "queue", IF QueuedAgain(t) \/ kind[t] = "fault" THEN "returned" ELSE "run")
        /\ xc_crash_mutex' = NoThread
     \/ /\ QueuedAgain(t) /\ Fails("queue")
        /\ Step(t, "queue", "exit")
        /\ UNCHANGED xc_crash_mutex
  /\ UNCHANGED <<xc_common_native_crashed, handlers, fdVars, logVars, privVars, repVars, cbVars,
                 dumper, stderr, traceVars>>

\* The label exit of the handler: unlock and _exit(1).
ExitProcess(t) ==
  /\ proc = "alive" /\ pc[t] = "exit"
  /\ proc' = "exited"
  /\ xc_crash_mutex' = NoThread
  /\ UNCHANGED <<pc, kind, xc_common_native_crashed, handlers, fdVars, logVars, privVars, repVars,
                 cbVars, dumper, stderr, traceVars>>

\* Back in the interrupted code the signal is delivered once more.  The restored disposition ends the process; the capturer's own would run again.
Redelivered(t) ==
  /\ proc = "alive" /\ pc[t] = "returned"
  /\ IF handlers = "xcrash"
       THEN pc' = [pc EXCEPT ![t] = "lock"] /\ UNCHANGED proc
       ELSE proc' = "killed" /\ UNCHANGED pc
  /\ UNCHANGED <<kind, onceVars, fdVars, logVars, privVars, repVars, cbVars, dumper, stderr, traceVars>>

-----------------------------------------------------------------------------
(* xc_crash_callback_thread.                                               *)

CbStep(from, to) ==
  /\ proc = "alive"
  /\ cb = from
  /\ cb' = to
  /\ UNCHANGED <<sigVars, onceVars, fdVars, privVars, repVars, dumper, stderr, traceVars>>

CbAttach ==
  /\ \/ CbStep("attach", "read")
     \/ Fails("jni") /\ CbStep("attach", "done")
  /\ UNCHANGED <<cb_event, cb_report, logVars>>

CbRead ==
  /\ cb_event
  /\ CbStep("read", "params")
  /\ cb_event' = FALSE
  /\ UNCHANGED <<cb_report, logVars>>

\* The arguments, made while the handler waits in pthread_join; NewStringUTF may fail.
CbParams ==
  /\ \/ CbStep("params", "java") /\ cb_report' = IF emergency THEN "emergency" ELSE "path"
     \/ Fails("jni") /\ CbStep("params", "done") /\ UNCHANGED cb_report
  /\ UNCHANGED <<cb_event, logVars>>

\* NativeHandler.crashCallback appends to the log: the java stack if it is asked
\* to and finds the thread.
CbJava ==
  /\ CbStep("java", "done")
  /\ \/ dump_java /\ log_java' = log_java + 1
     \/ UNCHANGED log_java
  /\ UNCHANGED <<cb_event, cb_report, log_dump, log_emergency>>

-----------------------------------------------------------------------------
HandlerStep(t) ==
  \/ Lock(t) \/ RestoreHandlers(t) \/ CheckTrace(t) \/ OpenLog(t) \/ SetDumpable(t)
  \/ SetPtracer(t) \/ Fork(t) \/ WaitDumper(t) \/ SeekToContentEnd(t) \/ CheckDump(t)
  \/ RestorePrivileges(t) \/ GetEmergency(t) \/ RecordFallback(t) \/ RecordJava(t)
  \/ DumpJavaStack(t) \/ CloseLog(t) \/ NotifyCallback(t) \/ JoinCallback(t)
  \/ QueueAndReturn(t) \/ ExitProcess(t) \/ Redelivered(t)

CallbackStep == CbAttach \/ CbRead \/ CbParams \/ CbJava

DumperStep == DumperWrites \/ DumperEnds

\* The process has ended, and so has the dumper: nothing happens any more.
Ended == proc # "alive" /\ dumper # "running" /\ UNCHANGED crashVars

NextCrash ==
  \/ \E t \in Threads, k \in {"fault", "user"} : Signal(t, k)
  \/ \E t \in Threads : HandlerStep(t)
  \/ DumperStep
  \/ CallbackStep
  \/ Ended

\* Threads and the callback thread are scheduled; the dumper ends if every thread it attaches to
\* stops, as DumperProcess shows.
FairnessCrash ==
  /\ \A t \in Threads : WF_crashVars(HandlerStep(t))
  /\ WF_crashVars(CallbackStep)
  /\ WF_crashVars(DumperStep)

SpecCrash == InitCrash /\ [][NextCrash]_crashVars

FairSpecCrash == SpecCrash /\ FairnessCrash

-----------------------------------------------------------------------------
(* What the handler promises.                                              *)

\* The steps from the fallback on, after the label end has restored the privileges.
Reporting == {"fallback", "record", "java", "javadump", "close", "callback", "join",
              "queue", "returned"}

\* At most one thread ever gets past the "only once" check of the handler: the
\* globals it fills (log, spot, emergency buffer) have one writer even when
\* several threads crash together, and no second capture follows the first.
OnlyOnce ==
  \A s, t \in Threads :
    pc[s] \in Capturing \cup {"returned"} /\ pc[t] \in Capturing \cup {"returned"} => s = t

\* No crash report is lost: once the handler is about to rethrow, the log file
\* holds a valid dump or the emergency text, or the callback was given the text,
\* or the callback could not be made and the text is still in the buffer.
ReportNotLost ==
  \A t \in Threads :
    pc[t] \in {"queue", "returned"} =>
      \/ log_dump = "valid"
      \/ log_emergency
      \/ cb_report = "emergency"
      \/ emergency /\ cb_report = "none"

\* The emergency text reaches the application once: xc_fallback_record clears the
\* buffer it has written, so the callback never repeats what the log holds.
EmergencyOnce == ~(log_emergency /\ cb_report = "emergency")

\* The java stack trace is recorded by one layer only: when libart has dumped it
\* into the log, crashCallback does not append it again.
JavaStackOnce == log_java <= 1

\* The application is given nothing twice: neither the emergency text nor the java stack.
DeliveredOnce == EmergencyOnce /\ JavaStackOnce

\* crashCallback appends to the log by path, so the handler's descriptor is closed
\* by then; and the handler never keeps the number of a closed descriptor, which
\* another thread's open could reuse.
LogHandedOver ==
  /\ log_fd = fd_open
  /\ cb \in {"params", "java"} => ~fd_open

\* Whatever the outcome of the dump, the privileges the handler gave away for it
\* (dumpable, traceable by anyone) are back at their initial values before it
\* runs the fallback, the application's callback and the rethrow.
PrivilegesRestored ==
  \A d \in {0, 1} :
    dumpable = d =>
      [](\A t \in Threads : pc[t] \in Reporting => dumpable = d /\ ~ptracer)

\* Nothing the handler writes to the log destroys the dump written by the dumper
\* process through its own descriptor (xc_common_seek_to_content_end).
DumpNotOverwritten == [][log_dump = "valid" => log_dump' = "valid"]_crashVars

\* A crash ends the process: no failure of a step, of the dumper or of the callback
\* thread leaves the crashed thread in the handler, or the process running, for ever.
CrashEnds == (\E t \in Threads : pc[t] # "run") ~> (proc # "alive")
=============================================================================
