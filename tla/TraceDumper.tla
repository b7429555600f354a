----------------------------- MODULE TraceDumper -----------------------------
(***************************************************************************)
(* The ANR side of libcrashcapturer (xc_trace.c): the SIGQUIT handler that *)
(* wakes a dumper thread up through an eventfd, the thread that writes the *)
(* trace of the ART runtime to a log file, forwards SIGQUIT to ART's own   *)
(* Signal Catcher and calls NativeHandler.traceCallback, which turns the   *)
(* trace file into an ANR log.                                             *)
(***************************************************************************)
EXTENDS Naturals, NativeCommon

CONSTANTS
  TraceRethrow,  \* xc_trace_rethrow
  MaxSigquits    \* bound on the SIGQUITs the process gets

ASSUME TraceAssumption ==
  /\ TraceRethrow \in BOOLEAN
  /\ MaxSigquits \in Nat

VARIABLES
  tpc,                \* where the dumper thread is
  xc_trace_notifier,  \* xc_trace_notifier >= 0
  quit_event,         \* the eventfd is readable
  sigquits,           \* SIGQUITs the process has got so far
  owed,               \* a SIGQUIT was taken and the Signal Catcher has not had one since
  xc_trace_signal_catcher_tid,  \* "UNLOAD", "UNKNOWN" or "found"
  given_up,           \* history: the last dump was given up for want of a log
  trace_fd,           \* the descriptor of the trace log is open
  trace_files         \* number of trace logs in the log directory

catcherVars == <<xc_trace_signal_catcher_tid, given_up>>
wakeVars == <<xc_trace_notifier, quit_event, owed, catcherVars>>
traceOwnVars == <<tpc, sigquits, wakeVars, trace_fd, trace_files>>
traceAllVars == <<traceOwnVars, proc, xc_common_native_crashed, xc_common_java_crashed,
                  xc_trace_dump_status, stderr>>

\* The steps between sigsetjmp's status and the status END.
OnGoing == {"art", "longjmped", "artdone", "info", "close", "rethrow", "send", "end"}

FlagTypeOK ==
  /\ tpc \in {"attach", "read", "check", "clean", "open", "header", "symbols", "dump",
              "callback", "exit", "dead"} \cup OnGoing
  /\ xc_trace_notifier \in BOOLEAN /\ quit_event \in BOOLEAN
  /\ owed \in BOOLEAN /\ trace_fd \in BOOLEAN
  /\ xc_trace_signal_catcher_tid \in {"UNLOAD", "UNKNOWN", "found"} /\ given_up \in BOOLEAN

CountTypeOK == sigquits \in 0..MaxSigquits /\ trace_files \in Nat

TraceTypeOK == CommonTypeOK /\ FlagTypeOK /\ CountTypeOK

\* After xc_trace_init; a trace log may be left from an earlier process.
InitTrace ==
  /\ InitCommon
  /\ tpc = "attach"
  /\ xc_trace_notifier = TRUE
  /\ quit_event = FALSE
  /\ sigquits = 0
  /\ owed = FALSE
  /\ xc_trace_signal_catcher_tid = "UNLOAD" /\ given_up = FALSE
  /\ trace_fd = FALSE
  /\ trace_files \in {0, 1}

-----------------------------------------------------------------------------
\* xc_trace_handler: SIGQUIT is taken from the process even when nobody waits for
\* the event any more.
Sigquit ==
  /\ proc = "alive"
  /\ sigquits < MaxSigquits
  /\ sigquits' = sigquits + 1
  /\ owed' = TRUE
  /\ quit_event' = (quit_event \/ xc_trace_notifier)
  /\ UNCHANGED <<tpc, xc_trace_notifier, catcherVars, trace_fd, trace_files, proc,
                 xc_common_native_crashed, xc_common_java_crashed, xc_trace_dump_status, stderr>>

\* JavaCrashHandler.handleException: nativeNotifyJavaCrashed.
NotifyJavaCrashed ==
  /\ proc = "alive"
  /\ xc_common_java_crashed' = TRUE
  /\ UNCHANGED <<traceOwnVars, proc, xc_common_native_crashed, xc_trace_dump_status, stderr>>

TStep(from, to) ==
  /\ proc = "alive"
  /\ tpc = from
  /\ tpc' = to
  /\ UNCHANGED <<sigquits, proc, xc_common_native_crashed, xc_common_java_crashed>>

Attach ==
  /\ \/ TStep("attach", "read")
     \/ Fails("jni") /\ TStep("attach", "exit")
  /\ UNCHANGED <<wakeVars, trace_fd, trace_files, xc_trace_dump_status, stderr>>

\* read of the eventfd blocks until it counts, and drains it: SIGQUITs that came
\* during a dump make one more dump together.
ReadNotifier ==
  /\ quit_event
  /\ TStep("read", "check")
  /\ quit_event' = FALSE /\ given_up' = FALSE
  /\ UNCHANGED <<xc_trace_notifier, owed, xc_trace_signal_catcher_tid, trace_fd, trace_files,
                 xc_trace_dump_status, stderr>>

CheckCrashed ==
  /\ TStep("check", IF xc_common_native_crashed \/ xc_common_java_crashed THEN "exit"
                    ELSE "clean")
  /\ UNCHANGED <<wakeVars, trace_fd, trace_files, xc_trace_dump_status, stderr>>

\* Mutant: the dump goes on over the files that could not be removed.
CleanErrorIgnored == "open"

\* "continue" after an error of xc_trace_logs_clean.
AfterCleanError == "read"

\* xc_trace_logs_clean: every trace log is unlinked, or the dump is given up.
LogsClean ==
  /\ \/ TStep("clean", "open") /\ trace_files' = 0 /\ UNCHANGED given_up
     \/ /\ Fails("logdir") /\ TStep("clean", AfterCleanError) /\ given_up' = TRUE
        /\ UNCHANGED trace_files
  /\ UNCHANGED <<xc_trace_notifier, quit_event, owed, xc_trace_signal_catcher_tid, trace_fd,
                 xc_trace_dump_status, stderr>>

\* "continue" when no trace log could be opened.
AfterOpenError == "read"

\* xc_common_open_trace_log; the open may fail after a placeholder was renamed.
OpenTraceLog ==
  /\ \/ /\ TStep("open", "header")
        /\ trace_files' = trace_files + 1 /\ trace_fd' = TRUE
        /\ UNCHANGED given_up
     \/ /\ Fails("logdir") /\ TStep("open", AfterOpenError) /\ given_up' = TRUE
        /\ trace_files' \in {trace_files, trace_files + 1}
        /\ UNCHANGED trace_fd
  /\ UNCHANGED <<xc_trace_notifier, quit_event, owed, xc_trace_signal_catcher_tid,
                 xc_trace_dump_status, stderr>>

\* Mutant: "continue", which leaves the log open and SIGQUIT unanswered.
LabelContinue == "read"

\* "goto end" after a failed write to the log.
LabelEnd == "close"

WriteHeader ==
  /\ \/ TStep("header", "symbols")
     \/ Fails("write") /\ TStep("header", LabelEnd)
  /\ UNCHANGED <<wakeVars, trace_fd, trace_files, xc_trace_dump_status, stderr>>

\* xc_trace_load_symbols, xc_trace_check_address_valid and dup2: when one fails the
\* file says so instead of holding a dump.
PrepareDump ==
  /\ \/ TStep("symbols", "dump") /\ stderr' = "trace"
     \/ Fails("libart") /\ TStep("symbols", "info") /\ UNCHANGED stderr
     \/ Fails("write") /\ TStep("symbols", LabelEnd) /\ UNCHANGED stderr
  /\ UNCHANGED <<wakeVars, trace_fd, trace_files, xc_trace_dump_status>>

\* The status is set and sigsetjmp called.
BeginDump ==
  /\ TStep("dump", "art")
  /\ xc_trace_dump_status' = "ON_GOING"
  /\ UNCHANGED <<wakeVars, trace_fd, trace_files, stderr>>

\* Mutant: the branch of sigsetjmp for a jump is missing.
EndDumpOnReturn ==
  /\ TStep("art", "artdone")
  /\ UNCHANGED <<wakeVars, trace_fd, trace_files, xc_trace_dump_status, stderr>>

\* Runtime::DumpForSigQuit returns, or was left by siglongjmp.
EndDump ==
  /\ \/ TStep("art", "artdone")
     \/ TStep("longjmped", "artdone")
  /\ UNCHANGED <<wakeVars, trace_fd, trace_files, xc_trace_dump_status, stderr>>

\* Mutant: the redirection is left in place.
StderrKept == stderr

\* dup2(xc_common_fd_null, STDERR_FILENO).
StderrAfterDump == "null"

RestoreStderr ==
  /\ TStep("artdone", "info")
  /\ stderr' = StderrAfterDump
  /\ UNCHANGED <<wakeVars, trace_fd, trace_files, xc_trace_dump_status>>

\* logcat, fds, network and memory info, each of which may fail to the label end.
WriteInfo ==
  /\ TStep("info", "close")
  /\ UNCHANGED <<wakeVars, trace_fd, trace_files, xc_trace_dump_status, stderr>>

CloseTraceLog ==
  /\ TStep("close", "rethrow")
  /\ trace_fd' = FALSE
  /\ UNCHANGED <<wakeVars, trace_files, xc_trace_dump_status, stderr>>

\* Mutant: the crash of ART is not looked at.
ArtNeverCrashed == FALSE

ArtCrashed == xc_trace_dump_status = "ART_CRASH"

\* The look at the status: ART is not woken up if it crashed in the dump.  The status is still
\* on-going, so another thread's crash may make it ART_CRASH right behind the look.
CheckRethrow ==
  /\ TStep("rethrow", IF TraceRethrow /\ ~ArtCrashed THEN "send" ELSE "end")
  /\ UNCHANGED <<wakeVars, trace_fd, trace_files, xc_trace_dump_status, stderr>>

\* xc_trace_load_signal_catcher_tid, once per process: a search that fails is not repeated.
LoadedTid(found) ==
  IF xc_trace_signal_catcher_tid # "UNLOAD" THEN xc_trace_signal_catcher_tid
  ELSE IF found THEN "found" ELSE "UNKNOWN"

\* Mutant: the first SIGQUIT only looks the thread up ("else if" in place of the second "if").
SentOnlyIfLoaded(tid) == xc_trace_signal_catcher_tid = "found"

\* tgkill, for a tid that is known.
Sent(tid) == tid = "found"

\* xc_trace_send_sigquit: without a tid nothing is sent, and nobody is told.
SendSigquit ==
  /\ TStep("send", "end")
  /\ \E found \in {TRUE} \cup (IF Fails("catcher") THEN {FALSE} ELSE {}) :
       LET tid == LoadedTid(found)
       IN xc_trace_signal_catcher_tid' = tid /\ owed' = (owed /\ ~Sent(tid))
  /\ UNCHANGED <<xc_trace_notifier, quit_event, given_up, trace_fd, trace_files,
                 xc_trace_dump_status, stderr>>

EndStatus ==
  /\ TStep("end", "callback")
  /\ xc_trace_dump_status' = "END"
  /\ UNCHANGED <<wakeVars, trace_fd, trace_files, stderr>>

\* NativeHandler.traceCallback: not an ANR, the file is recycled; maintainAnr fails,
\* the file stays; else it becomes an ANR log.  Without a method nothing happens.
TraceCallback ==
  /\ TStep("callback", "read")
  /\ trace_files' \in {trace_files, trace_files - 1}
  /\ UNCHANGED <<wakeVars, trace_fd, xc_trace_dump_status, stderr>>

\* The label exit; SIGQUIT stays registered to xc_trace_handler.
ExitDumper ==
  /\ TStep("exit", "dead")
  /\ xc_trace_notifier' = FALSE
  /\ UNCHANGED <<quit_event, owed, catcherVars, trace_fd, trace_files, xc_trace_dump_status,
                 stderr>>

DumperThread ==
  \/ Attach \/ ReadNotifier \/ CheckCrashed \/ LogsClean \/ OpenTraceLog \/ WriteHeader
  \/ PrepareDump \/ BeginDump \/ EndDump \/ RestoreStderr \/ WriteInfo \/ CloseTraceLog
  \/ CheckRethrow \/ SendSigquit \/ EndStatus \/ TraceCallback \/ ExitDumper

\* An ended process takes no more steps; the bounds on SIGQUITs may end the others.
NextTrace == Sigquit \/ NotifyJavaCrashed \/ DumperThread

SpecTrace == InitTrace /\ [][NextTrace]_traceAllVars

\* The dumper thread is scheduled; nothing makes SIGQUITs or Java crashes happen.
FairSpecTrace == SpecTrace /\ WF_traceAllVars(DumperThread)

-----------------------------------------------------------------------------
(* What the trace dumper promises.                                         *)

\* "Keep only one current trace": a new trace log is made only once every old one,
\* an earlier process's or one that failed half way, is gone.
OneTrace == trace_files <= 1

\* With rethrow, a SIGQUIT taken from the process has been passed on to the Signal Catcher when
\* the dumper is idle again.  The code has two ways out, and there is no third: the last dump was
\* given up because its log could not be had (xc_trace.c:322, 325), or the Signal Catcher was
\* not found when it was looked for, which is never tried again (xc_trace.c:96-125).
SigquitForwarded ==
  TraceRethrow /\ tpc = "read" /\ ~quit_event /\ owed =>
    given_up \/ xc_trace_signal_catcher_tid = "UNKNOWN"

\* STDERR is back when a dump is over, and never refers to a closed trace log.
StderrRestored == stderr = "trace" => trace_fd

\* A SIGQUIT that arrives at any moment, also during a dump, is served by that dump's
\* or a later rethrow, if the application asks for it, but for the same two ways out and a
\* dumper thread that has stopped.
SigquitServed ==
  owed ~> (~owed \/ given_up \/ xc_trace_signal_catcher_tid = "UNKNOWN"
             \/ tpc = "dead" \/ proc # "alive")
=============================================================================
