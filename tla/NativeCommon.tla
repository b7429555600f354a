---------------------------- MODULE NativeCommon ----------------------------
(***************************************************************************)
(* What the crash handler (CrashHandler) and the ANR trace dumper          *)
(* (TraceDumper) of libcrashcapturer share: the process they live in and   *)
(* the globals of xc_common.c and xc_trace.h.                              *)
(***************************************************************************)
CONSTANT CanFail  \* the calls that may fail in this instance

\* The calls whose failure the code handles: sigaction, the open of the crash log,
\* prctl, fork, the dumper process as a whole, lseek, reading the log back, write,
\* the symbols of libart, JNI calls, rt_tgsigqueueinfo, and of the trace dumper the calls on
\* the log directory and the search for ART's Signal Catcher.
Calls == {"sigaction", "open", "prctl", "fork", "dumper", "seek", "read", "write", "libart",
          "jni", "queue", "logdir", "catcher"}

ASSUME CanFailAssumption == CanFail \subseteq Calls

Fails(call) == call \in CanFail

VARIABLES
  proc,                      \* "alive", "exited" by _exit(1), or "killed" by a crash signal
  xc_common_native_crashed,
  xc_common_java_crashed,
  xc_trace_dump_status,
  stderr                     \* what STDERR_FILENO refers to: "null", "crash" log, "trace" log

CommonTypeOK ==
  /\ proc \in {"alive", "exited", "killed"}
  /\ xc_common_native_crashed \in BOOLEAN
  /\ xc_common_java_crashed \in BOOLEAN
  /\ xc_trace_dump_status \in {"NOT_START", "ON_GOING", "ART_CRASH", "END"}
  /\ stderr \in {"null", "crash", "trace"}

InitCommon ==
  /\ proc = "alive"
  /\ xc_common_native_crashed = FALSE
  /\ xc_common_java_crashed = FALSE
  /\ xc_trace_dump_status = "NOT_START"
  /\ stderr = "null"
=============================================================================
