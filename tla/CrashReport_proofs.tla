------------------------- MODULE CrashReport_proofs -------------------------
(***************************************************************************)
(* CrashHandler implements CrashReport, the safety part: the initial       *)
(* states are the abstract one, and every step of a thread, of the dumper  *)
(* or of the callback thread is an abstract step or changes nothing there. *)
(* The invariants of CrashHandler_proofs say where the one thread of the   *)
(* capture is and where the report is.                                     *)
(***************************************************************************)
EXTENDS CrashRefinement, CrashHandler_proofs

\* The phase a thread in or past the capture stands for.
PhaseAt(place) ==
  IF place = "restore" THEN "entered"
  ELSE IF place \in {"queue", "returned"} THEN "reported" ELSE "capturing"

\* What the phase needs beside CaptureInv: the crash signals are xcrash's until a crash, and
\* a thread about to _exit has crashed.
UpInv ==
  /\ ~xc_common_native_crashed => handlers = "xcrash"
  /\ \A t \in Threads : pc[t] = "exit" => xc_common_native_crashed

LEMMA UpInvariant == SpecCrash => []UpInv
<1>1. InitCrash => UpInv
  BY DEF InitCrash, InitCommon, UpInv
<1>2. CrashTypeOK /\ CaptureInv /\ UpInv /\ [NextCrash]_crashVars => UpInv'
  <2> SUFFICES ASSUME CrashTypeOK, CaptureInv, UpInv, [NextCrash]_crashVars
               PROVE  UpInv'
    OBVIOUS
  <2> USE DEF UpInv, CrashTypeOK, SigTypeOK, CaptureInv, OnceInv, Captured, Capturing, Handling,
          onceVars
  <2>1. ASSUME NEW t \in Threads, Lock(t)
        PROVE  UpInv'
    BY <2>1 DEF Lock, Step
  <2>2. ASSUME NEW t \in Threads, RestoreHandlers(t) \/ QueueAndReturn(t)
        PROVE  UpInv'
    BY <2>2 DEF RestoreHandlers, QueueAndReturn, Step
  <2>3. ASSUME NEW t \in Threads, ExitProcess(t) \/ Redelivered(t)
        PROVE  UpInv'
    BY <2>3 DEF ExitProcess, Redelivered
  <2>4. ASSUME NEW t \in Threads,
               \/ CheckTrace(t) \/ OpenLog(t) \/ SetDumpable(t) \/ SetPtracer(t) \/ Fork(t)
               \/ WaitDumper(t) \/ SeekToContentEnd(t) \/ CheckDump(t) \/ RestorePrivileges(t)
               \/ GetEmergency(t) \/ RecordFallback(t) \/ RecordJava(t) \/ DumpJavaStack(t)
               \/ CloseLog(t) \/ NotifyCallback(t) \/ JoinCallback(t)
        PROVE  UpInv'
    BY <2>4 DEF
       CheckTrace, OpenLog, SetDumpable, SetPtracer, Fork, WaitDumper, SeekToContentEnd,
       CheckDump, RestorePrivileges, GetEmergency, RecordFallback, RecordJava, DumpJavaStack,
       CloseLog, NotifyCallback, JoinCallback, Step
  <2>5. CASE \/ \E t \in Threads, k \in {"fault", "user"} : Signal(t, k)
             \/ DumperStep \/ CallbackStep \/ UNCHANGED crashVars
    BY <2>5 DEF Signal, DumperStep, DumperWrites, DumperEnds, CallbackStep, CbStep, CbAttach,
           CbRead, CbParams, CbJava, crashVars, sigVars
  <2>6. QED
    BY <2>1, <2>2, <2>3, <2>4, <2>5 DEF NextCrash, HandlerStep, Ended
<1>3. QED
  BY <1>1, <1>2, TypeCorrect, CaptureInvariant, PTL DEF SpecCrash

-----------------------------------------------------------------------------
(* The phase before and after a step.                                      *)

LEMMA PhaseDown == (proc # "alive" => phaseBar = "down") /\ (proc' # "alive" => phaseBar' = "down")
BY DEF phaseBar

LEMMA PhaseOf ==
  ASSUME OnceInv, proc = "alive", NEW t \in Threads, pc[t] \in Captured
  PROVE  phaseBar = PhaseAt(pc[t])
BY DEF phaseBar, Somewhere, PhaseAt, OnceInv, OnlyOnce, Captured, Capturing, Handling

LEMMA PhaseOfNext ==
  ASSUME OnceInv', proc' = "alive", NEW t \in Threads, pc'[t] \in Captured
  PROVE  phaseBar' = PhaseAt(pc'[t])
BY DEF phaseBar, Somewhere, PhaseAt, OnceInv, OnlyOnce, Captured, Capturing, Handling

LEMMA PhaseEnding ==
  ASSUME proc' = "alive", xc_common_native_crashed', \A t \in Threads : pc'[t] \notin Captured
  PROVE  phaseBar' = "ending"
BY DEF phaseBar, Somewhere, Captured, Capturing, Handling

\* Steps that take no thread into, out of or along the capture leave the phase alone.
LEMMA PhaseKept ==
  ASSUME UNCHANGED <<proc, xc_common_native_crashed>>,
         \A t \in Threads : pc'[t] = pc[t] \/ {pc[t], pc'[t]} \cap Captured = {}
  PROVE  phaseBar' = phaseBar
<1>1. ASSUME NEW places \in SUBSET Captured
      PROVE  Somewhere(places)' <=> Somewhere(places)
  BY DEF Somewhere
<1>2. /\ Somewhere({"restore"})' <=> Somewhere({"restore"})
      /\ Somewhere({"queue", "returned"})' <=> Somewhere({"queue", "returned"})
      /\ Somewhere(Capturing \ {"restore", "queue"})' <=> Somewhere(Capturing \ {"restore", "queue"})
  BY <1>1 DEF Captured, Capturing, Handling
<1>3. QED
  BY <1>2 DEF phaseBar

-----------------------------------------------------------------------------
(* What is recorded.                                                       *)

\* No step takes away what is recorded; only the fallback and the dumper, in the capture or
\* after the process has gone, add to it.
LEMMA RecordedHandler ==
  ASSUME CrashTypeOK, CaptureInv, NEW t \in Threads, HandlerStep(t)
  PROVE  \/ recordedBar' <=> recordedBar
         \/ pc[t] = "fallback" /\ pc'[t] \in {"record", "callback"} /\ ~recordedBar /\ recordedBar'
<1> USE DEF recordedBar, logVars, repVars
<1>1. CASE GetEmergency(t)
  BY <1>1, StepPc DEF GetEmergency, CrashTypeOK
<1>2. CASE RecordFallback(t)
  <2>1. pc[t] = "record" /\ offset = "end" /\ emergency
    BY <1>2 DEF RecordFallback, Step, CaptureInv, DumpInv, ReportInv
  <2>2. QED
    BY <1>2, <2>1 DEF RecordFallback, DumpAfterWrite
<1>3. CASE RecordJava(t)
  <2>1. offset = "end"
    BY <1>3 DEF RecordJava, Step, CaptureInv, DumpInv
  <2>2. QED
    BY <1>3, <2>1 DEF RecordJava, DumpAfterWrite
<1>4. CASE \/ Lock(t) \/ RestoreHandlers(t) \/ CheckTrace(t) \/ OpenLog(t) \/ SetDumpable(t)
           \/ SetPtracer(t) \/ Fork(t) \/ WaitDumper(t) \/ SeekToContentEnd(t)
           \/ CheckDump(t) \/ RestorePrivileges(t) \/ DumpJavaStack(t)
           \/ CloseLog(t) \/ NotifyCallback(t) \/ JoinCallback(t) \/ QueueAndReturn(t)
           \/ ExitProcess(t) \/ Redelivered(t)
  <2>1. UNCHANGED <<log_dump, log_emergency, emergency>>
    BY <1>4 DEF
       Lock, RestoreHandlers, CheckTrace, OpenLog, SetDumpable, SetPtracer, Fork, WaitDumper,
       SeekToContentEnd, CheckDump, RestorePrivileges, DumpJavaStack, CloseLog,
       NotifyCallback, JoinCallback, QueueAndReturn, ExitProcess, Redelivered
  <2>2. QED
    BY <2>1
<1>5. QED
  BY <1>1, <1>2, <1>3, <1>4 DEF HandlerStep

-----------------------------------------------------------------------------
(* The steps.                                                              *)

LEMMA HandlerImplements ==
  ASSUME CrashTypeOK, CaptureInv, CaptureInv', UpInv, NEW t \in Threads, HandlerStep(t)
  PROVE  [Abstract!NextReport]_<<phaseBar, recordedBar>>
<1> USE DEF Abstract!NextReport, Abstract!Goes, CrashTypeOK, CaptureInv
<1>0. recordedBar \in BOOLEAN /\ recordedBar' \in BOOLEAN
  BY DEF recordedBar
<1>1. CASE Lock(t)
  <2>1. recordedBar' <=> recordedBar
    BY <1>1 DEF Lock, recordedBar, logVars, repVars
  <2>2. CASE AlreadyCrashed
    <3>1. Step(t, "lock", "exit") /\ UNCHANGED <<proc, xc_common_native_crashed>>
      BY <1>1, <2>2 DEF Lock, AlreadyCrashed, Step, CommonTypeOK
    <3>2. phaseBar' = phaseBar
      BY <3>1, StepPc, PhaseKept DEF Captured, Capturing, Handling
    <3>3. QED
      BY <1>0, <2>1, <3>2
  <2>3. CASE ~AlreadyCrashed
    <3>1. Step(t, "lock", "restore") /\ proc = "alive" /\ proc' = "alive"
      BY <1>1, <2>3 DEF Lock, Step
    <3>2. phaseBar = "up"
      BY <2>3, <3>1 DEF phaseBar, AlreadyCrashed
    <3>3. phaseBar' = "entered"
      BY <3>1, StepPc, PhaseOfNext DEF PhaseAt, Captured, Capturing, Handling
    <3>4. QED
      BY <1>0, <2>1, <3>2, <3>3 DEF Abstract!Crash
  <2>4. QED
    BY <2>2, <2>3
<1>2. ASSUME NEW from \in Captured, NEW to \in Captured, Step(t, from, to),
             PhaseAt(from) = PhaseAt(to)
      PROVE  phaseBar' = phaseBar
  BY <1>2, StepPc, PhaseOf, PhaseOfNext
<1>3. CASE RestoreHandlers(t)
  <2>1. recordedBar' <=> recordedBar
    BY <1>3 DEF RestoreHandlers, recordedBar, logVars, repVars
  <2>2. phaseBar = "entered"
    BY <1>3, PhaseOf DEF RestoreHandlers, Step, PhaseAt, Captured, Capturing, Handling
  <2>3. CASE Step(t, "restore", "trace")
    <3>1. phaseBar' = "capturing"
      BY <2>3, StepPc, PhaseOfNext DEF PhaseAt, Captured, Capturing, Handling
    <3>2. QED
      BY <1>0, <2>1, <2>2, <3>1 DEF Abstract!Begin
  <2>4. CASE Step(t, "restore", "exit")
    <3>1. phaseBar' = "ending"
      BY <1>3, <2>4, StepPc, Alone, PhaseEnding
         DEF RestoreHandlers, Captured, Capturing, Handling
    <3>2. QED
      BY <1>0, <2>1, <2>2, <3>1 DEF Abstract!GiveUp
  <2>5. QED
    BY <1>3, <2>3, <2>4 DEF RestoreHandlers
<1>4. CASE NotifyCallback(t) \/ JoinCallback(t)
  <2>1. recordedBar' <=> recordedBar
    BY <1>4 DEF NotifyCallback, JoinCallback, recordedBar, logVars, repVars
  <2>2. pc[t] \in {"callback", "join"} /\ proc = "alive"
    BY <1>4 DEF NotifyCallback, JoinCallback, Step
  <2>3. phaseBar = "capturing"
    BY <2>2, PhaseOf DEF PhaseAt, Captured, Capturing, Handling
  <2>4. recordedBar
    BY <2>2 DEF recordedBar, ReportInv, DumpInv, AfterClose
  <2>5. pc'[t] \in {"join", "queue"} /\ proc' = "alive"
    BY <1>4, StepPc DEF NotifyCallback, JoinCallback
  <2>6. phaseBar' \in {"capturing", "reported"}
    BY <2>5, PhaseOfNext DEF PhaseAt, Captured, Capturing, Handling
  <2>7. QED
    BY <1>0, <2>1, <2>3, <2>4, <2>6 DEF Abstract!Report
<1>5. CASE QueueAndReturn(t)
  <2>1. recordedBar' <=> recordedBar
    BY <1>5 DEF QueueAndReturn, recordedBar, logVars, repVars
  <2>2. CASE Step(t, "queue", "returned")
    BY <1>0, <1>2, <2>1, <2>2 DEF PhaseAt, Captured, Capturing, Handling
  <2>3. CASE Step(t, "queue", "exit")
    <3>1. phaseBar = "reported"
      BY <2>3, PhaseOf DEF Step, PhaseAt, Captured, Capturing, Handling
    <3>2. phaseBar' = "ending"
      BY <1>5, <2>3, StepPc, Alone, PhaseEnding
         DEF QueueAndReturn, Captured, Capturing, Handling
    <3>3. QED
      BY <1>0, <2>1, <3>1, <3>2 DEF Abstract!FailToRethrow
  <2>4. QED
    BY <1>5, <2>2, <2>3 DEF QueueAndReturn, QueuedAgain, SigTypeOK
<1>6. CASE ExitProcess(t) \/ Redelivered(t)
  <2>1. recordedBar' <=> recordedBar
    BY <1>6 DEF ExitProcess, Redelivered, recordedBar, logVars, repVars
  <2>2. proc = "alive" /\ pc[t] \in {"exit", "returned"} /\ xc_common_native_crashed
    BY <1>6 DEF ExitProcess, Redelivered, UpInv, OnceInv, Captured
  <2>3. phaseBar \notin {"up", "down"}
    BY <2>2 DEF phaseBar
  <2>4. CASE proc' # "alive"
    BY <1>0, <2>1, <2>3, <2>4, PhaseDown DEF Abstract!GoDown
  <2>5. CASE proc' = "alive"
    <3>1. /\ pc[t] = "returned" /\ pc'[t] = "lock" /\ \A s \in Threads : s # t => pc'[s] = pc[s]
          /\ xc_common_native_crashed'
      BY <1>6, <2>2, <2>5 DEF ExitProcess, Redelivered, SigTypeOK, onceVars
    <3>2. phaseBar = "reported"
      BY <2>2, <3>1, PhaseOf DEF PhaseAt, Captured
    <3>3. phaseBar' = "ending"
      BY <2>5, <3>1, PhaseEnding DEF OnceInv, OnlyOnce, Captured, Capturing, Handling
    <3>4. QED
      BY <1>0, <2>1, <3>2, <3>3 DEF Abstract!FailToRethrow
  <2>6. QED
    BY <2>4, <2>5
<1>7. CASE \/ CheckTrace(t) \/ OpenLog(t) \/ SetDumpable(t) \/ SetPtracer(t) \/ Fork(t)
           \/ WaitDumper(t) \/ SeekToContentEnd(t) \/ CheckDump(t) \/ RestorePrivileges(t)
           \/ GetEmergency(t) \/ RecordFallback(t) \/ RecordJava(t) \/ DumpJavaStack(t)
           \/ CloseLog(t)
  <2> DEFINE Middle == Capturing \ {"restore", "queue"}
  <2>1. PICK from \in Middle, to \in Middle : Step(t, from, to)
    BY <1>7 DEF
       CheckTrace, OpenLog, SetDumpable, SetPtracer, Fork, WaitDumper, SeekToContentEnd,
       CheckDump, RestorePrivileges, GetEmergency, RecordFallback, RecordJava, DumpJavaStack,
       CloseLog, Capturing, Handling
  <2>2. phaseBar' = phaseBar
    BY <1>2, <2>1 DEF PhaseAt, Captured, Capturing, Handling
  <2>3. phaseBar = "capturing"
    BY <2>1, StepPc, PhaseOf DEF PhaseAt, Captured, Capturing, Handling
  <2>4. QED
    BY <1>0, <2>2, <2>3, RecordedHandler DEF Abstract!Record
<1>8. QED
  BY <1>1, <1>3, <1>4, <1>5, <1>6, <1>7 DEF HandlerStep

LEMMA OtherImplements ==
  ASSUME CrashTypeOK, CaptureInv, UpInv,
         \/ \E t \in Threads, k \in {"fault", "user"} : Signal(t, k)
         \/ DumperStep \/ CallbackStep \/ UNCHANGED crashVars
  PROVE  [Abstract!NextReport]_<<phaseBar, recordedBar>>
<1> USE DEF Abstract!NextReport, CrashTypeOK, CaptureInv
<1>0. recordedBar \in BOOLEAN /\ recordedBar' \in BOOLEAN
  BY DEF recordedBar
<1>1. ASSUME NEW t \in Threads, NEW k \in {"fault", "user"}, Signal(t, k)
      PROVE  [Abstract!NextReport]_<<phaseBar, recordedBar>>
  <2>1. recordedBar' <=> recordedBar
    BY <1>1 DEF Signal, recordedBar, logVars, repVars
  <2>2. CASE handlers = "xcrash"
    <3>1. UNCHANGED <<proc, xc_common_native_crashed>>
      BY <1>1, <2>2 DEF Signal, onceVars
    <3>2. pc[t] = "run" /\ pc'[t] = "lock" /\ \A s \in Threads : s # t => pc'[s] = pc[s]
      BY <1>1, <2>2 DEF Signal, SigTypeOK
    <3>3. phaseBar' = phaseBar
      BY <3>1, <3>2, PhaseKept DEF Captured, Capturing, Handling
    <3>4. QED
      BY <1>0, <2>1, <3>3
  <2>3. CASE handlers # "xcrash"
    <3>1. proc = "alive" /\ proc' # "alive" /\ xc_common_native_crashed
      BY <1>1, <2>3 DEF Signal, UpInv
    <3>2. phaseBar \notin {"up", "down"}
      BY <3>1 DEF phaseBar
    <3>3. QED
      BY <1>0, <2>1, <3>1, <3>2, PhaseDown DEF Abstract!GoDown
  <2>4. QED
    BY <2>2, <2>3
<1>2. CASE DumperStep
  <2>1. UNCHANGED <<pc, proc, xc_common_native_crashed>>
    BY <1>2 DEF DumperStep, DumperWrites, DumperEnds, sigVars, onceVars
  <2>2. phaseBar' = phaseBar
    BY <2>1, PhaseKept
  <2>3. phaseBar \in {"capturing", "down"}
    <3>1. PICK t \in Threads : pc[t] = "wait"
      BY <1>2 DEF DumperStep, DumperWrites, DumperEnds, DumpInv
    <3>2. QED
      BY <3>1, PhaseOf, PhaseDown DEF PhaseAt, Captured, Capturing, Handling
  <2>4. recordedBar => recordedBar'
    BY <1>2 DEF DumperStep, DumperWrites, DumperEnds, recordedBar, logVars, repVars
  <2>5. QED
    BY <1>0, <2>2, <2>3, <2>4 DEF Abstract!Record
<1>3. CASE CallbackStep \/ UNCHANGED crashVars
  <2>1. UNCHANGED <<pc, proc, xc_common_native_crashed, log_dump, log_emergency, emergency>>
    BY <1>3 DEF CallbackStep, CbStep, CbAttach, CbRead, CbParams, CbJava, crashVars, sigVars,
           onceVars, logVars, repVars
  <2>2. phaseBar' = phaseBar
    BY <2>1, PhaseKept
  <2>3. QED
    BY <1>0, <2>1, <2>2 DEF recordedBar
<1>4. QED
  BY <1>1, <1>2, <1>3

\* The crash handler does only what CrashReport allows: the capture is given up at its start
\* or ends with a report, and what it has recorded is never lost, however many threads crash
\* and whatever fails.
THEOREM CrashReportImplemented == SpecCrash => Abstract!SpecReport
<1>1. InitCrash => Abstract!InitReport
  BY DEF InitCrash, InitCommon, Abstract!InitReport, phaseBar, recordedBar
<1>2. /\ CrashTypeOK /\ CaptureInv /\ CaptureInv' /\ UpInv /\ [NextCrash]_crashVars
      => [Abstract!NextReport]_(Abstract!reportVars)
  <2> SUFFICES ASSUME CrashTypeOK, CaptureInv, CaptureInv', UpInv, [NextCrash]_crashVars
               PROVE  [Abstract!NextReport]_<<phaseBar, recordedBar>>
    BY DEF Abstract!reportVars
  <2>1. ASSUME NEW t \in Threads, HandlerStep(t)
        PROVE  [Abstract!NextReport]_<<phaseBar, recordedBar>>
    BY <2>1, HandlerImplements
  <2>2. QED
    BY <2>1, OtherImplements DEF NextCrash, Ended
<1>3. QED
  BY <1>1, <1>2, TypeCorrect, CaptureInvariant, UpInvariant, PTL DEF SpecCrash, Abstract!SpecReport
=============================================================================
