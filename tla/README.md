# A verification of android_crash

The repository holds the programs and the data of a study of Android crashes
(`src/code`, `src/dataset`). Its largest part is CrashCapturer, a library that an
application loads to record its own native crashes, Java crashes and ANRs ("application
not responding"). Two small applications and two Python scripts stand beside it. This
directory holds TLA+ models of the code, the TLC configurations that check them, and
TLAPS proofs about them. `PROJECT.json` lists components, runs, mutants, the map from
definitions to source lines, findings, hazards and theorems. Paths below are relative to
`src/code/CrashCapturer/crashcapturer_lib/src/main`.

## The system

| Part | State | Operations | Works with |
|---|---|---|---|
| Native crash handler, `cpp/crashcapturer/xc_crash.c`, `cpp/common/xcc_signal.c` | a mutex and the flag "only once", the log descriptor, the emergency buffer, privileges to restore, the eventfd of the callback thread | `xc_crash_signal_handler`, `xc_crash_callback_thread` | dumper process (clone and waitpid), trace dumper (globals, STDERR), Java (JNI callback) |
| ANR trace dumper, `xc_trace.c` | the eventfd, the dump status, a `sigjmp_buf`, the trace log | SIGQUIT handler, loop of the dumper thread | ART (its Signal Catcher gets SIGQUIT back), crash handler, `traceCallback` |
| Log descriptors, `xc_common.c` | two descriptors kept in reserve, placeholders in the log directory | `xc_common_open_log`, `close_log`, `seek_to_content_end` | both handlers above |
| Fallback, `xc_fallback.c` | the emergency text | get and record | crash handler |
| Dumper process, `cpp/crashcapturer_dumper` | threads of the crashed process, memory map, ELF files | attach, unwind, record, detach | crash handler |
| Log directory, `FileManager.java` | logs of four kinds, clean and dirty placeholders | create, append, recycle, maintain | every writer of logs; no lock |
| Java handlers, `NativeHandler.java`, `JavaCrashHandler.java` | callbacks and options | `crashCallback`, `traceCallback`, `uncaughtException` | both native handlers, the log directory |
| `TombstoneParser.java` | a map of sections | parse a log | users of the library |
| Heuristic_Testing | locks and threads per task | two searches for conflicting sets of threads | - |
| SingletonPlus | a lifecycle state and a resource | activity and resource callbacks | - |
| xz decoder, `cpp/lzma` | probabilities, a ring of what was decoded, the chain of coders of a block | `XzUnpacker_Code` in pieces of any size | dumper process (`.gnu_debugdata`) |
| `preprocess.py`, `clustering.py` | lists of stacks | duplicate filter, edit distance, clustering | - |

What is hard here is the native part. A crash arrives on any thread at any moment, the
handler may call nothing that allocates or locks, each of its dozen system calls may fail
and each failure must still leave a report, and what it shares with other threads
(STDERR, the dump status, the log file) is protected by nothing. It is correct when one
crash is captured once, the report reaches the file or the callback exactly once, nothing
given away for the dump stays given away, and the process ends by the signal it was
about to die of. The ANR side is correct when each SIGQUIT taken from ART comes back to it,
and a crash of ART in a dump costs only that dump.

## The modules

| Module | What it is |
|---|---|
| `NativeCommon` | the process and the globals of `xc_common.c` and `xc_trace.h` that the handlers share; the set of calls that may fail |
| `CrashHandler` | `xc_crash_signal_handler` on every thread, the callback thread, the dumper process |
| `TraceDumper` | the SIGQUIT handler and the trace dumper thread |
| `NativeCapture` | both together, with `siglongjmp` between them |
| `CrashReport` | abstract: what a native crash promises to the application |
| `CrashRefinement` | the mapping under which `CrashHandler` implements `CrashReport` |
| `LogFds` | `xc_common_open_log` and `close_log` when descriptors run out |
| `LogStore` | abstract: up to a maximum number of logs of each kind, of which the oldest go |
| `LogDirectory` | `FileManager.java` and those who share the log directory with it |
| `DumperProcess` | the dumper over a process whose threads start, end and die: attach, registers, sections, footer, detach, its alarm and its own crash (`xcd_core.c`, `xcd_process.c`, `xcd_thread.c`) |
| `RemoteMemory` | reads of another process in pieces (`xcd_util.c`), the memory shown around registers |
| `MemoryMaps` | the relative pc of a mapping, the names in the map list, the abort message |
| `Frames` | the loop that unwinds a stack, the build ids, the stack section; signal trampolines and the adjustment of a pc, per architecture |
| `ElfImage` | headers, functions, build id and name of an ELF file, `.gnu_debugdata` |
| `DumperCalls` | calls of the four modules above and of `Tombstone` with any input |
| `DwarfUnwind` | search of the entry of a pc, rules of a row, expressions, registers of the caller |
| `ArmExidx` | the exception tables of 32 bit ARM: search, extraction, decoding |
| `Encodings` | LEB128, encoded addresses and the augmentation of a CIE |
| `TextUtil` | the `printf` and the local time of the handler, `write`, base64 |
| `SystemInfo` | the memory summary, and the directories made |
| `Tombstone` | a log written and read back (`TombstoneParser.java`); the list of the other threads, the sections appended to a log |
| `Words` | machine words as sequences of bytes, for those wider than an integer of TLC |
| `Checksums` | CRC32 and CRC64 with their tables, SHA-256, MD5 |
| `XzFilters` | the filters of machine code and of Delta, and the buffer before them |
| `LzmaDec` | the range decoder, its probabilities, the ring, the look ahead on a short input |
| `LzmaEnc` | what the encoder writes for given matches: the inputs of the decoder |
| `Lzma2Dec` | chunks of LZMA, and the parser of their sizes |
| `XzDec` | headers, blocks, chains of coders, the index, several streams with padding |
| `JavaCrash` | `uncaughtException` on any number of threads |
| `ActivityMonitor` | the count and the list of activities |
| `SingletonPlus` | the singleton under the lifecycles of activities |
| `LockTest` | threads and locks of one compatibility test |
| `CompatSearch` | the two searches for groups that conflict |
| `LogClustering` | the filter of duplicates and the distance of two stacks |
| `*_proofs` | theorems about the module they extend |
| `MC*` | the instances TLC checks |

`CrashHandler`: `pc[t]` is the place of thread `t` in the handler, and an action is the
code from one place to the next: a system call with the branches on its result. The
handler runs with all signals blocked, so a thread's own signals do not nest; other
threads, the callback thread and the dumper do interleave between any two actions. A
failure of a call is a disjunct of its action, allowed when the call is in `CanFail`. Of
the log file the model keeps how much of the dump is in it, whether the emergency text
is, and how many java stacktrace sections it has. Of the descriptor's position it keeps
whether it is at the end of the content: a renamed placeholder is not opened in append
mode, so the dumper's writes leave it behind. The log number and the kernel's view of it
are two variables (`log_fd`, `fd_open`), since a number kept after `close` is the hazard.

`TraceDumper`: `tpc` is the place of the dumper thread; `owed` is the debt of a SIGQUIT
to ART that the process has not been able to see yet. `trace_files` counts the trace logs
in the directory. Every `continue`, `goto end`, `goto skip` of the loop is a branch. The end of a
dump is three steps, since the status is still on-going between them: the look at the status
(`CheckRethrow`), `xc_trace_send_sigquit`, and the status END. The send looks for the Signal Catcher
the first time; if it is not found (`/proc/self/task` or a `comm` cannot be read, or no name
matches) its tid is `UNKNOWN` for ever and nothing is sent.

`NativeCapture` adds the jump out of the handler. A jump of a thread that is not the
dumper thread lands on a foreign stack, which is undefined: it faults or never comes back.

`CrashReport` forgets threads and calls. The process is up, has entered the capture, is
capturing, has reported, is ending without a rethrow, or is down; a report has been recorded or
not. `CrashRefinement` reads the phase off the places of the threads, of which at most one
is in the capture, and takes a valid dump, an emergency text in the log or one in the buffer
for the record. A crash is given up only at its start, and a capture ends with a record. The
run checks it with the fairness of both, the proof without.

`LogFds` refines one action of the two handlers: the call of `xc_common_open_log`, step by
step, on a descriptor table shared with the application. An open fails only for want of a
descriptor. `promised` is a history variable: nobody else took a descriptor since the
call began, and the caller had its reserve or one was free.

`LogDirectory`: a file is its name, a kind and a number, and `dir` is the set of names. The four
actors are the maintenance (in `XCrash.init` itself, or on its own thread after it), the ANR
callback, a native crash and a java crash; `pc[a]` is the place of actor `a`, and an action is one
operation on the directory: a listing, a rename, an unlink, an open, the writing of the zeros. The
code takes no lock, so all interleavings are possible. `recycleLogFile` and `cleanTheDirtyFile` run
for both the maintenance and the ANR callback, and `ret[a]` is where they return to. A stream goes
to the file it was opened for, whatever its name is by then (`stream`). The initial state is any of
a set of directories an earlier process may have left. `createLogFile` of Java and
`xc_common_open_log` of the native code both take clean placeholders. Its map onto `LogStore` keeps
the logs of crashes and ANRs; trace logs and placeholders are not promised to anybody.

`DumperProcess`: `pc` is the place of the dumper in its one pass over the process, and `kernel[t]`
is what the kernel does with thread `t` (runs, is asked to stop, is stopped, is gone). Threads
start and end between any two steps until they are stopped. `log` keeps which sections are in the
log. The dumper may crash in a section (its handler writes what it can and exits), any system call
may fail, and the alarm is pending, since it is blocked.

`JavaCrash`: `jpc[t]` is the place of thread `t` in `uncaughtException`. All threads write to one
name, made of the start time of the process; `path` is whose file has the name, and `raf[t]` is the
file thread `t` has open, which need not be its own. Each thread opens it anew and writes from
offset 0: `position[t]` is how far it has come, `content[f]` who wrote what is at each offset, and
one call of `write` is one step, so that a second thread overwrites the report of the first from its start.

`ActivityMonitor` and `SingletonPlus` are small machines over callbacks of Android, which come in
the order the platform documents. In `LockTest` a conflict `i` has a lock `<<i, j>>` for each of its
members, numbered in their order (`Rank`, `Nth`), and `turn[t]` is the place of thread `t` in its
list of pairs; `prompt` says whether sleeps and timeouts end in the order of their lengths.

The decoder of xz is modelled from an encoder's output back to the text: `LzmaEnc` and the
writing half of `Lzma2Dec` and `XzDec` make a stream for given matches, and the decoder takes it
in pieces. Its constants are scaled: range and code have 24 bits in place of 32 (`kNumTopBits` is
16), the dictionary 8 bytes and more (`LZMA_DIC_MIN`, `LZMA2_DIC_LOG`), the buffers 16 bytes
(`BRA_BUF_SIZE`) and 4 (`CODER_BUF_SIZE`); `MostDoublings` bounds the growth of the output and
`MostCalls` the calls. All sizes of 2^28 and more are one (`FarSize`), and the digest of an index
is the sequence of what was hashed. What a chain of filters does to a block is modelled
with the state it keeps between the pieces.

The other modules are pure algorithms, as operators over records. `MCAlgorithms` is the table of
their inputs: a state is one call, an algorithm with one input, and there is one action for each
algorithm. A property of this module is the conjunction, for one area of the code, of what its
algorithms owe; the operator that states each obligation stands beside the algorithm, with the
reason. They are checked on bounded inputs; `Algorithms_proofs` proves
those of `MemoryTrue`, `FramesTrue` and `ElfTrue` for all inputs. `DumperCalls` states these properties, and
what any input is: the inputs of `MCAlgorithms` are some of these.

`MCDumper` and `MCJavaApp` hold machines that share nothing: the variable `side` says which of
them runs, and the variables of the others stay as they are.

## What the runs check

| Run | Instance | Result |
|---|---|---|
| `crash_handler` | two threads, one of them known to the VM, every call may fail | the report is not lost, nothing is delivered twice (emergency text, java stack), the log is handed over closed, privileges restored, dump not overwritten; the process ends; the whole implements the abstract crash, its liveness included |
| `trace_dumper` | 3 SIGQUITs, every call may fail | every SIGQUIT forwarded and served, unless the log directory failed or the Signal Catcher was not found; one trace log, STDERR restored |
| `capture` | an application thread, the dumper thread, 1 SIGQUIT, fork may fail | one capture; a crash of ART costs one dump, and SIGQUIT is not sent to it again unless another thread crashes between the look at the status and the send |
| `capture_jump` | as `capture`, nothing fails | violated, see the findings |
| `log_directory` | all four actors, one ANR, 24 initial directories where nothing fails and 2 where some operations may | a log that is reported holds its text unless the placeholder was cleaned twice; implements the abstract store of logs |
| `log_maintenance` | the maintenance and two ANRs, 216 initial directories with all kinds of files where nothing fails, and 3 where groups of operations may | alone it leaves what was asked for; with the ANRs at most one ANR log and one placeholder too many, and none dirty; it ends |
| `log_anr_lost` | the maintenance and an ANR | violated: the ANR is not reported |
| `dumper` | the dumper over up to three threads; or a table of 3 descriptors, 1 placeholder, both handlers and the application | every thread resumed unless the dumper was cut off, the log true of the process, the dumper ends; no descriptor lost, a log is opened, the reserve comes back |
| `dumper_alarm` | the dumper, a thread that does not stop | violated: the dumper stays |
| `algorithms` | every algorithm on its bounded inputs, 411,000 calls | one property per area |
| `parse_fingerprint` | logs without a fingerprint, whole and cut | violated: a model that was in the log is replaced |
| `java_app` | two threads that throw; or three activities; or the singleton under three screens; or the threads of a compatibility test | no report is given twice, and one no other thread disturbs is in the log or in the callback; the first crash is told; counts and lists of activities true; the singleton serves; the verdict of a test true; each thread ends |

Bounds. Three descriptors are the two in reserve and one to fight for; the proofs need no
bound. A third thread in the handler would wait for the same mutex and leave by the same
exit as the second, and the proofs need no bound on threads. Three SIGQUITs are one before,
one in and one after a dump; the eventfd merges any more. One SIGQUIT is enough for the
composite, as each crash property concerns one dump. With several crashes and dumps the
composite grows too large for every call to fail, so there only `fork` does, which leads to
the fallback; the failures are covered in the parts, and the invariants of the crash handler
are proved for the composite for any set of failures.

The directory has a maximum of one log of each kind, one placeholder, and the code's margin of 10 is
1: one log too many makes the maintenance act later, two more (in `log_maintenance`) make it act
before the others start. The store needs a newer log for each dropped one whatever the maximum is,
as the proof says for any of them. `MaxTraces` bounds the ANRs: one meets the maintenance at any of
its steps, two are needed for the count of placeholders to be wrong twice. `MaxSerial` bounds the
numbers of placeholders and is chosen so high that it never stops an action. `Starts` pairs each
initial directory with the operations that may fail, each time; failures multiply the states, so
they come in groups, each from a small directory.

The algorithms: sequences of two to four elements reach every branch and every pair of branches
in a row, and each mutant of the list is found by them. Where the code computes with addresses or
sizes, the constants of the module are scaled down (a page of 16 bytes, an entry of the frame list
of 5 frames), and the inputs lie on both sides of each bound. Words are narrow where overflow is the
point (`Wide`, `DwarfWord`). In `java_app` two threads are enough for any overtaking, a file has two offsets, so that a text
may be written in part, whole, or end before the rest of its report, two placeholders let each thread
have one, the list
of activities has a cap of two instead of the code's 100, so a third passes it, and three processes compete
in each of five arrangements of locks.

Fairness. Each thread, the callback thread and the dumper thread is weakly fair: the kernel
schedules them, and no step of the handler waits for anything but the mutex, the dumper
process and the callback thread. The dumper process is fair in `CrashHandler` as far as it ends at all. The
callback of the application is assumed to return. Nothing makes crashes or SIGQUITs happen.
The mutex of the handler is never taken more than once by each thread, so weak fairness is
enough. Of the dumper `DumperEnds` assumes more: that a thread it attached to stops. Nothing else would end
it, as `dumper_alarm` shows. The threads of `java_app` are weakly fair. The maintenance of the log directory is weakly fair as a thread, and nothing is assumed of
the other actors there. `CHECK_DEADLOCK FALSE` is set for the runs of `TraceDumper` alone, where the
bound on SIGQUITs leaves an idle dumper thread waiting for ever, as it does in a healthy process,
and for those of `LogDirectory`, `DumperProcess`, `java_app` and `algorithms`, where what happens
happens once and then all is done.

## Findings

Each of these is a run that TLC must find violated.

* `capture_jump` (`xc_crash.c:420`): the jump is decided by a status any thread sees, which
  also stays on-going after the call into ART has returned.
* `log_anr_lost` (`NativeHandler.java:230`): the maintenance and the ANR callback both recycle an
  old ANR log; the one that comes second counts this as a failure, and the callback then drops the
  ANR it was called for: the trace is not renamed, the application not told.
* `parse_fingerprint` (`TombstoneParser.java:494`): what is missing in a log is to be added from the
  system (`:397`), but where the fingerprint is missing the branch puts the fingerprint of the system under the
  key of the model, over the one read from the log. `LogBeforeSystem` excepts this key.
* `dumper_alarm` (`xcd_core.c:154`): the alarm that is to end a dumper that hangs is blocked: the
  crash handler runs with all signals blocked, and the dumper inherits that.

More places are not runs of their own, and show in the properties the passing runs state:

* The rethrow may be lost (`xc_crash.c:407`): the handler queues the signal again and unlocks the
  mutex; a second crashed thread that waited for the mutex finds the flag set and ends the
  process by `_exit(1)` before the signal is delivered. `CrashEnds` therefore asks only that the
  process ends.
* Crash handler and trace dumper redirect STDERR without a lock (`xc_crash.c:283`): the java stack
  may go to the wrong file. `StderrRestored` is stated for the trace dumper alone.
* The maintenance and the ANR callback may clean the same dirty file (`FileManager.java:471`): the
  first to finish makes it a placeholder, a native crash takes it as its log, and the stream of the
  other goes on writing zeros into the crash log. `LogsIntact` excepts this.

* `SigquitForwarded` and `SigquitServed` have two ways out. The dump is given up when the log
  directory fails (`xc_trace.c:322`, `325`): that `continue` leaves out `xc_trace_send_sigquit`. And
  nothing is sent when the Signal Catcher was not found (`xc_trace.c:133`), which is looked for only once per
  process (`xc_trace.c:96-125`). In both cases ART never dumps for this SIGQUIT.
* `NotSentAfterArtCrash`: the look at the status and the send are not one step (`xc_trace.c:382`). A
  thread that crashes between them jumps and sets the status, and SIGQUIT is sent all the same.
* `CrashEnds` holds for `CrashHandler`, not for `NativeCapture` (`xc_crash.c:424`): the jump leaves
  the mutex locked and the flag set, so the crash is not rethrown and the next one hangs.
* `LogOpened` speaks of a promise, since the open of a renamed placeholder (`xc_common.c:266`) is
  the only one that is not tried again with the prepared descriptor.
* `AnrLogsBounded` allows one ANR log more than the maximum (`NativeHandler.java:230`): the extra
  ones are deleted before the new one is added.
* `JavaReportNotLost` is about a report no other thread disturbed: none took the name of the log from
  its file (`FileManager.java:202`, a rename over the file of the first thread) and none opened that
  file (`JavaCrashHandler.java:143`, which writes from offset 0 over what is there). If one did, one of two
  reports can be lost, and both can. Nothing in the repository promises more. It takes a clean placeholder: without
  one the second thread is given no file (`NoneWithoutPlaceholder`).
* `FirstCrashReported` is about a single thread too: a second one that throws while the first is
  handled goes to the system, which kills the process.
* `ResumedUnlessCut`: a dumper that is killed or crashes leaves its threads to the kernel, which
  resumes them; one that hangs leaves them stopped.
* `RowOfPc` and `ExtendedOffsets` say what the code makes of call frame instructions where that is not
  DWARF: the operand of `DW_CFA_offset_extended` is not multiplied by the data alignment factor (`xcd_dwarf.c:1095`;
  that of `DW_CFA_offset` is, `:1050`), and an FDE without instructions runs the one behind it, as the turn
  from CIE to FDE reads it before anything is compared with the end (`xcd_dwarf.c:1018-1040`). The rules are
  those of the row unless that instruction sets one.
* `CallerRegsByRules`: a DWARF step that fails on the way leaves the registers it has already set, mixed with
  those of the frame, and the next table of the same ELF is tried with them (`xcd_dwarf.c:1557`).
* A DWARF branch whose value is zero goes back by its operand instead of on to the next operation
  (`NextOp`), a section without a name behind a library is never counted as
  its bss (`HeapAt`), a stack that is a prefix of another counts as its duplicate (`FilterKeepsOne`).

## What is proved

For any set of threads, any of them known to the VM, any set of calls that may fail, any number
of SIGQUITs. The assumptions are those of the modules: `NoThread` is not a thread, the VM's
threads are threads, the two options are booleans, the dumper thread is a thread of the VM.

* `CrashHandler_proofs`: type correctness and the seven other safety properties of
  `crash_handler`. `OnlyOnce` is not inductive: it needs that a capturing thread holds the
  mutex and has set the flag (`OnceInv`). From it follows that every other conjunct of
  `CaptureInv` is about a single thread, the one in the capture: `HandoverInv` (where the
  descriptor is open and the callback thread may run), `DumpInv` (what the exit of the dumper and
  the position of the descriptor say of the log), `ReportInv` (at each place, which of log,
  buffer and callback holds the report), `JavaInv` (who may still record the java stack).
  Each has one lemma for the steps of the handler and one for the others.
  `PrivilegesRestored` has its own invariant `PrivInv(d)`, one for each initial value.
* `NativeCapture_proofs`, on the trace dumper by itself: type correctness, `OneTrace`,
  `StderrRestored` and `SigquitForwarded`, whatever fails. `TraceInv` ties the files and the descriptor
  to `tpc`, `OwedInv` the debt: where the dumper thread still has to pass the SIGQUIT on, or why it will
  not. On the composite, with the jump: `OnlyOnce`, a form of `ReportNotLost`, and `NotSentAfterArtCrash`.
  The first two hold because a step of the trace dumper leaves every variable of `CaptureInv` alone
  but the process and STDERR, and a jump only takes a thread out of the capture; the third because
  a thread that jumped stays where it landed (`JumpedStays`), and the dumper thread's own jump
  ends in front of the look at the status.
* `CrashReport_proofs`: under the mapping every step of `CrashHandler` is a step of the abstract
  crash or stutters. It uses `CaptureInv`: only the capturing thread moves the phase, and what
  it recorded stays. The fairness part of the refinement is only model-checked.
* `LogFds_proofs`: type correctness, `LogOpened`, `ReserveBack` and `NoFdLost`, for any number of
  descriptors and placeholders. `PromiseInv` says what a kept promise asks for before each call
  (the reserve, a free descriptor, or either), `PlaceInv` which descriptors are open there.
* `DumperProcess_proofs`: type correctness, that every thread is resumed unless the dumper was cut
  off (`ProcessResumed`), and that the log tells the truth (`LogTells`): frames are read of stopped
  threads only, the footer's numbers are those of the sections that were written, and a dumper that
  returns 0 without a cut section has recorded the crashed thread, and every other one or said how
  many it left out. For any number of threads and any limit.
  `HeldInv` says which threads the dumper holds at each place, `HaltInv` that those stay stopped;
  `SectionsInv` says that the counters are the numbers of threads with a section (`CountsTrue`),
  that no thread gets two (`NoneTwice`) and none is passed over uncounted (`SkippedCounted`).
* `LogDirectory_proofs`: type correctness, and `LogStoreImplemented`: for any initial directory,
  maxima, actors and failures a log of a crash or an ANR is dropped only when as many newer ones of
  its kind as asked for are there. That a list was sorted is not enough, since between the listing
  and the deletion others delete too. The invariant `StoreInv` says that a file to be recycled, in
  `path` or in `todo`, has enough newer ones now; the lemma `EnoughStays` shows that it keeps them:
  a drop of one of those is a drop of a log which had enough newer ones itself. The other parts say
  that what is overwritten has a placeholder's name (`PathDirty`, `ListsKinds`) and that a log to
  come is newer than all of its kind (`NewestYet`). The assumption on the initial directories is
  that they are finite and older than the process.

  Three more theorems are about what a maintenance does to the directory, for any maxima and any
  finite initial directory. `LogsStayIntact`: no log is overwritten with zeros before the first
  ANR, whatever fails. The invariant `Untouched` says that until then the maintenance alone has a
  stream, and the file it writes to is dirty or gone. `LimitsKept`: where nothing fails, the
  directory exceeds its maxima by at most one ANR log and one placeholder. The bound is not inductive:
  `Phases` says where each of the two cleaners can be and what it has still to do there, and
  `Bounds` (`PlaceholdersInv`, `AnrInv`) how many files of a kind are left once what it has listed
  is gone. `MaintenanceDone`: alone, the maintenance leaves exactly what was asked for; `AloneInv`
  says that its count of clean placeholders is the true one (`Counting`), that a new one gets an
  unused number (`Numbering`), and that the kinds of logs it has passed are within their maxima
  (`LogsTrimmed`).
* `JavaApp_proofs`, on `JavaCrash`: type correctness, that no text is given twice, and that a report
  no other thread disturbed is in the log or in the callback (`Disturbed`, see the conditions above), for
  any number of threads, placeholders and offsets; that the first crash is
  told. `FileInv` says which file a thread has open at each place and how far it has written,
  `EmergencyInv` where its text is: by its place, still to be made or to be written (`TextAt`), in the file it has
  open and without its end while it may still go to the callback (`WroteAt`), and once that is settled
  whole in this file, as long as no other thread opens it (`KeptAt`). On the three small machines, for any number of
  activities, processes and conflicts: `SingletonKeepsResource` and `MonitorKnows` are about one activity at a
  time and about any number; their invariants say which activity owns the resource, and that the
  list is the front of the living ones. `VerdictMeans` is about the compatibility test: a reported
  conflict is one of the thread that reports it, whose next member is another process of the group;
  and if no thread is late and no process is in two conflicts, a conflict is reported exactly when
  all the members of one are tested. The verdict alone is not inductive. `HoldsTold` says from
  the places of the threads who holds which lock, `BlamedWhole` that without late threads only a
  whole conflict is reported, and `Circle` that the threads of a whole one meet: until one of them
  reports it, all are at their first pair, and none asks for the second lock before all have their
  first. These rest on lemmas about `Rank` and `Nth`, the numbering of a set, and on the steps of
  `NextPlace` reaching every place of the circle (`RoundAll`).

* `Algorithms_proofs`: `MemoryTrue`, `FramesTrue` and `ElfTrue`, three of the ten properties of
  `MCAlgorithms`, for every input (`MemoryOfAnyProcess`, `FramesOfAnyThread`, `ElfOfAnyImage`), and the
  appending to a log.

  `ReadsInPlaceAnywhere` is about the two ways to read another process, for any address,
  length and set of readable pages. Both are loops, written as recursive functions on their turns;
  `StepsExist` says that such a function exists, so that the one chosen solves its equation, and
  `UpTo` that what each turn keeps holds at the end. For `process_vm_readv` there is an invariant of
  the inner loop (`Turned`: the pieces cover what was asked for without a gap, until the length left
  goes below zero), one of what the kernel copies (`CopiedTo`) and one of the outer loop (`ReadsSo`:
  what was got is the beginning of what was asked for, and either the next byte goes where it
  belongs, or the read is over at a hole or at the end). For PTRACE_PEEKTEXT it is `PeeksSo`, with
  the lemma that a word lies in one page (`WordInPage`). `MemoryShownAnywhere` rests on them:
  `BothReads` says that the two reads near an address leave each byte in its place in the buffer.
  `RelPcInAnyFile`: the position of a pc in the ELF found for its mapping, for any mappings, file
  and limit of mmap; `MappedPart` says what one mmap gives, `AllOfBegins` what the search for the
  whole ELF makes of it, `Right` what each of the five cases hands out. `NamesOfAnyMaps`: the reader
  of the map list is a recursive function; the names solve its equation, and the least line at which
  another solution differs would have one above it that differs. `AbortMessageOfAnyLength`.

  `AnyBacktrace` is about the loop of `xcd_frames_load`, for any pcs and whatever the unwinders, the
  link register and the mappings make of them. Its properties are not inductive: a guess is shown
  before the step that confirms it, and whether the next frame differs is decided by the registers of
  this turn. `Loading` says, while the loop is on, that all frames so far are confirmed, that the
  registers differ from the last frame and that a pending guess does not follow a guess (`Onward`),
  and once it is over that the frames are as they should be (`Confirmed`); `LeftByFrame` takes it
  through a turn up to the comparison of the registers. `BuildIdsOfAnyFrames`: the list
  names each file of the frames so far once (`ListedOnce`). `StackOfAnyFrames`: the invariant `Shown`
  says that the lines end before `sp` (`LinesEndAt`), so that what is added goes on there or behind dots,
  that no frame to come has a label yet (`LabelsAtSp`), and, from the phase of the loop, whether a
  frame has lost its sp. `SignalFrameAnywhere` and `AdjustedPcAnywhere` are arithmetic: the first needs
  a stack aligned to words (at an sp of 3 the number of the signal would look like the address that
  marks an old frame), the second an even bias (`xcd_regs_get_adjust_pc` takes the bit of Thumb from
  the pc less the bias).

  `TablesOfAnyHeaders` is about the loop over the section headers, for any headers of which any part can
  be read. `ReadSectionIs` says what one header may change, `SectionsRead` what is known after some of
  them: each table is that of a header, each symbol table has a string table, and an `.eh_frame` that was
  read left a table, unless there was an error. It is for images whose `.eh_frame`s have an offset and a
  size, as those of a linker do: an empty one would take the place of the one before. `FunctionOfAnyPc`
  (`FunctionInfoIs`: one table list; `ReadableSymsAre`: what can be read of a table),
  `BuildIdOfAnyNote` (the padding by arithmetic is the multiple of four in its range, `PaddedName`; the
  note header is a multiple of four bytes) and `SoNameOfAnyOrder` (with each of the three tags there once,
  before the end of the tags) need no invariant. `ImageOfAnySize` is about the doubling of the buffer: each turn but the last
  fills the buffer and so adds a byte at least (`Decoding`), and there are no more turns than bytes. The
  decoder of the image is the one of the model, `XzCode`; that it is not given an empty image follows from
  the size of the section.

  `AppendedToAnyFile`: one call of `appendText`, for any file and any text that does not end in a
  zero; `AppendedInOrder`, a fold of such calls, is checked.

Assumptions on constants, besides those above: the words of an address divide a page, a call of
`process_vm_readv` takes two pages or more and spans less than half of the addresses, and what is
shown near an address fits into a page (`MemoryAssumption`; 4096 bytes, 64 pages and 256 bytes in the
code); there is room for a frame and for a word of the stack (`FramesAssumption`); a page is not empty and the largest size is a natural
number (`MapsAssumption`), which bounds the size of a file; the room for a build id and the header of a note
are natural numbers, and the header is a multiple of four (`ElfAssumption`; 64 and 12 bytes); a file of a java crash has at least one offset
(`JavaAssumption`); the cap of the list is a natural number (`MonitorAssumption`); the processes are finitely many integers and a setup is a sequence of sets of
them (`LockTestAssumption`).

The type invariants are proved (`CrashTypeOK`, `TraceTypeOK`, `DirTypeOK`, `DumperTypeOK`,
`FdsTypeOK`, `JavaTypeOK`), so the runs leave them out; the three of the small machines are
conjuncts of their properties. All safety invariants and action properties of the passing runs
are theorems, but for those of the algorithms.

Only model-checked: the liveness properties (`CrashEnds`, `SigquitServed`, `ArtCrashSkipsDump`,
`MaintenanceEnds`, `DumperEnds`, `JavaThreadsEnd`) and the fairness part of the refinement of
`CrashReport`, which are out of this prover's reach; and seven of the ten
properties of `MCAlgorithms`: what most of the algorithms compute by recursion over their
data would need a proof by induction over them, and their modules use recursive operators.

## Not modelled

* Of the 7-Zip code in `cpp/lzma`: how the encoder finds and chooses its matches (`LzFind*.c`, the
  prices in `LzmaEnc.c`), which nothing in the library calls; the threads (`MtDec.c`, `MtCoder.c`,
  `Lzma2DecMt.c`, `XzDecMt_*`), which `-D_7ZIP_ST` leaves out of the build; the archives, `Ppmd7`, `Bcj2`,
  `Aes`, which no function of the dumper reaches.
* `tree.h` and `queue.h`: the models have sets and sequences where the code has their lists.
* `xc_dl.c`, the search of symbols in `libart.so`; the local unwinders `xcc_unwind_*.c`.
* The parsing of a line of `/proc/self/maps`, the listing of logcat and open files.
* The initialisation (`XCrash.init`, `xc_jni.c`), which is the initial state of the models.
* `TombstoneManager.java` and `Util.java`; `AnrHandler.java` is missing from the repository.
* System calls and JNI as such: they are the choices of the actions. Formatting of text, unless
  what is written is read back by another part.
* Numbers of placeholders that collide and a second process with the same directory.
