---------------------------- MODULE LogDirectory ----------------------------
(***************************************************************************)
(* FileManager.java and those who use the log directory with it, without a *)
(* lock: the maintenance thread, the callback of the ANR trace dumper, a   *)
(* native crash and a java crash.  A step is one operation on the          *)
(* directory.  A file is its name; what is written through a stream goes   *)
(* to the file it was opened for, under whatever name that file has now.   *)
(***************************************************************************)
EXTENDS Naturals, FiniteSets

CONSTANTS
  Actors,          \* which of the four there are
  MaxOf,           \* the maximum number of logs, for each kind
  PlaceholderMax,  \* placeholderCountMax
  Margin,          \* 10 in the code: so many files too many are removed in initialize
  StartTime,       \* when the process background: files with smaller numbers are older
  Starts,          \* what may be in the directory then, and what may fail from then on
  MaxTraces,       \* bound on the traces taken
  MaxSerial        \* bound on the numbers given to placeholders

CrashKinds == {"native", "java", "anr"}
LogKinds == CrashKinds \cup {"trace"}
Name == [kind : LogKinds \cup {"clean", "dirty"}, id : Nat]
Operations == {"dir", "list", "rename", "delete", "create", "open", "write"}

ASSUME LogDirectoryAssumption ==
  /\ Actors \subseteq {"maintainer", "tracer", "native", "java"} /\ "maintainer" \in Actors
  /\ MaxOf \in [LogKinds -> Nat \ {0}]  \* the setters of XCrash.InitParameters
  /\ PlaceholderMax \in Nat /\ Margin \in Nat /\ StartTime \in Nat
  /\ MaxTraces \in Nat /\ MaxSerial \in Nat
  /\ \A start \in Starts :
       /\ IsFiniteSet(start.dir) /\ \A n \in start.dir : n \in Name /\ n.id < StartTime
       /\ start.canFail \subseteq Operations

Gone == [kind |-> "gone", id |-> 0]  \* of a stream: closed, or its file is unlinked

VARIABLES
  dir,      \* the names of the files in the log directory
  canFail,  \* the operations that may fail
  damaged,  \* logs that were written over with zeros
  background,  \* the maintenance was left to a thread of its own
  pc,       \* where each actor is
  ret,      \* where it goes on after recycleLogFile or cleanTheDirtyFile
  path,     \* the file it works on
  stream,   \* the file that cleanTheDirtyFile writes to
  kind,     \* the kind of log doMaintainTombstoneType is at
  todo,     \* the logs it still has to recycle; placeholders a java crash still has to try
  ok,       \* nothing it recycled has failed
  time,     \* the time of the last trace
  serial,   \* the number of the last placeholder
  cleans, dirties, count, tries,  \* the locals of doMaintainPlaceholder
  anr       \* of the last trace: "none", "confirmed", "reported"

files == <<dir, stream>>
calling == <<pc, ret, path>>
trimming == <<kind, todo, ok>>
filling == <<cleans, dirties, count, tries>>
others == <<damaged, background, time, serial, anr>>
dirVars == <<files, canFail, calling, trimming, filling, others>>

Listed(k) == {n \in dir : n.kind = k}

\* Mutant: the comparator is the wrong way round.
ExcessNewest(k) == {n \in Listed(k) :
                      Cardinality({x \in dir : x.kind = k /\ x.id < n.id}) >= MaxOf[k]}

\* The sorted list without its last logCountMax: logs with that many newer ones.
Excess(k) == {n \in Listed(k) :
                Cardinality({x \in dir : x.kind = k /\ x.id > n.id}) >= MaxOf[k]}

InitDir ==
  /\ \E start \in Starts : dir = start.dir /\ canFail = start.canFail
  /\ damaged = {} /\ background = FALSE
  /\ pc = [a \in Actors |-> IF a = "maintainer" THEN "init" ELSE "idle"]
  /\ ret = [a \in Actors |-> "idle"]
  /\ path = [a \in Actors |-> Gone]
  /\ stream = [a \in Actors |-> Gone]
  /\ kind = [a \in Actors |-> "native"]
  /\ todo = [a \in Actors |-> {}]
  /\ ok = [a \in Actors |-> TRUE]
  /\ time = StartTime /\ serial = StartTime
  /\ cleans = {} /\ dirties = {} /\ count = 0 /\ tries = 0
  /\ anr = "none"

-----------------------------------------------------------------------------
(* Operations on the directory.                                            *)

Fails(operation) == operation \in canFail

\* What listFiles gives: these names, or null, which is treated like none where it may occur.
ListedOrNull(names) == {names} \cup (IF Fails("list") THEN {{}} ELSE {})

At(a, place) == pc[a] = place
Goto(a, place) == pc' = [pc EXCEPT ![a] = place]
WorkOn(a, name) == path' = [path EXCEPT ![a] = name]

Unlink(name) ==
  /\ dir' = dir \ {name}
  /\ stream' = [b \in Actors |-> IF stream[b] = name THEN Gone ELSE stream[b]]

\* Replaces what has the new name, and takes the streams along.
Rename(old, new) ==
  /\ old \in dir
  /\ dir' = (dir \ {old}) \cup {new}
  /\ stream' = [b \in Actors |-> IF stream[b] = old THEN new
                                 ELSE IF stream[b] = new THEN Gone ELSE stream[b]]

Fresh(k) == [kind |-> k, id |-> serial + 1]
Numbered == serial < MaxSerial /\ serial' = serial + 1

-----------------------------------------------------------------------------
(* recycleLogFile and cleanTheDirtyFile                                    *)

Return(a, result) == Goto(a, ret[a]) /\ ok' = [ok EXCEPT ![a] = ok[a] /\ result]

Call(a, name, place, back) ==
  /\ WorkOn(a, name) /\ Goto(a, place)
  /\ ret' = [ret EXCEPT ![a] = back]

\* Mutant: the placeholders are not counted.
RecycleUncounted(a) ==
  /\ At(a, "recycle")
  /\ \/ PlaceholderMax > 0 /\ Goto(a, "to_dirty")
     \/ PlaceholderMax = 0 /\ Goto(a, "delete_log")
  /\ UNCHANGED <<files, trimming, filling, others, ret, path>>

Recycle(a) ==
  /\ At(a, "recycle")
  /\ \/ /\ PlaceholderMax > 0 /\ Goto(a, "to_dirty")
        /\ Cardinality(Listed("clean")) < PlaceholderMax \/ Fails("list")
     \/ Cardinality(Listed("clean")) >= PlaceholderMax /\ Goto(a, "delete_log")
  /\ UNCHANGED <<files, trimming, filling, others, ret, path>>

\* The delete that recycleLogFile falls back to, and the one after a failed clean.
DeleteFile(a) ==
  /\ At(a, "delete_log") \/ At(a, "delete_dirty")
  /\ \/ path[a] \in dir /\ Unlink(path[a]) /\ Return(a, At(a, "delete_log"))
     \/ /\ path[a] \notin dir \/ Fails("delete")
        /\ Return(a, FALSE) /\ UNCHANGED files
  /\ UNCHANGED <<filling, others, ret, path, kind, todo>>

ToDirty(a) ==
  /\ At(a, "to_dirty")
  /\ \/ /\ Rename(path[a], Fresh("dirty")) /\ Numbered
        /\ WorkOn(a, Fresh("dirty")) /\ Goto(a, "clean")
     \/ /\ path[a] \notin dir \/ Fails("rename")
        /\ Goto(a, "delete_log") /\ UNCHANGED <<files, serial, path>>
  /\ UNCHANGED <<trimming, filling, damaged, background, ret, time, anr>>

\* A FileOutputStream makes the file when it is not there any more.
OpenDirty(a) ==
  /\ At(a, "clean")
  /\ \/ /\ dir' = dir \cup {path[a]}
        /\ stream' = [stream EXCEPT ![a] = path[a]] /\ Goto(a, "zero")
     \/ Fails("open") /\ Goto(a, "delete_dirty") /\ UNCHANGED files
  /\ UNCHANGED <<trimming, filling, others, ret, path>>

WriteZeros(a) ==
  /\ At(a, "zero")
  /\ \/ Goto(a, "to_clean")
     \/ Fails("write") /\ Goto(a, "delete_dirty")
  /\ damaged' = damaged \cup ({stream[a]} \cap {n \in dir : n.kind \in LogKinds})
  /\ stream' = [stream EXCEPT ![a] = Gone]
  /\ UNCHANGED <<trimming, filling, dir, background, ret, path, time, serial, anr>>

ToClean(a) ==
  /\ At(a, "to_clean")
  /\ \/ Rename(path[a], Fresh("clean")) /\ Numbered /\ Return(a, TRUE)
     \/ /\ path[a] \notin dir \/ Fails("rename")
        /\ Goto(a, "delete_dirty") /\ UNCHANGED <<files, serial, ok>>
  /\ UNCHANGED <<filling, damaged, background, ret, path, kind, todo, time, anr>>

RecycleStep(a) ==
  Recycle(a) \/ DeleteFile(a) \/ ToDirty(a) \/ OpenDirty(a) \/ WriteZeros(a) \/ ToClean(a)

-----------------------------------------------------------------------------
(* doMaintainTombstoneType, for the maintenance and for maintainAnr        *)

ListLogs(a) ==
  /\ At(a, "list")
  /\ \E logs \in ListedOrNull(Excess(kind[a])) : todo' = [todo EXCEPT ![a] = logs]
  /\ Goto(a, "trim")
  /\ UNCHANGED <<files, filling, others, ret, path, kind, ok>>

TrimNext(a) ==
  /\ At(a, "trim")
  /\ \E log \in todo[a] :
       /\ \A other \in todo[a] : log.id <= other.id
       /\ todo' = [todo EXCEPT ![a] = @ \ {log}]
       /\ Call(a, log, "recycle", "trim")
  /\ UNCHANGED <<files, filling, others, kind, ok>>

NextKind(k) == IF k = "native" THEN "java" ELSE IF k = "java" THEN "anr" ELSE "trace"

\* The next kind; after the last, the placeholders.
TrimDone(a) ==
  /\ At(a, "trim") /\ todo[a] = {}
  /\ IF a = "tracer" THEN Goto(a, IF ok[a] THEN "rename_anr" ELSE "idle") /\ UNCHANGED kind
     ELSE IF kind[a] = "trace" THEN Goto(a, "list_clean") /\ UNCHANGED kind
     ELSE Goto(a, "list") /\ kind' = [kind EXCEPT ![a] = NextKind(@)]
  /\ UNCHANGED <<files, filling, others, ret, path, todo, ok>>

TrimStep(a) == ListLogs(a) \/ TrimNext(a) \/ TrimDone(a)

-----------------------------------------------------------------------------
(* initialize, doMaintainPlaceholder                                       *)

\* XCrash.init goes on to the handlers when initialize returns.
Started == background \/ At("maintainer", "done")

LogsWithin(extra) == \A k \in LogKinds : Cardinality(Listed(k)) <= MaxOf[k] + extra

\* Mutant: missing placeholders are all right.
RightWithFewer ==
  LogsWithin(0) /\ Cardinality(Listed("clean")) <= PlaceholderMax /\ Listed("dirty") = {}

EverythingOK ==
  LogsWithin(0) /\ Cardinality(Listed("clean")) = PlaceholderMax /\ Listed("dirty") = {}

\* Nothing to do; too many files, removed before anyone else starts; or some, later.
Initialize ==
  LET a == "maintainer"
      tooMany == \/ ~LogsWithin(Margin)
                 \/ Cardinality(Listed("clean")) > PlaceholderMax + Margin
                 \/ Cardinality(Listed("dirty")) > Margin
  IN  /\ At(a, "init")
      /\ \/ ~EverythingOK /\ Goto(a, "list") /\ background' = ~tooMany
         \/ Fails("list") /\ Goto(a, "list") /\ background' = TRUE
         \/ (EverythingOK \/ Fails("dir")) /\ Goto(a, "done") /\ UNCHANGED background
      /\ UNCHANGED <<files, trimming, filling, damaged, ret, path, time, serial, anr>>

\* The two lists, before and after the files are cleaned; null ends it the first time.
ListPlaceholders ==
  LET a == "maintainer"
  IN  /\ \/ /\ At(a, "list_clean") /\ Goto(a, "list_dirty")
            /\ \/ tries = 0 /\ cleans' = Listed("clean") /\ count' = Cardinality(cleans')
               \/ tries > 0 /\ cleans' \in ListedOrNull(Listed("clean")) /\ UNCHANGED count
            /\ UNCHANGED dirties
         \/ /\ At(a, "list_dirty") /\ UNCHANGED <<cleans, count>>
            /\ \/ tries = 0 /\ Goto(a, "fill") /\ dirties' = Listed("dirty")
               \/ /\ tries > 0 /\ Goto(a, "surplus")
                  /\ dirties' \in ListedOrNull(Listed("dirty"))
         \/ /\ At(a, "list_clean") \/ At(a, "list_dirty")
            /\ Fails("list") /\ tries = 0 /\ Goto(a, "done") /\ UNCHANGED <<cleans, dirties, count>>
      /\ UNCHANGED <<files, trimming, others, ret, path, tries>>

Filling == count < PlaceholderMax /\ tries <= 2 * PlaceholderMax

FillFromDirty ==
  LET a == "maintainer"
  IN  /\ At(a, "fill") /\ Filling
      /\ \E name \in dirties : Call(a, name, "clean", "filled") /\ dirties' = dirties \ {name}
      /\ ok' = [ok EXCEPT ![a] = TRUE]
      /\ UNCHANGED <<files, others, kind, todo, cleans, count, tries>>

FillFromNew ==
  LET a == "maintainer"
  IN  /\ At(a, "fill") /\ Filling /\ dirties = {}
      /\ \/ /\ Numbered /\ dir' = dir \cup {Fresh("dirty")}
            /\ Call(a, Fresh("dirty"), "clean", "filled")
            /\ ok' = [ok EXCEPT ![a] = TRUE]
         \/ /\ Fails("create") /\ Goto(a, "filled") /\ ok' = [ok EXCEPT ![a] = FALSE]
            /\ UNCHANGED <<dir, serial, path, ret>>
      /\ UNCHANGED <<filling, damaged, background, stream, kind, todo, time, anr>>

\* Mutant: the tries are not counted.
FilledUntried ==
  LET a == "maintainer"
  IN  /\ At(a, "filled") /\ Goto(a, "fill")
      /\ count' = IF ok[a] THEN count + 1 ELSE count
      /\ UNCHANGED <<files, trimming, others, ret, path, cleans, dirties, tries>>

Filled ==
  LET a == "maintainer"
  IN  /\ At(a, "filled") /\ Goto(a, "fill")
      /\ count' = IF ok[a] THEN count + 1 ELSE count
      /\ tries' = tries + 1
      /\ UNCHANGED <<files, trimming, others, ret, path, cleans, dirties>>

FillDone ==
  LET a == "maintainer"
  IN  /\ At(a, "fill") /\ ~Filling /\ Goto(a, IF tries > 0 THEN "list_clean" ELSE "surplus")
      /\ UNCHANGED <<files, trimming, filling, others, ret, path>>

\* Deletes whose result nobody looks at.
DeleteOrNot(name) ==
  \/ Unlink(name)
  \/ Fails("delete") /\ UNCHANGED files

DeleteSurplus ==
  LET a == "maintainer"
  IN  /\ At(a, "surplus")
      /\ IF Cardinality(cleans) > PlaceholderMax
           THEN /\ \E name \in cleans : DeleteOrNot(name) /\ cleans' = cleans \ {name}
                /\ UNCHANGED pc
           ELSE Goto(a, "delete_dirties") /\ UNCHANGED <<files, cleans>>
      /\ UNCHANGED <<trimming, others, ret, path, dirties, count, tries>>

DeleteDirties ==
  LET a == "maintainer"
  IN  /\ At(a, "delete_dirties")
      /\ IF dirties # {}
           THEN /\ \E name \in dirties : DeleteOrNot(name) /\ dirties' = dirties \ {name}
                /\ UNCHANGED pc
           ELSE Goto(a, "done") /\ UNCHANGED <<files, dirties>>
      /\ UNCHANGED <<trimming, others, ret, path, cleans, count, tries>>

MaintainStep ==
  \/ Initialize \/ ListPlaceholders \/ FillFromDirty \/ FillFromNew \/ Filled \/ FillDone
  \/ DeleteSurplus \/ DeleteDirties

-----------------------------------------------------------------------------
(* Those who write logs                                                    *)

\* Mutant: the dirty ones as well.
TakeableDirty == Listed("clean") \cup Listed("dirty")

Takeable == Listed("clean")

\* xc_common_open_log: a clean placeholder, or a new file.
OpenLog(name) ==
  \/ \E old \in Takeable : Rename(old, name)
  \/ /\ Takeable = {} \/ Fails("open") \/ Fails("rename")
     /\ dir' = dir \cup {name} /\ UNCHANGED stream

Trace == [kind |-> "trace", id |-> time]

\* xc_trace_logs_clean unlinks the traces of before; when one is left there is no new one.
CleanTraces ==
  LET a == "tracer"
  IN  /\ Started /\ At(a, "idle") /\ time < StartTime + MaxTraces
      /\ time' = time + 1
      /\ \/ \E unlinked \in SUBSET Listed("trace") :
              /\ dir' = dir \ unlinked
              /\ stream' = [b \in Actors |-> IF stream[b] \in unlinked THEN Gone ELSE stream[b]]
              /\ IF unlinked = Listed("trace") THEN Goto(a, "open")
                 ELSE Fails("delete") /\ UNCHANGED pc
         \/ Fails("list") /\ UNCHANGED <<files, pc>>
      /\ anr' = "none"
      /\ UNCHANGED <<trimming, filling, damaged, background, ret, path, serial>>

OpenTrace ==
  LET a == "tracer"
  IN  /\ At(a, "open")
      /\ \/ OpenLog(Trace) /\ (Goto(a, "check") \/ (Fails("open") /\ Goto(a, "idle")))
         \/ Fails("create") /\ Goto(a, "idle") /\ UNCHANGED files
      /\ UNCHANGED <<trimming, filling, others, ret, path>>

\* traceCallback, after it has appended its two sections to the trace.
CheckProcessAnrState ==
  LET a == "tracer"
  IN  /\ At(a, "check")
      /\ \/ Call(a, Trace, "recycle", "idle") /\ UNCHANGED <<kind, ok, anr>>
         \/ /\ anr' = "confirmed" /\ UNCHANGED <<path, ret>>
            /\ \/ /\ Goto(a, "list") /\ kind' = [kind EXCEPT ![a] = "anr"]
                  /\ ok' = [ok EXCEPT ![a] = TRUE]
               \/ Fails("dir") /\ Goto(a, "idle") /\ UNCHANGED <<kind, ok>>
      /\ UNCHANGED <<files, filling, damaged, background, todo, time, serial>>

RenameToAnr ==
  LET a == "tracer"
  IN  /\ At(a, "rename_anr")
      /\ \/ /\ Rename(Trace, [kind |-> "anr", id |-> time]) /\ Goto(a, "idle")
            /\ anr' = "reported" /\ UNCHANGED <<path, ret>>
         \/ /\ Trace \notin dir \/ Fails("rename")
            /\ Call(a, Trace, "recycle", "idle") /\ UNCHANGED <<files, anr>>
      /\ UNCHANGED <<trimming, filling, damaged, background, time, serial>>

TraceStep == CleanTraces \/ OpenTrace \/ CheckProcessAnrState \/ RenameToAnr

\* The log of a native crash is named after the start of the process.
NativeCrash ==
  LET a == "native"
  IN  /\ Started /\ At(a, "idle") /\ Goto(a, "done")
      /\ \/ OpenLog([kind |-> "native", id |-> StartTime])
         \/ Fails("create") /\ UNCHANGED files
      /\ UNCHANGED <<trimming, filling, others, ret, path>>

\* createLogFile of a java crash: the placeholders it lists, then a new file.
JavaLog == [kind |-> "java", id |-> StartTime]

JavaCrash ==
  LET a == "java"
  IN  /\ Started /\ At(a, "idle")
      /\ \/ /\ Goto(a, "take")
            /\ \E names \in ListedOrNull(Takeable) : todo' = [todo EXCEPT ![a] = names]
         \/ Fails("dir") /\ Goto(a, "done") /\ UNCHANGED todo
      /\ UNCHANGED <<files, filling, others, ret, path, kind, ok>>

TakePlaceholder ==
  LET a == "java"
  IN  /\ At(a, "take")
      /\ \E name \in todo[a] :
           /\ todo' = [todo EXCEPT ![a] = @ \ {name}]
           /\ \/ Rename(name, JavaLog) /\ Goto(a, "done")
              \/ /\ name \notin dir \/ Fails("rename")
                 /\ DeleteOrNot(name) /\ UNCHANGED pc
      /\ UNCHANGED <<filling, others, ret, path, kind, ok>>

CreateJavaLog ==
  LET a == "java"
  IN  /\ At(a, "take") /\ todo[a] = {} /\ Goto(a, "done")
      /\ \/ dir' = dir \cup {JavaLog}
         \/ Fails("create") /\ UNCHANGED dir
      /\ UNCHANGED <<trimming, filling, others, ret, path, stream>>

-----------------------------------------------------------------------------
NextDir ==
  /\ \/ \E a \in Actors \cap {"maintainer", "tracer"} : RecycleStep(a) \/ TrimStep(a)
     \/ MaintainStep
     \/ "tracer" \in Actors /\ TraceStep
     \/ "native" \in Actors /\ NativeCrash
     \/ "java" \in Actors /\ (JavaCrash \/ TakePlaceholder \/ CreateJavaLog)
  /\ UNCHANGED canFail

SpecDir == InitDir /\ [][NextDir]_dirVars

\* The system schedules the maintenance thread.
FairSpecDir ==
  /\ SpecDir
  /\ WF_dirVars(/\ RecycleStep("maintainer") \/ TrimStep("maintainer") \/ MaintainStep
                /\ UNCHANGED canFail)

-----------------------------------------------------------------------------
(* Properties                                                              *)

Places ==
  {"init", "idle", "list", "trim", "recycle", "delete_log", "to_dirty", "clean", "zero", "to_clean",
   "delete_dirty", "list_clean", "list_dirty", "fill", "filled", "surplus", "delete_dirties", "done",
   "open", "check", "rename_anr", "take"}

DirTypeOK ==
  /\ dir \subseteq Name /\ IsFiniteSet(dir)
  /\ canFail \subseteq Operations
  /\ damaged \subseteq Name /\ background \in BOOLEAN
  /\ pc \in [Actors -> Places]
  /\ ret \in [Actors -> {"idle", "trim", "filled"}]
  /\ path \in [Actors -> Name \cup {Gone}] /\ stream \in [Actors -> Name \cup {Gone}]
  /\ kind \in [Actors -> LogKinds] /\ todo \in [Actors -> SUBSET Name]
  /\ ok \in [Actors -> BOOLEAN]
  /\ time \in Nat /\ serial \in Nat /\ count \in Nat /\ tries \in Nat
  /\ cleans \subseteq Name /\ dirties \subseteq Name
  /\ anr \in {"none", "confirmed", "reported"}

\* A crash or ANR log goes only when there are as many newer ones of its kind as the user asked
\* for, however the maintenance, the ANR callback and the crashes interleave, and whatever
\* fails.
Store == INSTANCE LogStore WITH store <- {n \in dir : n.kind \in CrashKinds}
ImplementsLogStore == Store!SpecStore

\* "maintain tombstone and placeholder files": when nothing fails and nobody else was about,
\* no kind has more logs than asked for, and there are just as many placeholders, all clean;
\* initialize leaves the maintenance out only then.
Maintained ==
  /\ At("maintainer", "done") /\ time = StartTime /\ canFail = {}
  /\ \A a \in Actors \ {"maintainer"} : At(a, "idle")
  => /\ LogsWithin(0)
     /\ Cardinality(Listed("clean")) = PlaceholderMax /\ Listed("dirty") = {}

\* "Set the maximum number of placeholder files in the log directory": when nobody is at work on
\* them any more none is dirty, and of the clean ones there is at most one too many, made by the
\* ANR callback when it had counted them before, if nothing fails.
PlaceholdersBounded ==
  canFail = {} /\ At("maintainer", "done") /\ ("tracer" \in Actors => At("tracer", "idle")) =>
    Cardinality(Listed("clean")) <= PlaceholderMax + 1 /\ Listed("dirty") = {}

\* "don't try it too many times": the maintenance ends although every call may fail each time.
MaintenanceEnds == <>At("maintainer", "done")

\* "clean the dirty file": the maintenance alone, whatever it interrupts or is interrupted by,
\* never writes zeros over a log.  (With an ANR two clean the same file: the first is done, a crash
\* takes the clean file as its log, and the second still writes to it.)
LogsIntact == damaged # {} => time > StartTime

\* "Set a callback to be executed when an ANR occurred": a confirmed ANR is reported when no
\* file operation fails.
AnrReported == "tracer" \in Actors /\ At("tracer", "idle") => anr # "confirmed"

\* "Set the maximum number of ANR log files": when nobody is at work on them there is at most one
\* too many, the last, for which the oldest were deleted before it was there.
AnrLogsBounded ==
  canFail = {} /\ At("maintainer", "done") /\ ("tracer" \in Actors => At("tracer", "idle")) =>
    Cardinality(Listed("anr")) <= MaxOf["anr"] + 1

\* The directory stays within the limits the application has set, up to the margins above.
DirectoryBounded == PlaceholdersBounded /\ AnrLogsBounded
=============================================================================
