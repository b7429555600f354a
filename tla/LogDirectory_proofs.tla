------------------------- MODULE LogDirectory_proofs -------------------------
(***************************************************************************)
(* Proofs about LogDirectory, for any directory, any maxima and any        *)
(* placeholders: types; that it implements LogStore and writes over no     *)
(* log, whatever fails; and that the maintenance keeps the limits and      *)
(* leaves the directory in order, if nothing does.                         *)
(***************************************************************************)
EXTENDS LogDirectory, FiniteSetTheorems, WellFoundedInduction, TLAPS

-----------------------------------------------------------------------------
(* Types.  An actor that works on a file has its name.                     *)

Working == {"recycle", "delete_log", "to_dirty", "clean", "zero", "to_clean", "delete_dirty"}

PathNamed == \A a \in Actors : pc[a] \in Working => path[a] \in Name

LEMMA NamesOK ==
  ASSUME DirTypeOK
  PROVE  /\ Trace \in Name /\ [kind |-> "anr", id |-> time] \in Name
         /\ Fresh("clean") \in Name /\ Fresh("dirty") \in Name
         /\ JavaLog \in Name /\ [kind |-> "native", id |-> StartTime] \in Name
BY LogDirectoryAssumption DEF DirTypeOK, Trace, Fresh, JavaLog, Name, LogKinds, CrashKinds

LEMMA TypeOfDir ==
  ASSUME DirTypeOK, NEW name \in Name, dir' \subseteq dir \cup {name}
  PROVE  dir' \subseteq Name /\ IsFiniteSet(dir')
<1>1. IsFiniteSet(dir \cup {name})
  BY FS_AddElement DEF DirTypeOK
<1>2. IsFiniteSet(dir')
  BY <1>1, FS_Subset
<1>3. QED
  BY <1>2 DEF DirTypeOK

\* A step renames, makes or unlinks one file; only old traces go together.
LEMMA OneNameMore ==
  ASSUME DirTypeOK, PathNamed, NextDir
  PROVE  \E name \in Name : dir' \subseteq dir \cup {name}
<1>1. ASSUME NEW a \in Actors, RecycleStep(a) \/ TrimStep(a)
      PROVE  \E name \in Name : dir' \subseteq dir \cup {name}
  <2>1. CASE OpenDirty(a)
    <3>1. path[a] \in Name /\ dir' \subseteq dir \cup {path[a]}
      BY <2>1 DEF OpenDirty, At, PathNamed, Working, files
    <3>2. QED
      BY <3>1
  <2>2. CASE ToDirty(a)
    BY <2>2, NamesOK DEF ToDirty, Rename, files
  <2>3. CASE ToClean(a)
    BY <2>3, NamesOK DEF ToClean, Rename, files
  <2>4. CASE DeleteFile(a) \/ WriteZeros(a) \/ Recycle(a) \/ TrimStep(a)
    <3>1. dir' \subseteq dir
      BY <2>4 DEF DeleteFile, Unlink, WriteZeros, Recycle, TrimStep, ListLogs, TrimNext, TrimDone,
             files
    <3>2. QED
      BY <3>1, NamesOK
  <2>5. QED
    BY <1>1, <2>1, <2>2, <2>3, <2>4 DEF RecycleStep
<1>2. CASE MaintainStep
  <2>1. dir' \subseteq dir \cup {Fresh("dirty")}
    BY <1>2 DEF MaintainStep, Initialize, ListPlaceholders, FillFromDirty, FillFromNew, Filled,
           FillDone, DeleteSurplus, DeleteDirties, DeleteOrNot, Unlink, files
  <2>2. QED
    BY <2>1, NamesOK
<1>3. CASE TraceStep
  <2>1. \/ dir' \subseteq dir \cup {Trace}
        \/ dir' \subseteq dir \cup {[kind |-> "anr", id |-> time]}
    BY <1>3 DEF TraceStep, CleanTraces, OpenTrace, CheckProcessAnrState, RenameToAnr, OpenLog,
           Rename, files
  <2>2. QED
    BY <2>1, NamesOK
<1>4. CASE NativeCrash
  <2>1. dir' \subseteq dir \cup {[kind |-> "native", id |-> StartTime]}
    BY <1>4 DEF NativeCrash, OpenLog, Rename, files
  <2>2. QED
    BY <2>1, NamesOK
<1>5. CASE JavaCrash \/ TakePlaceholder \/ CreateJavaLog
  <2>1. dir' \subseteq dir \cup {JavaLog}
    BY <1>5 DEF JavaCrash, TakePlaceholder, CreateJavaLog, Rename, DeleteOrNot, Unlink, files
  <2>2. QED
    BY <2>1, NamesOK
<1>6. QED
  BY <1>1, <1>2, <1>3, <1>4, <1>5 DEF NextDir

LEMMA TypeOfStream ==
  ASSUME DirTypeOK, PathNamed, NextDir
  PROVE  stream' \in [Actors -> Name \cup {Gone}]
<1> USE DEF DirTypeOK
<1>1. ASSUME NEW a \in Actors, RecycleStep(a) \/ TrimStep(a)
      PROVE  stream' \in [Actors -> Name \cup {Gone}]
  <2>1. CASE OpenDirty(a) \/ WriteZeros(a)
    BY <2>1 DEF OpenDirty, WriteZeros, At, PathNamed, Working, files
  <2>2. CASE ToDirty(a) \/ ToClean(a)
    BY <2>2, NamesOK DEF ToDirty, ToClean, Rename, files
  <2>3. CASE DeleteFile(a)
    BY <2>3 DEF DeleteFile, Unlink, files
  <2>4. CASE Recycle(a) \/ TrimStep(a)
    BY <2>4 DEF Recycle, TrimStep, ListLogs, TrimNext, TrimDone, files
  <2>5. QED
    BY <1>1, <2>1, <2>2, <2>3, <2>4 DEF RecycleStep
<1>2. CASE MaintainStep
  BY <1>2 DEF MaintainStep, Initialize, ListPlaceholders, FillFromDirty, FillFromNew, Filled,
         FillDone, DeleteSurplus, DeleteDirties, DeleteOrNot, Unlink, files
<1>3. CASE TraceStep
  BY <1>3, NamesOK DEF TraceStep, CleanTraces, OpenTrace, CheckProcessAnrState, RenameToAnr, OpenLog,
         Rename, files
<1>4. CASE NativeCrash
  BY <1>4, NamesOK DEF NativeCrash, OpenLog, Rename, files
<1>5. CASE JavaCrash \/ TakePlaceholder \/ CreateJavaLog
  BY <1>5, NamesOK DEF JavaCrash, TakePlaceholder, CreateJavaLog, Rename, DeleteOrNot, Unlink, files
<1>6. QED
  BY <1>1, <1>2, <1>3, <1>4, <1>5 DEF NextDir

\* All the actions, for the leaves that look at what a step does to some variables.
LEMMA TypeOfCall ==
  ASSUME DirTypeOK, NextDir
  PROVE  /\ pc' \in [Actors -> Places]
         /\ ret' \in [Actors -> {"idle", "trim", "filled"}]
         /\ path' \in [Actors -> Name \cup {Gone}]
<1> USE DEF DirTypeOK, Goto, Places, Call, WorkOn, Return
<1>1. ASSUME NEW a \in Actors, RecycleStep(a)
      PROVE  /\ pc' \in [Actors -> Places]
             /\ ret' \in [Actors -> {"idle", "trim", "filled"}]
             /\ path' \in [Actors -> Name \cup {Gone}]
  BY <1>1, NamesOK DEF RecycleStep, Recycle, DeleteFile, ToDirty, OpenDirty, WriteZeros, ToClean
<1>2. ASSUME NEW a \in Actors, TrimStep(a)
      PROVE  /\ pc' \in [Actors -> Places]
             /\ ret' \in [Actors -> {"idle", "trim", "filled"}]
             /\ path' \in [Actors -> Name \cup {Gone}]
  BY <1>2 DEF TrimStep, ListLogs, TrimNext, TrimDone
<1>3. CASE MaintainStep
  BY <1>3, NamesOK DEF MaintainStep, Initialize, ListPlaceholders, FillFromDirty, FillFromNew,
         Filled, FillDone, DeleteSurplus, DeleteDirties
<1>4. CASE TraceStep
  BY <1>4, NamesOK DEF TraceStep, CleanTraces, OpenTrace, CheckProcessAnrState, RenameToAnr
<1>5. CASE NativeCrash \/ JavaCrash \/ TakePlaceholder \/ CreateJavaLog
  BY <1>5 DEF NativeCrash, JavaCrash, TakePlaceholder, CreateJavaLog
<1>6. QED
  BY <1>1, <1>2, <1>3, <1>4, <1>5 DEF NextDir

LEMMA PathStaysNamed ==
  ASSUME DirTypeOK, PathNamed, NextDir
  PROVE  PathNamed'
<1> USE DEF DirTypeOK, Goto, At, Call, WorkOn, Return, Working, PathNamed
<1>1. ASSUME NEW a \in Actors, RecycleStep(a)
      PROVE  PathNamed'
  BY <1>1, NamesOK DEF RecycleStep, Recycle, DeleteFile, ToDirty, OpenDirty, WriteZeros, ToClean
<1>2. ASSUME NEW a \in Actors, TrimStep(a)
      PROVE  PathNamed'
  BY <1>2 DEF TrimStep, ListLogs, TrimNext, TrimDone
<1>3. CASE MaintainStep
  BY <1>3, NamesOK DEF MaintainStep, Initialize, ListPlaceholders, FillFromDirty, FillFromNew,
         Filled, FillDone, DeleteSurplus, DeleteDirties
<1>4. CASE TraceStep
  BY <1>4, NamesOK DEF TraceStep, CleanTraces, OpenTrace, CheckProcessAnrState, RenameToAnr
<1>5. CASE NativeCrash \/ JavaCrash \/ TakePlaceholder \/ CreateJavaLog
  BY <1>5 DEF NativeCrash, JavaCrash, TakePlaceholder, CreateJavaLog
<1>6. QED
  BY <1>1, <1>2, <1>3, <1>4, <1>5 DEF NextDir

LEMMA TypeOfTrimming ==
  ASSUME DirTypeOK, NextDir
  PROVE  /\ kind' \in [Actors -> LogKinds] /\ todo' \in [Actors -> SUBSET Name]
         /\ ok' \in [Actors -> BOOLEAN]
<1> USE DEF DirTypeOK, Return, trimming
<1>1. ASSUME NEW a \in Actors, RecycleStep(a)
      PROVE  /\ kind' \in [Actors -> LogKinds] /\ todo' \in [Actors -> SUBSET Name]
             /\ ok' \in [Actors -> BOOLEAN]
  <2>1. UNCHANGED <<kind, todo>>
    BY <1>1 DEF RecycleStep, Recycle, DeleteFile, ToDirty, OpenDirty, WriteZeros, ToClean
  <2>2. ok' \in [Actors -> BOOLEAN]
    BY <1>1 DEF RecycleStep, Recycle, DeleteFile, ToDirty, OpenDirty, WriteZeros, ToClean
  <2>3. QED
    BY <2>1, <2>2
<1>2. ASSUME NEW a \in Actors, TrimStep(a)
      PROVE  /\ kind' \in [Actors -> LogKinds] /\ todo' \in [Actors -> SUBSET Name]
             /\ ok' \in [Actors -> BOOLEAN]
  <2>1. ok' \in [Actors -> BOOLEAN]
    BY <1>2 DEF TrimStep, ListLogs, TrimNext, TrimDone
  <2>2. kind' \in [Actors -> LogKinds]
    BY <1>2 DEF TrimStep, ListLogs, TrimNext, TrimDone, NextKind, LogKinds, CrashKinds
  <2>3. Excess(kind[a]) \subseteq Name
    BY DEF Excess, Listed
  <2>4. todo' \in [Actors -> SUBSET Name]
    BY <1>2, <2>3 DEF ListedOrNull, TrimStep, ListLogs, TrimNext, TrimDone
  <2>5. QED
    BY <2>1, <2>2, <2>4
<1>3. CASE MaintainStep
  BY <1>3 DEF MaintainStep, Initialize, ListPlaceholders, FillFromDirty, FillFromNew,
         Filled, FillDone, DeleteSurplus, DeleteDirties
<1>4. CASE TraceStep
  BY <1>4 DEF TraceStep, CleanTraces, OpenTrace, CheckProcessAnrState, RenameToAnr, LogKinds,
         CrashKinds
<1>5. CASE NativeCrash \/ JavaCrash \/ TakePlaceholder \/ CreateJavaLog
  BY <1>5 DEF ListedOrNull, NativeCrash, JavaCrash, TakePlaceholder, CreateJavaLog, Takeable, Listed
<1>6. QED
  BY <1>1, <1>2, <1>3, <1>4, <1>5 DEF NextDir

LEMMA TypeOfOthers ==
  ASSUME DirTypeOK, NextDir
  PROVE  /\ damaged' \subseteq Name /\ background' \in BOOLEAN
         /\ time' \in Nat /\ serial' \in Nat /\ anr' \in {"none", "confirmed", "reported"}
<1> USE DEF DirTypeOK, others, Numbered
<1>1. ASSUME NEW a \in Actors, RecycleStep(a) \/ TrimStep(a)
      PROVE  damaged' \subseteq Name /\ serial' \in Nat /\ UNCHANGED <<background, time, anr>>
  <2> USE DEF RecycleStep, Recycle, DeleteFile, ToDirty, OpenDirty, WriteZeros, ToClean, TrimStep,
          ListLogs, TrimNext, TrimDone
  <2>1. damaged' \subseteq Name
    BY <1>1
  <2>2. serial' \in Nat
    <3> HIDE DEF Numbered, DirTypeOK, Return
    <3>1. serial' = serial \/ Numbered
      BY <1>1
    <3>2. QED
      BY <3>1 DEF Numbered, DirTypeOK
  <2>3. UNCHANGED <<background, time, anr>>
    BY <1>1
  <2> HIDE DEF RecycleStep, TrimStep
  <2>4. QED
    BY <2>1, <2>2, <2>3
<1>2. CASE MaintainStep
  <2>1. /\ damaged' = damaged /\ time' = time /\ serial' \in Nat /\ anr' = anr
    BY <1>2 DEF MaintainStep, Initialize, ListPlaceholders, FillFromDirty, FillFromNew,
           Filled, FillDone, DeleteSurplus, DeleteDirties
  <2>2. background' \in BOOLEAN
    BY <1>2 DEF MaintainStep, Initialize, ListPlaceholders, FillFromDirty, FillFromNew,
           Filled, FillDone, DeleteSurplus, DeleteDirties
  <2>3. QED
    BY <2>1, <2>2
<1>3. CASE TraceStep
  <2>1. /\ damaged' = damaged /\ background' = background /\ time' \in Nat /\ serial' = serial
        /\ anr' \in {"none", "confirmed", "reported"}
    BY <1>3 DEF TraceStep, CleanTraces, OpenTrace, CheckProcessAnrState, RenameToAnr
  <2>2. QED
    BY <2>1
<1>4. CASE NativeCrash \/ JavaCrash \/ TakePlaceholder \/ CreateJavaLog
  <2>1. UNCHANGED others
    BY <1>4 DEF NativeCrash, JavaCrash, TakePlaceholder, CreateJavaLog
  <2>2. QED
    BY <2>1
<1>5. QED
  BY <1>1, <1>2, <1>3, <1>4 DEF NextDir

LEMMA TypeOfFilling ==
  ASSUME DirTypeOK, NextDir
  PROVE  /\ cleans' \subseteq Name /\ dirties' \subseteq Name
         /\ count' \in Nat /\ tries' \in Nat
<1> USE DEF DirTypeOK, filling
<1>1. ASSUME NEW a \in Actors, RecycleStep(a) \/ TrimStep(a)
      PROVE  UNCHANGED filling
  BY <1>1 DEF RecycleStep, Recycle, DeleteFile, ToDirty, OpenDirty, WriteZeros, ToClean, TrimStep,
         ListLogs, TrimNext, TrimDone
<1>2. CASE ListPlaceholders
  <2>1. Listed("clean") \subseteq Name /\ Cardinality(Listed("clean")) \in Nat
    BY FS_Subset, FS_CardinalityType DEF Listed
  <2>2. QED
    BY <1>2, <2>1 DEF ListedOrNull, ListPlaceholders, Listed
<1>3. CASE MaintainStep /\ ~ListPlaceholders
  BY <1>3 DEF MaintainStep, Initialize, FillFromDirty, FillFromNew, Filled, FillDone, DeleteSurplus,
         DeleteDirties
<1>4. CASE TraceStep
  BY <1>4 DEF TraceStep, CleanTraces, OpenTrace, CheckProcessAnrState, RenameToAnr
<1>5. CASE NativeCrash \/ JavaCrash \/ TakePlaceholder \/ CreateJavaLog
  BY <1>5 DEF NativeCrash, JavaCrash, TakePlaceholder, CreateJavaLog
<1>6. QED
  BY <1>1, <1>2, <1>3, <1>4, <1>5 DEF NextDir, MaintainStep

DirTypes == DirTypeOK /\ PathNamed

LEMMA DirTypesInductive ==
  ASSUME DirTypes, [NextDir]_dirVars
  PROVE  DirTypes'
<1>1. CASE NextDir
  <2>1. dir' \subseteq Name /\ IsFiniteSet(dir')
    BY <1>1, OneNameMore, TypeOfDir DEF DirTypes
  <2>2. PathNamed' /\ stream' \in [Actors -> Name \cup {Gone}]
    BY <1>1, PathStaysNamed, TypeOfStream DEF DirTypes
  <2>3. canFail' = canFail
    BY <1>1 DEF NextDir
  <2>4. DirTypeOK'
    BY <1>1, <2>1, <2>2, <2>3, TypeOfCall, TypeOfTrimming, TypeOfOthers, TypeOfFilling
       DEF DirTypes, DirTypeOK
  <2>5. QED
    BY <2>2, <2>4 DEF DirTypes
<1>2. CASE UNCHANGED dirVars
  BY <1>2 DEF DirTypes, DirTypeOK, PathNamed, dirVars, files, calling, trimming, filling, others
<1>3. QED
  BY <1>1, <1>2

LEMMA DirTypesInitial ==
  ASSUME InitDir
  PROVE  DirTypes
<1>1. dir \subseteq Name /\ IsFiniteSet(dir)
  BY LogDirectoryAssumption DEF InitDir
<1>2. QED
  BY <1>1, LogDirectoryAssumption DEF InitDir, DirTypes, DirTypeOK, PathNamed, Working, Places,
       LogKinds, CrashKinds

\* Type correctness, the finiteness of the directory included.
THEOREM DirTypeCorrect == SpecDir => []DirTypeOK
<1>1. DirTypes => DirTypeOK
  BY DEF DirTypes
<1>2. QED
  BY <1>1, DirTypesInitial, DirTypesInductive, PTL DEF SpecDir

-----------------------------------------------------------------------------
(* The store.  Once a log has enough newer ones it keeps them: whatever    *)
(* drops one of those drops a log with enough newer ones itself.           *)

Logs == {n \in dir : n.kind \in CrashKinds}

Enough(logs, log) == log.kind \in CrashKinds => Store!Superseded(logs, log)

Added(log) ==
  /\ \A x \in Logs : x.kind = log.kind => x.id < log.id
  /\ Logs' = Logs \cup {log}

Dropped(log) ==
  /\ log \in Logs /\ Enough(Logs, log)
  /\ Logs' = Logs \ {log}

StoreStep == Logs' = Logs \/ (\E log \in Logs' : Added(log)) \/ (\E log \in Logs : Dropped(log))

LEMMA SameCardinality == \A S : Store!Cardinality(S) = Cardinality(S)
BY DEF Store!Cardinality, Cardinality

LEMMA SameFinite == \A S : Store!IsFiniteSet(S) <=> IsFiniteSet(S)
BY DEF Store!IsFiniteSet, IsFiniteSet

LEMMA EnoughMeans ==
  ASSUME NEW log, log.kind \in CrashKinds
  PROVE  /\ Enough(Logs, log) <=> Cardinality(Store!Newer(Logs, log)) >= MaxOf[log.kind]
         /\ Enough(Logs', log) <=> Cardinality(Store!Newer(Logs', log)) >= MaxOf[log.kind]
BY SameCardinality DEF Enough, Store!Superseded, Store!Newer

LEMMA LogsFinite ==
  ASSUME DirTypeOK
  PROVE  IsFiniteSet(Logs) /\ Logs \subseteq Name
BY FS_Subset DEF DirTypeOK, Logs

LEMMA LogsFiniteNext ==
  ASSUME DirTypeOK'
  PROVE  IsFiniteSet(Logs') /\ Logs' \subseteq Name
BY FS_Subset DEF DirTypeOK, Logs

LEMMA MoreNewer ==
  ASSUME NEW few, NEW many, IsFiniteSet(many), few \subseteq many,
         NEW max \in Nat, Cardinality(few) >= max
  PROVE  Cardinality(many) >= max
<1>1. IsFiniteSet(few) /\ Cardinality(few) <= Cardinality(many)
  BY FS_Subset
<1>2. Cardinality(few) \in Nat /\ Cardinality(many) \in Nat
  BY <1>1, FS_CardinalityType
<1>3. QED
  BY <1>1, <1>2

LEMMA EnoughStays ==
  ASSUME DirTypeOK, DirTypeOK', StoreStep, NEW log \in Name, Enough(Logs, log)
  PROVE  Enough(Logs', log)
<1> SUFFICES ASSUME log.kind \in CrashKinds
             PROVE  Cardinality(Store!Newer(Logs', log)) >= MaxOf[log.kind]
  BY EnoughMeans DEF Enough
<1>1. Cardinality(Store!Newer(Logs, log)) >= MaxOf[log.kind]
  BY EnoughMeans
<1>2. MaxOf[log.kind] \in Nat
  BY LogDirectoryAssumption DEF LogKinds
<1>3. IsFiniteSet(Store!Newer(Logs', log))
  BY LogsFiniteNext, FS_Subset DEF Store!Newer
<1>4. CASE Logs \subseteq Logs'
  <2>1. Store!Newer(Logs, log) \subseteq Store!Newer(Logs', log)
    BY <1>4 DEF Store!Newer
  <2>2. QED
    BY <1>1, <1>2, <1>3, <2>1, MoreNewer
<1>5. ASSUME NEW x \in Logs, Dropped(x)
      PROVE  Cardinality(Store!Newer(Logs', log)) >= MaxOf[log.kind]
  <2>1. CASE x \notin Store!Newer(Logs, log)
    <3>1. Store!Newer(Logs, log) \subseteq Store!Newer(Logs', log)
      BY <1>5, <2>1 DEF Store!Newer, Dropped
    <3>2. QED
      BY <1>1, <1>2, <1>3, <3>1, MoreNewer
  <2>2. CASE x \in Store!Newer(Logs, log)
    <3>1. x.kind = log.kind /\ x.id > log.id /\ x \in Name
      BY <2>2, LogsFinite DEF Store!Newer
    <3>2. Cardinality(Store!Newer(Logs, x)) >= MaxOf[log.kind]
      BY <1>5, <3>1, EnoughMeans DEF Dropped
    <3>3. Store!Newer(Logs, x) \subseteq Store!Newer(Logs', log)
      <4>1. \A y \in Store!Newer(Logs, x) : y \in Logs /\ y # x /\ y.kind = log.kind /\ y.id > log.id
        <5> SUFFICES ASSUME NEW y \in Store!Newer(Logs, x)
                     PROVE  y \in Logs /\ y # x /\ y.kind = log.kind /\ y.id > log.id
          OBVIOUS
        <5>1. y \in Logs /\ y.kind = x.kind /\ y.id > x.id
          BY DEF Store!Newer
        <5>2. y.id \in Nat /\ x.id \in Nat /\ log.id \in Nat
          BY <3>1, <5>1, LogsFinite DEF Name
        <5>3. QED
          BY <3>1, <5>1, <5>2
      <4>2. QED
        BY <1>5, <4>1 DEF Store!Newer, Dropped
    <3>4. QED
      BY <1>2, <1>3, <3>2, <3>3, MoreNewer
  <2>3. QED
    BY <2>1, <2>2
<1>6. QED
  BY <1>4, <1>5 DEF StoreStep, Added

LEMMA ExcessEnough ==
  ASSUME DirTypeOK, NEW k \in LogKinds, NEW log \in Excess(k)
  PROVE  Enough(Logs, log)
<1> SUFFICES ASSUME log.kind \in CrashKinds
             PROVE  Cardinality(Store!Newer(Logs, log)) >= MaxOf[log.kind]
  BY EnoughMeans DEF Enough
<1>1. log.kind = k /\ Cardinality({x \in dir : x.kind = k /\ x.id > log.id}) >= MaxOf[k]
  BY DEF Excess, Listed
<1>2. {x \in dir : x.kind = k /\ x.id > log.id} = Store!Newer(Logs, log)
  BY <1>1 DEF Store!Newer, Logs
<1>3. QED
  BY <1>1, <1>2

-----------------------------------------------------------------------------
(* The invariant: what is being recycled or still to be recycled has       *)
(* enough newer ones, what is overwritten or deleted as a placeholder has  *)
(* a placeholder's name, and a log that is still to come is newer than all *)
(* there are of its kind.                                                  *)

PathEnough ==
  \A a \in Actors : pc[a] \in {"recycle", "delete_log", "to_dirty"} => Enough(Logs, path[a])

TodoEnough == \A a \in Actors : \A x \in todo[a] : Enough(Logs, x)

PathDirty ==
  \A a \in Actors :
    pc[a] \in {"clean", "zero", "to_clean", "delete_dirty"} => path[a].kind = "dirty"

ListsKinds ==
  /\ "java" \in Actors => \A x \in todo["java"] : x.kind = "clean"
  /\ \A x \in cleans : x.kind = "clean"
  /\ \A x \in dirties : x.kind = "dirty"

NewestYet ==
  /\ "native" \in Actors /\ pc["native"] = "idle" =>
       \A x \in Logs : x.kind = "native" => x.id < StartTime
  /\ "java" \in Actors /\ pc["java"] # "done" =>
       \A x \in Logs : x.kind = "java" => x.id < StartTime
  /\ \A x \in Logs : x.kind = "anr" => x.id <= time
  /\ "tracer" \in Actors /\ pc["tracer"] # "idle" =>
       \A x \in Logs : x.kind = "anr" => x.id < time

StoreInv == PathEnough /\ TodoEnough /\ PathDirty /\ ListsKinds /\ NewestYet

LEMMA KindsDiffer ==
  /\ LogKinds = {"native", "java", "anr", "trace"} /\ CrashKinds = {"native", "java", "anr"}
  /\ "dirty" \notin CrashKinds /\ "clean" \notin CrashKinds /\ "trace" \notin CrashKinds
  /\ Trace.kind = "trace" /\ Fresh("dirty").kind = "dirty" /\ Fresh("clean").kind = "clean"
BY DEF LogKinds, CrashKinds, Trace, Fresh

\* Recycling drops a log that has enough newer ones, or none.
LEMMA RecycleDrops ==
  ASSUME DirTypes, StoreInv, NEW a \in Actors, RecycleStep(a)
  PROVE  Logs' = Logs \/ \E log \in Logs : Dropped(log)
<1>1. CASE Recycle(a) \/ WriteZeros(a)
  BY <1>1 DEF Recycle, WriteZeros, Logs, files
<1>2. CASE OpenDirty(a) \/ ToClean(a)
  <2>1. path[a].kind = "dirty"
    BY <1>2 DEF OpenDirty, ToClean, At, StoreInv, PathDirty
  <2>2. QED
    BY <1>2, <2>1, KindsDiffer DEF OpenDirty, ToClean, Rename, Logs, files
<1>3. CASE DeleteFile(a) /\ At(a, "delete_dirty")
  <2>1. path[a].kind = "dirty"
    BY <1>3 DEF At, StoreInv, PathDirty
  <2>2. QED
    BY <1>3, <2>1, KindsDiffer DEF DeleteFile, Unlink, Logs, files
<1>4. CASE ToDirty(a) \/ (DeleteFile(a) /\ At(a, "delete_log"))
  <2>1. Enough(Logs, path[a])
    BY <1>4 DEF ToDirty, At, StoreInv, PathEnough
  <2>2. dir' = dir \/ dir' = dir \ {path[a]} \/ dir' = (dir \ {path[a]}) \cup {Fresh("dirty")}
    BY <1>4 DEF ToDirty, DeleteFile, Unlink, Rename, files
  <2>3. Logs' = Logs \/ (path[a] \in Logs /\ Logs' = Logs \ {path[a]})
    BY <2>2, KindsDiffer DEF Logs
  <2>4. QED
    BY <2>1, <2>3 DEF Dropped
<1>5. QED
  BY <1>1, <1>2, <1>3, <1>4 DEF RecycleStep, DeleteFile

\* The maintenance itself only touches placeholders.
LEMMA MaintainKeeps ==
  ASSUME DirTypes, StoreInv, MaintainStep
  PROVE  Logs' = Logs
<1>1. CASE FillFromNew
  BY <1>1, KindsDiffer DEF FillFromNew, Logs, files
<1>2. CASE DeleteSurplus \/ DeleteDirties
  <2>1. dir' = dir \/ \E name \in cleans \cup dirties : dir' = dir \ {name}
    BY <1>2 DEF DeleteSurplus, DeleteDirties, DeleteOrNot, Unlink, files
  <2>2. QED
    BY <2>1, KindsDiffer DEF Logs, StoreInv, ListsKinds
<1>3. CASE Initialize \/ ListPlaceholders \/ FillFromDirty \/ Filled \/ FillDone
  BY <1>3 DEF Initialize, ListPlaceholders, FillFromDirty, Filled, FillDone, Logs, files
<1>4. QED
  BY <1>1, <1>2, <1>3 DEF MaintainStep

\* The log a step of those who write logs adds.
NewLog(log) == Logs' = Logs \cup {log}

LEMMA TakesPlaceholder ==
  ASSUME NEW log \in Name, OpenLog(log)
  PROVE  Logs' = IF log.kind \in CrashKinds THEN Logs \cup {log} ELSE Logs
BY KindsDiffer DEF OpenLog, Takeable, Listed, Rename, Logs

LEMMA TraceKeepsOrAdds ==
  ASSUME DirTypes, StoreInv, TraceStep
  PROVE  \/ Logs' = Logs
         \/ /\ RenameToAnr /\ NewLog([kind |-> "anr", id |-> time])
            /\ pc' = [pc EXCEPT !["tracer"] = "idle"] /\ time' = time
<1>1. CASE CleanTraces
  BY <1>1, KindsDiffer DEF CleanTraces, Listed, Logs, files
<1>2. CASE OpenTrace
  BY <1>2, KindsDiffer, NamesOK, TakesPlaceholder DEF OpenTrace, Logs, files, DirTypes
<1>3. CASE CheckProcessAnrState
  BY <1>3 DEF CheckProcessAnrState, Logs, files
<1>4. CASE RenameToAnr
  BY <1>4, KindsDiffer DEF RenameToAnr, Rename, Goto, NewLog, Logs, files
<1>5. QED
  BY <1>1, <1>2, <1>3, <1>4 DEF TraceStep

LEMMA NativeKeepsOrAdds ==
  ASSUME DirTypes, NativeCrash
  PROVE  /\ Logs' = Logs \/ NewLog([kind |-> "native", id |-> StartTime])
         /\ time' = time
         /\ pc["native"] = "idle" /\ pc' = [pc EXCEPT !["native"] = "done"]
<1>1. Logs' = Logs \/ NewLog([kind |-> "native", id |-> StartTime])
  BY KindsDiffer, NamesOK, TakesPlaceholder DEF NativeCrash, NewLog, DirTypes, files, Logs
<1>2. QED
  BY <1>1 DEF NativeCrash, At, Goto, others

LEMMA JavaKeepsOrAdds ==
  ASSUME DirTypes, StoreInv, "java" \in Actors, JavaCrash \/ TakePlaceholder \/ CreateJavaLog
  PROVE  /\ time' = time /\ pc["java"] # "done"
         /\ \/ Logs' = Logs
            \/ NewLog(JavaLog) /\ pc' = [pc EXCEPT !["java"] = "done"]
<1>1. time' = time /\ pc["java"] # "done"
  BY DEF JavaCrash, TakePlaceholder, CreateJavaLog, At, others
<1>2. CASE JavaCrash
  BY <1>1, <1>2 DEF JavaCrash, Logs, files
<1>3. CASE TakePlaceholder
  <2>1. \A name \in todo["java"] : name.kind = "clean"
    BY DEF StoreInv, ListsKinds
  <2>2. QED
    BY <1>1, <1>3, <2>1, KindsDiffer
       DEF TakePlaceholder, Rename, DeleteOrNot, Unlink, Goto, NewLog, JavaLog, Logs, files
<1>4. CASE CreateJavaLog
  BY <1>1, <1>4, KindsDiffer DEF CreateJavaLog, Goto, NewLog, JavaLog, Logs
<1>5. QED
  BY <1>2, <1>3, <1>4

LEMMA StepOfStore ==
  ASSUME DirTypes, StoreInv, NextDir
  PROVE  StoreStep
<1>1. ASSUME NEW a \in Actors, RecycleStep(a) \/ TrimStep(a)
      PROVE  StoreStep
  <2>1. CASE RecycleStep(a)
    BY <2>1, RecycleDrops DEF StoreStep
  <2>2. CASE TrimStep(a)
    BY <2>2 DEF TrimStep, ListLogs, TrimNext, TrimDone, Logs, files, StoreStep
  <2>3. QED
    BY <1>1, <2>1, <2>2
<1>2. CASE MaintainStep
  BY <1>2, MaintainKeeps DEF StoreStep
<1>3. CASE "tracer" \in Actors /\ TraceStep
  <2> DEFINE log == [kind |-> "anr", id |-> time]
  <2>1. ASSUME RenameToAnr, NewLog(log)
        PROVE  Added(log) /\ log \in Logs'
    BY <1>3, <2>1 DEF RenameToAnr, At, StoreInv, NewestYet, Added, NewLog
  <2>2. QED
    BY <1>3, <2>1, TraceKeepsOrAdds DEF StoreStep
<1>4. CASE "native" \in Actors /\ NativeCrash
  <2> DEFINE log == [kind |-> "native", id |-> StartTime]
  <2>1. ASSUME NewLog(log)
        PROVE  Added(log) /\ log \in Logs'
    BY <1>4, <2>1, NativeKeepsOrAdds DEF StoreInv, NewestYet, Added, NewLog
  <2>2. QED
    BY <1>4, <2>1, NativeKeepsOrAdds DEF StoreStep
<1>5. CASE "java" \in Actors /\ (JavaCrash \/ TakePlaceholder \/ CreateJavaLog)
  <2>1. ASSUME NewLog(JavaLog)
        PROVE  Added(JavaLog) /\ JavaLog \in Logs'
    BY <1>5, <2>1, JavaKeepsOrAdds DEF StoreInv, NewestYet, Added, NewLog, JavaLog
  <2>2. QED
    BY <1>5, <2>1, JavaKeepsOrAdds DEF StoreStep
<1>6. QED
  BY <1>1, <1>2, <1>3, <1>4, <1>5 DEF NextDir

LEMMA PathOfStep ==
  ASSUME DirTypes, StoreInv, NextDir, NEW a \in Actors
  PROVE  /\ pc'[a] \in {"recycle", "delete_log", "to_dirty"} => Enough(Logs, path'[a])
         /\ pc'[a] \in {"clean", "zero", "to_clean", "delete_dirty"} => path'[a].kind = "dirty"
<1> USE DEF DirTypes, DirTypeOK, Goto, At, Call, WorkOn, Return, StoreInv, PathEnough, PathDirty
<1>1. ASSUME NEW b \in Actors, RecycleStep(b)
      PROVE  /\ pc'[a] \in {"recycle", "delete_log", "to_dirty"} => Enough(Logs, path'[a])
             /\ pc'[a] \in {"clean", "zero", "to_clean", "delete_dirty"} => path'[a].kind = "dirty"
  BY <1>1, KindsDiffer
     DEF RecycleStep, Recycle, DeleteFile, ToDirty, OpenDirty, WriteZeros, ToClean
<1>2. ASSUME NEW b \in Actors, TrimStep(b)
      PROVE  /\ pc'[a] \in {"recycle", "delete_log", "to_dirty"} => Enough(Logs, path'[a])
             /\ pc'[a] \in {"clean", "zero", "to_clean", "delete_dirty"} => path'[a].kind = "dirty"
  BY <1>2 DEF TrimStep, ListLogs, TrimNext, TrimDone, TodoEnough
<1>3. CASE MaintainStep
  BY <1>3, KindsDiffer DEF MaintainStep, Initialize, ListPlaceholders, FillFromDirty, FillFromNew,
         Filled, FillDone, DeleteSurplus, DeleteDirties, ListsKinds
<1>4. CASE TraceStep
  <2>1. Enough(Logs, Trace)
    BY KindsDiffer DEF Enough
  <2>2. QED
    BY <1>4, <2>1 DEF TraceStep, CleanTraces, OpenTrace, CheckProcessAnrState, RenameToAnr
<1>5. CASE NativeCrash \/ JavaCrash \/ TakePlaceholder \/ CreateJavaLog
  BY <1>5 DEF NativeCrash, JavaCrash, TakePlaceholder, CreateJavaLog
<1>6. QED
  BY <1>1, <1>2, <1>3, <1>4, <1>5 DEF NextDir

LEMMA TodoOfStep ==
  ASSUME DirTypes, StoreInv, NextDir, NEW a \in Actors, NEW x \in todo'[a]
  PROVE  Enough(Logs, x) /\ (a = "java" => x.kind = "clean")
<1> USE DEF DirTypes, DirTypeOK, StoreInv, TodoEnough, ListsKinds
<1>1. CASE x \in todo[a]
  BY <1>1
<1>2. ASSUME NEW b \in Actors \cap {"maintainer", "tracer"}, TrimStep(b), x \notin todo[a]
      PROVE  Enough(Logs, x) /\ a # "java"
  <2>1. a = b /\ x \in Excess(kind[b])
    BY <1>2 DEF ListedOrNull, TrimStep, ListLogs, TrimNext, TrimDone
  <2>2. kind[b] \in LogKinds
    OBVIOUS
  <2>3. QED
    BY <2>1, <2>2, ExcessEnough
<1>3. ASSUME JavaCrash \/ TakePlaceholder, x \notin todo[a]
      PROVE  Enough(Logs, x) /\ x.kind = "clean"
  <2>1. x \in Takeable
    BY <1>3 DEF ListedOrNull, JavaCrash, TakePlaceholder
  <2>2. QED
    BY <2>1, KindsDiffer DEF Takeable, Listed, Enough
<1>4. ASSUME NEW b \in Actors, RecycleStep(b)
      PROVE  todo' = todo
  BY <1>4 DEF RecycleStep, Recycle, DeleteFile, ToDirty, OpenDirty, WriteZeros, ToClean, trimming
<1>5. CASE MaintainStep
  BY <1>1, <1>5 DEF MaintainStep, Initialize, ListPlaceholders, FillFromDirty, FillFromNew,
         Filled, FillDone, DeleteSurplus, DeleteDirties, trimming
<1>6. CASE TraceStep
  BY <1>1, <1>6 DEF TraceStep, CleanTraces, OpenTrace, CheckProcessAnrState, RenameToAnr, trimming
<1>7. CASE NativeCrash \/ CreateJavaLog
  BY <1>1, <1>7 DEF NativeCrash, CreateJavaLog, trimming
<1>8. QED
  BY <1>1, <1>2, <1>3, <1>4, <1>5, <1>6, <1>7 DEF NextDir

LEMMA ListsOfStep ==
  ASSUME DirTypes, StoreInv, NextDir
  PROVE  (\A x \in cleans' : x.kind = "clean") /\ (\A x \in dirties' : x.kind = "dirty")
<1> USE DEF StoreInv, ListsKinds, filling
<1>1. ASSUME NEW a \in Actors, RecycleStep(a) \/ TrimStep(a)
      PROVE  UNCHANGED filling
  BY <1>1 DEF RecycleStep, Recycle, DeleteFile, ToDirty, OpenDirty, WriteZeros, ToClean, TrimStep,
         ListLogs, TrimNext, TrimDone
<1>2. CASE MaintainStep
  BY <1>2 DEF MaintainStep, Initialize, ListPlaceholders, FillFromDirty, FillFromNew, Filled,
         FillDone, DeleteSurplus, DeleteDirties, Listed, ListedOrNull
<1>3. CASE TraceStep
  BY <1>3 DEF TraceStep, CleanTraces, OpenTrace, CheckProcessAnrState, RenameToAnr
<1>4. CASE NativeCrash \/ JavaCrash \/ TakePlaceholder \/ CreateJavaLog
  BY <1>4 DEF NativeCrash, JavaCrash, TakePlaceholder, CreateJavaLog
<1>5. QED
  BY <1>1, <1>2, <1>3, <1>4 DEF NextDir

\* Who does not write a log moves neither the clock nor the writers.
LEMMA WritersWait ==
  ASSUME DirTypes, NEW a \in Actors,
         \/ a \in {"maintainer", "tracer"} /\ (RecycleStep(a) \/ TrimStep(a))
         \/ a = "maintainer" /\ MaintainStep
  PROVE  /\ time' = time
         /\ \A b \in Actors \ {a} : pc'[b] = pc[b]
         /\ a = "tracer" => pc[a] # "idle"
<1> USE DEF DirTypes, DirTypeOK, Goto, At, Call, Return, others
<1>1. CASE RecycleStep(a)
  BY <1>1 DEF RecycleStep, Recycle, DeleteFile, ToDirty, OpenDirty, WriteZeros, ToClean
<1>2. CASE TrimStep(a)
  BY <1>2 DEF TrimStep, ListLogs, TrimNext, TrimDone
<1>3. CASE a = "maintainer" /\ MaintainStep
  BY <1>3 DEF MaintainStep, Initialize, ListPlaceholders, FillFromDirty, FillFromNew, Filled,
         FillDone, DeleteSurplus, DeleteDirties
<1>4. QED
  BY <1>1, <1>2, <1>3

LEMMA NewestStays ==
  ASSUME DirTypes, StoreInv, NextDir
  PROVE  NewestYet'
<1> USE DEF NewestYet
<1>0. NewestYet /\ Logs \subseteq Name /\ time \in Nat
  BY LogsFinite DEF StoreInv, DirTypes, DirTypeOK
<1>1. ASSUME NEW a \in Actors \cap {"maintainer", "tracer"}, RecycleStep(a) \/ TrimStep(a)
      PROVE  NewestYet'
  <2>1. Logs' \subseteq Logs
    BY <1>1, RecycleDrops
       DEF Dropped, TrimStep, ListLogs, TrimNext, TrimDone, Logs, files
  <2>2. QED
    BY <1>0, <1>1, <2>1, WritersWait
<1>2. CASE MaintainStep
  BY <1>0, <1>2, MaintainKeeps, WritersWait, LogDirectoryAssumption
<1>3. CASE "tracer" \in Actors /\ TraceStep
  <2>1. \A b \in Actors \ {"tracer"} : pc'[b] = pc[b]
    BY <1>3 DEF TraceStep, CleanTraces, OpenTrace, CheckProcessAnrState, RenameToAnr, Goto, Call,
           DirTypes, DirTypeOK
  <2>2. CASE CleanTraces
    <3>1. time' = time + 1 /\ Logs' = Logs
      BY <2>2, KindsDiffer DEF CleanTraces, Listed, Logs, files
    <3>2. \A x \in Logs : x.id \in Nat
      BY <1>0 DEF Name
    <3>3. \A x \in Logs : x.kind = "anr" => x.id < time'
      BY <1>0, <3>1, <3>2
    <3>4. \A x \in Logs : x.kind = "anr" => x.id <= time'
      BY <1>0, <3>1, <3>2
    <3>5. QED
      BY <1>0, <2>1, <3>1, <3>3, <3>4
  <2>3. CASE RenameToAnr /\ NewLog([kind |-> "anr", id |-> time]) /\ time' = time
             /\ pc' = [pc EXCEPT !["tracer"] = "idle"]
    BY <1>0, <1>3, <2>1, <2>3 DEF NewLog, DirTypes, DirTypeOK
  <2>4. CASE Logs' = Logs /\ ~CleanTraces
    <3>1. time' = time /\ pc["tracer"] # "idle"
      BY <1>3, <2>4 DEF TraceStep, OpenTrace, CheckProcessAnrState, RenameToAnr, At, others
    <3>2. QED
      BY <1>0, <1>3, <2>1, <2>4, <3>1
  <2>5. QED
    BY <1>3, <2>2, <2>3, <2>4, TraceKeepsOrAdds
<1>4. CASE "native" \in Actors /\ NativeCrash
  BY <1>0, <1>4, NativeKeepsOrAdds DEF NewLog, DirTypes, DirTypeOK
<1>5. CASE "java" \in Actors /\ (JavaCrash \/ TakePlaceholder \/ CreateJavaLog)
  <2>1. \A b \in Actors \ {"java"} : pc'[b] = pc[b]
    BY <1>5 DEF JavaCrash, TakePlaceholder, CreateJavaLog, Goto, DirTypes, DirTypeOK
  <2>2. QED
    BY <1>0, <1>5, <2>1, JavaKeepsOrAdds DEF NewLog, JavaLog, DirTypes, DirTypeOK
<1>6. QED
  BY <1>1, <1>2, <1>3, <1>4, <1>5 DEF NextDir

LEMMA StoreInvStays ==
  ASSUME DirTypes, DirTypes', StoreInv, NextDir
  PROVE  StoreInv'
<1>1. \A x \in Name : Enough(Logs, x) => Enough(Logs', x)
  BY StepOfStore, EnoughStays DEF DirTypes
<1>2. PathEnough'
  <2> SUFFICES ASSUME NEW a \in Actors, pc'[a] \in {"recycle", "delete_log", "to_dirty"}
               PROVE  Enough(Logs', path'[a])
    BY DEF PathEnough
  <2>1. path'[a] \in Name
    BY DEF DirTypes, PathNamed, Working
  <2>2. QED
    BY <1>1, <2>1, PathOfStep
<1>3. PathDirty'
  BY PathOfStep DEF PathDirty
<1>4. TodoEnough'
  <2> SUFFICES ASSUME NEW a \in Actors, NEW x \in todo'[a]
               PROVE  Enough(Logs', x)
    BY DEF TodoEnough
  <2>1. x \in Name
    BY DEF DirTypes, DirTypeOK
  <2>2. QED
    BY <1>1, <2>1, TodoOfStep
<1>5. ListsKinds'
  BY TodoOfStep, ListsOfStep DEF ListsKinds
<1>6. QED
  BY <1>2, <1>3, <1>4, <1>5, NewestStays DEF StoreInv

Safe == DirTypes /\ StoreInv

LEMMA SafeInitial ==
  ASSUME InitDir
  PROVE  Safe
<1>1. \A n \in dir : n \in Name /\ n.id < StartTime
  BY LogDirectoryAssumption DEF InitDir
<1>2. NewestYet
  BY <1>1, LogDirectoryAssumption DEF NewestYet, InitDir, Logs, Name
<1>3. PathEnough /\ TodoEnough /\ PathDirty /\ ListsKinds
  BY DEF InitDir, PathEnough, TodoEnough, PathDirty, ListsKinds
<1>4. QED
  BY <1>2, <1>3, DirTypesInitial DEF Safe, StoreInv

LEMMA SafeInductive ==
  ASSUME Safe, [NextDir]_dirVars
  PROVE  Safe'
<1>1. DirTypes'
  BY DirTypesInductive DEF Safe
<1>2. CASE NextDir
  BY <1>1, <1>2, StoreInvStays DEF Safe
<1>3. CASE UNCHANGED dirVars
  BY <1>1, <1>3 DEF Safe, StoreInv, PathEnough, TodoEnough, PathDirty, ListsKinds, NewestYet, Logs,
         dirVars, files, calling, trimming, filling, others
<1>4. QED
  BY <1>2, <1>3

LEMMA StepsOfStore ==
  ASSUME Safe, [NextDir]_dirVars
  PROVE  [Store!NextStore]_Logs
<1>1. StoreStep
  <2>1. CASE NextDir
    BY <2>1, StepOfStore DEF Safe
  <2>2. CASE UNCHANGED dirVars
    BY <2>2 DEF dirVars, files, Logs, StoreStep
  <2>3. QED
    BY <2>1, <2>2
<1>2. ASSUME NEW log \in Logs', Added(log)
      PROVE  Store!NextStore
  BY <1>2 DEF Added, Store!NextStore, Store!Add, Logs
<1>3. ASSUME NEW log \in Logs, Dropped(log)
      PROVE  Store!NextStore
  <2>1. Store!Superseded(Logs, log)
    BY <1>3 DEF Dropped, Enough, Logs
  <2>2. QED
    BY <1>3, <2>1 DEF Dropped, Store!NextStore, Store!Drop, Logs
<1>4. QED
  BY <1>1, <1>2, <1>3 DEF StoreStep

\* Every step on the directory adds a newest log, drops one with enough newer ones, or does
\* nothing to the logs of crashes and ANRs.
THEOREM LogStoreImplemented == SpecDir => ImplementsLogStore
<1>1. InitDir => Store!InitStore
  BY DirTypesInitial, LogsFinite, SameFinite DEF DirTypes, Store!InitStore, Logs
<1>2. Safe /\ [NextDir]_dirVars => [Store!NextStore]_({n \in dir : n.kind \in CrashKinds})
  BY StepsOfStore DEF Logs
<1>3. QED
  BY <1>1, <1>2, SafeInitial, SafeInductive, PTL DEF SpecDir, ImplementsLogStore, Store!SpecStore

-----------------------------------------------------------------------------
(* Who takes a step, and what the others keep.                             *)

M == "maintainer"
Tracing == "tracer" \in Actors

MaintainerStep == RecycleStep(M) \/ TrimStep(M) \/ MaintainStep

TracerStep == Tracing /\ (RecycleStep("tracer") \/ TrimStep("tracer") \/ TraceStep)

CrashStep ==
  \/ "native" \in Actors /\ NativeCrash
  \/ "java" \in Actors /\ (JavaCrash \/ TakePlaceholder \/ CreateJavaLog)

LEMMA WhoSteps == NextDir => MaintainerStep \/ TracerStep \/ CrashStep
BY DEF NextDir, MaintainerStep, TracerStep, CrashStep, M, Tracing

LEMMA MIsThere == M \in Actors /\ M # "tracer" /\ M # "native" /\ M # "java"
BY LogDirectoryAssumption DEF M

LEMMA MaintainerAlone ==
  ASSUME DirTypes, MaintainerStep
  PROVE  /\ UNCHANGED <<time, anr>>
         /\ \A b \in Actors \ {M} :
              pc'[b] = pc[b] /\ ret'[b] = ret[b] /\ path'[b] = path[b] /\ kind'[b] = kind[b]
              /\ todo'[b] = todo[b]
<1> USE MIsThere DEF DirTypes, DirTypeOK, Goto, At, Call, WorkOn, Return, others, trimming
<1>1. CASE RecycleStep(M)
  BY <1>1 DEF RecycleStep, Recycle, DeleteFile, ToDirty, OpenDirty, WriteZeros, ToClean
<1>2. CASE TrimStep(M)
  BY <1>2 DEF TrimStep, ListLogs, TrimNext, TrimDone
<1>3. CASE MaintainStep
  BY <1>3 DEF MaintainStep, Initialize, ListPlaceholders, FillFromDirty, FillFromNew, Filled,
         FillDone, DeleteSurplus, DeleteDirties, M
<1>4. QED
  BY <1>1, <1>2, <1>3 DEF MaintainerStep

LEMMA OthersKeep ==
  ASSUME DirTypes, TracerStep \/ CrashStep
  PROVE  /\ pc'[M] = pc[M] /\ ret'[M] = ret[M] /\ path'[M] = path[M] /\ kind'[M] = kind[M]
         /\ todo'[M] = todo[M] /\ ok'[M] = ok[M]
         /\ UNCHANGED <<cleans, dirties, count, tries, background>>
<1> USE MIsThere DEF DirTypes, DirTypeOK, Goto, At, Call, WorkOn, Return, others, trimming, filling
<1>1. CASE RecycleStep("tracer") /\ Tracing
  BY <1>1 DEF RecycleStep, Recycle, DeleteFile, ToDirty, OpenDirty, WriteZeros, ToClean, Tracing
<1>2. CASE TrimStep("tracer") /\ Tracing
  BY <1>2 DEF TrimStep, ListLogs, TrimNext, TrimDone, Tracing
<1>3. CASE TraceStep /\ Tracing
  BY <1>3 DEF TraceStep, CleanTraces, OpenTrace, CheckProcessAnrState, RenameToAnr, Tracing
<1>4. CASE CrashStep
  BY <1>4 DEF CrashStep, NativeCrash, JavaCrash, TakePlaceholder, CreateJavaLog
<1>5. QED
  BY <1>1, <1>2, <1>3, <1>4 DEF TracerStep

\* A tracer that has not traced is idle.
LEMMA ClockOf ==
  ASSUME DirTypes, NextDir
  PROVE  \/ time' = time /\ (Tracing /\ pc["tracer"] = "idle" => pc'["tracer"] = "idle")
         \/ TracerStep /\ time' = time + 1
<1>1. CASE MaintainerStep
  BY <1>1, MaintainerAlone, MIsThere DEF Tracing
<1>2. CASE CrashStep
  BY <1>2 DEF CrashStep, NativeCrash, JavaCrash, TakePlaceholder, CreateJavaLog, others, Goto,
         DirTypes, DirTypeOK, Tracing
<1>3. CASE TracerStep
  BY <1>3 DEF TracerStep, RecycleStep, Recycle, DeleteFile, ToDirty, OpenDirty, WriteZeros, ToClean,
         TrimStep, ListLogs, TrimNext, TrimDone, TraceStep, CleanTraces, OpenTrace,
         CheckProcessAnrState, RenameToAnr, At, others
<1>4. QED
  BY <1>1, <1>2, <1>3, WhoSteps

-----------------------------------------------------------------------------
(* No log is written over.  Only who writes zeros has a stream; until the  *)
(* first trace only the maintenance has, and no log gets the name of the   *)
(* dirty file it writes to.                                                *)

Untouched ==
  /\ time >= StartTime
  /\ \A a \in Actors : pc[a] # "zero" => stream[a] = Gone
  /\ time = StartTime =>
       /\ damaged = {} /\ (Tracing => pc["tracer"] = "idle")
       /\ stream[M].kind \in {"dirty", "gone"}

LEMMA GoneIsNoName == Gone \notin Name /\ Gone.kind = "gone"
BY DEF Gone, Name, LogKinds, CrashKinds

\* Who writes logs goes on as before; a stream follows the file it was opened for.
LEMMA StreamOf ==
  ASSUME DirTypes, StoreInv, Untouched, NextDir, NEW b \in Actors
  PROVE  pc'[b] # "zero" => stream'[b] = Gone
<1> USE GoneIsNoName DEF DirTypes, DirTypeOK, Untouched, Goto, At, Call, Return, files
<1>1. ASSUME NEW a \in Actors, RecycleStep(a)
      PROVE  pc'[b] # "zero" => stream'[b] = Gone
  <2>1. CASE Recycle(a)
    BY <2>1 DEF Recycle
  <2>2. CASE DeleteFile(a)
    BY <2>2 DEF DeleteFile, Unlink
  <2>3. CASE ToDirty(a)
    BY <2>3 DEF ToDirty, Rename
  <2>4. CASE OpenDirty(a)
    BY <2>4 DEF OpenDirty
  <2>5. CASE WriteZeros(a)
    BY <2>5 DEF WriteZeros
  <2>6. CASE ToClean(a)
    BY <2>6 DEF ToClean, Rename
  <2>7. QED
    BY <1>1, <2>1, <2>2, <2>3, <2>4, <2>5, <2>6 DEF RecycleStep
<1>2. ASSUME NEW a \in Actors, TrimStep(a)
      PROVE  pc'[b] # "zero" => stream'[b] = Gone
  BY <1>2 DEF TrimStep, ListLogs, TrimNext, TrimDone
<1>3. CASE MaintainStep
  BY <1>3 DEF MaintainStep, Initialize, ListPlaceholders, FillFromDirty, FillFromNew, Filled,
         FillDone, DeleteSurplus, DeleteDirties, DeleteOrNot, Unlink
<1>4. CASE TraceStep
  BY <1>4 DEF TraceStep, CleanTraces, OpenTrace, CheckProcessAnrState, RenameToAnr, OpenLog,
         Takeable, Listed, Rename
<1>5. CASE NativeCrash \/ JavaCrash \/ TakePlaceholder \/ CreateJavaLog
  BY <1>5 DEF NativeCrash, JavaCrash, TakePlaceholder, CreateJavaLog, OpenLog, Takeable, Listed,
         Rename, DeleteOrNot, Unlink
<1>6. QED
  BY <1>1, <1>2, <1>3, <1>4, <1>5 DEF NextDir

LEMMA StreamOfMaintenance ==
  ASSUME DirTypes, StoreInv, Untouched, MaintainerStep \/ CrashStep, time = StartTime
  PROVE  damaged' = {} /\ stream'[M].kind \in {"dirty", "gone"}
<1> USE GoneIsNoName, MIsThere, KindsDiffer
    DEF DirTypes, DirTypeOK, Untouched, Goto, At, Call, Return, files, others
<1>1. CASE RecycleStep(M)
  <2>1. CASE Recycle(M)
    BY <2>1 DEF Recycle
  <2>2. CASE DeleteFile(M)
    BY <2>2 DEF DeleteFile, Unlink
  <2>3. CASE ToDirty(M)
    BY <2>3 DEF ToDirty, Rename
  <2>4. CASE OpenDirty(M)
    BY <2>4 DEF OpenDirty, StoreInv, PathDirty
  <2>5. CASE WriteZeros(M)
    BY <2>5 DEF WriteZeros
  <2>6. CASE ToClean(M)
    BY <2>6 DEF ToClean, Rename
  <2>7. QED
    BY <1>1, <2>1, <2>2, <2>3, <2>4, <2>5, <2>6 DEF RecycleStep
<1>2. CASE TrimStep(M)
  BY <1>2 DEF TrimStep, ListLogs, TrimNext, TrimDone
<1>3. CASE MaintainStep
  BY <1>3 DEF MaintainStep, Initialize, ListPlaceholders, FillFromDirty, FillFromNew, Filled,
         FillDone, DeleteSurplus, DeleteDirties, DeleteOrNot, Unlink
<1>4. CASE NativeCrash
  BY <1>4 DEF NativeCrash, OpenLog, Takeable, Listed, Rename
<1>5. CASE "java" \in Actors /\ TakePlaceholder
  BY <1>5 DEF TakePlaceholder, Rename, DeleteOrNot, Unlink, StoreInv, ListsKinds
<1>6. CASE JavaCrash \/ CreateJavaLog
  BY <1>6 DEF JavaCrash, CreateJavaLog
<1>7. QED
  BY <1>1, <1>2, <1>3, <1>4, <1>5, <1>6 DEF MaintainerStep, CrashStep

LEMMA UntouchedStays ==
  ASSUME DirTypes, StoreInv, Untouched, NextDir
  PROVE  Untouched'
<1>1. time \in Nat /\ StartTime \in Nat
  BY LogDirectoryAssumption DEF DirTypes, DirTypeOK
<1>2. time' >= StartTime
  BY <1>1, ClockOf DEF Untouched
<1>3. ASSUME time' = StartTime
      PROVE  /\ damaged' = {} /\ (Tracing => pc'["tracer"] = "idle")
             /\ stream'[M].kind \in {"dirty", "gone"}
  <2>1. time = StartTime /\ (Tracing => pc["tracer"] = "idle" /\ pc'["tracer"] = "idle")
    BY <1>1, <1>3, ClockOf DEF Untouched
  <2>2. ~TracerStep
    <3>1. TracerStep => CleanTraces
      BY <2>1 DEF TracerStep, RecycleStep, Recycle, DeleteFile, ToDirty, OpenDirty, WriteZeros,
             ToClean, TrimStep, ListLogs, TrimNext, TrimDone, TraceStep, OpenTrace,
             CheckProcessAnrState, RenameToAnr, At
    <3>2. CleanTraces => time' = time + 1
      BY DEF CleanTraces
    <3>3. QED
      BY <1>1, <1>3, <2>1, <3>1, <3>2
  <2>3. QED
    BY <2>1, <2>2, StreamOfMaintenance, WhoSteps
<1>4. QED
  BY <1>2, <1>3, StreamOf DEF Untouched

LEMMA UntouchedInitial ==
  ASSUME InitDir
  PROVE  Untouched
BY MIsThere, GoneIsNoName, LogDirectoryAssumption DEF InitDir, Untouched, M, Tracing

LEMMA UntouchedInductive ==
  ASSUME Safe, Untouched, [NextDir]_dirVars
  PROVE  Untouched'
<1>1. CASE NextDir
  BY <1>1, UntouchedStays DEF Safe
<1>2. CASE UNCHANGED dirVars
  BY <1>2 DEF Untouched, Tracing, dirVars, files, calling, others
<1>3. QED
  BY <1>1, <1>2

\* Whatever fails, and whatever the maintenance interrupts or is interrupted by, it never writes
\* zeros over a log unless an ANR cleans the same files.
THEOREM LogsStayIntact == SpecDir => []LogsIntact
<1>1. Safe /\ Untouched => LogsIntact
  BY LogDirectoryAssumption DEF LogsIntact, Untouched, Safe, DirTypes, DirTypeOK
<1>2. QED
  BY <1>1, SafeInitial, SafeInductive, UntouchedInitial, UntouchedInductive, PTL DEF SpecDir

-----------------------------------------------------------------------------
(* Where the maintenance and the ANR callback are, and what they have in   *)
(* their hands.                                                            *)

\* Between the listing of the logs of a kind and the last of them.
Trims(a) == pc[a] = "trim" \/ (pc[a] \in Working /\ ret[a] = "trim")

\* At a dirty file, to make a placeholder of it.
Fills == pc[M] \in Working /\ ret[M] = "filled"

AfterLogs == {"list_clean", "list_dirty", "fill", "filled", "surplus", "delete_dirties"}

\* The logs that an actor is about to recycle.
Pending(a) ==
  todo[a] \cup (IF pc[a] \in {"recycle", "to_dirty", "delete_log"} /\ ret[a] = "trim"
                  THEN {path[a]} ELSE {})

MaintainerPhases ==
  /\ pc[M] = "init" => background = FALSE /\ kind[M] = "native"
  /\ pc[M] \in {"init", "list"} \/ Trims(M) => tries = 0 /\ dirties = {}
  /\ pc[M] \in {"list_clean", "list_dirty"} /\ tries = 0 => dirties = {}
  /\ pc[M] = "done" => dirties = {}
  /\ pc[M] \in AfterLogs \/ Fills => kind[M] = "trace"
  /\ pc[M] \in Working => ret[M] \in {"trim", "filled"}
  /\ Pending(M) # {} => Trims(M)

TracerPhases ==
  Tracing =>
    /\ Pending("tracer") # {} => Trims("tracer")
    /\ pc["tracer"] = "list" \/ Trims("tracer") => kind["tracer"] = "anr"

\* "XCrash.init" has the files in order before it starts the others, or leaves it to a thread.
NotBefore == ~Started => \A a \in Actors \ {M} : pc[a] = "idle"

Phases == MaintainerPhases /\ TracerPhases /\ NotBefore

LEMMA MaintainerPhasesStay ==
  ASSUME DirTypes, StoreInv, MaintainerPhases, NextDir
  PROVE  MaintainerPhases'
<1> USE MIsThere DEF DirTypes, DirTypeOK, Goto, At, Call, WorkOn, Return, others, trimming, filling,
        MaintainerPhases, Trims, Fills, AfterLogs, Pending, Working
<1>1. CASE RecycleStep(M)
  <2>1. CASE Recycle(M)
    BY <2>1 DEF Recycle
  <2>2. CASE DeleteFile(M)
    BY <2>2 DEF DeleteFile
  <2>3. CASE ToDirty(M)
    BY <2>3 DEF ToDirty
  <2>4. CASE OpenDirty(M)
    BY <2>4 DEF OpenDirty
  <2>5. CASE WriteZeros(M)
    BY <2>5 DEF WriteZeros
  <2>6. CASE ToClean(M)
    BY <2>6 DEF ToClean
  <2>7. QED
    BY <1>1, <2>1, <2>2, <2>3, <2>4, <2>5, <2>6 DEF RecycleStep
<1>2. CASE TrimStep(M)
  <2>1. CASE ListLogs(M)
    BY <2>1 DEF ListLogs
  <2>2. CASE TrimNext(M)
    BY <2>2 DEF TrimNext
  <2>3. CASE TrimDone(M)
    BY <2>3 DEF TrimDone
  <2>4. QED
    BY <1>2, <2>1, <2>2, <2>3 DEF TrimStep
<1>3. CASE MaintainStep
  <2> USE DEF M
  <2>1. CASE Initialize
    BY <2>1 DEF Initialize
  <2>2. CASE ListPlaceholders
    BY <2>2 DEF ListPlaceholders
  <2>3. CASE FillFromDirty
    BY <2>3 DEF FillFromDirty
  <2>4. CASE FillFromNew
    BY <2>4 DEF FillFromNew
  <2>5. CASE Filled
    BY <2>5 DEF Filled
  <2>6. CASE FillDone
    BY <2>6 DEF FillDone
  <2>7. CASE DeleteSurplus \/ DeleteDirties
    BY <2>7 DEF DeleteSurplus, DeleteDirties
  <2>8. QED
    BY <1>3, <2>1, <2>2, <2>3, <2>4, <2>5, <2>6, <2>7 DEF MaintainStep
<1>4. CASE TracerStep \/ CrashStep
  <2>1. /\ pc'[M] = pc[M] /\ ret'[M] = ret[M] /\ path'[M] = path[M] /\ kind'[M] = kind[M]
        /\ todo'[M] = todo[M] /\ UNCHANGED <<cleans, dirties, count, tries, background>>
    BY <1>4, OthersKeep
  <2>2. QED
    BY <2>1
<1>5. QED
  BY <1>1, <1>2, <1>3, <1>4, WhoSteps DEF MaintainerStep

LEMMA TracerPhasesStay ==
  ASSUME DirTypes, StoreInv, TracerPhases, NextDir
  PROVE  TracerPhases'
<1>0. SUFFICES ASSUME Tracing
               PROVE  TracerPhases'
  BY DEF TracerPhases, Tracing
<1> USE <1>0, MIsThere DEF DirTypes, DirTypeOK, Goto, At, Call, WorkOn, Return, others, trimming,
        TracerPhases, Trims, Pending, Working, Tracing
<1>1. CASE RecycleStep("tracer")
  <2>1. CASE Recycle("tracer")
    BY <2>1 DEF Recycle
  <2>2. CASE DeleteFile("tracer")
    BY <2>2 DEF DeleteFile
  <2>3. CASE ToDirty("tracer")
    BY <2>3 DEF ToDirty
  <2>4. CASE OpenDirty("tracer")
    BY <2>4 DEF OpenDirty
  <2>5. CASE WriteZeros("tracer")
    BY <2>5 DEF WriteZeros
  <2>6. CASE ToClean("tracer")
    BY <2>6 DEF ToClean
  <2>7. QED
    BY <1>1, <2>1, <2>2, <2>3, <2>4, <2>5, <2>6 DEF RecycleStep
<1>2. CASE TrimStep("tracer")
  <2>1. CASE ListLogs("tracer")
    BY <2>1 DEF ListLogs
  <2>2. CASE TrimNext("tracer")
    BY <2>2 DEF TrimNext
  <2>3. CASE TrimDone("tracer")
    BY <2>3 DEF TrimDone
  <2>4. QED
    BY <1>2, <2>1, <2>2, <2>3 DEF TrimStep
<1>3. CASE TraceStep
  <2>1. CASE CleanTraces
    BY <2>1 DEF CleanTraces
  <2>2. CASE OpenTrace
    BY <2>2 DEF OpenTrace
  <2>3. CASE CheckProcessAnrState
    BY <2>3 DEF CheckProcessAnrState
  <2>4. CASE RenameToAnr
    BY <2>4 DEF RenameToAnr
  <2>5. QED
    BY <1>3, <2>1, <2>2, <2>3, <2>4 DEF TraceStep
<1>4. CASE MaintainerStep
  <2>1. /\ pc'["tracer"] = pc["tracer"] /\ ret'["tracer"] = ret["tracer"]
        /\ path'["tracer"] = path["tracer"] /\ kind'["tracer"] = kind["tracer"]
        /\ todo'["tracer"] = todo["tracer"]
    BY <1>4, MaintainerAlone
  <2>2. QED
    BY <2>1
<1>5. CASE CrashStep
  BY <1>5 DEF CrashStep, NativeCrash, JavaCrash, TakePlaceholder, CreateJavaLog, calling
<1>6. QED
  BY <1>1, <1>2, <1>3, <1>4, <1>5, WhoSteps DEF TracerStep

LEMMA NotBeforeStays ==
  ASSUME DirTypes, MaintainerPhases, NotBefore, NextDir
  PROVE  NotBefore'
<1>1. CASE MaintainerStep
  <2>1. pc[M] # "done" /\ (pc[M] # "init" => background' = background)
    BY <1>1 DEF MaintainerStep, RecycleStep, Recycle, DeleteFile, ToDirty, OpenDirty, WriteZeros,
           ToClean, TrimStep, ListLogs, TrimNext, TrimDone, MaintainStep, Initialize,
           ListPlaceholders, FillFromDirty, FillFromNew, Filled, FillDone, DeleteSurplus,
           DeleteDirties, At, others, M
  <2>2. ~Started' => ~Started
    BY <2>1 DEF Started, MaintainerPhases, At, M
  <2>3. QED
    BY <1>1, <2>2, MaintainerAlone DEF NotBefore
<1>2. CASE TracerStep \/ CrashStep
  <2>1. Started' = Started
    BY <1>2, OthersKeep DEF Started, At, M
  <2>2. Started
    <3>1. SUFFICES ASSUME \A a \in Actors \ {M} : pc[a] = "idle"
                   PROVE  Started
      BY DEF NotBefore
    <3>2. QED
      BY <1>2, <3>1, MIsThere DEF TracerStep, CrashStep, RecycleStep, Recycle, DeleteFile, ToDirty,
         OpenDirty, WriteZeros, ToClean, TrimStep, ListLogs, TrimNext, TrimDone, TraceStep,
         CleanTraces, OpenTrace, CheckProcessAnrState, RenameToAnr, NativeCrash, JavaCrash,
         TakePlaceholder, CreateJavaLog, At, Tracing
  <2>3. QED
    BY <2>1, <2>2 DEF NotBefore
<1>3. QED
  BY <1>1, <1>2, WhoSteps

LEMMA PhasesInitial ==
  ASSUME InitDir
  PROVE  Phases
BY MIsThere DEF InitDir, Phases, MaintainerPhases, TracerPhases, NotBefore, Trims, Fills, AfterLogs,
   Pending, Working, M, Tracing

LEMMA PhasesInductive ==
  ASSUME Safe, Phases, [NextDir]_dirVars
  PROVE  Phases'
<1>1. CASE NextDir
  BY <1>1, MaintainerPhasesStay, TracerPhasesStay, NotBeforeStays DEF Safe, Phases
<1>2. CASE UNCHANGED dirVars
  BY <1>2 DEF Phases, MaintainerPhases, TracerPhases, NotBefore, Trims, Fills, Pending, Started, At,
     Tracing, dirVars, files, calling, trimming, filling, others
<1>3. QED
  BY <1>1, <1>2

-----------------------------------------------------------------------------
(* Placeholders, when nothing fails.                                       *)

\* The ANR callback has counted the placeholders and is about to add one.
OneMore ==
  IF Tracing /\ pc["tracer"] \in {"to_dirty", "clean", "zero", "to_clean"} THEN 1 ELSE 0

ByTracer(n) ==
  /\ Tracing /\ pc["tracer"] \in {"clean", "zero", "to_clean", "delete_dirty"}
  /\ n = path["tracer"]

\* The lists of the second time, or of the first when no placeholder is missing.
Removing == pc[M] = "surplus" \/ (pc[M] = "fill" /\ tries = 0)

Few == Cardinality(Listed("clean")) + OneMore <= PlaceholderMax + 1

FewUnlisted == Cardinality(Listed("clean") \ cleans) + OneMore <= 1

PlaceholdersInv ==
  /\ IsFiniteSet(cleans)
  /\ pc[M] = "list_dirty" \/ Removing => Few \/ FewUnlisted
  /\ pc[M] \in {"delete_dirties", "done"} => Few
  /\ pc[M] \in {"delete_dirties", "done"} \/ Removing =>
       \A n \in Listed("dirty") : n \in dirties \/ ByTracer(n)

LEMMA Counts ==
  ASSUME DirTypeOK, NEW k
  PROVE  IsFiniteSet(Listed(k)) /\ Cardinality(Listed(k)) \in Nat
BY FS_Subset, FS_CardinalityType DEF DirTypeOK, Listed

LEMMA CountsNext ==
  ASSUME DirTypeOK', NEW k
  PROVE  IsFiniteSet(Listed(k)') /\ Cardinality(Listed(k)') \in Nat
BY FS_Subset, FS_CardinalityType DEF DirTypeOK, Listed

LEMMA Fewer ==
  ASSUME NEW few, NEW many, IsFiniteSet(many), few \subseteq many
  PROVE  /\ IsFiniteSet(few) /\ Cardinality(few) \in Nat /\ Cardinality(many) \in Nat
         /\ Cardinality(few) <= Cardinality(many)
BY FS_Subset, FS_CardinalityType

LEMMA OneAdded ==
  ASSUME NEW few, NEW many, NEW x, IsFiniteSet(many), few \subseteq many \cup {x}
  PROVE  /\ IsFiniteSet(few) /\ Cardinality(few) \in Nat /\ Cardinality(many) \in Nat
         /\ Cardinality(few) <= Cardinality(many) + 1
<1>1. /\ IsFiniteSet(many \cup {x}) /\ Cardinality(many) \in Nat
      /\ Cardinality(many \cup {x}) \in {Cardinality(many), Cardinality(many) + 1}
  BY FS_AddElement, FS_CardinalityType
<1>2. /\ IsFiniteSet(few) /\ Cardinality(few) \in Nat
      /\ Cardinality(few) <= Cardinality(many \cup {x})
  BY <1>1, Fewer
<1>3. QED
  BY <1>1, <1>2

LEMMA NothingFails ==
  ASSUME canFail = {}
  PROVE  /\ \A operation : ~Fails(operation)
         /\ \A names : ListedOrNull(names) = {names}
BY DEF Fails, ListedOrNull

\* What the ANR callback does to the placeholders.
LEMMA TracerPlaceholders ==
  ASSUME DirTypes, StoreInv, TracerStep \/ CrashStep, canFail = {}
  PROVE  \/ Listed("clean")' \subseteq Listed("clean") /\ OneMore' <= OneMore
         \/ /\ Listed("clean")' = Listed("clean") /\ OneMore = 0 /\ OneMore' = 1
            /\ Cardinality(Listed("clean")) < PlaceholderMax
         \/ /\ Listed("clean")' \subseteq Listed("clean") \cup {Fresh("clean")}
            /\ OneMore = 1 /\ OneMore' = 0
<1> USE NothingFails, KindsDiffer, MIsThere
    DEF DirTypes, DirTypeOK, Goto, At, Call, WorkOn, Return, files, OneMore, Listed
<1>1. CASE TracerStep /\ RecycleStep("tracer")
  <2> USE DEF Tracing
  <2>1. CASE Recycle("tracer")
    BY <2>1 DEF Recycle
  <2>2. CASE DeleteFile("tracer")
    BY <2>2 DEF DeleteFile, Unlink
  <2>3. CASE ToDirty("tracer")
    BY <2>3 DEF ToDirty, Rename
  <2>4. CASE OpenDirty("tracer")
    BY <1>1, <2>4 DEF OpenDirty, TracerStep, StoreInv, PathDirty
  <2>5. CASE WriteZeros("tracer")
    BY <2>5 DEF WriteZeros
  <2>6. CASE ToClean("tracer")
    BY <1>1, <2>6 DEF ToClean, TracerStep, Rename
  <2>7. QED
    BY <1>1, <2>1, <2>2, <2>3, <2>4, <2>5, <2>6 DEF RecycleStep
<1>2. CASE TracerStep /\ TrimStep("tracer")
  BY <1>2 DEF TrimStep, ListLogs, TrimNext, TrimDone
<1>3. CASE TracerStep /\ TraceStep
  BY <1>3 DEF TraceStep, CleanTraces, OpenTrace, CheckProcessAnrState, RenameToAnr, OpenLog,
         Takeable, Rename
<1>4. CASE CrashStep
  <2>1. OneMore' = OneMore
    BY <1>4 DEF CrashStep, NativeCrash, JavaCrash, TakePlaceholder, CreateJavaLog, Tracing
  <2>2. Listed("clean")' \subseteq Listed("clean")
    BY <1>4 DEF CrashStep, NativeCrash, JavaCrash, TakePlaceholder, CreateJavaLog, OpenLog, Takeable,
       Rename, JavaLog, DeleteOrNot, Unlink
  <2>3. QED
    BY <2>1, <2>2
<1>5. QED
  BY <1>1, <1>2, <1>3, <1>4 DEF TracerStep

LEMMA TracerDirties ==
  ASSUME DirTypes, StoreInv, TracerStep \/ CrashStep, canFail = {},
         NEW n \in Listed("dirty")', ~ByTracer(n)'
  PROVE  n \in Listed("dirty") /\ ~ByTracer(n)
<1> USE NothingFails, KindsDiffer, MIsThere
    DEF DirTypes, DirTypeOK, Goto, At, Call, WorkOn, Return, files, ByTracer, Listed
<1>1. CASE TracerStep /\ RecycleStep("tracer")
  <2> USE DEF Tracing
  <2>1. CASE Recycle("tracer")
    BY <2>1 DEF Recycle
  <2>2. CASE DeleteFile("tracer")
    BY <2>2 DEF DeleteFile, Unlink
  <2>3. CASE ToDirty("tracer")
    BY <1>1, <2>3 DEF ToDirty, TracerStep, Rename
  <2>4. CASE OpenDirty("tracer")
    BY <1>1, <2>4 DEF OpenDirty, TracerStep
  <2>5. CASE WriteZeros("tracer")
    BY <1>1, <2>5 DEF WriteZeros, TracerStep
  <2>6. CASE ToClean("tracer")
    BY <1>1, <2>6 DEF ToClean, TracerStep, Rename
  <2>7. QED
    BY <1>1, <2>1, <2>2, <2>3, <2>4, <2>5, <2>6 DEF RecycleStep
<1>2. CASE TracerStep /\ TrimStep("tracer")
  BY <1>2 DEF TrimStep, ListLogs, TrimNext, TrimDone
<1>3. CASE TracerStep /\ TraceStep
  BY <1>3 DEF TraceStep, CleanTraces, OpenTrace, CheckProcessAnrState, RenameToAnr, OpenLog,
         Takeable, Rename
<1>4. CASE CrashStep
  <2>1. ByTracer(n)' = ByTracer(n)
    BY <1>4 DEF CrashStep, NativeCrash, JavaCrash, TakePlaceholder, CreateJavaLog, calling, Tracing
  <2>2. n \in Listed("dirty")
    BY <1>4 DEF CrashStep, NativeCrash, JavaCrash, TakePlaceholder, CreateJavaLog, OpenLog, Takeable,
       Rename, JavaLog, DeleteOrNot, Unlink
  <2>3. QED
    BY <2>1, <2>2
<1>5. QED
  BY <1>1, <1>2, <1>3, <1>4 DEF TracerStep

LEMMA PlaceholdersOfTracer ==
  ASSUME Safe, Safe', PlaceholdersInv, TracerStep \/ CrashStep, canFail = {}
  PROVE  PlaceholdersInv'
<1>1. pc'[M] = pc[M] /\ UNCHANGED <<cleans, dirties, tries>>
  BY OthersKeep DEF Safe
<1>2. /\ IsFiniteSet(Listed("clean")) /\ Cardinality(Listed("clean")) \in Nat
      /\ IsFiniteSet(Listed("clean") \ cleans)
  BY Counts, Fewer DEF Safe, DirTypes
<1>3. PlaceholderMax \in Nat /\ OneMore \in 0..1 /\ OneMore' \in 0..1
  BY LogDirectoryAssumption DEF OneMore
<1>4. (Few \/ FewUnlisted => Few' \/ FewUnlisted') /\ (Few => Few')
  <2>1. CASE Listed("clean")' \subseteq Listed("clean") /\ OneMore' <= OneMore
    <3>1. /\ Cardinality(Listed("clean")') \in Nat
          /\ Cardinality(Listed("clean")') <= Cardinality(Listed("clean"))
      BY <1>2, <2>1, Fewer
    <3>2. /\ Cardinality(Listed("clean")' \ cleans) \in Nat
          /\ Cardinality(Listed("clean") \ cleans) \in Nat
          /\ Cardinality(Listed("clean")' \ cleans) <= Cardinality(Listed("clean") \ cleans)
      BY <1>2, <2>1, Fewer
    <3>3. QED
      BY <1>1, <1>2, <1>3, <2>1, <3>1, <3>2 DEF Few, FewUnlisted
  <2>2. CASE /\ Listed("clean")' = Listed("clean") /\ OneMore = 0 /\ OneMore' = 1
             /\ Cardinality(Listed("clean")) < PlaceholderMax
    BY <1>2, <1>3, <2>2 DEF Few
  <2>3. CASE /\ Listed("clean")' \subseteq Listed("clean") \cup {Fresh("clean")}
             /\ OneMore = 1 /\ OneMore' = 0
    <3>1. /\ Cardinality(Listed("clean")') \in Nat
          /\ Cardinality(Listed("clean")') <= Cardinality(Listed("clean")) + 1
      BY <1>2, <2>3, OneAdded
    <3>2. Listed("clean")' \ cleans \subseteq (Listed("clean") \ cleans) \cup {Fresh("clean")}
      BY <2>3
    <3>3. /\ Cardinality(Listed("clean")' \ cleans) \in Nat
          /\ Cardinality(Listed("clean") \ cleans) \in Nat
          /\ Cardinality(Listed("clean")' \ cleans) <= Cardinality(Listed("clean") \ cleans) + 1
      BY <1>2, <3>2, OneAdded
    <3>4. QED
      BY <1>1, <1>2, <1>3, <2>3, <3>1, <3>3 DEF Few, FewUnlisted
  <2>4. QED
    BY <2>1, <2>2, <2>3, TracerPlaceholders DEF Safe
<1>5. ASSUME \A n \in Listed("dirty") : n \in dirties \/ ByTracer(n), NEW n \in Listed("dirty")'
      PROVE  n \in dirties' \/ ByTracer(n)'
  BY <1>1, <1>5, TracerDirties DEF Safe
<1>6. QED
  BY <1>1, <1>4, <1>5 DEF PlaceholdersInv, Removing

\* The steps of the maintenance after which the placeholders are looked at.
LEMMA PlaceholdersOfMaintainer ==
  ASSUME Safe, Safe', Phases, PlaceholdersInv, MaintainerStep, canFail = {}
  PROVE  PlaceholdersInv'
<1> USE NothingFails, MIsThere DEF Goto, At, Call, WorkOn, Return, files, others, filling
<1>0. /\ pc \in [Actors -> Places] /\ dir \subseteq Name
      /\ IsFiniteSet(Listed("clean")) /\ Cardinality(Listed("clean")) \in Nat
      /\ PlaceholderMax \in Nat /\ OneMore \in 0..1 /\ tries \in Nat
      /\ cleans \subseteq Name /\ \A n \in cleans : n.kind = "clean"
      /\ dirties \subseteq Name /\ \A n \in dirties : n.kind = "dirty"
  BY Counts, LogDirectoryAssumption
     DEF Safe, DirTypes, DirTypeOK, OneMore, StoreInv, ListsKinds
<1>1. OneMore' = OneMore /\ \A n : ByTracer(n)' = ByTracer(n)
  BY MaintainerAlone DEF Safe, OneMore, ByTracer, Tracing
<1>2. CASE RecycleStep(M) \/ TrimStep(M) \/ FillFromDirty \/ FillFromNew \/ Filled
  <2>1. cleans' = cleans /\ pc'[M] \notin {"list_dirty", "surplus", "delete_dirties", "done"}
    <3>1. CASE RecycleStep(M)
      <4>1. pc[M] \in Working
        BY <3>1 DEF RecycleStep, Recycle, DeleteFile, ToDirty, OpenDirty, WriteZeros, ToClean, Working
      <4>2. ret[M] \in {"trim", "filled"}
        BY <4>1 DEF Phases, MaintainerPhases
      <4>3. QED
        BY <1>0, <3>1, <4>2 DEF RecycleStep, Recycle, DeleteFile, ToDirty, OpenDirty, WriteZeros,
           ToClean
    <3>2. CASE TrimStep(M)
      BY <1>0, <3>2 DEF TrimStep, ListLogs, TrimNext, TrimDone, M
    <3>3. CASE FillFromDirty \/ FillFromNew \/ Filled
      BY <1>0, <3>3 DEF FillFromDirty, FillFromNew, Filled, M
    <3>4. QED
      BY <1>2, <3>1, <3>2, <3>3
  <2>2. ~(pc'[M] = "fill" /\ tries' = 0)
    <3>1. CASE RecycleStep(M)
      <4>1. pc[M] \in Working
        BY <3>1 DEF RecycleStep, Recycle, DeleteFile, ToDirty, OpenDirty, WriteZeros, ToClean, Working
      <4>2. ret[M] \in {"trim", "filled"}
        BY <4>1 DEF Phases, MaintainerPhases
      <4>3. QED
        BY <1>0, <3>1, <4>2 DEF RecycleStep, Recycle, DeleteFile, ToDirty, OpenDirty, WriteZeros,
           ToClean
    <3>2. CASE TrimStep(M)
      BY <1>0, <3>2 DEF TrimStep, ListLogs, TrimNext, TrimDone, M
    <3>3. CASE FillFromDirty \/ FillFromNew \/ Filled
      BY <1>0, <3>3 DEF FillFromDirty, FillFromNew, Filled, M
    <3>4. QED
      BY <1>2, <3>1, <3>2, <3>3
  <2>3. QED
    BY <2>1, <2>2 DEF PlaceholdersInv, Removing
<1>3. CASE Initialize
  <2>1. /\ UNCHANGED <<dir, cleans, dirties>> /\ pc[M] = "init"
        /\ \/ pc'[M] = "list"
           \/ /\ pc'[M] = "done" /\ Cardinality(Listed("clean")) = PlaceholderMax
              /\ Listed("dirty") = {}
    BY <1>0, <1>3 DEF Initialize, EverythingOK, M
  <2>2. Listed("clean")' = Listed("clean") /\ Listed("dirty")' = Listed("dirty")
    BY <2>1 DEF Listed
  <2>3. QED
    BY <1>0, <1>1, <2>1, <2>2 DEF PlaceholdersInv, Removing, Few
<1>4. CASE ListPlaceholders
  <2>1. Listed("clean")' = Listed("clean") /\ Listed("dirty")' = Listed("dirty")
    BY <1>4 DEF ListPlaceholders, Listed
  <2>2. CASE At(M, "list_clean")
    <3>1. pc'[M] = "list_dirty" /\ cleans' = Listed("clean")
      BY <1>0, <1>4, <2>2 DEF ListPlaceholders, M
    <3>2. Listed("clean")' \ cleans' = {}
      BY <2>1, <3>1
    <3>3. FewUnlisted'
      <4>1. Cardinality(Listed("clean")' \ cleans') = 0
        BY <3>2, FS_EmptySet
      <4>2. QED
        BY <1>0, <1>1, <4>1 DEF FewUnlisted
    <3>4. QED
      BY <1>0, <3>1, <3>3 DEF PlaceholdersInv, Removing
  <2>3. CASE At(M, "list_dirty")
    <3>1. pc'[M] \in {"fill", "surplus"} /\ cleans' = cleans /\ dirties' = Listed("dirty")
      BY <1>0, <1>4, <2>3 DEF ListPlaceholders, M
    <3>2. Few \/ FewUnlisted
      BY <2>3 DEF PlaceholdersInv
    <3>3. QED
      BY <1>1, <2>1, <3>1, <3>2 DEF PlaceholdersInv, Removing, Few, FewUnlisted
  <2>4. QED
    BY <1>4, <2>2, <2>3 DEF ListPlaceholders, M
<1>5. CASE FillDone
  <2>1. /\ Listed("clean")' = Listed("clean") /\ Listed("dirty")' = Listed("dirty")
        /\ UNCHANGED <<cleans, dirties, tries>> /\ pc[M] = "fill"
        /\ pc'[M] = IF tries > 0 THEN "list_clean" ELSE "surplus"
    BY <1>0, <1>5 DEF FillDone, Listed, M
  <2>2. CASE tries = 0
    BY <1>1, <2>1, <2>2 DEF PlaceholdersInv, Removing, Few, FewUnlisted
  <2>3. CASE tries > 0
    BY <2>1, <2>3 DEF PlaceholdersInv, Removing
  <2>4. QED
    BY <1>0, <2>2, <2>3
<1>6. CASE DeleteSurplus
  <2>1. IsFiniteSet(cleans) /\ pc[M] = "surplus" /\ (Few \/ FewUnlisted)
    BY <1>6 DEF DeleteSurplus, PlaceholdersInv, Removing, M
  <2>2. CASE Cardinality(cleans) > PlaceholderMax
    <3>1. PICK name \in cleans : dir' = dir \ {name} /\ cleans' = cleans \ {name}
      BY <1>6, <2>2 DEF DeleteSurplus, DeleteOrNot, Unlink
    <3>2. pc'[M] = pc[M] /\ dirties' = dirties /\ tries' = tries
      BY <1>6, <2>2 DEF DeleteSurplus
    <3>3. /\ Listed("clean")' \subseteq Listed("clean") /\ Listed("dirty")' \subseteq Listed("dirty")
          /\ Listed("clean")' \ cleans' \subseteq Listed("clean") \ cleans
          /\ IsFiniteSet(cleans')
      BY <2>1, <3>1, FS_RemoveElement DEF Listed
    <3>4. /\ Cardinality(Listed("clean")') \in Nat
          /\ Cardinality(Listed("clean")') <= Cardinality(Listed("clean"))
      BY <1>0, <3>3, Fewer
    <3>5. /\ Cardinality(Listed("clean")' \ cleans') \in Nat
          /\ Cardinality(Listed("clean") \ cleans) \in Nat
          /\ Cardinality(Listed("clean")' \ cleans') <= Cardinality(Listed("clean") \ cleans)
      <4>1. IsFiniteSet(Listed("clean") \ cleans)
        BY <1>0, Fewer
      <4>2. QED
        BY <3>3, <4>1, Fewer
    <3>6. Few' \/ FewUnlisted'
      BY <1>0, <1>1, <2>1, <3>4, <3>5 DEF Few, FewUnlisted
    <3>7. QED
      BY <1>1, <2>1, <3>2, <3>3, <3>6 DEF PlaceholdersInv, Removing
  <2>3. CASE ~(Cardinality(cleans) > PlaceholderMax)
    <3>1. /\ Listed("clean")' = Listed("clean") /\ Listed("dirty")' = Listed("dirty")
          /\ UNCHANGED <<cleans, dirties, tries>> /\ pc'[M] = "delete_dirties"
      BY <1>0, <1>6, <2>3 DEF DeleteSurplus, Listed, M
    <3>2. Few
      <4>1. CASE FewUnlisted
        <5> DEFINE unlisted == Listed("clean") \ cleans
        <5>1. IsFiniteSet(unlisted) /\ Cardinality(unlisted) \in Nat /\ Cardinality(cleans) \in Nat
          BY <1>0, <2>1, Fewer, FS_CardinalityType
        <5>2. CASE unlisted = {}
          <6>1. Cardinality(Listed("clean")) <= Cardinality(cleans)
            BY <2>1, <5>2, Fewer
          <6>2. QED
            BY <1>0, <2>3, <5>1, <6>1 DEF Few
        <5>3. CASE unlisted # {}
          <6>1. PICK x \in unlisted : TRUE
            BY <5>3
          <6>2. Cardinality(unlisted) # 0
            BY <5>1, <5>3, FS_EmptySet
          <6>3. Cardinality(unlisted) = 1 /\ OneMore = 0
            BY <1>0, <4>1, <5>1, <6>2 DEF FewUnlisted
          <6>4. PICK y : unlisted = {y}
            BY <5>1, <6>3, FS_Singleton
          <6>5. Listed("clean") \subseteq cleans \cup {y}
            BY <6>4
          <6>6. Cardinality(Listed("clean")) <= Cardinality(cleans) + 1
            BY <2>1, <6>5, OneAdded
          <6>7. QED
            BY <1>0, <2>3, <5>1, <6>3, <6>6 DEF Few
        <5>4. QED
          BY <5>2, <5>3
      <4>2. QED
        BY <2>1, <4>1
    <3>3. QED
      BY <1>1, <2>1, <3>1, <3>2 DEF PlaceholdersInv, Removing, Few
  <2>4. QED
    BY <2>2, <2>3
<1>7. CASE DeleteDirties
  <2>1. pc[M] = "delete_dirties" /\ cleans' = cleans /\ tries' = tries
    BY <1>7 DEF DeleteDirties, M
  <2>2. CASE dirties # {}
    <3>1. PICK name \in dirties : dir' = dir \ {name} /\ dirties' = dirties \ {name}
      BY <1>7, <2>2 DEF DeleteDirties, DeleteOrNot, Unlink
    <3>2. pc'[M] = pc[M]
      BY <1>7, <2>2 DEF DeleteDirties
    <3>3. Listed("clean")' = Listed("clean") /\ Listed("dirty")' = Listed("dirty") \ {name}
      BY <1>0, <3>1 DEF Listed
    <3>4. QED
      BY <1>1, <2>1, <3>1, <3>2, <3>3 DEF PlaceholdersInv, Removing, Few
  <2>3. CASE dirties = {}
    <3>1. /\ Listed("clean")' = Listed("clean") /\ Listed("dirty")' = Listed("dirty")
          /\ dirties' = dirties /\ pc'[M] = "done"
      BY <1>0, <1>7, <2>3 DEF DeleteDirties, Listed, M
    <3>2. QED
      BY <1>1, <2>1, <3>1 DEF PlaceholdersInv, Removing, Few
  <2>4. QED
    BY <2>2, <2>3
<1>8. QED
  BY <1>2, <1>3, <1>4, <1>5, <1>6, <1>7 DEF MaintainerStep, MaintainStep

-----------------------------------------------------------------------------
(* Logs, when nothing fails.                                               *)

\* The logs of a kind that an actor is not about to recycle.
Left(a, k) == Listed(k) \ Pending(a)

Earlier(k) ==
  IF k = "native" THEN {} ELSE IF k = "java" THEN {"native"}
  ELSE IF k = "anr" THEN {"native", "java"} ELSE CrashKinds

\* The kinds whose logs the maintenance has listed.
Passed ==
  IF pc[M] = "done" THEN LogKinds
  ELSE Earlier(kind[M]) \cup (IF pc[M] \in {"init", "list"} THEN {} ELSE {kind[M]})

AnrInv ==
  /\ Tracing /\ Trims("tracer") => Cardinality(Left("tracer", "anr")) <= MaxOf["anr"]
  /\ Tracing /\ pc["tracer"] = "rename_anr" => Cardinality(Listed("anr")) <= MaxOf["anr"]
  /\ "anr" \in Passed => Cardinality(Left(M, "anr")) <= MaxOf["anr"] + 1

LEMMA OldestOf ==
  ASSUME NEW S \in SUBSET Name, S # {}
  PROVE  \E n \in S : \A x \in S : n.id <= x.id
<1> DEFINE ids == {n.id : n \in S}
<1>1. ids \subseteq Nat /\ ids # {}
  BY DEF Name
<1>2. PICK i \in ids : \A j \in ids : ~ (<<j, i>> \in OpToRel(<, Nat))
  BY <1>1, NatLessThanWellFounded, WFMin
<1>3. PICK n \in S : n.id = i
  BY <1>2
<1>4. ASSUME NEW x \in S
      PROVE  n.id <= x.id
  <2>1. x.id \in ids /\ x.id \in Nat /\ n.id \in Nat
    BY <1>1
  <2>2. ~(x.id < n.id)
    BY <1>2, <1>3, <2>1 DEF OpToRel
  <2>3. QED
    BY <2>1, <2>2
<1>5. QED
  BY <1>4

\* Of the logs that are not in excess there are as many as wanted at most: all but the oldest
\* are newer than that one.
LEMMA WantedFew ==
  ASSUME DirTypeOK, NEW k \in LogKinds
  PROVE  Cardinality(Listed(k) \ Excess(k)) <= MaxOf[k]
<1> DEFINE wanted == Listed(k) \ Excess(k)
<1>1. MaxOf[k] \in Nat \ {0}
  BY LogDirectoryAssumption
<1>2. CASE wanted = {}
  BY <1>1, <1>2, FS_EmptySet
<1>3. CASE wanted # {}
  <2>1. wanted \in SUBSET Name
    BY DEF Listed, DirTypeOK
  <2>2. PICK n \in wanted : \A x \in wanted : n.id <= x.id
    BY <1>3, <2>1, OldestOf
  <2> DEFINE newer == {x \in dir : x.kind = k /\ x.id > n.id}
  <2>3. ~(Cardinality(newer) >= MaxOf[k]) /\ n.kind = k
    BY <2>2 DEF Excess, Listed
  <2>4. \A x \in wanted \ {n} : x \in newer
    <3>1. SUFFICES ASSUME NEW x \in wanted, x # n
                   PROVE  x \in newer
      OBVIOUS
    <3>2. x \in Name /\ n \in Name /\ x.kind = k /\ x \in dir
      BY <2>1 DEF Listed
    <3>3. x.id # n.id /\ x.id \in Nat /\ n.id \in Nat
      BY <2>3, <3>1, <3>2 DEF Name
    <3>4. x.id > n.id
      BY <2>2, <3>3
    <3>5. QED
      BY <3>2, <3>4
  <2>5. IsFiniteSet(newer) /\ Cardinality(newer) \in Nat
    BY FS_Subset, FS_CardinalityType DEF DirTypeOK
  <2> HIDE DEF newer, wanted
  <2>6. wanted \subseteq newer \cup {n}
    BY <2>4
  <2>7. Cardinality(wanted) <= Cardinality(newer) + 1 /\ Cardinality(wanted) \in Nat
    BY <2>5, <2>6, OneAdded
  <2>8. QED
    BY <1>1, <2>3, <2>5, <2>7 DEF wanted
<1>4. QED
  BY <1>2, <1>3

LEMMA LeftOf ==
  ASSUME DirTypes, StoreInv, NEW a \in Actors, NEW k \in LogKinds, canFail = {},
         RecycleStep(a) \/ TrimStep(a), Pending(a) # {} => Trims(a)
  PROVE  Left(a, k)' \subseteq Left(a, k) /\ Listed(k)' \subseteq Listed(k)
<1> USE NothingFails, KindsDiffer
    DEF DirTypes, DirTypeOK, Goto, At, Call, WorkOn, Return, files, Listed, Left, Pending
<1>1. CASE Recycle(a)
  BY <1>1 DEF Recycle, trimming
<1>2. CASE DeleteFile(a)
  BY <1>2 DEF DeleteFile, Unlink, trimming
<1>3. CASE ToDirty(a)
  BY <1>3 DEF ToDirty, Rename, trimming
<1>4. CASE OpenDirty(a)
  BY <1>4 DEF OpenDirty, trimming, StoreInv, PathDirty
<1>5. CASE WriteZeros(a)
  BY <1>5 DEF WriteZeros, trimming
<1>6. CASE ToClean(a)
  BY <1>6 DEF ToClean, Rename, trimming
<1>7. CASE ListLogs(a)
  BY <1>7 DEF ListLogs, Trims, Working
<1>8. CASE TrimNext(a)
  BY <1>8 DEF TrimNext
<1>9. CASE TrimDone(a)
  BY <1>9 DEF TrimDone
<1>10. QED
  BY <1>1, <1>2, <1>3, <1>4, <1>5, <1>6, <1>7, <1>8, <1>9 DEF RecycleStep, TrimStep

LEMMA LogsOfMaintenance ==
  ASSUME DirTypes, StoreInv, MaintainStep, NEW k \in LogKinds
  PROVE  Listed(k)' \subseteq Listed(k)
<1> USE KindsDiffer DEF files, Listed
<1>1. CASE FillFromNew
  BY <1>1 DEF FillFromNew
<1>2. CASE DeleteSurplus \/ DeleteDirties
  BY <1>2 DEF DeleteSurplus, DeleteDirties, DeleteOrNot, Unlink
<1>3. CASE Initialize \/ ListPlaceholders \/ FillFromDirty \/ Filled \/ FillDone
  BY <1>3 DEF Initialize, ListPlaceholders, FillFromDirty, Filled, FillDone
<1>4. QED
  BY <1>1, <1>2, <1>3 DEF MaintainStep

LEMMA LeftOfMaintainer ==
  ASSUME Safe, Phases, MaintainerStep, canFail = {}, NEW k \in LogKinds
  PROVE  Left(M, k)' \subseteq Left(M, k) /\ Listed(k)' \subseteq Listed(k)
<1>1. CASE RecycleStep(M) \/ TrimStep(M)
  BY <1>1, LeftOf, MIsThere DEF Safe, Phases, MaintainerPhases
<1>2. CASE MaintainStep
  <2>1. pc[M] = "init" \/ pc[M] \in AfterLogs
    BY <1>2 DEF MaintainStep, Initialize, ListPlaceholders, FillFromDirty, FillFromNew, Filled,
           FillDone, DeleteSurplus, DeleteDirties, At, AfterLogs, M
  <2>2. Pending(M) = {}
    BY <2>1 DEF Phases, MaintainerPhases, Trims, Working, AfterLogs
  <2>3. QED
    BY <1>2, <2>2, LogsOfMaintenance DEF Left, Safe
<1>3. QED
  BY <1>1, <1>2 DEF MaintainerStep

\* A kind is passed when its logs are listed, and all are when there is nothing to do.
LEMMA PassedOf ==
  ASSUME Safe, Phases, MaintainerStep, canFail = {}, NEW k \in Passed'
  PROVE  \/ k \in Passed
         \/ ListLogs(M) /\ k = kind[M]
         \/ Initialize /\ EverythingOK /\ k \in LogKinds
<1> USE NothingFails, KindsDiffer, MIsThere
    DEF Safe, DirTypes, DirTypeOK, Goto, At, Call, WorkOn, Return, trimming, Passed, Earlier
<1>1. CASE RecycleStep(M)
  <2>1. ret[M] \in {"trim", "filled"} /\ pc[M] \in Working
    BY <1>1 DEF RecycleStep, Recycle, DeleteFile, ToDirty, OpenDirty, WriteZeros, ToClean, Working,
           Phases, MaintainerPhases
  <2>2. kind' = kind /\ pc'[M] \notin {"init", "list", "done"}
    BY <1>1, <2>1 DEF RecycleStep, Recycle, DeleteFile, ToDirty, OpenDirty, WriteZeros, ToClean
  <2>3. QED
    BY <2>1, <2>2 DEF Working
<1>2. CASE TrimStep(M)
  <2>1. CASE ListLogs(M)
    BY <2>1 DEF ListLogs
  <2>2. CASE TrimNext(M)
    BY <2>2 DEF TrimNext
  <2>3. CASE TrimDone(M)
    <3>1. pc[M] = "trim" /\ kind[M] \in LogKinds
      BY <2>3 DEF TrimDone
    <3>2. CASE kind[M] = "trace"
      <4>1. kind' = kind /\ pc'[M] = "list_clean"
        BY <2>3, <3>2 DEF TrimDone
      <4>2. QED
        BY <3>1, <4>1
    <3>3. CASE kind[M] # "trace"
      <4>1. kind'[M] = NextKind(kind[M]) /\ pc'[M] = "list"
        BY <2>3, <3>3 DEF TrimDone
      <4>2. k \in Earlier(NextKind(kind[M]))
        BY <4>1
      <4>3. QED
        BY <3>1, <3>3, <4>2 DEF NextKind
    <3>4. QED
      BY <3>2, <3>3
  <2>4. QED
    BY <1>2, <2>1, <2>2, <2>3 DEF TrimStep
<1>3. CASE Initialize
  <2>1. pc[M] = "init" /\ kind[M] = "native"
    BY <1>3 DEF Initialize, Phases, MaintainerPhases, M
  <2>2. kind' = kind
    BY <1>3 DEF Initialize
  <2>3. pc'[M] = "list" \/ (pc'[M] = "done" /\ EverythingOK)
    <3>1. pc' = [pc EXCEPT ![M] = "list"] \/ (pc' = [pc EXCEPT ![M] = "done"] /\ EverythingOK)
      BY <1>3 DEF Initialize, M
    <3>2. QED
      BY <3>1
  <2>4. QED
    BY <1>3, <2>1, <2>2, <2>3
<1>4. CASE MaintainStep /\ ~Initialize
  <2>1. pc[M] \in AfterLogs
    BY <1>4 DEF MaintainStep, ListPlaceholders, FillFromDirty, FillFromNew, Filled,
           FillDone, DeleteSurplus, DeleteDirties, AfterLogs, M
  <2>2. kind[M] = "trace"
    BY <2>1 DEF Phases, MaintainerPhases
  <2>3. Passed = LogKinds
    BY <2>1, <2>2 DEF AfterLogs
  <2>4. kind' = kind
    BY <1>4 DEF MaintainStep, ListPlaceholders, FillFromDirty, FillFromNew, Filled,
           FillDone, DeleteSurplus, DeleteDirties
  <2>5. QED
    BY <2>2, <2>3, <2>4
<1>5. QED
  BY <1>1, <1>2, <1>3, <1>4 DEF MaintainerStep

LEMMA PassedAreKinds ==
  ASSUME DirTypes'
  PROVE  Passed' \subseteq LogKinds
BY KindsDiffer, MIsThere DEF DirTypes, DirTypeOK, Passed, Earlier

\* Listing the logs of a kind leaves as many as wanted; and no more come.
LEMMA WithinOf ==
  ASSUME Safe, Safe', Phases, MaintainerStep, canFail = {}, NEW k \in Passed'
  PROVE  /\ k \in LogKinds /\ Left(M, k)' \subseteq Left(M, k)
         /\ k \in Passed \/ Cardinality(Left(M, k)') <= MaxOf[k]
<1>1. k \in LogKinds
  BY PassedAreKinds DEF Safe
<1>2. Left(M, k)' \subseteq Left(M, k)
  BY <1>1, LeftOfMaintainer
<1>3. CASE ListLogs(M) /\ k = kind[M]
  <2>1. Left(M, k)' \subseteq Listed(k) \ Excess(k)
    BY <1>3, NothingFails, MIsThere DEF ListLogs, Left, Pending, Listed, Safe, DirTypes, DirTypeOK,
       Goto, files
  <2>2. IsFiniteSet(Listed(k) \ Excess(k))
    BY Counts, Fewer DEF Safe, DirTypes
  <2>3. /\ Cardinality(Left(M, k)') \in Nat /\ Cardinality(Listed(k) \ Excess(k)) \in Nat
        /\ Cardinality(Left(M, k)') <= Cardinality(Listed(k) \ Excess(k))
    BY <2>1, <2>2, Fewer
  <2>4. Cardinality(Listed(k) \ Excess(k)) <= MaxOf[k] /\ MaxOf[k] \in Nat
    BY <1>1, WantedFew, LogDirectoryAssumption DEF Safe, DirTypes
  <2>5. QED
    BY <1>1, <1>2, <2>3, <2>4
<1>4. CASE Initialize /\ EverythingOK
  <2>1. Left(M, k)' \subseteq Listed(k)
    BY <1>4 DEF Initialize, Left, Listed, files
  <2>2. /\ Cardinality(Left(M, k)') \in Nat /\ Cardinality(Listed(k)) \in Nat
        /\ Cardinality(Left(M, k)') <= Cardinality(Listed(k))
    BY <2>1, Counts, Fewer DEF Safe, DirTypes
  <2>3. Cardinality(Listed(k)) <= MaxOf[k] /\ MaxOf[k] \in Nat
    BY <1>1, <1>4, LogDirectoryAssumption DEF EverythingOK, LogsWithin
  <2>4. QED
    BY <1>1, <1>2, <2>2, <2>3
<1>5. QED
  BY <1>1, <1>2, <1>3, <1>4, PassedOf

\* Only RenameToAnr makes an ANR log.
LEMMA AnrLogsOf ==
  ASSUME DirTypes, StoreInv, TracerPhases, canFail = {}, TracerStep \/ CrashStep
  PROVE  \/ Listed("anr")' \subseteq Listed("anr")
         \/ /\ RenameToAnr /\ Tracing
            /\ Listed("anr")' \subseteq Listed("anr") \cup {[kind |-> "anr", id |-> time]}
<1> USE KindsDiffer DEF files, Listed
<1>1. CASE TracerStep /\ (RecycleStep("tracer") \/ TrimStep("tracer"))
  BY <1>1, LeftOf DEF TracerStep, Tracing, TracerPhases
<1>2. CASE TracerStep /\ RenameToAnr
  BY <1>2 DEF RenameToAnr, Rename, TracerStep
<1>3. CASE CleanTraces \/ OpenTrace \/ CheckProcessAnrState
  BY <1>3 DEF CleanTraces, OpenTrace, CheckProcessAnrState, OpenLog, Takeable, Rename
<1>4. CASE CrashStep
  BY <1>4 DEF CrashStep, NativeCrash, JavaCrash, TakePlaceholder, CreateJavaLog, OpenLog, Takeable,
     Rename, JavaLog, DeleteOrNot, Unlink
<1>5. QED
  BY <1>1, <1>2, <1>3, <1>4 DEF TracerStep, TraceStep

\* The callback comes to the trimming by its listing.
LEMMA TrimsOfTracer ==
  ASSUME Safe, TracerPhases, TracerStep, Trims("tracer")'
  PROVE  Trims("tracer") \/ (ListLogs("tracer") /\ kind["tracer"] = "anr")
<1> USE DEF Safe, DirTypes, DirTypeOK, Goto, At, Call, WorkOn, Return, Trims, Working, TracerPhases,
        TracerStep, Tracing
<1>1. CASE RecycleStep("tracer")
  BY <1>1 DEF RecycleStep, Recycle, DeleteFile, ToDirty, OpenDirty, WriteZeros, ToClean
<1>2. CASE TrimStep("tracer")
  BY <1>2 DEF TrimStep, ListLogs, TrimNext, TrimDone
<1>3. CASE TraceStep
  BY <1>3 DEF TraceStep, CleanTraces, OpenTrace, CheckProcessAnrState, RenameToAnr
<1>4. QED
  BY <1>1, <1>2, <1>3

LEMMA RenamesAfterTrim ==
  ASSUME Safe, TracerStep, pc'["tracer"] = "rename_anr"
  PROVE  TrimDone("tracer") /\ Trims("tracer") /\ Pending("tracer") = {}
<1> USE DEF Safe, DirTypes, DirTypeOK, Goto, At, Call, WorkOn, Return, TracerStep, Tracing
<1>1. CASE RecycleStep("tracer")
  BY <1>1 DEF RecycleStep, Recycle, DeleteFile, ToDirty, OpenDirty, WriteZeros, ToClean
<1>2. CASE TrimStep("tracer")
  BY <1>2 DEF TrimStep, ListLogs, TrimNext, TrimDone, Trims, Pending
<1>3. CASE TraceStep
  BY <1>3 DEF TraceStep, CleanTraces, OpenTrace, CheckProcessAnrState, RenameToAnr
<1>4. QED
  BY <1>1, <1>2, <1>3

LEMMA AnrOfMaintainer ==
  ASSUME Safe, Safe', Phases, AnrInv, MaintainerStep, canFail = {}
  PROVE  AnrInv'
<1>1. "anr" \in LogKinds /\ MaxOf["anr"] \in Nat
  BY KindsDiffer, LogDirectoryAssumption
<1>2. Left(M, "anr")' \subseteq Left(M, "anr") /\ Listed("anr")' \subseteq Listed("anr")
  BY <1>1, LeftOfMaintainer
<1>3. IsFiniteSet(Listed("anr"))
  BY Counts DEF Safe, DirTypes
<1>4. ASSUME Tracing
      PROVE  /\ pc'["tracer"] = pc["tracer"] /\ Trims("tracer")' = Trims("tracer")
             /\ Left("tracer", "anr")' \subseteq Left("tracer", "anr")
  <2>1. /\ pc'["tracer"] = pc["tracer"] /\ ret'["tracer"] = ret["tracer"]
        /\ path'["tracer"] = path["tracer"] /\ todo'["tracer"] = todo["tracer"]
    BY <1>4, MaintainerAlone, MIsThere DEF Safe, Tracing
  <2>2. QED
    BY <1>2, <2>1 DEF Trims, Left, Pending
<1>5. Tracing /\ Trims("tracer")' => Cardinality(Left("tracer", "anr")') <= MaxOf["anr"]
  <2>1. SUFFICES ASSUME Tracing, Trims("tracer")
                 PROVE  Cardinality(Left("tracer", "anr")') <= MaxOf["anr"]
    BY <1>4
  <2>2. IsFiniteSet(Left("tracer", "anr"))
    BY <1>3, Fewer DEF Left
  <2>3. /\ Cardinality(Left("tracer", "anr")') \in Nat /\ Cardinality(Left("tracer", "anr")) \in Nat
        /\ Cardinality(Left("tracer", "anr")') <= Cardinality(Left("tracer", "anr"))
    BY <1>4, <2>1, <2>2, Fewer
  <2>4. QED
    BY <1>1, <2>1, <2>3 DEF AnrInv
<1>6. Tracing /\ pc'["tracer"] = "rename_anr" => Cardinality(Listed("anr")') <= MaxOf["anr"]
  <2>1. /\ Cardinality(Listed("anr")') \in Nat /\ Cardinality(Listed("anr")) \in Nat
        /\ Cardinality(Listed("anr")') <= Cardinality(Listed("anr"))
    BY <1>2, <1>3, Fewer
  <2>2. QED
    BY <1>1, <1>4, <2>1 DEF AnrInv
<1>7. "anr" \in Passed' => Cardinality(Left(M, "anr")') <= MaxOf["anr"] + 1
  <2>1. IsFiniteSet(Left(M, "anr"))
    BY <1>3, Fewer DEF Left
  <2>2. /\ Cardinality(Left(M, "anr")') \in Nat /\ Cardinality(Left(M, "anr")) \in Nat
        /\ Cardinality(Left(M, "anr")') <= Cardinality(Left(M, "anr"))
    BY <1>2, <2>1, Fewer
  <2>3. QED
    BY <1>1, <2>2, WithinOf DEF AnrInv
<1>8. QED
  BY <1>5, <1>6, <1>7 DEF AnrInv, Tracing

LEMMA AnrOfTracer ==
  ASSUME Safe, Safe', Phases, AnrInv, TracerStep \/ CrashStep, canFail = {}
  PROVE  AnrInv'
<1>1. "anr" \in LogKinds /\ MaxOf["anr"] \in Nat
  BY KindsDiffer, LogDirectoryAssumption
<1>2. IsFiniteSet(Listed("anr")) /\ Cardinality(Listed("anr")) \in Nat
  BY Counts DEF Safe, DirTypes
<1>3. CASE Tracing /\ RenameToAnr /\ Listed("anr")' \subseteq Listed("anr") \cup {[kind |-> "anr", id |-> time]}
  <2>1. pc["tracer"] = "rename_anr" /\ pc'["tracer"] # "rename_anr" /\ ~Trims("tracer")'
    BY <1>3 DEF RenameToAnr, At, Goto, Call, WorkOn, Safe, DirTypes, DirTypeOK, Trims, Working,
       Tracing
  <2>2. /\ Cardinality(Listed("anr")') \in Nat
        /\ Cardinality(Listed("anr")') <= Cardinality(Listed("anr")) + 1
    BY <1>2, <1>3, OneAdded
  <2>3. Cardinality(Listed("anr")') <= MaxOf["anr"] + 1
    BY <1>1, <1>2, <1>3, <2>1, <2>2 DEF AnrInv
  <2>4. Cardinality(Left(M, "anr")') \in Nat /\ Cardinality(Left(M, "anr")') <= Cardinality(Listed("anr")')
    BY CountsNext, Fewer DEF Safe, DirTypes, Left
  <2>5. QED
    BY <1>1, <2>1, <2>2, <2>3, <2>4 DEF AnrInv
<1>4. CASE Listed("anr")' \subseteq Listed("anr")
  <2>1. /\ Cardinality(Listed("anr")') \in Nat
        /\ Cardinality(Listed("anr")') <= Cardinality(Listed("anr"))
    BY <1>2, <1>4, Fewer
  <2>2. "anr" \in Passed' => Cardinality(Left(M, "anr")') <= MaxOf["anr"] + 1
    <3>1. Passed' = Passed /\ Left(M, "anr")' \subseteq Left(M, "anr")
      BY <1>4, OthersKeep DEF Safe, Passed, Left, Pending
    <3>2. IsFiniteSet(Left(M, "anr"))
      BY <1>2, Fewer DEF Left
    <3>3. /\ Cardinality(Left(M, "anr")') \in Nat /\ Cardinality(Left(M, "anr")) \in Nat
          /\ Cardinality(Left(M, "anr")') <= Cardinality(Left(M, "anr"))
      BY <3>1, <3>2, Fewer
    <3>4. QED
      BY <1>1, <3>1, <3>3 DEF AnrInv
  <2>3. CASE CrashStep
    <3>1. Tracing => /\ pc'["tracer"] = pc["tracer"] /\ Trims("tracer")' = Trims("tracer")
                     /\ Left("tracer", "anr")' \subseteq Left("tracer", "anr")
      BY <1>4, <2>3 DEF CrashStep, NativeCrash, JavaCrash, TakePlaceholder, CreateJavaLog, Goto,
         trimming, Trims, Left, Pending, Safe, DirTypes, DirTypeOK, Tracing
    <3>2. IsFiniteSet(Left("tracer", "anr"))
      BY <1>2, Fewer DEF Left
    <3>3. Tracing /\ Trims("tracer")' => Cardinality(Left("tracer", "anr")') <= MaxOf["anr"]
      <4>1. SUFFICES ASSUME Tracing, Trims("tracer")
                     PROVE  Cardinality(Left("tracer", "anr")') <= MaxOf["anr"]
        BY <3>1
      <4>2. /\ Cardinality(Left("tracer", "anr")') \in Nat /\ Cardinality(Left("tracer", "anr")) \in Nat
            /\ Cardinality(Left("tracer", "anr")') <= Cardinality(Left("tracer", "anr"))
        BY <3>1, <3>2, <4>1, Fewer
      <4>3. QED
        BY <1>1, <4>1, <4>2 DEF AnrInv
    <3>4. QED
      BY <1>1, <1>2, <2>1, <2>2, <3>1, <3>3 DEF AnrInv, Tracing
  <2>4. CASE TracerStep
    <3>1. Trims("tracer")' => Cardinality(Left("tracer", "anr")') <= MaxOf["anr"]
      <4>1. SUFFICES ASSUME Trims("tracer")'
                     PROVE  Cardinality(Left("tracer", "anr")') <= MaxOf["anr"]
        OBVIOUS
      <4>2. CASE Trims("tracer")
        <5>1. RecycleStep("tracer") \/ TrimStep("tracer")
          BY <2>4, <4>2 DEF TracerStep, TraceStep, CleanTraces, OpenTrace, CheckProcessAnrState,
             RenameToAnr, At, Trims, Working
        <5>2. Left("tracer", "anr")' \subseteq Left("tracer", "anr")
          BY <1>1, <2>4, <5>1, LeftOf DEF Safe, Phases, TracerPhases, TracerStep, Tracing
        <5>3. IsFiniteSet(Left("tracer", "anr"))
          BY <1>2, Fewer DEF Left
        <5>4. /\ Cardinality(Left("tracer", "anr")') \in Nat
              /\ Cardinality(Left("tracer", "anr")) \in Nat
              /\ Cardinality(Left("tracer", "anr")') <= Cardinality(Left("tracer", "anr"))
          BY <5>2, <5>3, Fewer
        <5>5. QED
          BY <1>1, <2>4, <4>2, <5>4 DEF AnrInv, TracerStep
      <4>3. CASE ListLogs("tracer") /\ kind["tracer"] = "anr"
        <5>1. Left("tracer", "anr")' \subseteq Listed("anr") \ Excess("anr")
          BY <2>4, <4>3, NothingFails DEF ListLogs, Left, Pending, Listed, Safe, DirTypes, DirTypeOK,
             Goto, files, TracerStep, Tracing
        <5>2. IsFiniteSet(Listed("anr") \ Excess("anr"))
          BY <1>2, Fewer
        <5>3. /\ Cardinality(Left("tracer", "anr")') \in Nat
              /\ Cardinality(Listed("anr") \ Excess("anr")) \in Nat
              /\ Cardinality(Left("tracer", "anr")') <= Cardinality(Listed("anr") \ Excess("anr"))
          BY <5>1, <5>2, Fewer
        <5>4. Cardinality(Listed("anr") \ Excess("anr")) <= MaxOf["anr"]
          BY <1>1, WantedFew DEF Safe, DirTypes
        <5>5. QED
          BY <1>1, <5>3, <5>4
      <4>4. QED
        BY <2>4, <4>1, <4>2, <4>3, TrimsOfTracer DEF Phases
    <3>2. pc'["tracer"] = "rename_anr" => Cardinality(Listed("anr")') <= MaxOf["anr"]
      <4>1. SUFFICES ASSUME pc'["tracer"] = "rename_anr"
                     PROVE  Cardinality(Listed("anr")') <= MaxOf["anr"]
        OBVIOUS
      <4>2. Trims("tracer") /\ Left("tracer", "anr") = Listed("anr")
        BY <2>4, <4>1, RenamesAfterTrim DEF Left
      <4>3. QED
        BY <1>1, <1>2, <2>1, <2>4, <4>2 DEF AnrInv, TracerStep
    <3>3. QED
      BY <2>2, <3>1, <3>2 DEF AnrInv
  <2>5. QED
    BY <2>3, <2>4
<1>5. QED
  BY <1>3, <1>4, AnrLogsOf DEF Safe, Phases

-----------------------------------------------------------------------------
(* The limits *)

Bounds == canFail = {} => PlaceholdersInv /\ AnrInv

LEMMA BoundsInitial ==
  ASSUME InitDir
  PROVE  Bounds
<1>1. IsFiniteSet(cleans)
  BY FS_EmptySet DEF InitDir
<1>2. pc[M] = "init" /\ kind[M] = "native" /\ (Tracing => pc["tracer"] = "idle")
  BY MIsThere DEF InitDir, M, Tracing
<1>3. QED
  BY <1>1, <1>2 DEF Bounds, PlaceholdersInv, AnrInv, Removing, Trims, Working, Passed, Earlier

LEMMA BoundsInductive ==
  ASSUME Safe, Safe', Phases, Bounds, [NextDir]_dirVars
  PROVE  Bounds'
<1>1. CASE NextDir
  <2>1. canFail' = canFail
    BY <1>1 DEF NextDir
  <2>2. QED
    BY <1>1, <2>1, WhoSteps, PlaceholdersOfTracer, PlaceholdersOfMaintainer, AnrOfMaintainer,
       AnrOfTracer DEF Bounds
<1>2. CASE UNCHANGED dirVars
  BY <1>2 DEF Bounds, PlaceholdersInv, AnrInv, Few, FewUnlisted, OneMore, ByTracer, Removing, Trims,
     Left, Pending, Passed, Listed, dirVars, files, calling, trimming, filling
<1>3. QED
  BY <1>1, <1>2

LEMMA BoundsMean ==
  ASSUME Safe, Phases, Bounds
  PROVE  DirectoryBounded
<1> SUFFICES ASSUME canFail = {}, At("maintainer", "done"),
                    "tracer" \in Actors => At("tracer", "idle")
             PROVE  /\ Cardinality(Listed("clean")) <= PlaceholderMax + 1 /\ Listed("dirty") = {}
                    /\ Cardinality(Listed("anr")) <= MaxOf["anr"] + 1
  BY DEF DirectoryBounded, PlaceholdersBounded, AnrLogsBounded
<1>1. pc[M] = "done" /\ (Tracing => pc["tracer"] = "idle")
  BY DEF At, M, Tracing
<1>2. OneMore = 0 /\ \A n : ~ByTracer(n)
  BY <1>1 DEF OneMore, ByTracer
<1>3. Cardinality(Listed("clean")) \in Nat /\ PlaceholderMax \in Nat
  BY Counts, LogDirectoryAssumption DEF Safe, DirTypes
<1>4. Cardinality(Listed("clean")) <= PlaceholderMax + 1
  BY <1>1, <1>2, <1>3 DEF Bounds, PlaceholdersInv, Few
<1>5. Listed("dirty") = {}
  BY <1>1, <1>2 DEF Bounds, PlaceholdersInv, Phases, MaintainerPhases
<1>6. Left(M, "anr") = Listed("anr") /\ "anr" \in Passed
  BY <1>1, KindsDiffer DEF Phases, MaintainerPhases, Trims, Working, Left, Passed
<1>7. QED
  BY <1>4, <1>5, <1>6 DEF Bounds, AnrInv

\* If nothing fails the directory stays within the limits the application has set, but for one
\* placeholder and one ANR log that came while the oldest were counted.
THEOREM LimitsKept == SpecDir => []DirectoryBounded
<1>1. Safe /\ Phases /\ Bounds => DirectoryBounded
  BY BoundsMean
<1>2. QED
  BY <1>1, SafeInitial, SafeInductive, PhasesInitial, PhasesInductive, BoundsInitial,
     BoundsInductive, PTL DEF SpecDir

-----------------------------------------------------------------------------
(* The maintenance by itself.                                              *)

Alone ==
  canFail = {} /\ time = StartTime /\ \A a \in Actors \ {M} : pc[a] = "idle"

Clean == Cardinality(Listed("clean"))

\* The numbers of the placeholders grow: a fresh one is not yet there.
Numbering == \A n \in Listed("clean") : n.id <= serial

LogsTrimmed == \A k \in Passed : Cardinality(Left(M, k)) <= MaxOf[k]

\* Each try makes one clean placeholder more, and the count is right.
Counting ==
  /\ pc[M] = "list_clean" /\ tries > 0 => Clean = PlaceholderMax
  /\ pc[M] = "list_dirty" =>
       cleans = Listed("clean") /\ (IF tries = 0 THEN count = Clean ELSE Clean = PlaceholderMax)
  /\ pc[M] = "fill" =>
       /\ count = Clean /\ count >= tries
       /\ IF tries = 0 THEN cleans = Listed("clean") ELSE count <= PlaceholderMax
  /\ Fills =>
       /\ count = Clean /\ count >= tries /\ count < PlaceholderMax /\ ok[M] = TRUE
       /\ pc[M] \in {"clean", "zero", "to_clean"} /\ (pc[M] # "clean" => path[M] \in dir)
  /\ pc[M] = "filled" =>
       ok[M] = TRUE /\ count + 1 = Clean /\ count >= tries /\ count < PlaceholderMax
  /\ pc[M] = "surplus" => cleans = Listed("clean") /\ Clean >= PlaceholderMax
  /\ pc[M] \in {"delete_dirties", "done"} => Clean = PlaceholderMax

AloneInv == Numbering /\ (Alone => LogsTrimmed /\ Counting)

LEMMA NumberingStays ==
  ASSUME Safe, Numbering, NextDir
  PROVE  Numbering'
<1> DEFINE Grows ==
      \/ serial' = serial /\ Listed("clean")' \subseteq Listed("clean")
      \/ serial' = serial + 1 /\ Listed("clean")' \subseteq Listed("clean") \cup {Fresh("clean")}
<1>1. Grows
  <2> USE KindsDiffer DEF Safe, DirTypes, DirTypeOK, files, others, Listed, Numbered
  <2>1. ASSUME NEW a \in Actors, RecycleStep(a)
        PROVE  Grows
    <3>1. CASE Recycle(a) \/ WriteZeros(a)
      BY <3>1 DEF Recycle, WriteZeros
    <3>2. CASE DeleteFile(a)
      BY <3>2 DEF DeleteFile, Unlink
    <3>3. CASE ToDirty(a)
      BY <3>3 DEF ToDirty, Rename
    <3>4. CASE OpenDirty(a)
      BY <3>4 DEF OpenDirty, At, StoreInv, PathDirty
    <3>5. CASE ToClean(a)
      BY <3>5 DEF ToClean, Rename
    <3>6. QED
      BY <2>1, <3>1, <3>2, <3>3, <3>4, <3>5 DEF RecycleStep
  <2>2. ASSUME NEW a \in Actors, TrimStep(a)
        PROVE  Grows
    BY <2>2 DEF TrimStep, ListLogs, TrimNext, TrimDone
  <2>3. CASE MaintainStep
    BY <2>3 DEF MaintainStep, Initialize, ListPlaceholders, FillFromDirty, FillFromNew, Filled,
       FillDone, DeleteSurplus, DeleteDirties, DeleteOrNot, Unlink
  <2>4. CASE TraceStep
    BY <2>4 DEF TraceStep, CleanTraces, OpenTrace, CheckProcessAnrState, RenameToAnr, OpenLog,
       Takeable, Rename
  <2>5. CASE NativeCrash \/ JavaCrash \/ TakePlaceholder \/ CreateJavaLog
    BY <2>5 DEF NativeCrash, JavaCrash, TakePlaceholder, CreateJavaLog, OpenLog, Takeable, Rename,
       JavaLog, DeleteOrNot, Unlink
  <2>6. QED
    BY <2>1, <2>2, <2>3, <2>4, <2>5 DEF NextDir
<1>2. serial \in Nat /\ \A n \in Listed("clean") : n.id \in Nat
  BY DEF Safe, DirTypes, DirTypeOK, Listed, Name
<1>3. Fresh("clean").id = serial + 1
  BY DEF Fresh
<1> HIDE DEF Grows
<1>4. ASSUME NEW n \in Listed("clean")'
      PROVE  n.id <= serial'
  BY <1>1, <1>2, <1>3 DEF Grows, Numbering
<1>5. QED
  BY <1>4 DEF Numbering

LEMMA AloneBefore ==
  ASSUME Safe, Untouched, NextDir, Alone'
  PROVE  Alone /\ MaintainerStep
<1>1. time \in Nat /\ StartTime \in Nat /\ canFail = {}
  BY LogDirectoryAssumption DEF Safe, DirTypes, DirTypeOK, Alone, NextDir
<1>2. time = StartTime /\ (Tracing => pc["tracer"] = "idle")
  BY <1>1, ClockOf DEF Alone, Untouched, Safe
<1>3. ~TracerStep
  <2>1. TracerStep => CleanTraces
    BY <1>2 DEF TracerStep, RecycleStep, Recycle, DeleteFile, ToDirty, OpenDirty, WriteZeros,
           ToClean, TrimStep, ListLogs, TrimNext, TrimDone, TraceStep, OpenTrace,
           CheckProcessAnrState, RenameToAnr, At
  <2>2. CleanTraces => time' = time + 1
    BY DEF CleanTraces
  <2>3. QED
    BY <1>1, <1>2, <2>1, <2>2 DEF Alone
<1>4. ~CrashStep
  BY MIsThere DEF CrashStep, NativeCrash, JavaCrash, TakePlaceholder, CreateJavaLog, At, Goto, Alone,
     Safe, DirTypes, DirTypeOK
<1>5. MaintainerStep
  BY <1>3, <1>4, WhoSteps
<1>6. QED
  BY <1>1, <1>2, <1>5, MaintainerAlone DEF Alone, Safe

LEMMA TrimmedStays ==
  ASSUME Safe, Safe', Phases, LogsTrimmed, MaintainerStep, canFail = {}
  PROVE  LogsTrimmed'
<1> SUFFICES ASSUME NEW k \in Passed'
             PROVE  Cardinality(Left(M, k)') <= MaxOf[k]
  BY DEF LogsTrimmed
<1>1. k \in LogKinds /\ Left(M, k)' \subseteq Left(M, k)
  BY WithinOf
<1>2. CASE k \in Passed
  <2>1. IsFiniteSet(Left(M, k))
    BY Counts, Fewer DEF Left, Safe, DirTypes
  <2>2. /\ Cardinality(Left(M, k)') \in Nat /\ Cardinality(Left(M, k)) \in Nat
        /\ Cardinality(Left(M, k)') <= Cardinality(Left(M, k))
    BY <1>1, <2>1, Fewer
  <2>3. QED
    BY <1>1, <1>2, <2>2, LogDirectoryAssumption DEF LogsTrimmed
<1>3. QED
  BY <1>2, WithinOf

\* A try that takes up a dirty file and makes it clean.
LEMMA CountingOfRecycle ==
  ASSUME Safe, Safe', Phases, Numbering, Counting, RecycleStep(M), canFail = {}
  PROVE  Counting'
<1> USE NothingFails, KindsDiffer, MIsThere
    DEF Goto, At, Call, WorkOn, Return, files, others, filling, trimming
<1>1. /\ pc \in [Actors -> Places] /\ ret \in [Actors -> {"idle", "trim", "filled"}]
      /\ ok \in [Actors -> BOOLEAN] /\ path \in [Actors -> Name \cup {Gone}]
      /\ pc[M] \in Working /\ ret[M] \in {"trim", "filled"}
      /\ IsFiniteSet(Listed("clean")) /\ Clean \in Nat /\ count \in Nat
  BY Counts DEF RecycleStep, Recycle, DeleteFile, ToDirty, OpenDirty, WriteZeros, ToClean, Working,
     Phases, MaintainerPhases, Safe, DirTypes, DirTypeOK, Clean
<1>2. ret' = ret /\ UNCHANGED <<cleans, count, tries>>
  BY DEF RecycleStep, Recycle, DeleteFile, ToDirty, OpenDirty, WriteZeros, ToClean
<1>3. CASE ret[M] = "trim"
  <2>1. pc'[M] \in Working \cup {"trim"}
    BY <1>1, <1>3 DEF RecycleStep, Recycle, DeleteFile, ToDirty, OpenDirty, WriteZeros, ToClean,
       Working
  <2>2. QED
    BY <1>2, <1>3, <2>1 DEF Counting, Fills, Working
<1>4. CASE ret[M] = "filled"
  <2>1. /\ Fills /\ count = Clean /\ count >= tries /\ count < PlaceholderMax /\ ok[M] = TRUE
        /\ pc[M] \in {"clean", "zero", "to_clean"} /\ (pc[M] # "clean" => path[M] \in dir)
    BY <1>1, <1>4 DEF Fills, Counting
  <2>2. CASE OpenDirty(M)
    <3>1. /\ dir' = dir \cup {path[M]} /\ path' = path /\ pc'[M] = "zero" /\ ok' = ok
      BY <1>1, <2>2 DEF OpenDirty
    <3>2. path[M].kind = "dirty"
      BY <2>2 DEF OpenDirty, Safe, StoreInv, PathDirty
    <3>3. Listed("clean")' = Listed("clean")
      BY <3>1, <3>2 DEF Listed
    <3>4. QED
      BY <1>2, <2>1, <3>1, <3>3 DEF Counting, Clean
  <2>3. CASE WriteZeros(M)
    <3>1. /\ dir' = dir /\ path' = path /\ pc'[M] = "to_clean" /\ ok' = ok /\ pc[M] = "zero"
      BY <1>1, <2>3 DEF WriteZeros
    <3>2. Listed("clean")' = Listed("clean")
      BY <3>1 DEF Listed
    <3>3. QED
      BY <1>2, <2>1, <3>1, <3>2 DEF Counting, Clean
  <2>4. CASE ToClean(M)
    <3>1. /\ dir' = (dir \ {path[M]}) \cup {Fresh("clean")} /\ path' = path
          /\ pc'[M] = "filled" /\ ok'[M] = TRUE
      BY <1>1, <1>4, <2>1, <2>4 DEF ToClean, Rename
    <3>2. path[M].kind = "dirty"
      BY <2>4 DEF ToClean, Safe, StoreInv, PathDirty
    <3>3. Listed("clean")' = Listed("clean") \cup {Fresh("clean")}
      BY <3>1, <3>2 DEF Listed
    <3>4. Fresh("clean") \notin Listed("clean")
      BY DEF Numbering, Fresh, Safe, DirTypes, DirTypeOK
    <3>5. Clean' = Clean + 1
      BY <1>1, <3>3, <3>4, FS_AddElement DEF Clean
    <3>6. QED
      BY <1>2, <2>1, <3>1, <3>5 DEF Counting, Fills, Working
  <2>5. QED
    BY <2>1, <2>2, <2>3, <2>4 DEF RecycleStep, Recycle, DeleteFile, ToDirty
<1>5. QED
  BY <1>1, <1>3, <1>4

LEMMA CountingOfTrim ==
  ASSUME Safe, Phases, Counting, TrimStep(M)
  PROVE  Counting'
<1> USE MIsThere DEF Goto, At, Call, WorkOn, filling
<1>1. /\ pc \in [Actors -> Places] /\ ret \in [Actors -> {"idle", "trim", "filled"}]
      /\ tries = 0 /\ tries' = tries
  BY DEF TrimStep, ListLogs, TrimNext, TrimDone, Phases, MaintainerPhases, Trims, Safe, DirTypes,
     DirTypeOK
<1>2. pc'[M] \in {"trim", "list", "list_clean"} \/ (pc'[M] = "recycle" /\ ret'[M] = "trim")
  BY <1>1 DEF TrimStep, ListLogs, TrimNext, TrimDone, M
<1>3. QED
  BY <1>1, <1>2 DEF Counting, Fills, Working

LEMMA CountingOfMaintain ==
  ASSUME Safe, Safe', Counting, MaintainStep, canFail = {}
  PROVE  Counting'
<1> USE NothingFails, MIsThere
    DEF Goto, At, Call, WorkOn, files, others, filling, trimming, calling
<1>1. /\ pc \in [Actors -> Places] /\ ret \in [Actors -> {"idle", "trim", "filled"}]
      /\ ok \in [Actors -> BOOLEAN] /\ path \in [Actors -> Name \cup {Gone}]
      /\ IsFiniteSet(Listed("clean")) /\ Clean \in Nat /\ count \in Nat /\ tries \in Nat
      /\ PlaceholderMax \in Nat
  BY Counts, LogDirectoryAssumption DEF Safe, DirTypes, DirTypeOK, Clean
<1>2. CASE Initialize
  <2>1. dir' = dir /\ (pc'[M] = "list" \/ (pc'[M] = "done" /\ Clean = PlaceholderMax))
    <3>1. \/ pc' = [pc EXCEPT ![M] = "list"]
          \/ pc' = [pc EXCEPT ![M] = "done"] /\ Cardinality(Listed("clean")) = PlaceholderMax
      BY <1>2 DEF Initialize, EverythingOK, M
    <3>2. QED
      BY <1>1, <1>2, <3>1 DEF Initialize, Clean
  <2>2. Clean' = Clean
    BY <2>1 DEF Clean, Listed
  <2>3. QED
    BY <2>1, <2>2 DEF Counting, Fills, Working
<1>3. CASE ListPlaceholders
  <2>1. Listed("clean")' = Listed("clean") /\ tries' = tries
    BY <1>3 DEF ListPlaceholders, Listed
  <2>2. Clean' = Clean
    BY <2>1 DEF Clean
  <2>3. CASE pc[M] = "list_clean"
    <3>1. /\ pc'[M] = "list_dirty" /\ cleans' = Listed("clean")
          /\ IF tries = 0 THEN count' = Cardinality(cleans') ELSE count' = count
      BY <1>1, <1>3, <2>3 DEF ListPlaceholders, M
    <3>2. QED
      BY <1>1, <2>1, <2>2, <2>3, <3>1 DEF Counting, Clean, Fills, Working
  <2>4. CASE pc[M] = "list_dirty"
    <3>1. /\ pc'[M] = IF tries = 0 THEN "fill" ELSE "surplus"
          /\ cleans' = cleans /\ count' = count
      BY <1>1, <1>3, <2>4 DEF ListPlaceholders, M
    <3>2. QED
      BY <1>1, <2>1, <2>2, <2>4, <3>1 DEF Counting, Fills, Working
  <2>5. QED
    BY <1>3, <2>3, <2>4 DEF ListPlaceholders, M
<1>4. CASE FillFromDirty \/ FillFromNew
  <2>1. /\ pc[M] = "fill" /\ count < PlaceholderMax /\ UNCHANGED <<cleans, count, tries>>
        /\ pc'[M] = "clean" /\ ret'[M] = "filled" /\ ok'[M] = TRUE
    BY <1>1, <1>4 DEF FillFromDirty, FillFromNew, Filling, M
  <2>2. Listed("clean")' = Listed("clean")
    BY <1>4, KindsDiffer DEF FillFromDirty, FillFromNew, Listed
  <2>3. Clean' = Clean
    BY <2>2 DEF Clean
  <2>4. QED
    BY <2>1, <2>3 DEF Counting, Fills, Working
<1>5. CASE Filled
  <2>1. /\ pc[M] = "filled" /\ pc'[M] = "fill" /\ tries' = tries + 1 /\ dir' = dir
        /\ count' = IF ok[M] THEN count + 1 ELSE count
    BY <1>1, <1>5 DEF Filled, M
  <2>2. Clean' = Clean
    BY <2>1 DEF Clean, Listed
  <2>3. count' = count + 1
    BY <2>1 DEF Counting
  <2>4. QED
    BY <1>1, <2>1, <2>2, <2>3 DEF Counting, Fills, Working
<1>6. CASE FillDone
  <2>1. /\ pc[M] = "fill" /\ pc'[M] = (IF tries > 0 THEN "list_clean" ELSE "surplus")
        /\ UNCHANGED <<dir, cleans, count, tries>>
        /\ count >= PlaceholderMax \/ tries > 2 * PlaceholderMax
    BY <1>1, <1>6 DEF FillDone, Filling, M
  <2>2. Clean' = Clean /\ Listed("clean")' = Listed("clean")
    BY <2>1 DEF Clean, Listed
  <2>3. count = Clean /\ count >= tries /\ (IF tries = 0 THEN cleans = Listed("clean")
                                            ELSE count <= PlaceholderMax)
    BY <2>1 DEF Counting
  <2>4. count >= PlaceholderMax
    BY <1>1, <2>1, <2>3
  <2>5. CASE tries = 0
    BY <1>1, <2>1, <2>2, <2>3, <2>4, <2>5 DEF Counting, Fills, Working
  <2>6. CASE tries > 0
    BY <1>1, <2>1, <2>2, <2>3, <2>4, <2>6 DEF Counting, Fills, Working
  <2>7. QED
    BY <1>1, <2>5, <2>6
<1>7. CASE DeleteSurplus
  <2>1. pc[M] = "surplus" /\ cleans = Listed("clean") /\ Clean >= PlaceholderMax
    BY <1>7 DEF DeleteSurplus, Counting, M
  <2>2. CASE Clean > PlaceholderMax
    <3>1. PICK name \in cleans : dir' = dir \ {name} /\ cleans' = cleans \ {name}
      BY <1>7, <2>1, <2>2 DEF DeleteSurplus, DeleteOrNot, Unlink, Clean
    <3>2. pc' = pc
      BY <1>7, <2>1, <2>2 DEF DeleteSurplus, Clean
    <3>3. Listed("clean")' = cleans' /\ Listed("clean")' = Listed("clean") \ {name}
      BY <2>1, <3>1 DEF Listed
    <3>4. Clean' = Clean - 1
      BY <1>1, <2>1, <3>1, <3>3, FS_RemoveElement DEF Clean
    <3>5. QED
      BY <1>1, <2>1, <2>2, <3>2, <3>3, <3>4 DEF Counting, Fills, Working
  <2>3. CASE ~(Clean > PlaceholderMax)
    <3>1. dir' = dir /\ pc'[M] = "delete_dirties"
      BY <1>1, <1>7, <2>1, <2>3 DEF DeleteSurplus, Clean, M
    <3>2. Clean' = Clean
      BY <3>1 DEF Clean, Listed
    <3>3. QED
      BY <1>1, <2>1, <2>3, <3>1, <3>2 DEF Counting, Fills, Working
  <2>4. QED
    BY <2>2, <2>3
<1>8. CASE DeleteDirties
  <2>1. pc[M] = "delete_dirties" /\ pc'[M] \in {"delete_dirties", "done"}
    BY <1>1, <1>8 DEF DeleteDirties, M
  <2>2. dir' = dir \/ \E name \in dirties : dir' = dir \ {name}
    BY <1>8 DEF DeleteDirties, DeleteOrNot, Unlink
  <2>3. Listed("clean")' = Listed("clean")
    BY <2>2 DEF Listed, Safe, StoreInv, ListsKinds
  <2>4. QED
    BY <2>1, <2>3 DEF Counting, Clean, Fills, Working
<1>9. QED
  BY <1>2, <1>3, <1>4, <1>5, <1>6, <1>7, <1>8 DEF MaintainStep

LEMMA AloneInitial ==
  ASSUME InitDir
  PROVE  AloneInv
<1>1. Numbering
  <2>1. \A n \in dir : n \in Name /\ n.id < StartTime
    BY LogDirectoryAssumption DEF InitDir
  <2>2. \A n \in dir : n.id <= StartTime
    BY <2>1, LogDirectoryAssumption DEF Name
  <2>3. QED
    BY <2>2 DEF Numbering, Listed, InitDir
<1>2. pc[M] = "init" /\ kind[M] = "native"
  BY MIsThere DEF InitDir, M
<1>3. QED
  BY <1>1, <1>2 DEF AloneInv, LogsTrimmed, Counting, Passed, Earlier, Fills, Working

LEMMA AloneInductive ==
  ASSUME Safe, Safe', Untouched, Phases, AloneInv, [NextDir]_dirVars
  PROVE  AloneInv'
<1>1. CASE NextDir
  <2>1. Numbering'
    BY <1>1, NumberingStays DEF AloneInv
  <2>2. ASSUME Alone'
        PROVE  LogsTrimmed' /\ Counting'
    <3>1. MaintainerStep /\ canFail = {} /\ Numbering /\ LogsTrimmed /\ Counting
      BY <1>1, <2>2, AloneBefore DEF AloneInv, Alone
    <3>2. LogsTrimmed'
      BY <3>1, TrimmedStays
    <3>3. Counting'
      BY <3>1, CountingOfRecycle, CountingOfTrim, CountingOfMaintain DEF MaintainerStep
    <3>4. QED
      BY <3>2, <3>3
  <2>3. QED
    BY <2>1, <2>2 DEF AloneInv
<1>2. CASE UNCHANGED dirVars
  BY <1>2 DEF AloneInv, Numbering, Alone, LogsTrimmed, Counting, Clean, Fills, Left, Pending, Passed,
     Listed, dirVars, files, calling, trimming, filling, others
<1>3. QED
  BY <1>1, <1>2

LEMMA AloneMeans ==
  ASSUME Safe, Phases, Bounds, AloneInv
  PROVE  Maintained
<1> SUFFICES ASSUME At("maintainer", "done"), time = StartTime, canFail = {},
                    \A a \in Actors \ {"maintainer"} : At(a, "idle")
             PROVE  /\ LogsWithin(0)
                    /\ Cardinality(Listed("clean")) = PlaceholderMax /\ Listed("dirty") = {}
  BY DEF Maintained
<1>1. pc[M] = "done" /\ Alone /\ (Tracing => pc["tracer"] = "idle")
  BY DEF At, M, Alone, Tracing
<1>2. Passed = LogKinds /\ \A k : Left(M, k) = Listed(k)
  BY <1>1 DEF Passed, Phases, MaintainerPhases, Trims, Working, Left
<1>3. ASSUME NEW k \in LogKinds
      PROVE  Cardinality(Listed(k)) <= MaxOf[k] + 0
  <2>1. Cardinality(Listed(k)) <= MaxOf[k]
    BY <1>1, <1>2 DEF AloneInv, LogsTrimmed
  <2>2. QED
    BY <2>1, LogDirectoryAssumption
<1>4. Cardinality(Listed("clean")) = PlaceholderMax
  BY <1>1 DEF AloneInv, Counting, Clean
<1>5. Listed("dirty") = {}
  BY <1>1 DEF Bounds, PlaceholdersInv, ByTracer, Phases, MaintainerPhases
<1>6. QED
  BY <1>3, <1>4, <1>5 DEF LogsWithin

\* If nothing fails and nobody else was about, the maintenance leaves the directory in order.
THEOREM MaintenanceDone == SpecDir => []Maintained
<1>1. Safe /\ Phases /\ Bounds /\ AloneInv => Maintained
  BY AloneMeans
<1>2. QED
  BY <1>1, SafeInitial, SafeInductive, UntouchedInitial, UntouchedInductive, PhasesInitial,
     PhasesInductive, BoundsInitial, BoundsInductive, AloneInitial, AloneInductive, PTL DEF SpecDir
=============================================================================
