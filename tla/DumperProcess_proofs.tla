------------------------ MODULE DumperProcess_proofs ------------------------
(***************************************************************************)
(* The dumper never reads the frames of a thread that runs, leaves a       *)
(* process running, and its log tells the truth about the process: the     *)
(* footer counts what was done, and a log without a cut misses nobody.     *)
(* For any number of threads and whatever calls fail.                      *)
(***************************************************************************)
EXTENDS DumperProcess, FiniteSetTheorems, SequenceTheorems, TLAPS

-----------------------------------------------------------------------------
(* The list of threads *)

LEMMA ListingOf ==
  ASSUME NEW S \in SUBSET Tids
  PROVE  Listing(S) \in Seq(Tids) /\ ToSet(Listing(S)) = S
<1>1. IsFiniteSet(S) /\ Cardinality(S) \in Nat
  BY DumperAssumption, FS_Subset, FS_CardinalityType
<1>2. PICK n \in Nat : ExistsBijection(1..n, S)
  BY <1>1, FS_NatBijection
<1>3. n = Cardinality(S)
  BY <1>2, FS_CountingElements
<1>4. PICK f \in [1..n -> S] : \A t \in S : \E i \in 1..n : f[i] = t
  BY <1>2 DEF ExistsBijection, Bijection, Surjection
<1>5. ToSet(f) = S
  BY <1>4 DEF ToSet
<1>6. Listing(S) \in [1..Cardinality(S) -> S] /\ ToSet(Listing(S)) = S
  BY <1>3, <1>4, <1>5 DEF Listing
<1>7. Listing(S) \in Seq(S)
  BY <1>1, <1>6
<1>8. QED
  BY <1>6, <1>7

LEMMA RestOfList ==
  ASSUME NEW list \in Seq(Tids), list # <<>>
  PROVE  /\ Head(list) \in Tids /\ Tail(list) \in Seq(Tids)
         /\ Head(list) \in ToSet(list)
         /\ ToSet(Tail(list)) \subseteq ToSet(list)
         /\ ToSet(list) = {Head(list)} \cup ToSet(Tail(list))
<1>1. /\ Head(list) \in Tids /\ Tail(list) \in Seq(Tids) /\ Len(Tail(list)) = Len(list) - 1
      /\ \A i \in 1..Len(Tail(list)) : Tail(list)[i] = list[i + 1]
  BY HeadTailProperties
<1>2. Len(list) \in Nat /\ Len(list) > 0 /\ DOMAIN list = 1..Len(list) /\ Head(list) = list[1]
      /\ DOMAIN Tail(list) = 1..Len(list) - 1
  BY <1>1
<1>3. Head(list) \in ToSet(list)
  BY <1>2 DEF ToSet
<1>4. ToSet(Tail(list)) \subseteq ToSet(list)
  BY <1>1, <1>2 DEF ToSet
<1>5. ASSUME NEW t \in ToSet(list), t # Head(list)
      PROVE  t \in ToSet(Tail(list))
  <2>1. PICK i \in 1..Len(list) : list[i] = t
    BY <1>2 DEF ToSet
  <2>2. i - 1 \in 1..Len(list) - 1 /\ Tail(list)[i - 1] = t
    BY <1>1, <1>2, <1>5, <2>1
  <2>3. QED
    BY <1>2, <2>2 DEF ToSet
<1>6. QED
  BY <1>1, <1>3, <1>4, <1>5

LEMMA ListedTids ==
  ASSUME NEW list \in Seq(Tids)
  PROVE  ToSet(list) \subseteq Tids
BY DEF ToSet

-----------------------------------------------------------------------------
(* Types *)

Counters == [matched : Nat, ignored : Nat, dumped : Nat]

MainTypeOK ==
  /\ dpc \in Places /\ exit \in {NotYet, Signaled, 0, 1, 2, 3, 5, 6, 10, 200}
  /\ alarm \in {"set", "pending"} /\ opt \in Options /\ handled \in BOOLEAN
AppTypeOK ==
  /\ task \in [Tids -> {"none", "running", "stopped", "gone"}]
  /\ traced \subseteq Tids /\ stray \subseteq Tids /\ halted \in BOOLEAN
ListTypeOK ==
  /\ thds \in Seq(Tids) /\ todo \in Seq(Tids)
  /\ status \in [Tids -> {"OK", "ATTACH", "ATTACH_WAIT", "REGS"}]
  /\ dpc = "stopwait" => todo # <<>>
LogTypeOK ==
  /\ whole \subseteq Tids /\ partial \subseteq Tids
  /\ counts \in Counters /\ footer \in Seq(Counters)
  /\ frames \subseteq Tids \X {"none", "running", "stopped", "gone"}

TypeInv == MainTypeOK /\ AppTypeOK /\ ListTypeOK /\ LogTypeOK

LEMMA TypeInvInit == InitDumper => TypeInv
<1> SUFFICES ASSUME InitDumper PROVE TypeInv
  OBVIOUS
<1> USE DEF InitDumper
<1>1. MainTypeOK
  BY DEF MainTypeOK, Places, NotYet
<1>2. AppTypeOK
  BY DEF AppTypeOK
<1>2a. ListTypeOK
  <2>1. thds = <<>> /\ todo = <<>> /\ dpc = "args"
    OBVIOUS
  <2>2. status \in [Tids -> {"OK", "ATTACH", "ATTACH_WAIT", "REGS"}]
    OBVIOUS
  <2>3. QED
    BY <2>1, <2>2 DEF ListTypeOK
<1>3. LogTypeOK
  <2>1. counts \in Counters
    BY DEF Counters
  <2>2. QED
    BY <2>1 DEF LogTypeOK
<1>4. QED
  BY <1>1, <1>2, <1>2a, <1>3 DEF TypeInv

LEMMA TypeEnded ==
  ASSUME TypeInv, NEW how \in {Signaled, 0, 1, 2, 3, 5, 6, 10, 200}, Ended(how)
  PROVE  TypeInv'
<1> USE DEF TypeInv, Ended, listVars, logVars
<1>1. MainTypeOK'
  BY DEF MainTypeOK, Places
<1>2. AppTypeOK'
  BY DEF AppTypeOK
<1>3. ListTypeOK' /\ LogTypeOK'
  BY DEF ListTypeOK, LogTypeOK
<1>4. QED
  BY <1>1, <1>2, <1>3

\* Steps that only change the place, or the process.
LEMMA TypeSimple ==
  ASSUME TypeInv,
         Register \/ SuspendDone \/ OthersDone \/ AlarmExpires
           \/ AppRuns \/ (\E t \in Tids : Stops(t)) \/ DumperOver \/ UNCHANGED dumperVars
  PROVE  TypeInv'
<1> USE DEF TypeInv, MainTypeOK, AppTypeOK, ListTypeOK, LogTypeOK, dumperVars, mainVars, appVars, listVars,
        logVars, Advance
<1>1. CASE Register \/ SuspendDone \/ OthersDone
  BY <1>1 DEF Register, SuspendDone, OthersDone, Places
<1>2. CASE AlarmExpires
  BY <1>2, TypeEnded DEF AlarmExpires, Blocked
<1>3. CASE AppRuns
  <2>1. task' \in [Tids -> {"none", "running", "stopped", "gone"}]
    <3>1. ASSUME NEW t \in Tids, AppStarts(t) \/ AppExits(t)
          PROVE  task' \in [Tids -> {"none", "running", "stopped", "gone"}]
      BY <3>1 DEF AppStarts, AppExits
    <3>2. ASSUME AppKilled
          PROVE  task' \in [Tids -> {"none", "running", "stopped", "gone"}]
      BY <3>2 DEF AppKilled
    <3>3. QED
      BY <1>3, <3>1, <3>2 DEF AppRuns
  <2>2. UNCHANGED <<traced, stray, halted, mainVars, listVars, logVars>>
    BY <1>3 DEF AppRuns, AppStarts, AppExits, AppKilled
  <2>3. QED
    BY <2>1, <2>2
<1>4. ASSUME NEW t \in Tids, Stops(t) PROVE TypeInv'
  BY <1>4 DEF Stops, AppStops
<1>5. CASE DumperOver \/ UNCHANGED dumperVars
  BY <1>5 DEF DumperOver
<1>6. QED
  BY <1>1, <1>2, <1>3, <1>4, <1>5

LEMMA TypeCreate ==
  ASSUME TypeInv, ReadArgs \/ OpenLog \/ ProcessCreate \/ Faults \/ Aborts \/ SelfDump \/ ReturnFromMain
  PROVE  TypeInv'
<1>1. CASE \E how \in {Signaled, 0, 1, 2, 3, 5, 6, 10, 200} : Ended(how)
  BY <1>1, TypeEnded
<1>2. CASE \A how \in {Signaled, 0, 1, 2, 3, 5, 6, 10, 200} : ~Ended(how)
  <2> USE DEF TypeInv, MainTypeOK, AppTypeOK, ListTypeOK, LogTypeOK, mainVars, appVars,
          listVars, logVars, Advance, Places
  <2>1. CASE ReadArgs \/ OpenLog
    BY <1>2, <2>1 DEF ReadArgs, OpenLog
  <2>2. CASE ProcessCreate
    <3>1. thds' = Listing(Alive) /\ todo' = thds' /\ Advance("suspend") /\ UNCHANGED <<status, appVars, logVars>>
      BY <1>2, <2>2 DEF ProcessCreate
    <3>2. thds' \in Seq(Tids)
      BY <3>1, ListingOf DEF Alive
    <3>3. QED
      BY <3>1, <3>2
  <2>3. CASE Aborts
    <3>1. \E how \in {200, Signaled} : how = IF dpc = "self" THEN 200 ELSE Signaled
      OBVIOUS
    <3>2. Registered
      BY <1>2, <2>3, <3>1 DEF Aborts
    <3>3. QED
      BY <2>3, <3>2 DEF Aborts
  <2>4. CASE Faults \/ SelfDump \/ ReturnFromMain
    BY <1>2, <2>4 DEF Faults, SelfDump, ReturnFromMain
  <2>5. QED
    BY <2>1, <2>2, <2>3, <2>4
<1>3. QED
  BY <1>1, <1>2

LEMMA TypeAttach ==
  ASSUME TypeInv, Attach \/ StopWait \/ Resume
  PROVE  TypeInv'
<1> USE DEF Thread, Advance, mainVars, appVars, listVars, logVars
<1>1. todo # <<>> /\ Thread \in Tids /\ Tail(todo) \in Seq(Tids)
  BY RestOfList DEF TypeInv, ListTypeOK, Attach, StopWait, Resume
<1>2. MainTypeOK' /\ LogTypeOK'
  BY DEF TypeInv, MainTypeOK, LogTypeOK, Attach, StopWait, Resume, Places
<1>3. AppTypeOK'
  <2>1. CASE Attach
    BY <1>1, <2>1 DEF TypeInv, AppTypeOK, Attach
  <2>2. CASE StopWait
    BY <1>1, <2>2 DEF TypeInv, AppTypeOK, StopWait
  <2>3. CASE Resume
    BY <1>1, <2>3 DEF TypeInv, AppTypeOK, Resume
  <2>4. QED
    BY <2>1, <2>2, <2>3
<1>4. ListTypeOK'
  <2>1. CASE Attach
    BY <1>1, <2>1 DEF TypeInv, ListTypeOK, Attach
  <2>2. CASE StopWait
    BY <1>1, <2>2 DEF TypeInv, ListTypeOK, StopWait
  <2>3. CASE Resume
    BY <1>1, <2>3 DEF TypeInv, ListTypeOK, Resume
  <2>4. QED
    BY <2>1, <2>2, <2>3
<1>5. QED
  BY <1>2, <1>3, <1>4 DEF TypeInv

LEMMA TypeLoad ==
  ASSUME TypeInv, LoadInfo
  PROVE  TypeInv'
<1>1. \A t \in Tids : status'[t] \in {"REGS", status[t]}
  BY DEF LoadInfo
<1>2. status' \in [Tids -> {"OK", "ATTACH", "ATTACH_WAIT", "REGS"}]
  BY <1>1 DEF LoadInfo, TypeInv, ListTypeOK
<1>3. QED
  BY <1>2 DEF TypeInv, MainTypeOK, AppTypeOK, ListTypeOK, LogTypeOK, LoadInfo, Advance, Places,
     appVars, logVars

LEMMA Counted ==
  ASSUME NEW c \in Counters
  PROVE  /\ [c EXCEPT !.matched = @ + 1] \in Counters
         /\ [c EXCEPT !.matched = @ + 1, !.ignored = @ + 1] \in Counters
         /\ [c EXCEPT !.matched = @ + 1, !.dumped = @ + 1] \in Counters
<1>1. c \in [matched : Nat, ignored : Nat, dumped : Nat]
  BY DEF Counters
<1>2. c.matched + 1 \in Nat /\ c.ignored + 1 \in Nat /\ c.dumped + 1 \in Nat
  BY <1>1
<1>3. \A a, b, d \in Nat : [c EXCEPT !.matched = a] \in Counters /\ [c EXCEPT !.matched = a, !.ignored = b] \in Counters
        /\ [c EXCEPT !.matched = a, !.dumped = d] \in Counters
  BY <1>1 DEF Counters
<1>4. QED
  BY <1>2, <1>3

LEMMA TypeRecord ==
  ASSUME TypeInv, SysRecord \/ RecordCrashThread \/ RecordThread \/ RecordFooter
  PROVE  TypeInv'
<1> USE DEF Advance, mainVars, appVars, listVars, logVars
<1>1. CASE \E how \in {Signaled, 0, 1, 2, 3, 5, 6, 10, 200} : Ended(how)
  BY <1>1, TypeEnded
<1>2. CASE \A how \in {Signaled, 0, 1, 2, 3, 5, 6, 10, 200} : ~Ended(how)
  <2>1. ASSUME NEW t \in Tids, LoadFrames(t)
        PROVE  frames' \subseteq Tids \X {"none", "running", "stopped", "gone"}
    BY <2>1 DEF LoadFrames, TypeInv, LogTypeOK, AppTypeOK
  <2>2. CASE SysRecord
    BY <1>2, <2>2 DEF SysRecord, TypeInv, MainTypeOK, AppTypeOK, ListTypeOK, LogTypeOK, Places
  <2>3. CASE RecordCrashThread
    <3>1. LogTypeOK'
      BY <1>2, <2>1, <2>3, DumperAssumption DEF RecordCrashThread, TypeInv, LogTypeOK
    <3>2. QED
      BY <1>2, <2>3, <3>1
         DEF RecordCrashThread, TypeInv, MainTypeOK, AppTypeOK, ListTypeOK, Places
  <2>4. CASE RecordThread
    <3>1. todo # <<>> /\ Thread \in Tids /\ Tail(todo) \in Seq(Tids)
      BY <2>4, RestOfList DEF RecordThread, TypeInv, ListTypeOK, Thread
    <3>2. counts' \in Counters
      <4>1. counts \in Counters
        BY DEF TypeInv, LogTypeOK
      <4>2. /\ [counts EXCEPT !.matched = @ + 1] \in Counters
            /\ [counts EXCEPT !.matched = @ + 1, !.ignored = @ + 1] \in Counters
            /\ [counts EXCEPT !.matched = @ + 1, !.dumped = @ + 1] \in Counters
        BY <4>1, Counted
      <4>5. CASE ~NeedDump(Thread)
        BY <2>4, <4>1, <4>5 DEF RecordThread
      <4>6. CASE NeedDump(Thread) /\ OverLimit
        BY <2>4, <4>2, <4>6 DEF RecordThread
      <4>7. CASE NeedDump(Thread) /\ ~OverLimit
        BY <2>4, <4>2, <4>7 DEF RecordThread
      <4>8. QED
        BY <4>5, <4>6, <4>7
    <3>3. LogTypeOK'
      <4>1. whole' \subseteq Tids /\ partial' \subseteq Tids /\ footer' = footer
        BY <2>4, <3>1 DEF RecordThread, TypeInv, LogTypeOK
      <4>2. LoadFrames(Thread) \/ frames' = frames
        BY <2>4 DEF RecordThread
      <4>3. frames' \subseteq Tids \X {"none", "running", "stopped", "gone"}
        BY <2>1, <3>1, <4>2 DEF TypeInv, LogTypeOK
      <4>4. QED
        BY <3>2, <4>1, <4>3 DEF TypeInv, LogTypeOK
    <3>4. MainTypeOK'
      BY <2>4 DEF RecordThread, TypeInv, MainTypeOK, Places
    <3>5. AppTypeOK' /\ ListTypeOK'
      BY <2>4, <3>1 DEF RecordThread, TypeInv, AppTypeOK, ListTypeOK
    <3>6. QED
      BY <3>3, <3>4, <3>5 DEF TypeInv
  <2>5. CASE RecordFooter
    <3>1. footer' \in Seq(Counters)
      <4>1. footer' \in {<<counts>>, <<>>}
        BY <1>2, <2>5 DEF RecordFooter
      <4>2. counts \in Counters
        BY DEF TypeInv, LogTypeOK
      <4>3. <<counts>> \in Seq(Counters) /\ <<>> \in Seq(Counters)
        BY <4>2
      <4>4. QED
        BY <4>1, <4>3
    <3>2. QED
      BY <1>2, <2>5, <3>1
         DEF RecordFooter, TypeInv, MainTypeOK, AppTypeOK, ListTypeOK, LogTypeOK, Places
  <2>6. QED
    BY <2>2, <2>3, <2>4, <2>5
<1>3. QED
  BY <1>1, <1>2

LEMMA TypeInvNext == TypeInv /\ [NextDumper]_dumperVars => TypeInv'
BY TypeSimple, TypeCreate, TypeAttach, TypeLoad, TypeRecord DEF NextDumper, DumperRuns

LEMMA TypeInvariant == SpecDumper => []TypeInv
BY TypeInvInit, TypeInvNext, PTL DEF SpecDumper

(* Type correctness of the state of the dumper. *)
THEOREM DumperTypes == SpecDumper => []DumperTypeOK
<1>1. TypeInv => DumperTypeOK
  BY DEF TypeInv, MainTypeOK, AppTypeOK, ListTypeOK, LogTypeOK, Counters, DumperTypeOK
<1>2. QED
  BY <1>1, TypeInvariant, PTL

-----------------------------------------------------------------------------
(* Which threads are stopped *)

Before == {"args", "open", "register", "create"}
Listed(t) == t \in ToSet(thds)
Waits(t) == t \in ToSet(todo)

\* The dumper traces only threads of the list.  One it traces has stopped, or it waits for that,
\* or gave up waiting; and one with status OK has stopped, once its turn was.
HeldInv ==
  /\ \A t \in Tids : Waits(t) => Listed(t)
  /\ \A t \in traced : Listed(t)
  /\ \A t \in traced :
       \/ task[t] \in {"stopped", "gone"} \/ t \in stray
       \/ dpc = "stopwait" /\ t = Thread
       \/ dpc = "self"
  /\ dpc = "stopwait" => Thread \in traced
  /\ dpc \in Before => thds = <<>>
  /\ dpc \notin Before \cup {"self", "ended"} => Listed(CrashTid)
  /\ dpc \in {"suspend", "stopwait"} =>
       \A t \in Tids : Listed(t) /\ ~Waits(t) /\ status[t] = "OK" => task[t] \in {"stopped", "gone"}
  /\ dpc \in {"load", "sys", "crash", "others"} =>
       \A t \in Tids : Listed(t) /\ status[t] = "OK" => task[t] \in {"stopped", "gone"}

\* Whatever stopped is let go, but for threads with a SIGSTOP still to come.
HaltInv ==
  /\ dpc = "ended" => traced = {}
  /\ dpc # "ended" => exit = NotYet
  /\ dpc = "resume" => \A t \in traced : task[t] = "stopped" => Waits(t) \/ t \in stray
  /\ ResumedUnlessCut

InductiveInv == TypeInv /\ HeldInv /\ HaltInv

\* The state an attached thread has reached is not left but by the dumper's own steps.
LEMMA HeldStart == InitDumper => HeldInv /\ HaltInv
BY DEF InitDumper, HeldInv, HaltInv, ResumedUnlessCut, Waits, Listed, Before, ToSet, NotYet

LEMMA HeldEnded ==
  ASSUME InductiveInv, NEW how \in {Signaled, 1, 2, 3, 5, 6, 10, 200}, Ended(how)
  PROVE  HeldInv' /\ HaltInv'
<1>1. thds' = thds /\ todo' = todo /\ status' = status /\ stray' = stray /\ traced' = {}
      /\ dpc' = "ended" /\ exit' # 0
  BY DEF Ended, listVars, Signaled
<1>2. HeldInv'
  BY <1>1 DEF InductiveInv, HeldInv, Waits, Listed, Before
<1>3. HaltInv'
  BY <1>1 DEF HaltInv, ResumedUnlessCut
<1>4. QED
  BY <1>2, <1>3

\* Steps that change no list, no thread and at most the place.
LEMMA HeldSimple ==
  ASSUME InductiveInv, UNCHANGED <<exit, task, traced, stray, halted, thds, todo, status>>,
         \/ dpc' = dpc
         \/ dpc' = "self" /\ dpc # "ended"
         \/ dpc \in Before /\ dpc' \in Before
         \/ dpc = "suspend" /\ todo = <<>> /\ dpc' = "load"
         \/ dpc = "sys" /\ dpc' = "crash"
         \/ dpc = "others" /\ dpc' \in {"others", "footer"}
  PROVE  HeldInv' /\ HaltInv'
<1>1. Thread' = Thread /\ \A t : (Waits(t)' <=> Waits(t)) /\ (Listed(t)' <=> Listed(t))
  BY DEF Thread, Waits, Listed
<1>2. todo = <<>> => \A t : ~Waits(t)
  BY DEF Waits, ToSet
<1>3. HeldInv'
  BY <1>1, <1>2 DEF InductiveInv, HeldInv, Before
<1>4. HaltInv'
  BY <1>1 DEF InductiveInv, HaltInv, ResumedUnlessCut, Before
<1>5. QED
  BY <1>3, <1>4

\* The threads of the process run, start, end and stop.
LEMMA HeldApp ==
  ASSUME InductiveInv, AppRuns \/ (\E t \in Tids : Stops(t))
  PROVE  HeldInv' /\ HaltInv'
<1>1. UNCHANGED <<mainVars, traced, halted, listVars>> /\ stray \subseteq stray'
  BY DEF AppRuns, Stops, AppStarts, AppExits, AppKilled, AppStops
<1>2. \A t \in Tids : task[t] \in {"stopped", "gone"} => task'[t] \in {"stopped", "gone"}
  <2>1. ASSUME NEW u \in Tids, AppStarts(u) \/ AppExits(u) \/ AppStops(u), NEW t \in Tids,
               task[t] \in {"stopped", "gone"}
        PROVE  task'[t] \in {"stopped", "gone"}
    BY <2>1 DEF AppStarts, AppExits, AppStops, InductiveInv, TypeInv, AppTypeOK
  <2>2. QED
    BY <2>1 DEF AppRuns, Stops, AppKilled
<1>3. \A t \in Tids : task'[t] = "stopped" => task[t] = "stopped" \/ (t \in traced /\ task[t] = "running")
  <2>1. ASSUME NEW u \in Tids, AppStarts(u) \/ AppExits(u) \/ AppStops(u), NEW t \in Tids,
               task'[t] = "stopped"
        PROVE  task[t] = "stopped" \/ (t \in traced /\ task[t] = "running")
    BY <2>1 DEF AppStarts, AppExits, AppStops, InductiveInv, TypeInv, AppTypeOK
  <2>2. QED
    BY <2>1 DEF AppRuns, Stops, AppKilled
<1>4. Thread' = Thread /\ dpc' = dpc /\ exit' = exit /\ thds' = thds /\ status' = status
      /\ \A t : (Waits(t)' <=> Waits(t)) /\ (Listed(t)' <=> Listed(t))
  BY <1>1 DEF Thread, Waits, Listed, mainVars, listVars
<1>5. traced \subseteq Tids
  BY DEF InductiveInv, TypeInv, AppTypeOK
<1>6. HeldInv'
  BY <1>1, <1>2, <1>4, <1>5 DEF InductiveInv, HeldInv
<1>7. HaltInv'
  <2>1. ASSUME dpc = "resume", NEW t \in traced, task'[t] = "stopped"
        PROVE  Waits(t) \/ t \in stray
    BY <1>3, <1>5, <2>1 DEF InductiveInv, HeldInv, HaltInv
  <2>2. QED
    BY <1>1, <1>4, <2>1 DEF InductiveInv, HaltInv, ResumedUnlessCut
<1>8. QED
  BY <1>6, <1>7

LEMMA HeldCreate ==
  ASSUME InductiveInv, ProcessCreate
  PROVE  HeldInv' /\ HaltInv'
<1>1. CASE Ended(3)
  BY <1>1, HeldEnded
<1>2. CASE ~Ended(3)
  <2>1. /\ CrashTid \in Alive /\ dpc = "create" /\ dpc' = "suspend"
        /\ thds' = Listing(Alive) /\ todo' = thds'
        /\ UNCHANGED <<exit, status, task, traced, stray, halted>>
    BY <1>2 DEF ProcessCreate, Advance, appVars
  <2>2. \A t : (Waits(t)' <=> Listed(t)') /\ (Listed(t)' <=> t \in Alive)
    BY <2>1, ListingOf DEF Waits, Listed, Alive
  <2>3. traced = {}
    BY <2>1 DEF InductiveInv, HeldInv, Before, Listed, ToSet
  <2>4. HeldInv'
    BY <2>1, <2>2, <2>3 DEF HeldInv, Before
  <2>5. HaltInv'
    BY <2>1, <2>3 DEF InductiveInv, HaltInv, ResumedUnlessCut
  <2>6. QED
    BY <2>4, <2>5
<1>3. QED
  BY <1>1, <1>2

\* What the rest of the list holds when its first thread has had its turn.
LEMMA NextThread ==
  ASSUME TypeInv, todo # <<>>, todo' = Tail(todo), thds' = thds
  PROVE  /\ Thread \in Tids /\ Waits(Thread)
         /\ \A t : Waits(t) <=> t = Thread \/ Waits(t)'
         /\ \A t : Listed(t)' <=> Listed(t)
<1>1. todo \in Seq(Tids)
  BY DEF TypeInv, ListTypeOK
<1>2. QED
  BY <1>1, RestOfList DEF Thread, Waits, Listed

LEMMA HeldAttach ==
  ASSUME InductiveInv, Attach
  PROVE  HeldInv' /\ HaltInv'
<1>1. dpc = "suspend" /\ todo # <<>> /\ UNCHANGED <<exit, task, stray, halted, thds>>
  BY DEF Attach, Advance, mainVars, appVars, listVars
<1>2. CASE traced' = traced \cup {Thread} /\ dpc' = "stopwait" /\ UNCHANGED <<todo, status>>
  <2>1. Thread' = Thread /\ Thread \in Tids /\ Waits(Thread)
        /\ \A t : (Waits(t)' <=> Waits(t)) /\ (Listed(t)' <=> Listed(t))
    BY <1>1, <1>2, RestOfList DEF Thread, Waits, Listed, InductiveInv, TypeInv, ListTypeOK
  <2>2. HeldInv'
    BY <1>1, <1>2, <2>1 DEF InductiveInv, HeldInv, Before
  <2>3. HaltInv'
    BY <1>1, <1>2 DEF InductiveInv, HaltInv, ResumedUnlessCut
  <2>4. QED
    BY <2>2, <2>3
<1>3. CASE /\ status' = [status EXCEPT ![Thread] = "ATTACH"]
           /\ todo' = Tail(todo) /\ dpc' = dpc /\ traced' = traced
  <2>1. /\ Thread \in Tids /\ Waits(Thread)
        /\ \A t : Waits(t) <=> t = Thread \/ Waits(t)'
        /\ \A t : Listed(t)' <=> Listed(t)
    BY <1>1, <1>3, NextThread DEF InductiveInv
  <2>2. status'[Thread] = "ATTACH" /\ \A t \in Tids \ {Thread} : status'[t] = status[t]
    BY <1>3, <2>1 DEF InductiveInv, TypeInv, ListTypeOK
  <2>3. HeldInv'
    BY <1>1, <1>3, <2>1, <2>2 DEF InductiveInv, HeldInv, Before
  <2>4. HaltInv'
    BY <1>1, <1>3 DEF InductiveInv, HaltInv, ResumedUnlessCut
  <2>5. QED
    BY <2>3, <2>4
<1>4. QED
  BY <1>2, <1>3 DEF Attach, Advance, mainVars, appVars, listVars

LEMMA HeldStopWait ==
  ASSUME InductiveInv, StopWait
  PROVE  HeldInv' /\ HaltInv'
<1>1. dpc = "stopwait" /\ dpc' = "suspend" /\ todo # <<>> /\ todo' = Tail(todo)
      /\ UNCHANGED <<exit, thds>>
  BY DEF StopWait, Advance, InductiveInv, TypeInv, ListTypeOK
<1>2. /\ Thread \in Tids /\ Waits(Thread)
      /\ \A t : Waits(t) <=> t = Thread \/ Waits(t)'
      /\ \A t : Listed(t)' <=> Listed(t)
  BY <1>1, NextThread DEF InductiveInv
<1>3. CASE task[Thread] \in {"stopped", "gone"} /\ UNCHANGED <<appVars, status>>
  <2>1. HeldInv'
    BY <1>1, <1>2, <1>3 DEF InductiveInv, HeldInv, Before, appVars
  <2>2. HaltInv'
    BY <1>1, <1>3 DEF InductiveInv, HaltInv, ResumedUnlessCut, appVars
  <2>3. QED
    BY <2>1, <2>2
<1>4. ASSUME status' = [status EXCEPT ![Thread] = "ATTACH_WAIT"]
      PROVE  status'[Thread] = "ATTACH_WAIT" /\ \A t \in Tids \ {Thread} : status'[t] = status[t]
  BY <1>2, <1>4 DEF InductiveInv, TypeInv, ListTypeOK
<1>5. CASE /\ status' = [status EXCEPT ![Thread] = "ATTACH_WAIT"]
           /\ task' = [task EXCEPT ![Thread] = "running"] /\ traced' = traced \ {Thread}
           /\ halted' = (halted \/ Thread \in stray) /\ UNCHANGED stray
  <2>1. \A t \in Tids \ {Thread} : task'[t] = task[t]
    BY <1>2, <1>5 DEF InductiveInv, TypeInv, AppTypeOK
  <2>2. HeldInv'
    BY <1>1, <1>2, <1>4, <1>5, <2>1 DEF InductiveInv, HeldInv, Before, TypeInv, AppTypeOK
  <2>3. HaltInv'
    BY <1>1, <1>5 DEF InductiveInv, HaltInv, ResumedUnlessCut
  <2>4. QED
    BY <2>2, <2>3
<1>6. CASE /\ status' = [status EXCEPT ![Thread] = "ATTACH_WAIT"]
           /\ stray' = stray \cup {Thread} /\ UNCHANGED <<task, traced, halted>>
  <2>1. HeldInv'
    BY <1>1, <1>2, <1>4, <1>6 DEF InductiveInv, HeldInv, Before
  <2>2. HaltInv'
    BY <1>1, <1>6 DEF InductiveInv, HaltInv, ResumedUnlessCut
  <2>3. QED
    BY <2>1, <2>2
<1>7. QED
  BY <1>3, <1>5, <1>6 DEF StopWait

LEMMA HeldLoad ==
  ASSUME InductiveInv, LoadInfo
  PROVE  HeldInv' /\ HaltInv'
<1>1. dpc = "load" /\ dpc' = "sys" /\ UNCHANGED <<exit, task, traced, stray, halted, thds, todo>>
      /\ \A t \in Tids : status'[t] = "OK" => status[t] = "OK"
  BY DEF LoadInfo, Advance, appVars
<1>2. HeldInv'
  BY <1>1 DEF InductiveInv, HeldInv, Before, Waits, Listed
<1>3. HaltInv'
  BY <1>1 DEF InductiveInv, HaltInv, ResumedUnlessCut
<1>4. QED
  BY <1>2, <1>3

\* Steps of the loops that record: the lists may start again.
LEMMA HeldRecord ==
  ASSUME InductiveInv, UNCHANGED <<exit, task, traced, stray, halted, thds, status>>,
         \/ dpc = "crash" /\ dpc' \in {"others", "resume"} /\ todo' = thds
         \/ dpc = "others" /\ dpc' \in {"others", "footer"} /\ todo # <<>> /\ todo' = Tail(todo)
         \/ dpc = "footer" /\ dpc' = "resume" /\ todo' = thds
  PROVE  HeldInv' /\ HaltInv'
<1>1. /\ \A t : Listed(t)' <=> Listed(t)
      /\ \A t \in Tids : Waits(t)' => Listed(t)
      /\ dpc' = "resume" => \A t : Waits(t)' <=> Listed(t)
  <2>1. CASE todo' = thds
    BY <2>1 DEF Waits, Listed
  <2>2. CASE dpc = "others" /\ todo # <<>> /\ todo' = Tail(todo)
    BY <2>2, NextThread DEF InductiveInv, HeldInv
  <2>3. QED
    BY <2>1, <2>2
<1>2. HeldInv'
  BY <1>1 DEF InductiveInv, HeldInv, Before
<1>3. HaltInv'
  BY <1>1 DEF InductiveInv, HeldInv, HaltInv, ResumedUnlessCut
<1>4. QED
  BY <1>2, <1>3

LEMMA HeldResume ==
  ASSUME InductiveInv, Resume
  PROVE  HeldInv' /\ HaltInv'
<1>1. dpc = "resume" /\ dpc' = "resume" /\ todo # <<>> /\ todo' = Tail(todo)
      /\ UNCHANGED <<exit, stray, thds, status>>
  BY DEF Resume, mainVars
<1>2. /\ Thread \in Tids /\ Waits(Thread)
      /\ \A t : Waits(t) <=> t = Thread \/ Waits(t)'
      /\ \A t : Listed(t)' <=> Listed(t)
  BY <1>1, NextThread DEF InductiveInv
<1>3. CASE Thread \in traced /\ task[Thread] = "stopped"
  <2>1. /\ traced' = traced \ {Thread} /\ halted' = (halted \/ Thread \in stray)
        /\ \A t \in Tids \ {Thread} : task'[t] = task[t]
    BY <1>2, <1>3 DEF Resume, InductiveInv, TypeInv, AppTypeOK
  <2>2. HeldInv'
    BY <1>1, <1>2, <2>1 DEF InductiveInv, HeldInv, Before, TypeInv, AppTypeOK
  <2>3. HaltInv'
    BY <1>1, <1>2, <2>1 DEF InductiveInv, HaltInv, ResumedUnlessCut, TypeInv, AppTypeOK
  <2>4. QED
    BY <2>2, <2>3
<1>4. CASE ~(Thread \in traced /\ task[Thread] = "stopped")
  <2>1. UNCHANGED <<task, traced, halted>>
    BY <1>4 DEF Resume
  <2>2. HeldInv'
    BY <1>1, <1>2, <2>1 DEF InductiveInv, HeldInv, Before
  <2>3. HaltInv'
    BY <1>1, <1>2, <1>4, <2>1 DEF InductiveInv, HaltInv, ResumedUnlessCut
  <2>4. QED
    BY <2>2, <2>3
<1>5. QED
  BY <1>3, <1>4

LEMMA HeldReturn ==
  ASSUME InductiveInv, ReturnFromMain
  PROVE  HeldInv' /\ HaltInv'
<1>1. dpc = "resume" /\ dpc' = "ended" /\ exit' = 0 /\ UNCHANGED <<thds, todo, status, stray>>
      /\ traced' = {} /\ halted' = (halted \/ \E t \in traced : task[t] = "stopped")
  BY DEF ReturnFromMain, Ended, listVars
<1>2. \A t : ~Waits(t)
  BY DEF ReturnFromMain, Waits, ToSet
<1>3. halted' => stray # {}
  BY <1>1, <1>2 DEF InductiveInv, HaltInv, ResumedUnlessCut
<1>4. HeldInv'
  BY <1>1 DEF InductiveInv, HeldInv, Waits, Listed, Before
<1>5. HaltInv'
  BY <1>1, <1>3 DEF HaltInv, ResumedUnlessCut
<1>6. QED
  BY <1>4, <1>5

LEMMA InductiveStep == InductiveInv /\ [NextDumper]_dumperVars => InductiveInv'
<1> SUFFICES ASSUME InductiveInv, [NextDumper]_dumperVars
    PROVE  HeldInv' /\ HaltInv'
  BY TypeInvNext DEF InductiveInv
<1> USE DEF Advance, mainVars, appVars, listVars
<1>1. CASE UNCHANGED dumperVars \/ DumperOver
  BY <1>1, HeldSimple DEF DumperOver, dumperVars
<1>2. CASE \E how \in {Signaled, 1, 2, 3, 5, 6, 10, 200} : Ended(how)
  BY <1>2, HeldEnded
<1>3. CASE \A how \in {Signaled, 1, 2, 3, 5, 6, 10, 200} : ~Ended(how)
  <2>1. CASE ReadArgs \/ OpenLog \/ Register \/ SuspendDone \/ SysRecord \/ OthersDone
    BY <1>3, <2>1, HeldSimple DEF ReadArgs, OpenLog, Register, SuspendDone, SysRecord, OthersDone, Before
  <2>2. CASE RecordCrashThread \/ RecordFooter
    BY <1>3, <2>2, HeldRecord DEF RecordCrashThread, RecordFooter
  <2>3. CASE RecordThread
    <3>1. /\ UNCHANGED <<exit, task, traced, stray, halted, thds, status>>
          /\ dpc = "others" /\ dpc' \in {"others", "footer"} /\ todo # <<>> /\ todo' = Tail(todo)
      BY <2>3 DEF RecordThread
    <3>2. QED
      BY <3>1, HeldRecord
  <2>4. CASE ProcessCreate \/ Attach \/ StopWait \/ LoadInfo \/ Resume \/ ReturnFromMain
    BY <2>4, HeldCreate, HeldAttach, HeldStopWait, HeldLoad, HeldResume, HeldReturn
  <2>5. CASE AppRuns \/ (\E t \in Tids : Stops(t))
    BY <2>5, HeldApp
  <2>6. CASE Faults \/ SelfDump
    BY <1>3, <2>6 DEF Faults, SelfDump
  <2>7. CASE Aborts \/ AlarmExpires
    <3>1. (IF dpc = "self" THEN 200 ELSE Signaled) \in {200, Signaled}
      OBVIOUS
    <3>2. UNCHANGED <<exit, task, traced, stray, halted, thds, todo, status>>
          /\ (dpc' = dpc \/ (dpc' = "self" /\ dpc # "ended"))
      BY <1>3, <2>7, <3>1 DEF Aborts, AlarmExpires, Blocked
    <3>3. QED
      BY <3>2, HeldSimple
  <2>8. QED
    BY <1>1, <2>1, <2>2, <2>3, <2>4, <2>5, <2>6, <2>7 DEF NextDumper, DumperRuns
<1>4. QED
  BY <1>2, <1>3

LEMMA Inductive == SpecDumper => []InductiveInv
<1>1. InitDumper => InductiveInv
  BY TypeInvInit, HeldStart DEF InductiveInv
<1>2. QED
  BY <1>1, InductiveStep, PTL DEF SpecDumper

(* The process is not left stopped by a dumper that ends with 0, unless a thread had a signal of *)
(* its own to report, or waitpid failed, when it was attached to.                              *)
THEOREM ProcessResumed == SpecDumper => []ResumedUnlessCut
<1>1. InductiveInv => ResumedUnlessCut
  BY DEF InductiveInv, HaltInv
<1>2. QED
  BY <1>1, Inductive, PTL

-----------------------------------------------------------------------------
(* Frames *)

LEMMA FramesStep == InductiveInv /\ FramesOfStopped /\ [NextDumper]_dumperVars => FramesOfStopped'
<1> SUFFICES ASSUME InductiveInv, FramesOfStopped, [NextDumper]_dumperVars
    PROVE  FramesOfStopped'
  OBVIOUS
<1>1. ASSUME NEW t \in Tids, LoadFrames(t), dpc \in {"crash", "others"}, Listed(t)
      PROVE  FramesOfStopped'
  BY <1>1 DEF LoadFrames, FramesOfStopped, InductiveInv, HeldInv
<1>2. CASE frames' = frames
  BY <1>2 DEF FramesOfStopped
<1>3. CASE RecordCrashThread
  <2>1. CASE Ended(6)
    BY <1>2, <2>1 DEF Ended, logVars
  <2>2. CASE ~Ended(6)
    <3>1. dpc = "crash" /\ LoadFrames(CrashTid)
      BY <1>3, <2>2 DEF RecordCrashThread
    <3>2. CrashTid \in Tids /\ Listed(CrashTid)
      BY <3>1, DumperAssumption DEF InductiveInv, HeldInv, Before
    <3>3. QED
      BY <1>1, <3>1, <3>2
  <2>3. QED
    BY <2>1, <2>2
<1>4. CASE RecordThread
  <2>1. dpc = "others" /\ todo # <<>> /\ todo' = Tail(todo) /\ thds' = thds
        /\ (frames' = frames \/ LoadFrames(Thread))
    BY <1>4 DEF RecordThread, logVars
  <2>2. Thread \in Tids /\ Listed(Thread)
    BY <2>1, NextThread DEF InductiveInv, HeldInv
  <2>3. QED
    BY <1>1, <1>2, <2>1, <2>2
<1>5. RecordCrashThread \/ RecordThread \/ frames' = frames
  BY DEF NextDumper, DumperRuns, ReadArgs, OpenLog, Register, ProcessCreate, Attach, StopWait, SuspendDone,
     LoadInfo, SysRecord, OthersDone, RecordFooter, Resume, ReturnFromMain, SelfDump, Faults, Aborts,
     AlarmExpires, AppRuns, Stops, DumperOver, Ended, logVars, dumperVars
<1>6. QED
  BY <1>2, <1>3, <1>4, <1>5

(* Registers, stack and code of a thread belong together in the log: no frames are read of a thread *)
(* that runs, whichever calls of the suspension failed.                                            *)
THEOREM FramesRead == SpecDumper => []FramesOfStopped
<1>1. InitDumper => FramesOfStopped
  BY DEF InitDumper, FramesOfStopped
<1>2. QED
  BY <1>1, FramesStep, Inductive, PTL DEF SpecDumper
-----------------------------------------------------------------------------
(* Sections and counters *)

Distinct(list) == \A i, j \in DOMAIN list : list[i] = list[j] => i = j

\* The counters are true of the sections written so far, and once they are in the log no section
\* is added.
CountsTrue ==
  /\ counts.dumped = Cardinality(whole \ {CrashTid})
  /\ counts.matched = counts.ignored + counts.dumped + Cardinality(partial)
  /\ opt.max > 0 => counts.dumped <= opt.max
  /\ footer # <<>> => footer = <<counts>> /\ dpc \in {"resume", "self", "ended"}

\* The threads of the list come once each: the ones still to come have no section yet.
NoneTwice ==
  /\ Distinct(thds)
  /\ dpc \notin {"others", "footer", "resume", "self", "ended"} => whole = {} /\ partial = {}
  /\ dpc = "others" => Distinct(todo) /\ ToSet(todo) \cap whole \subseteq {CrashTid} /\ partial = {}

\* A thread of the list that was asked for, has no section and is not still to come was ignored,
\* unless a write failed in one.
Skips(t) == NeedDump(t) /\ t \notin whole
SkippedCounted ==
  /\ dpc \in {"others", "footer", "resume"} \/ exit = 0 => CrashTid \in whole
  /\ dpc \in {"others", "footer"} => opt.all
  /\ dpc = "others" => \A t \in ToSet(thds) \ ToSet(todo) : Skips(t) => counts.ignored > 0
  /\ dpc = "footer" /\ partial = {} => \A t \in ToSet(thds) : Skips(t) => counts.ignored > 0
  /\ (dpc = "resume" \/ exit = 0) /\ partial = {} /\ opt.all =>
       \A t \in ToSet(thds) : Skips(t) => footer # <<>> /\ counts.ignored > 0

SectionsInv == CountsTrue /\ NoneTwice /\ SkippedCounted

LEMMA ListingDistinct ==
  ASSUME NEW S \in SUBSET Tids
  PROVE  Distinct(Listing(S))
<1>1. IsFiniteSet(S) /\ Cardinality(S) \in Nat
  BY DumperAssumption, FS_Subset, FS_CardinalityType
<1>2. Listing(S) \in [1..Cardinality(S) -> S]
  <2>1. PICK n \in Nat : ExistsBijection(1..n, S)
    BY <1>1, FS_NatBijection
  <2>2. n = Cardinality(S)
    BY <1>1, <2>1, FS_CountingElements
  <2>3. PICK f \in [1..n -> S] : \A t \in S : \E i \in 1..n : f[i] = t
    BY <2>1 DEF ExistsBijection, Bijection, Surjection
  <2>4. ToSet(f) = S
    BY <2>3 DEF ToSet
  <2>5. QED
    BY <2>2, <2>3, <2>4 DEF Listing
<1>3. ToSet(Listing(S)) = S
  BY ListingOf
<1>4. Listing(S) \in Surjection(1..Cardinality(S), S)
  BY <1>2, <1>3 DEF Surjection, ToSet
<1>5. IsFiniteSet(1..Cardinality(S)) /\ Cardinality(1..Cardinality(S)) = Cardinality(S)
  BY <1>1, FS_Interval
<1>6. Listing(S) \in Injection(1..Cardinality(S), S)
  BY <1>4, <1>5, FS_SurjSameCardinalityImpliesInj
<1>7. QED
  BY <1>2, <1>6 DEF Injection, IsInjective, Distinct

\* The first of a list of different threads does not come again.
LEMMA RestDistinct ==
  ASSUME NEW list \in Seq(Tids), list # <<>>, Distinct(list)
  PROVE  Distinct(Tail(list)) /\ Head(list) \notin ToSet(Tail(list))
<1>1. /\ Tail(list) \in Seq(Tids) /\ Len(Tail(list)) = Len(list) - 1 /\ Head(list) = list[1]
      /\ \A i \in 1..Len(Tail(list)) : Tail(list)[i] = list[i + 1]
  BY HeadTailProperties
<1>2. Len(list) \in Nat /\ Len(list) > 0 /\ DOMAIN list = 1..Len(list)
      /\ DOMAIN Tail(list) = 1..Len(list) - 1
  BY <1>1
<1>3. ASSUME NEW i \in DOMAIN Tail(list)
      PROVE  i + 1 \in DOMAIN list /\ Tail(list)[i] = list[i + 1] /\ i + 1 # 1 /\ i \in Nat
  BY <1>1, <1>2
<1>4. Distinct(Tail(list))
  <2> SUFFICES ASSUME NEW i \in DOMAIN Tail(list), NEW j \in DOMAIN Tail(list),
                      Tail(list)[i] = Tail(list)[j]
               PROVE  i = j
    BY DEF Distinct
  <2>1. i + 1 = j + 1
    BY <1>3 DEF Distinct
  <2>2. QED
    BY <1>3, <2>1
<1>5. Head(list) \notin ToSet(Tail(list))
  <2> SUFFICES ASSUME NEW i \in DOMAIN Tail(list), Tail(list)[i] = list[1]
               PROVE  FALSE
    BY <1>1 DEF ToSet
  <2>1. 1 \in DOMAIN list
    BY <1>2
  <2>2. QED
    BY <1>3, <2>1 DEF Distinct
<1>6. QED
  BY <1>4, <1>5

LEMMA SectionsFinite ==
  ASSUME TypeInv
  PROVE  /\ IsFiniteSet(whole) /\ IsFiniteSet(whole \ {CrashTid}) /\ IsFiniteSet(partial)
         /\ Cardinality(whole \ {CrashTid}) \in Nat /\ Cardinality(partial) \in Nat
BY DumperAssumption, FS_Subset, FS_CardinalityType DEF TypeInv, LogTypeOK

LEMMA SectionsStart == InitDumper => SectionsInv
<1> SUFFICES ASSUME InitDumper PROVE SectionsInv
  OBVIOUS
<1>1. whole \ {CrashTid} = {} /\ partial = {} /\ footer = <<>> /\ opt.max \in Nat
  BY DumperAssumption DEF InitDumper
<1>2. CountsTrue
  BY <1>1, FS_EmptySet DEF InitDumper, CountsTrue
<1>3. NoneTwice
  BY DEF InitDumper, NoneTwice, Distinct
<1>4. SkippedCounted
  BY DEF InitDumper, SkippedCounted, NotYet
<1>5. QED
  BY <1>2, <1>3, <1>4 DEF SectionsInv

\* Steps that write no section and end no loop over the threads.
LEMMA SectionsKept ==
  ASSUME SectionsInv, InductiveInv, UNCHANGED <<opt, thds, whole, partial, counts, footer>>,
         \/ dpc' = dpc /\ exit' = exit /\ (dpc = "others" => todo' = todo)
         \/ dpc' = "self" /\ exit' = exit /\ dpc # "ended"
         \/ dpc' = "ended" /\ exit' # 0
         \/ /\ dpc \notin {"others", "footer", "resume", "self", "ended"} /\ exit' = exit
            /\ dpc' \notin {"others", "footer", "resume"}
  PROVE  SectionsInv'
<1>1. CountsTrue'
  BY DEF SectionsInv, CountsTrue
<1>2. NoneTwice'
  BY DEF SectionsInv, NoneTwice
<1>3. SkippedCounted'
  BY DEF SectionsInv, SkippedCounted, Skips, NeedDump, InductiveInv, HaltInv, NotYet
<1>4. QED
  BY <1>1, <1>2, <1>3 DEF SectionsInv

LEMMA SectionsCreate ==
  ASSUME SectionsInv, InductiveInv, ProcessCreate, ~Ended(3)
  PROVE  SectionsInv'
<1> USE DEF ProcessCreate, Advance, listVars, logVars, appVars
<1>1. /\ thds' = Listing(Alive) /\ dpc = "create" /\ dpc' = "suspend" /\ exit' = exit
      /\ UNCHANGED <<opt, whole, partial, counts, footer>>
  OBVIOUS
<1>2. Distinct(thds')
  BY <1>1, ListingDistinct DEF Alive
<1>3. CountsTrue'
  BY <1>1 DEF SectionsInv, CountsTrue
<1>4. NoneTwice'
  BY <1>1, <1>2 DEF SectionsInv, NoneTwice
<1>5. SkippedCounted'
  BY <1>1 DEF SectionsInv, SkippedCounted, InductiveInv, HaltInv, NotYet
<1>6. QED
  BY <1>3, <1>4, <1>5 DEF SectionsInv

\* The section of the crashed thread is not counted.
LEMMA SectionsCrash ==
  ASSUME SectionsInv, InductiveInv, RecordCrashThread, ~Ended(6)
  PROVE  SectionsInv'
<1>1. /\ dpc = "crash" /\ whole' = whole \cup {CrashTid} /\ todo' = thds
      /\ dpc' = IF opt.all THEN "others" ELSE "resume"
      /\ UNCHANGED <<opt, exit, partial, counts, footer, thds>>
  BY DEF RecordCrashThread, Advance, appVars
<1>2. whole = {} /\ partial = {} /\ whole' \ {CrashTid} = whole \ {CrashTid} /\ exit # 0
  BY <1>1 DEF SectionsInv, NoneTwice, InductiveInv, HaltInv, NotYet
<1>3. CountsTrue'
  BY <1>1, <1>2 DEF SectionsInv, CountsTrue
<1>4. NoneTwice'
  BY <1>1, <1>2 DEF SectionsInv, NoneTwice
<1>5. SkippedCounted'
  BY <1>1, <1>2 DEF SkippedCounted
<1>6. QED
  BY <1>3, <1>4, <1>5 DEF SectionsInv

\* One thread of the loop: what is counted is what is written.
LEMMA SectionsThread ==
  ASSUME SectionsInv, InductiveInv, RecordThread
  PROVE  SectionsInv'
<1> DEFINE one == counts.dumped + 1
<1>1. /\ dpc = "others" /\ todo # <<>> /\ todo' = Tail(todo) /\ thds' = thds
      /\ UNCHANGED <<opt, exit, footer>> /\ exit # 0
  BY DEF RecordThread, Advance, mainVars, logVars, InductiveInv, HaltInv, NotYet
<1>2. /\ Distinct(Tail(todo)) /\ Thread \notin ToSet(Tail(todo)) /\ Thread \in Tids
      /\ ToSet(todo) = {Thread} \cup ToSet(Tail(todo)) /\ Thread \in ToSet(todo)
  BY <1>1, RestDistinct, RestOfList DEF SectionsInv, NoneTwice, InductiveInv, TypeInv, ListTypeOK, Thread
<1>3. /\ counts \in Counters /\ opt.max \in Nat /\ partial = {} /\ footer = <<>>
      /\ counts.dumped \in Nat /\ counts.matched \in Nat /\ counts.ignored \in Nat
  BY <1>1, DumperAssumption
     DEF SectionsInv, NoneTwice, CountsTrue, InductiveInv, TypeInv, LogTypeOK, MainTypeOK, Counters
<1>4. CASE ~NeedDump(Thread)
  <2>1. dpc' = "others" /\ UNCHANGED <<whole, partial, counts>>
    BY <1>1, <1>4 DEF RecordThread, mainVars, logVars
  <2>2. CountsTrue'
    BY <1>1, <2>1 DEF SectionsInv, CountsTrue
  <2>3. NoneTwice'
    BY <1>1, <1>2, <2>1 DEF SectionsInv, NoneTwice
  <2>4. SkippedCounted'
    BY <1>1, <1>2, <1>4, <2>1 DEF SectionsInv, SkippedCounted, Skips, NeedDump
  <2>5. QED
    BY <2>2, <2>3, <2>4 DEF SectionsInv
<1>5. CASE NeedDump(Thread) /\ OverLimit
  <2>1. /\ dpc' = "others" /\ UNCHANGED <<whole, partial>>
        /\ counts' = [counts EXCEPT !.matched = @ + 1, !.ignored = @ + 1]
    BY <1>1, <1>5 DEF RecordThread, mainVars
  <2>2. counts'.dumped = counts.dumped /\ counts'.matched = counts.matched + 1
        /\ counts'.ignored = counts.ignored + 1
    BY <1>3, <2>1 DEF Counters
  <2>3. CountsTrue'
    BY <1>1, <1>3, <2>1, <2>2, FS_EmptySet DEF SectionsInv, CountsTrue
  <2>4. NoneTwice'
    BY <1>1, <1>2, <2>1 DEF SectionsInv, NoneTwice
  <2>5. SkippedCounted'
    BY <1>1, <1>3, <2>1, <2>2 DEF SectionsInv, SkippedCounted, Skips, NeedDump
  <2>6. QED
    BY <2>3, <2>4, <2>5 DEF SectionsInv
<1>6. CASE NeedDump(Thread) /\ ~OverLimit
  <2>1. Thread # CrashTid /\ Thread \notin whole
    BY <1>1, <1>2, <1>6 DEF NeedDump, SectionsInv, NoneTwice
  <2>2. CASE counts' = [counts EXCEPT !.matched = @ + 1, !.dumped = @ + 1]
             /\ whole' = whole \cup {Thread} /\ dpc' = "others" /\ partial' = partial
    <3>1. counts'.dumped = counts.dumped + 1 /\ counts'.matched = counts.matched + 1
          /\ counts'.ignored = counts.ignored
      BY <1>3, <2>2 DEF Counters
    <3>2. Cardinality(whole' \ {CrashTid}) = Cardinality(whole \ {CrashTid}) + 1
      <4>1. whole' \ {CrashTid} = (whole \ {CrashTid}) \cup {Thread}
        BY <2>1, <2>2
      <4>2. QED
        BY <2>1, <4>1, SectionsFinite, FS_AddElement DEF InductiveInv
    <3>3. opt.max > 0 => counts.dumped + 1 <= opt.max
      BY <1>3, <1>6 DEF OverLimit
    <3>4. CountsTrue'
      BY <1>1, <1>3, <2>2, <3>1, <3>2, <3>3, FS_EmptySet DEF SectionsInv, CountsTrue
    <3>5. NoneTwice'
      BY <1>1, <1>2, <2>2 DEF SectionsInv, NoneTwice
    <3>6. SkippedCounted'
      BY <1>1, <1>2, <2>2, <3>1 DEF SectionsInv, SkippedCounted, Skips, NeedDump
    <3>7. QED
      BY <3>4, <3>5, <3>6 DEF SectionsInv
  <2>3. CASE counts' = [counts EXCEPT !.matched = @ + 1]
             /\ partial' = partial \cup {Thread} /\ dpc' = "footer" /\ whole' = whole
    <3>1. counts'.dumped = counts.dumped /\ counts'.matched = counts.matched + 1
          /\ counts'.ignored = counts.ignored
      BY <1>3, <2>3 DEF Counters
    <3>2. Cardinality(partial') = 1 /\ partial' # {}
      BY <1>3, <2>3, FS_Singleton
    <3>3. CountsTrue'
      BY <1>1, <1>3, <2>3, <3>1, <3>2, FS_EmptySet DEF SectionsInv, CountsTrue
    <3>4. NoneTwice'
      BY <1>1, <2>3 DEF SectionsInv, NoneTwice
    <3>5. SkippedCounted'
      BY <1>1, <2>3, <3>2 DEF SectionsInv, SkippedCounted
    <3>6. QED
      BY <3>3, <3>4, <3>5 DEF SectionsInv
  <2>4. QED
    BY <1>1, <1>6, <2>2, <2>3 DEF RecordThread, Advance, mainVars
<1>7. QED
  BY <1>4, <1>5, <1>6

\* The loop is over, the footer is written, main returns.
LEMMA SectionsEnd ==
  ASSUME SectionsInv, InductiveInv,
         OthersDone \/ (RecordFooter /\ ~Ended(6)) \/ ReturnFromMain
  PROVE  SectionsInv'
<1>1. /\ UNCHANGED <<opt, whole, partial, counts, thds>> /\ dpc' # "others"
      /\ dpc \in {"others", "footer", "resume"}
      /\ footer' = footer \/ (dpc = "footer" /\ footer' \in {<<counts>>, <<>>})
      /\ dpc' \in {"footer", "resume", "ended"} /\ (dpc' = "footer" => footer' = footer /\ dpc = "others")
  BY DEF OthersDone, RecordFooter, ReturnFromMain, Ended, Advance, listVars, logVars, appVars
<1>2. CountsTrue'
  BY <1>1 DEF SectionsInv, CountsTrue
<1>3. NoneTwice'
  BY <1>1 DEF SectionsInv, NoneTwice
<1>4. SkippedCounted'
  <2> USE DEF SectionsInv, SkippedCounted, Skips, NeedDump
  <2>1. exit # 0
    BY <1>1 DEF InductiveInv, HaltInv, NotYet
  <2>2. CASE OthersDone
    <3>1. dpc = "others" /\ dpc' = "footer" /\ exit' = exit /\ ToSet(todo) = {}
      BY <2>2 DEF OthersDone, Advance, ToSet
    <3>2. QED
      BY <1>1, <2>1, <3>1
  <2>3. CASE RecordFooter /\ ~Ended(6)
    <3>1. dpc = "footer" /\ dpc' = "resume" /\ exit' = exit /\ footer' = IF Len(thds) > 1 THEN <<counts>> ELSE <<>>
      BY <2>3 DEF RecordFooter, Advance
    <3>2. ASSUME ~(Len(thds) > 1)
          PROVE  \A t \in ToSet(thds) : ~Skips(t)
      <4>1. thds \in Seq(Tids) /\ CrashTid \in ToSet(thds)
        BY <3>1 DEF InductiveInv, TypeInv, ListTypeOK, HeldInv, Listed, Before
      <4>2. Len(thds) \in Nat /\ DOMAIN thds = 1..Len(thds)
        BY <4>1
      <4>3. \A i \in DOMAIN thds : i = 1
        BY <3>2, <4>2
      <4>4. ToSet(thds) = {CrashTid}
        BY <4>1, <4>3 DEF ToSet
      <4>5. QED
        BY <4>4
    <3>3. QED
      BY <1>1, <2>1, <3>1, <3>2
  <2>4. CASE ReturnFromMain
    <3>1. dpc = "resume" /\ dpc' = "ended" /\ exit' = 0 /\ footer' = footer
      BY <2>4 DEF ReturnFromMain, Ended, logVars
    <3>2. QED
      BY <1>1, <3>1
  <2>5. QED
    BY <2>2, <2>3, <2>4
<1>5. QED
  BY <1>2, <1>3, <1>4 DEF SectionsInv

LEMMA SectionsNext == SectionsInv /\ InductiveInv /\ [NextDumper]_dumperVars => SectionsInv'
<1> SUFFICES ASSUME SectionsInv, InductiveInv, [NextDumper]_dumperVars
    PROVE  SectionsInv'
  OBVIOUS
<1> USE DEF Advance, mainVars, appVars, listVars, logVars
<1>1. CASE UNCHANGED dumperVars \/ DumperOver
  BY <1>1, SectionsKept DEF DumperOver, dumperVars
<1>2. CASE \E how \in {Signaled, 1, 2, 3, 5, 6, 10, 200} : Ended(how)
  BY <1>2, SectionsKept DEF Ended, Signaled
<1>3. CASE \A how \in {Signaled, 1, 2, 3, 5, 6, 10, 200} : ~Ended(how)
  <2>1. CASE ReadArgs \/ OpenLog \/ Register \/ Attach \/ StopWait \/ SuspendDone \/ LoadInfo \/ SysRecord
    BY <1>3, <2>1, SectionsKept
       DEF ReadArgs, OpenLog, Register, Attach, StopWait, SuspendDone, LoadInfo, SysRecord
  <2>2. CASE ProcessCreate
    BY <1>3, <2>2, SectionsCreate
  <2>3. CASE RecordCrashThread
    BY <1>3, <2>3, SectionsCrash
  <2>4. CASE RecordThread
    BY <2>4, SectionsThread
  <2>5. CASE OthersDone \/ RecordFooter \/ ReturnFromMain
    BY <1>3, <2>5, SectionsEnd
  <2>6. CASE Resume
    BY <2>6, SectionsKept DEF Resume
  <2>7. CASE AppRuns \/ (\E t \in Tids : Stops(t))
    BY <2>7, SectionsKept DEF AppRuns, Stops
  <2>8. CASE Faults \/ SelfDump
    BY <1>3, <2>8 DEF Faults, SelfDump
  <2>9. CASE Aborts \/ AlarmExpires
    <3>1. (IF dpc = "self" THEN 200 ELSE Signaled) \in {200, Signaled}
      OBVIOUS
    <3>2. /\ UNCHANGED <<opt, exit, thds, todo, whole, partial, counts, footer>>
          /\ dpc' = dpc \/ (dpc' = "self" /\ dpc # "ended")
      BY <1>3, <2>9, <3>1 DEF Aborts, AlarmExpires, Blocked
    <3>3. QED
      BY <3>2, SectionsKept
  <2>10. QED
    BY <1>1, <2>1, <2>2, <2>3, <2>4, <2>5, <2>6, <2>7, <2>8, <2>9 DEF NextDumper, DumperRuns
<1>4. QED
  BY <1>2, <1>3

(* The counters at the end of the log are those of the sections in it, also when a write failed in *)
(* the middle of one, and a dumper that returns 0 has recorded the crashed thread and every        *)
(* thread asked for that it did not count as ignored, unless a write failed in one.                *)
THEOREM LogTells == SpecDumper => []LogTrue
<1>1. InitDumper => SectionsInv /\ InductiveInv
  BY SectionsStart, TypeInvInit, HeldStart DEF InductiveInv
<1>2. SectionsInv /\ InductiveInv => FooterTrue /\ CompleteIfNoneCut
  <2> SUFFICES ASSUME SectionsInv, InductiveInv PROVE FooterTrue /\ CompleteIfNoneCut
    OBVIOUS
  <2>1. FooterTrue
    BY DEF SectionsInv, CountsTrue, FooterTrue
  <2>2. CompleteIfNoneCut
    <3> SUFFICES ASSUME exit = 0, partial = {}
                 PROVE  /\ CrashTid \in whole
                        /\ opt.all => \A t \in ToSet(thds) \ whole :
                             NeedDump(t) => footer # <<>> /\ footer[1].ignored > 0
      BY DEF CompleteIfNoneCut
    <3>1. QED
      BY DEF SectionsInv, CountsTrue, SkippedCounted, Skips
  <2>3. QED
    BY <2>1, <2>2
<1>3. SpecDumper => [](SectionsInv /\ InductiveInv)
  BY <1>1, SectionsNext, InductiveStep, PTL DEF SpecDumper
<1>4. QED
  BY <1>2, <1>3, FramesRead, PTL DEF LogTrue
=============================================================================
