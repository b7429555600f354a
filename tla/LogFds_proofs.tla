---------------------------- MODULE LogFds_proofs ----------------------------
(***************************************************************************)
(* Proofs about LogFds, for any number of descriptors and placeholders.    *)
(***************************************************************************)
EXTENDS LogFds, TLAPS

LEMMA FdsType ==
  ASSUME FdsTypeOK, [NextFds]_fdsVars
  PROVE  FdsTypeOK'
<1> USE DEF FdsTypeOK, Opening
<1>1. ASSUME NEW k \in Kinds, LogStep(k)
      PROVE  FdsTypeOK'
  <2> USE <1>1 DEF LogStep, OpenLogCall, OpenDir, GiveBackForDir, OpenDirAgain,
          RenamePlaceholder, CloseDir, OpenRenamed, OpenPrepared, CreateLog, GiveBackForLog,
          CreateLogAgain, CloseLogCall, GiveUpLog
  <2>1. fpc' \in [Kinds -> {"idle", "opened", "failed", "takeback", "finished"} \cup Opening]
    BY DEF Goto
  <2>2. free' \in Nat
    BY DEF Taken, Freed, NoneLeft
  <2>3. app' \in Nat /\ placeholders' \in Nat
    BY DEF Taken, Freed, NoneLeft
  <2>4. prepared' \in [Kinds -> BOOLEAN]
    BY DEF Taken
  <2>5. dir' \in [Kinds -> BOOLEAN] /\ log' \in [Kinds -> BOOLEAN]
    BY DEF Taken
  <2>6. promised' \in [Kinds -> BOOLEAN]
    BY DEF Taken, Freed, NoneLeft
  <2> HIDE <1>1 DEF LogStep
  <2>7. QED
    BY <2>1, <2>2, <2>3, <2>4, <2>5, <2>6
<1>2. CASE AppOpens \/ AppCloses \/ UNCHANGED fdsVars
  <2>1. promised' \in [Kinds -> BOOLEAN]
    BY <1>2 DEF AppOpens, AppCloses, Taken, Freed, fdsVars
  <2>2. free' \in Nat /\ app' \in Nat /\ UNCHANGED <<fpc, prepared, dir, log, placeholders>>
    BY <1>2 DEF AppOpens, AppCloses, Taken, Freed, fdsVars
  <2>3. QED
    BY <2>1, <2>2
<1>3. QED
  BY <1>1, <1>2 DEF NextFds

-----------------------------------------------------------------------------
(* Promises.                                                               *)

\* What a promise asks for at each point of open_log and close_log: the descriptor the next
\* call needs is left, or can be had by giving up the reserve.
Kept(place, reserve, left) ==
  /\ place \in {"idle", "giveback", "giveback2"} => reserve
  /\ place \in {"opendir", "create"} => reserve \/ left > 0
  /\ place \in {"opendir2", "openrenamed", "reserve", "createagain", "takeback"} => left > 0
  /\ place # "failed"

PromiseInv == \A k \in Kinds : promised[k] => Kept(fpc[k], prepared[k], free)

\* A step of another thread keeps the promise, or breaks it.
LEMMA PromiseOfOthers ==
  ASSUME FdsTypeOK, PromiseInv, NEW k \in Kinds,
         fpc'[k] = fpc[k], prepared'[k] <=> prepared[k],
         \/ \E j \in (Kinds \ {k}) \cup {"application"} : Taken(j)
         \/ free' \in {free, free + 1} /\ (promised'[k] <=> promised[k])
  PROVE  promised'[k] => Kept(fpc'[k], prepared'[k], free')
<1>1. CASE \E j \in (Kinds \ {k}) \cup {"application"} : Taken(j)
  <2>1. PICK j \in (Kinds \ {k}) \cup {"application"} : Taken(j)
    BY <1>1
  <2>2. promised'[k] = (promised[k] /\ (k = j \/ fpc[k] = "idle")) /\ k # j
    BY <2>1 DEF Taken, Kinds
  <2>3. QED
    BY <2>2 DEF PromiseInv, Kept
<1>2. CASE free' \in {free, free + 1} /\ (promised'[k] <=> promised[k])
  BY <1>2 DEF FdsTypeOK, PromiseInv, Kept
<1>3. QED
  BY <1>1, <1>2

\* A step of one of the two leaves the other's place and reserve alone.
LEMMA StepOfOther ==
  ASSUME FdsTypeOK, NEW j \in Kinds, NEW k \in Kinds \ {j}, LogStep(j)
  PROVE  /\ fpc'[k] = fpc[k] /\ (prepared'[k] <=> prepared[k])
         /\ Taken(j) \/ (free' \in {free, free + 1} /\ (promised'[k] <=> promised[k]))
<1> USE DEF LogStep, OpenLogCall, OpenDir, GiveBackForDir, OpenDirAgain, RenamePlaceholder, CloseDir,
        OpenRenamed, OpenPrepared, CreateLog, GiveBackForLog, CreateLogAgain, CloseLogCall, GiveUpLog
<1>1. fpc'[k] = fpc[k]
  BY DEF Goto, FdsTypeOK
<1>2. prepared'[k] <=> prepared[k]
  BY DEF Taken, FdsTypeOK
<1>3. Taken(j) \/ (free' \in {free, free + 1} /\ (promised'[k] <=> promised[k]))
  BY DEF Freed, NoneLeft, FdsTypeOK
<1> HIDE DEF LogStep
<1>4. QED
  BY <1>1, <1>2, <1>3

LEMMA PromiseOfStep ==
  ASSUME FdsTypeOK, PromiseInv, NEW k \in Kinds, LogStep(k)
  PROVE  promised'[k] => Kept(fpc'[k], prepared'[k], free')
<1> USE DEF FdsTypeOK, PromiseInv, Kept, Goto
<1>1. CASE OpenLogCall(k)
  BY <1>1 DEF OpenLogCall
<1>2. CASE OpenDir(k) \/ OpenDirAgain(k)
  BY <1>2 DEF OpenDir, OpenDirAgain, Taken, NoneLeft
<1>3. CASE GiveBackForDir(k)
  BY <1>3 DEF GiveBackForDir, Freed
<1>4. CASE RenamePlaceholder(k) \/ CloseDir(k)
  BY <1>4 DEF RenamePlaceholder, CloseDir, Freed
<1>5. CASE OpenRenamed(k) \/ CreateLogAgain(k)
  BY <1>5 DEF OpenRenamed, CreateLogAgain, Taken, NoneLeft
<1>6. CASE OpenPrepared(k)
  BY <1>6 DEF OpenPrepared, Taken, NoneLeft
<1>7. CASE CreateLog(k)
  BY <1>7 DEF CreateLog, Taken, NoneLeft
<1>8. CASE GiveBackForLog(k)
  BY <1>8 DEF GiveBackForLog, Freed
<1>9. CASE CloseLogCall(k) \/ GiveUpLog(k)
  BY <1>9 DEF CloseLogCall, GiveUpLog
<1>10. QED
  BY <1>1, <1>2, <1>3, <1>4, <1>5, <1>6, <1>7, <1>8, <1>9 DEF LogStep

THEOREM FdsTypeCorrect == SpecFds => []FdsTypeOK
<1>1. InitFds => FdsTypeOK
  <2> SUFFICES ASSUME InitFds
               PROVE  FdsTypeOK
    OBVIOUS
  <2>1. free \in Nat /\ app \in Nat /\ placeholders \in Nat
    BY LogFdsAssumption DEF InitFds
  <2>2. QED
    BY <2>1 DEF InitFds, FdsTypeOK
<1>2. QED
  BY <1>1, FdsType, PTL DEF SpecFds

LEMMA PromiseInvariant == SpecFds => []PromiseInv
<1>1. InitFds => PromiseInv
  BY DEF InitFds, PromiseInv, Kept
<1>2. FdsTypeOK /\ PromiseInv /\ [NextFds]_fdsVars => PromiseInv'
  <2> SUFFICES ASSUME FdsTypeOK, PromiseInv, [NextFds]_fdsVars, NEW k \in Kinds
               PROVE  promised'[k] => Kept(fpc'[k], prepared'[k], free')
    BY DEF PromiseInv
  <2>1. CASE LogStep(k)
    BY <2>1, PromiseOfStep
  <2>2. ASSUME NEW j \in Kinds \ {k}, LogStep(j)
        PROVE  promised'[k] => Kept(fpc'[k], prepared'[k], free')
    BY <2>2, StepOfOther, PromiseOfOthers
  <2>3. CASE AppOpens \/ AppCloses \/ UNCHANGED fdsVars
    <3>1. /\ fpc'[k] = fpc[k] /\ (prepared'[k] <=> prepared[k])
          /\ Taken("application") \/ (free' \in {free, free + 1} /\ (promised'[k] <=> promised[k]))
      BY <2>3 DEF AppOpens, AppCloses, Freed, fdsVars
    <3>2. QED
      BY <3>1, PromiseOfOthers
  <2>4. QED
    BY <2>1, <2>2, <2>3 DEF NextFds
<1>3. QED
  BY <1>1, <1>2, FdsTypeCorrect, PTL DEF SpecFds

\* With its reserve, or any descriptor left, and nobody to snatch one on the way, a log is
\* opened: with or without placeholders, at any use of the table.
THEOREM LogOpenedHolds == SpecFds => []LogOpened
<1>1. PromiseInv => LogOpened
  BY DEF PromiseInv, Kept, LogOpened
<1>2. QED
  BY <1>1, PromiseInvariant, PTL

\* After open_log and close_log the reserve is there again, unless somebody snatched it.
THEOREM ReserveBackHolds == SpecFds => []ReserveBack
<1>1. PromiseInv => ReserveBack
  BY DEF PromiseInv, Kept, ReserveBack
<1>2. QED
  BY <1>1, PromiseInvariant, PTL

-----------------------------------------------------------------------------
(* No descriptor is lost.                                                  *)

\* What is open at each point of open_log and close_log.
PlaceInv ==
  \A k \in Kinds :
    /\ dir[k] <=> fpc[k] \in {"scan", "closedir", "closerenamed"}
    /\ log[k] <=> fpc[k] = "opened"

LEMMA PlaceOfStep ==
  ASSUME FdsTypeOK, PlaceInv, NEW k \in Kinds, LogStep(k)
  PROVE  PlaceInv'
<1> USE DEF FdsTypeOK, PlaceInv, Goto, Taken, Freed, NoneLeft
<1>1. CASE OpenDir(k) \/ OpenDirAgain(k) \/ CloseDir(k)
  BY <1>1 DEF OpenDir, OpenDirAgain, CloseDir
<1>2. CASE OpenRenamed(k) \/ CreateLog(k) \/ CreateLogAgain(k) \/ CloseLogCall(k)
  BY <1>2 DEF OpenRenamed, CreateLog, CreateLogAgain, CloseLogCall
<1>3. CASE \/ OpenLogCall(k) \/ GiveBackForDir(k) \/ RenamePlaceholder(k) \/ OpenPrepared(k)
           \/ GiveBackForLog(k) \/ GiveUpLog(k)
  BY <1>3 DEF OpenLogCall, GiveBackForDir, RenamePlaceholder, OpenPrepared, GiveBackForLog,
         GiveUpLog
<1>4. QED
  BY <1>1, <1>2, <1>3 DEF LogStep

\* A step moves a descriptor between the table and what one of the two holds.
LEMMA HeldOfStep ==
  ASSUME FdsTypeOK, PlaceInv, NEW k \in Kinds, LogStep(k)
  PROVE  /\ free' + HeldBy(k)' = free + HeldBy(k) /\ app' = app
         /\ \A j \in Kinds \ {k} : HeldBy(j)' = HeldBy(j)
<1> USE DEF FdsTypeOK, PlaceInv, Goto, HeldBy, One
<1>1. CASE OpenDir(k) \/ OpenDirAgain(k) \/ CloseDir(k)
  BY <1>1 DEF OpenDir, OpenDirAgain, CloseDir, Taken, Freed, NoneLeft
<1>2. CASE OpenRenamed(k) \/ CreateLog(k) \/ CreateLogAgain(k) \/ CloseLogCall(k)
  BY <1>2 DEF OpenRenamed, CreateLog, CreateLogAgain, CloseLogCall, Taken, NoneLeft
<1>3. CASE GiveBackForDir(k) \/ GiveBackForLog(k) \/ OpenPrepared(k)
  BY <1>3 DEF GiveBackForDir, GiveBackForLog, OpenPrepared, Taken, Freed, NoneLeft
<1>4. CASE OpenLogCall(k) \/ RenamePlaceholder(k) \/ GiveUpLog(k)
  BY <1>4 DEF OpenLogCall, RenamePlaceholder, GiveUpLog
<1>5. QED
  BY <1>1, <1>2, <1>3, <1>4 DEF LogStep

\* Every descriptor is accounted for, on every path of open_log and close_log and between
\* any two of their calls.
THEOREM NoFdLostHolds == SpecFds => []NoFdLost
<1> DEFINE Counted == free + app + HeldBy("crash") + HeldBy("trace") = Limit
<1>1. InitFds => PlaceInv /\ Counted
  BY DEF InitFds, PlaceInv
<1>2. FdsTypeOK /\ FdsTypeOK' /\ PlaceInv /\ Counted /\ [NextFds]_fdsVars => (PlaceInv /\ Counted)'
  <2> SUFFICES ASSUME FdsTypeOK, FdsTypeOK', PlaceInv, Counted, [NextFds]_fdsVars
               PROVE  PlaceInv' /\ Counted'
    OBVIOUS
  <2>1. \A k \in Kinds : HeldBy(k) \in Nat /\ HeldBy(k)' \in Nat
    BY DEF HeldBy, One
  <2>2. free \in Nat /\ app \in Nat /\ free' \in Nat /\ app' \in Nat
    BY DEF FdsTypeOK
  <2>3. ASSUME NEW k \in Kinds, LogStep(k)
        PROVE  PlaceInv' /\ Counted'
    <3> SUFFICES Counted'
      BY <2>3, PlaceOfStep
    <3>1. CASE k = "crash"
      <4>1. /\ free' + HeldBy("crash")' = free + HeldBy("crash") /\ app' = app
            /\ HeldBy("trace")' = HeldBy("trace")
        BY <2>3, <3>1, HeldOfStep DEF Kinds
      <4>2. QED
        BY <2>1, <2>2, <4>1 DEF Kinds
    <3>2. CASE k = "trace"
      <4>1. /\ free' + HeldBy("trace")' = free + HeldBy("trace") /\ app' = app
            /\ HeldBy("crash")' = HeldBy("crash")
        BY <2>3, <3>2, HeldOfStep DEF Kinds
      <4>2. QED
        BY <2>1, <2>2, <4>1 DEF Kinds
    <3>3. QED
      BY <3>1, <3>2 DEF Kinds
  <2>4. CASE AppOpens \/ AppCloses \/ UNCHANGED fdsVars
    <3>1. UNCHANGED <<fpc, prepared, dir, log>> /\ free' + app' = free + app
      BY <2>2, <2>4 DEF AppOpens, AppCloses, Taken, Freed, fdsVars
    <3>2. \A k \in Kinds : HeldBy(k)' = HeldBy(k)
      BY <3>1 DEF HeldBy, One
    <3>3. PlaceInv'
      BY <3>1 DEF PlaceInv
    <3>4. Counted'
      <4>1. HeldBy("crash")' = HeldBy("crash") /\ HeldBy("trace")' = HeldBy("trace")
        BY <3>2 DEF Kinds
      <4>2. free' + app' = free + app
        BY <3>1
      <4> HIDE DEF Counted
      <4>3. Counted <=> free + app + HeldBy("crash") + HeldBy("trace") = Limit
        BY DEF Counted
      <4>4. Counted' <=> free' + app' + HeldBy("crash")' + HeldBy("trace")' = Limit
        BY DEF Counted
      <4>5. QED
        BY <2>1, <2>2, <4>1, <4>2, <4>3, <4>4 DEF Kinds
    <3>5. QED
      BY <3>3, <3>4
  <2>5. QED
    BY <2>3, <2>4 DEF NextFds
<1>3. PlaceInv /\ Counted => NoFdLost
  BY DEF PlaceInv, NoFdLost
<1>4. QED
  BY <1>1, <1>2, <1>3, FdsTypeCorrect, PTL DEF SpecFds

\* The reserve serves: a log is opened, the reserve comes back and no descriptor is lost.
THEOREM ReserveServesHolds == SpecFds => []ReserveServes
<1>1. NoFdLost /\ LogOpened /\ ReserveBack => ReserveServes
  BY DEF ReserveServes
<1>2. QED
  BY <1>1, NoFdLostHolds, LogOpenedHolds, ReserveBackHolds, PTL
=============================================================================
