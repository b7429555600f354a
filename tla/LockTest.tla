------------------------------ MODULE LockTest ------------------------------
(***************************************************************************)
(* One run of the compatibility test: a group of test processes, threads   *)
(* of ThreadCustom, takes the locks of the simulated conflicts.  Each      *)
(* conflict is a cycle of locks, one for each of its members, and shows    *)
(* when a thread waits a second for the lock of the next member.           *)
(***************************************************************************)
EXTENDS Integers, Sequences, FiniteSets

CONSTANTS
  Procs,   \* numbers of the test processes
  Setups   \* simulated conflicts: sequences of sets of processes

ASSUME LockTestAssumption ==
  /\ Procs \subseteq Int /\ IsFiniteSet(Procs)
  /\ Setups \subseteq Seq(SUBSET Procs)

VARIABLES
  threadName,  \* the conflicts of this run
  group,       \* the processes under test
  prompt,      \* no thread is late: waits and sleeps end when nothing else can happen
  tpc,         \* place of each thread in run()
  turn,        \* which pair of locks it is at
  holds,       \* for each lock how often each thread holds it
  res          \* result of each thread: a conflict, or -1

testVars == <<threadName, group, prompt, tpc, turn, holds, res>>

Locks == {<<i, j>> : i \in DOMAIN threadName, j \in 1..Cardinality(Procs)}

TestTypeOK ==
  /\ threadName \in Setups /\ group \subseteq Procs /\ prompt \in BOOLEAN
  /\ tpc \in [Procs -> {"self", "sleep", "require", "has", "release"}]
  /\ turn \in [Procs -> 1..Len(threadName) + 1]
  /\ holds \in [Locks -> [Procs -> 0..2]]
  /\ res \in [Procs -> {-1} \cup DOMAIN threadName]

InitTest ==
  /\ threadName \in Setups /\ group \in SUBSET Procs /\ prompt \in BOOLEAN
  /\ tpc = [t \in Procs |-> "self"] /\ turn = [t \in Procs |-> 1]
  /\ holds = [l \in Locks |-> [t \in Procs |-> 0]]
  /\ res = [t \in Procs |-> -1]

-----------------------------------------------------------------------------
(* configure: the locks of a conflict, one for each member in the order of the set *)

Rank(S, x) == Cardinality({y \in S : y <= x})
Nth(S, k) == CHOOSE x \in S : Rank(S, x) = k

Place(t, i) == Rank(threadName[i], t)
Member(i, j) == Nth(threadName[i], j)

\* In place of NextPlace: the member's own.
SamePlace(j, n) == j

NextPlace(j, n) == (j % n) + 1

\* The list of pairs of locks of a thread has one for each conflict it is in.
Tasks(t) == {i \in DOMAIN threadName : t \in threadName[i]}

Pair(t) ==
  LET i == Nth(Tasks(t), turn[t])
  IN [taskId |-> i, selfLock |-> <<i, Place(t, i)>>,
      requireLock |-> <<i, NextPlace(Place(t, i), Cardinality(threadName[i]))>>]

Over(t) == turn[t] > Cardinality(Tasks(t))

-----------------------------------------------------------------------------
(* run *)

InRun(t, place) == t \in group /\ tpc[t] = place /\ ~Over(t)
Step(t, place) == tpc' = [tpc EXCEPT ![t] = place] /\ UNCHANGED <<threadName, group, prompt>>

Free(l, t) == \A u \in Procs \ {t} : holds[l][u] = 0
Lock(l, t) == holds' = [holds EXCEPT ![l][t] = @ + 1]
Unlock(l, t) == holds' = [holds EXCEPT ![l][t] = @ - 1]

NextPair(t) == turn' = [turn EXCEPT ![t] = @ + 1]

TakeSelf(t) ==
  /\ InRun(t, "self") /\ Free(Pair(t).selfLock, t)
  /\ Lock(Pair(t).selfLock, t) /\ Step(t, "sleep") /\ UNCHANGED <<turn, res>>

TakeRequire(t) ==
  /\ InRun(t, "require") /\ Free(Pair(t).requireLock, t)
  /\ Lock(Pair(t).requireLock, t) /\ Step(t, "has") /\ UNCHANGED <<turn, res>>

GiveRequire(t) ==
  /\ InRun(t, "has")
  /\ Unlock(Pair(t).requireLock, t) /\ Step(t, "release") /\ UNCHANGED <<turn, res>>

GiveSelf(t) ==
  /\ InRun(t, "release")
  /\ Unlock(Pair(t).selfLock, t) /\ Step(t, "self") /\ NextPair(t) /\ UNCHANGED res

Busy(t) == TakeSelf(t) \/ TakeRequire(t) \/ GiveRequire(t) \/ GiveSelf(t)

\* What takes no time can be done by nobody.
Idle ==
  \A t \in group :
    /\ ~(InRun(t, "self") /\ Free(Pair(t).selfLock, t))
    /\ ~(InRun(t, "require") /\ Free(Pair(t).requireLock, t))
    /\ ~InRun(t, "has") /\ ~InRun(t, "release")

SleepEnds(t) ==
  /\ InRun(t, "sleep") /\ (prompt => Idle)
  /\ Step(t, "require") /\ UNCHANGED <<turn, holds, res>>

\* A second is longer than any sleep.
SecondOver == prompt => Idle /\ \A t \in group : ~InRun(t, "sleep")

SelfTimeout(t) ==
  /\ InRun(t, "self") /\ SecondOver /\ ~Free(Pair(t).selfLock, t)
  /\ NextPair(t) /\ Step(t, "self") /\ UNCHANGED <<holds, res>>

RequireTimeout(t) ==
  /\ InRun(t, "require") /\ SecondOver /\ ~Free(Pair(t).requireLock, t)
  /\ res' = [res EXCEPT ![t] = Pair(t).taskId]
  /\ Step(t, "release") /\ UNCHANGED <<turn, holds>>

Runs(t) == Busy(t) \/ SleepEnds(t) \/ SelfTimeout(t) \/ RequireTimeout(t)

NextTest == \E t \in Procs : Runs(t)

SpecTest == InitTest /\ [][NextTest]_testVars

-----------------------------------------------------------------------------
(* Properties *)

\* test() joins the threads and looks at their results.
Joined == \A t \in group : Over(t)
Verdict == \E t \in group : res[t] # -1

Disjoint == \A i, j \in DOMAIN threadName : i # j => threadName[i] \cap threadName[j] = {}

\* If no thread is late and no process is in two conflicts, the group is found to conflict exactly
\* when all the members of a conflict of two and more are in it.  (A late thread misses its
\* partner, which holds its own lock only ten milliseconds longer, and a process in two conflicts
\* comes late to the second one.)
ConflictExact ==
  Joined /\ prompt /\ Disjoint =>
    (Verdict <=> \E i \in DOMAIN threadName :
                   Cardinality(threadName[i]) > 1 /\ threadName[i] \subseteq group)

\* However late the threads are, one that reports a conflict waited for a lock another process of
\* the group held, the next in the conflict it reports.
BlamedTruly ==
  \A t \in Procs : res[t] # -1 =>
    /\ t \in threadName[res[t]]
    /\ LET next == Member(res[t], NextPlace(Place(t, res[t]), Cardinality(threadName[res[t]])))
       IN next # t /\ next \in group

\* A verdict of the test means what the study takes it for.
VerdictTrue == TestTypeOK /\ ConflictExact /\ BlamedTruly
=============================================================================
