---------------------------- MODULE CompatSearch ----------------------------
(* The compatibility test of Heuristic_Testing: which groups of processes   *)
(* it runs together, and which it reports (TestCompApp of MainActivity.java *)
(* and Utils.java).  A group is taken to conflict exactly when it contains  *)
(* one of the `conflicts`; how far a run of the threads shows that is the   *)
(* subject of LockTest.                                                     *)
EXTENDS Integers, Sequences, SequencesExt, FiniteSetsExt

Conflict(conflicts, nums) == \E c \in conflicts : c \subseteq nums

Ascending(nums) == SetToSortSeq(nums, <)

-----------------------------------------------------------------------------
(* Utils.java *)

CombineNumAndSet(num, data) == [i \in DOMAIN data |-> data[i] \cup {num}]

\* The bubble sort by size, which keeps the order of sets of one size.
SortedBySize(sets, most) ==
  FlattenSeq([k \in 1..most |-> SelectSeq(sets, LAMBDA s : Cardinality(s) = k)])

WithoutSingles(sets, num) == SubSeq(sets, num + 1, Len(sets))

\* Every set of two and more of 1..num, small ones first.
FindallCinrange(num) ==
  LET step(res, n) == res \o CombineNumAndSet(n, res) \o <<{n}>>
      sets == FoldLeft(step, <<{1}>>, [n \in 1..num-1 |-> n + 1])
  IN IF num < 1 THEN <<>>
     ELSE IF num = 1 THEN sets ELSE WithoutSingles(SortedBySize(sets, num), num)

FindallCOfNums(ids, num) ==
  LET indexC == FindallCinrange(Len(ids))
      sized == SelectSeq(indexC, LAMBDA s : Cardinality(s) = num)
  IN IF num < 1 \/ num > Len(ids) THEN <<>>
     ELSE [k \in DOMAIN sized |-> {ids[i] : i \in sized[k]}]

\* In place of SplitThreadCrash: only the first member is taken out.
SplitOnce(data, deldata) == <<SelectSeq(data, LAMBDA n : n # Min(deldata))>>

\* The group without each one of the members of the conflict.
SplitThreadCrash(data, deldata) ==
  LET dels == Ascending(deldata)
  IN [k \in DOMAIN dels |-> SelectSeq(data, LAMBDA n : n # dels[k])]

-----------------------------------------------------------------------------
(* TestCompApp *)

\* What testAlg1 reports as conflicts, in its order.
TestAlg1(num, conflicts) ==
  SelectSeq(FindallCinrange(num), LAMBDA nums : Conflict(conflicts, nums))

\* One group of the queue at a time, the first.  The step is shared by all the groups.
RECURSIVE Turns(_, _, _, _)
Turns(queue, step, found, conflicts) ==
  IF \A k \in DOMAIN queue : Len(queue[k]) < step THEN found
  ELSE IF ~Conflict(conflicts, ToSet(Head(queue))) THEN Turns(Tail(queue), step, found, conflicts)
  ELSE LET group == Head(queue)
           select == FindallCOfNums(group, step)
           hits == {k \in DOMAIN select : Conflict(conflicts, select[k])}
       IN IF hits = {} THEN Turns(queue, step + 1, found, conflicts)
          ELSE LET nums == select[Min(hits)]
               IN Turns(Tail(queue) \o SplitThreadCrash(group, nums), step, Append(found, nums), conflicts)

\* What testAlg2 reports as conflicts.
TestAlg2(num, conflicts) ==
  IF Conflict(conflicts, 1..num) THEN Turns(<<[i \in 1..num |-> i]>>, 2, <<>>, conflicts) ELSE <<>>

-----------------------------------------------------------------------------
(* Properties, of the arguments of one call *)

\* The full test reports every group of at least two that conflicts, each once.
FullTestComplete(c) ==
  LET found == TestAlg1(c.num, c.conflicts)
  IN /\ IsInjective(found)
     /\ ToSet(found) = {s \in SUBSET (1..c.num) : Cardinality(s) >= 2 /\ Conflict(c.conflicts, s)}

\* The heuristic search ends; what it reports are conflicts; it reports one if there is any, a
\* smallest one first; and all of them if they have one size.  Of conflicts of several sizes it
\* may miss some, or report larger groups around them, since a step once passed for one group is
\* passed for all.
HeuristicFinds(c) ==
  LET found == TestAlg2(c.num, c.conflicts)
      sizes == {Cardinality(s) : s \in c.conflicts}
  IN /\ \A k \in DOMAIN found : Conflict(c.conflicts, found[k])
     /\ c.conflicts # {} => found # <<>> /\ Cardinality(Head(found)) = Min(sizes)
     /\ Cardinality(sizes) = 1 => ToSet(found) = c.conflicts
=============================================================================
