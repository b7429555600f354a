---------------------------- MODULE LogClustering ----------------------------
(* The scripts that sort crash logs: the filter of duplicates (preprocess.py) *)
(* and the distance of two stacks (clustering.py).  A stack is the sequence  *)
(* of the symbols of its frames.                                             *)
EXTENDS Integers, Sequences, SequencesExt, FiniteSetsExt

-----------------------------------------------------------------------------
(* preprocess.py *)

CompareStack(stack1, stack2) ==
  \A i \in 1..Min({Len(stack1), Len(stack2)}) : stack1[i] = stack2[i]

\* same_filter: for each stack the one it is a duplicate of, 0 for none.
SameFilter(stacks) ==
  [j \in DOMAIN stacks |-> Max({0} \cup {i \in 1..j-1 : CompareStack(stacks[i], stacks[j])})]

-----------------------------------------------------------------------------
(* clustering.py *)

CONSTANT LongestStack  \* no stack has more frames

Distance(i, j) == IF i < j THEN j - i ELSE i - j

\* The weight of a pair of frames: exp(-c * depth) * exp(-o * shift), both factors 1/2.
PairWeight(i, j) == 2^(2 * LongestStack - Min({i - 1, j - 1}) - Distance(i, j))

Cell(M, i, j, x) == Max({M[i - 1, j - 1] + x, M[i - 1, j], M[i, j - 1]})

\* get_dist: the similarity and what it is divided by; <<0, 1>> for a stack of one frame.
GetDist(stack1, stack2, similar) ==
  LET x(i, j) == IF <<stack1[i], stack2[j]>> \in similar THEN PairWeight(i, j) ELSE 0
      M[i \in 0..Len(stack1), j \in 0..Len(stack2)] ==
        IF i = 0 \/ j = 0 THEN 0 ELSE Cell(M, i, j, x(i, j))
      sig == MapThenSumSet(LAMBDA i : 2^(2 * LongestStack - i), 0..Min({Len(stack1), Len(stack2)}) - 1)
  IN IF Len(stack1) = 1 \/ Len(stack2) = 1 THEN <<0, 1>> ELSE <<M[Len(stack1), Len(stack2)], sig>>

-----------------------------------------------------------------------------
(* Properties, of the arguments of one call *)

\* Without the marked stacks every stack is still there, once: if no stack is the beginning of
\* another.  One that is counts as a duplicate of it, and as one of those that begin with it too.
FilterKeepsOne(c) ==
  LET dup == SameFilter(c.stacks)
      kept == {j \in DOMAIN c.stacks : dup[j] = 0}
  IN (\A i, j \in DOMAIN c.stacks : ~IsStrictPrefix(c.stacks[i], c.stacks[j])) =>
       \A j \in DOMAIN c.stacks : Cardinality({i \in kept : c.stacks[i] = c.stacks[j]}) = 1

\* The distance lies between 0 and 1, does not depend on the order of the stacks, and a stack of
\* more than one frame has distance 0 to itself.
DistanceOfStacks(c) ==
  LET similar == {<<s, s>> : s \in ToSet(c.stack1) \cup ToSet(c.stack2)} \cup c.similar
      d == GetDist(c.stack1, c.stack2, similar)
  IN /\ d[1] \in 0..d[2]
     /\ d = GetDist(c.stack2, c.stack1, similar)
     /\ Len(c.stack1) > 1 => LET own == GetDist(c.stack1, c.stack1, similar) IN own[1] = own[2]
=============================================================================
