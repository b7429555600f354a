------------------------------ MODULE LogStore ------------------------------
(***************************************************************************)
(* What a user of the library is promised about the logs of crashes and    *)
(* ANRs, which are kept up to a maximum number of each kind: a log may be  *)
(* dropped only when that many newer ones of its kind are there.           *)
(***************************************************************************)
EXTENDS Naturals, FiniteSets

CONSTANT MaxOf  \* the maximum number of logs, for each kind

VARIABLE store  \* the logs: records of a kind and the time in their name

Newer(logs, log) == {x \in logs : x.kind = log.kind /\ x.id > log.id}

Superseded(logs, log) == Cardinality(Newer(logs, log)) >= MaxOf[log.kind]

InitStore == IsFiniteSet(store)

Add(log) ==
  /\ \A x \in store : x.kind = log.kind => x.id < log.id
  /\ store' = store \cup {log}

Drop(log) ==
  /\ log \in store /\ Superseded(store, log)
  /\ store' = store \ {log}

NextStore == (\E log \in store' : Add(log)) \/ (\E log \in store : Drop(log))

SpecStore == InitStore /\ [][NextStore]_store
=============================================================================
