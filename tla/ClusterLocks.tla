---------------------------- MODULE ClusterLocks ----------------------------
(***************************************************************************)
(* The locks of the cluster lock manager (TCLM), as tclm.py wraps them.    *)
(* TCLM itself is not part of the repository.  A process may hold a lock   *)
(* in several modes at a time and is never in its own way, which is how    *)
(* the code upgrades (S, then S+, then X) and downgrades.  A process that  *)
(* ends loses its locks.                                                   *)
(***************************************************************************)
EXTENDS Naturals

CONSTANTS Procs, Locks

VARIABLE held       \* [Procs -> SUBSET (Locks \X Modes)]

Modes == {"S", "S+", "X"}

\* An S+ lock lets readers in, but nobody else who means to write.
Compatible == {<<"S", "S">>, <<"S", "S+">>, <<"S+", "S">>}

Holds(p, l, mode) == <<l, mode>> \in held[p]

\* The processes that p has to wait for before it gets lock l in this mode.
InTheWay(p, l, mode) ==
  {q \in Procs \ {p} : \E m \in Modes : Holds(q, l, m) /\ <<mode, m>> \notin Compatible}

CanTake(p, l, mode) == InTheWay(p, l, mode) = {}

\* What is held after p has released the locks in old and got those in new.
Trades(p, old, new) == [held EXCEPT ![p] = (@ \ old) \cup new]

NoLocks == [p \in Procs |-> {}]
=============================================================================
