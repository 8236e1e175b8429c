\* A package of the master, one of another client that interferes once, and one
\* incident: a lost message, a time-out, or a worker that cannot be created.  Without
\* symmetry, which TLC does not support for liveness.
SPECIFICATION FairSpec
CONSTANTS
  Packages = {p}
  Foreign = {f}
  Names = {p, f}
  Slots = {s1, s2}
  MaxInFlight = 1
  MaxOthers = 1
  MaxTrouble = 1
INVARIANTS ReportsAsAssumed VerdictIsFresh OneOwnWorker
PROPERTIES BusyEnds Converges
