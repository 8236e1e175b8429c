\* A join and a circular pair with a dependant, two nodes, stage outdating that may raise.
CONSTANTS
  a = a
  b = b
  c = c
  Packages = {a, b, c}
  Nodes = {n1, n2}
  Graphs <- PairAndJoin
  Foreign = {}
  BindMayFail = TRUE
SPECIFICATION FairSpec
INVARIANTS SingleFlight DepsFirst TurnTaken WorkConserving FinishedUpToDate
PROPERTIES BuildCompletes ImplementsOrder
