\* Two processes, three operations on two old images and their clones, and one fault.
CONSTANTS
  p1 = p1
  p2 = p2
  Procs <- Twice
  MaxImages = 3
  OldImages <- EmptyAndClone
  Demands <- OldOrNew
  Avoided <- ToolAvoided
  Mixed <- Something
  MaxOps = 3
  MaxFaults = 1
SPECIFICATION FairSpec
CHECK_DEADLOCK FALSE
INVARIANTS BuildEnvironment AvailableUsable OnlyKnownDeadlocks
PROPERTIES OperationsEnd
