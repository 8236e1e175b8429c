\* Two consoles of one client, a buffer of nine characters, and one lost message.
SPECIFICATION FairSpec
CONSTANTS
  Consoles = {c1, c2}
  Capacity = 9
  Outputs <- MCOutputs
  MaxMark = 9
  MaxOpens = 2
  MaxTrouble = 1
INVARIANTS BufferHoldsTail ShownInOrder
PROPERTIES CatchesUp
CHECK_DEADLOCK FALSE
