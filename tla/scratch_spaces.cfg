\* A builder on one host, two shells on another, four operations, and one fault.
SPECIFICATION FairSpec
CONSTANTS
  b = b
  s1 = s1
  s2 = s2
  h1 = h1
  h2 = h2
  Builders = {b}
  Shells = {s1, s2}
  Hosts = {h1, h2}
  HostOf <- MCHostOf
  Snapshots = {1, 2}
  MaxOps = 4
  MaxFaults = 1
CHECK_DEADLOCK FALSE
INVARIANTS WriterIsAlone InspectedStays
PROPERTIES OperationsEnd
