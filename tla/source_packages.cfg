\* Two packages with up to two versions, three operations of five processes, and one fault.
SPECIFICATION Spec
CONSTANTS
  b = b
  s1 = s1
  s2 = s2
  u = u
  m = m
  Packages = {1, 2}
  Vers <- MCVers
  Builders = {b}
  Shells = {s1, s2}
  Scripts = {u}
  Masters = {m}
  MaxOps = 3
  MaxFaults = 1
SYMMETRY ShellSymmetry
CHECK_DEADLOCK FALSE
INVARIANTS ReadStillHolds SpacesHaveVersions OnlyTheseDeadlock
PROPERTIES HeldStays
