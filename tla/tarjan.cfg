\* All graphs of four packages, up to their names.
CONSTANTS
  a = a
  b = b
  c = c
  d = d
  Packages = {a, b, c, d}
  Graphs <- SortedGraphs
SPECIFICATION Spec
PROPERTY FindsComponents
CHECK_DEADLOCK FALSE
