\* As client_view.cfg.
SPECIFICATION SpecView
CONSTANTS
  a = a
  Packages = {a}
  Nodes = {n1}
  Graphs <- Alone
  Foreign = {}
  BindMayFail = FALSE
  RefreshAfter = 1
  SearchAfter = 1
  Responds = 3
  Expires = 3
  MaxFlight = 0
  MaxTrouble = 1
INVARIANT CanStart
