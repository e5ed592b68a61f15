SPECIFICATION NetSpec
CONSTANTS
  MaxApps = 3
  MaxBoots = 2
  MaxAdapters = 2
  Timeout = 2
  Addresses = {a, b}
  Programs = {p, q}
  KsMaxCalls = 3
  KsMaxKept = 1
INVARIANTS
  RoutesAsAnswered
  FiltersFollowCommits
PROPERTIES
  AdapterReleased
  PrepareAnswered
CHECK_DEADLOCK FALSE
