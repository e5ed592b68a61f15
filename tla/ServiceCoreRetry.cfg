SPECIFICATION Spec
CONSTANTS
  MaxThreads = 2
  MaxRuns = 1
  MaxEvents = 2
INVARIANTS
  HandlersThreadSafe
CHECK_DEADLOCK FALSE
