SPECIFICATION FairSpec
CONSTANTS
  MaxThreads = 2
  MaxRuns = 2
  MaxEvents = 2
INVARIANTS
  OneCoreReachable
  NoStaleExitCode
PROPERTIES
  RequestsAnswered
  StopCompletes
CHECK_DEADLOCK FALSE
