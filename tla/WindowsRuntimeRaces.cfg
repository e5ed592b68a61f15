SPECIFICATION Spec
CONSTANTS
  MaxStarts = 2
  MaxCrashes = 1
  Kinds <- XrayKinds
CONSTRAINTS
  CrashInTun
  OneFailure
INVARIANTS
  
  ExitXorStop
  StateEventFresh
  CleanAtRest
  FiltersOnlyAfterExit
  TunCoreRunsAlone
