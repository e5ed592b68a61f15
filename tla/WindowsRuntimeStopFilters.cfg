SPECIFICATION Spec
CONSTANTS
  MaxStarts = 1
  MaxCrashes = 0
  Kinds <- ProxyOnly
INVARIANTS
  StopClearsKillswitch
