SPECIFICATION Spec
CONSTANTS
  MaxStarts = 2
  MaxStops = 1
  MaxToggles = 1
INVARIANTS
  ShownIsOwned
  KillswitchKept
PROPERTIES
  OnlyDeadSessionsFail
  StoppedServiceEnds
CHECK_DEADLOCK FALSE
