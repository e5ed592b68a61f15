SPECIFICATION LiveSpec
CONSTANTS
  MaxConnects = 3
  MaxDisconnects = 2

  
  
PROPERTIES
  DisconnectOwnsOutcome
  BusyEnds
CHECK_DEADLOCK FALSE
