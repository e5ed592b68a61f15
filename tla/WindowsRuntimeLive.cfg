SPECIFICATION FairSpec
CONSTANTS
  MaxStarts = 2
  MaxCrashes = 0
  Kinds <- PlainOnly
PROPERTIES
  ImplementsLifecycle
  DeathsReported
  CallsFinish
