SPECIFICATION LiveSpec
CONSTANTS
  Files <- FourFiles
  Service = "service"
  Hashes <- Blobs
  MaxVersion = 3
  Release <- ThreeReleases
  MaxFaults = 2
  MaxInstalls = 1
INVARIANTS
  AnnouncedIsTrue
  NoErrorWithoutFault
PROPERTIES
  FailedApplyRestoresFiles
  UpdateEnds
CHECK_DEADLOCK FALSE
