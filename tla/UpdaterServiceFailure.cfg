SPECIFICATION Spec
CONSTANTS
  Files <- FourFiles
  Service = "service"
  Hashes <- Blobs
  MaxVersion = 2
  Release <- TwoReleases
  MaxFaults = 1
  MaxInstalls = 0
PROPERTIES
  FailureRollsEverythingBack
CHECK_DEADLOCK FALSE
