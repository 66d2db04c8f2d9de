CONSTANTS
  FileCount = 2
  MaxAttached = 2
  Cleaners = {c1, c2}
  BatchLimit = 2
  MaxFaults = 2
  NoFile = NoFile
CHECK_DEADLOCK FALSE
SPECIFICATION FairSpec
INVARIANTS
  TypeOK
  AttachedBytesKept
  RemovedLeavesNothing
  NeverBesideItsReplacement
PROPERTIES
  ImplementsPromise
  GivenUpForGood
  EveryUploadEnds
